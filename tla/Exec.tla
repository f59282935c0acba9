--------------------------------- MODULE Exec ---------------------------------
(***************************************************************************)
(* src/exec.rs: one command run for evidence.  The child and whatever it   *)
(* leaves behind write to two pipes; a reader thread per pipe keeps a      *)
(* bounded prefix and drains the rest; the caller waits, with a deadline   *)
(* if it asked for one, and then joins the readers.                        *)
(***************************************************************************)
EXTENDS Naturals

CONSTANTS
  OutputCap,  \* OUTPUT_CAP, for both streams together
  PipeCap,    \* what a pipe holds before a writer blocks
  MaxOut      \* bound: what a command has to say, on both streams together

ASSUME ExecAssumption ==
  /\ OutputCap \in Nat /\ MaxOut \in Nat /\ PipeCap \in Nat \ {0}

VARIABLES
  run,     \* where exec::run is
  child,   \* the process spawned
  holds,   \* a process the child left behind still has the pipes open
  hangs,   \* the command never ends by itself
  left,    \* [Stream -> what is still to be written]
  wrote,   \* [Stream -> what has been written]
  pipe,    \* [Stream -> of that, what nobody has read]
  got,     \* [Stream -> what the reader has kept]
  reader   \* [Stream -> what the reader thread is doing]

execVars == <<run, child, holds, hangs, left, wrote, pipe, got, reader>>
ioVars == <<left, wrote, pipe, got, reader>>
waitVars == <<run, child, holds, hangs>>

Stream == {"out", "err"}

Nothing == [s \in Stream |-> 0]

ExecTypes ==
  /\ run \in {"none", "waiting", "polling", "polled", "joining", "captured", "failed"}
  /\ child \in {"none", "running", "exited", "killed"}
  /\ {holds, hangs} \subseteq BOOLEAN
  /\ left \in [Stream -> 0..MaxOut] /\ wrote \in [Stream -> 0..MaxOut]
  /\ pipe \in [Stream -> 0..PipeCap] /\ got \in [Stream -> 0..OutputCap + 1]
  /\ reader \in [Stream -> {"none", "taking", "draining", "done"}]

NoExecution ==
  /\ run = "none" /\ child = "none"
  /\ holds = FALSE /\ hangs = FALSE
  /\ left = Nothing /\ wrote = Nothing /\ pipe = Nothing /\ got = Nothing
  /\ reader = [s \in Stream |-> "none"]

Total(f) == f["out"] + f["err"]

(* The caller has its answer, or is gone: what is left of the execution can *)
(* change nothing it recorded.                                             *)
Forget ==
  /\ run' = "none" /\ child' = "none"
  /\ holds' = FALSE /\ hangs' = FALSE
  /\ left' = Nothing /\ wrote' = Nothing /\ pipe' = Nothing /\ got' = Nothing
  /\ reader' = [s \in Stream |-> "none"]

(* spawn, and the two reader threads *)
Spawn ==
  /\ run = "none"
  /\ run' \in {"waiting", "polling"} /\ child' = "running"
  /\ hangs' \in BOOLEAN
  /\ left' \in {f \in [Stream -> 0..MaxOut] : Total(f) <= MaxOut}
  /\ reader' = [s \in Stream |-> "taking"]
  /\ UNCHANGED <<holds, wrote, pipe, got>>

------------------------------------------------------------------------------
(* The command.  A writer blocks on a full pipe. *)
Open == child = "running" \/ holds

Write(s) ==
  /\ Open /\ left[s] > 0 /\ pipe[s] < PipeCap
  /\ left' = [left EXCEPT ![s] = @ - 1]
  /\ wrote' = [wrote EXCEPT ![s] = @ + 1]
  /\ pipe' = [pipe EXCEPT ![s] = @ + 1]
  /\ UNCHANGED <<waitVars, got, reader>>

LeaveBehind ==
  /\ child = "running" /\ ~holds
  /\ holds' = TRUE
  /\ UNCHANGED <<run, child, hangs, ioVars>>

LastOneOut ==
  /\ holds /\ holds' = FALSE
  /\ UNCHANGED <<run, child, hangs, ioVars>>

Exit ==
  /\ child = "running"
  /\ child' = "exited" /\ hangs' = FALSE
  /\ UNCHANGED <<run, holds, ioVars>>

(* A command that does not hang exits when all it had to say is said. *)
Finish == ~hangs /\ left = Nothing /\ Exit

------------------------------------------------------------------------------
(* spawn_reader.  One byte past the cap is kept, so that a stream that is   *)
(* too long shows; what comes after it is read and thrown away.            *)
KeepUpToCap == OutputCap  \* mutant: truncates exactly at the bound
KeepUpTo == OutputCap + 1

Take(s) ==
  /\ reader[s] = "taking" /\ pipe[s] > 0
  /\ pipe' = [pipe EXCEPT ![s] = @ - 1]
  /\ got' = [got EXCEPT ![s] = @ + 1]
  /\ reader' = [reader EXCEPT ![s] = IF got[s] + 1 = KeepUpTo THEN "draining" ELSE @]
  /\ UNCHANGED <<waitVars, left, wrote>>

Drain(s) ==
  /\ reader[s] = "draining" /\ pipe[s] > 0
  /\ pipe' = [pipe EXCEPT ![s] = @ - 1]
  /\ UNCHANGED <<waitVars, left, wrote, got, reader>>

EndOfFile(s) ==
  /\ reader[s] \in {"taking", "draining"}
  /\ pipe[s] = 0 /\ ~Open
  /\ reader' = [reader EXCEPT ![s] = "done"]
  /\ UNCHANGED <<waitVars, left, wrote, pipe, got>>

------------------------------------------------------------------------------
(* wait, or wait_with_timeout: try_wait, then the deadline, then a nap.     *)
SeeExit ==
  /\ run \in {"waiting", "polling"} /\ child = "exited"
  /\ run' = "joining"
  /\ UNCHANGED <<child, holds, hangs, ioVars>>

SeeRunning ==
  /\ run = "polling" /\ child = "running"
  /\ run' = "polled"
  /\ UNCHANGED <<child, holds, hangs, ioVars>>

(* The deadline has passed or it has not.  kill and wait: a child that has  *)
(* exited since try_wait is past killing, and timed out all the same.      *)
Expire ==
  /\ run = "polled"
  /\ child' = IF child = "running" THEN "killed" ELSE child
  /\ run' = "failed" /\ hangs' = FALSE
  /\ UNCHANGED <<holds, ioVars>>

Nap ==
  /\ run = "polled"
  /\ run' = "polling"
  /\ UNCHANGED <<child, holds, hangs, ioVars>>

Join ==
  /\ run = "joining" /\ \A s \in Stream : reader[s] = "done"
  /\ run' = IF Total(got) > OutputCap THEN "failed" ELSE "captured"
  /\ UNCHANGED <<child, holds, hangs, ioVars>>

------------------------------------------------------------------------------
Command == (\E s \in Stream : Write(s)) \/ LeaveBehind \/ LastOneOut \/ Exit
Reading == \E s \in Stream : Take(s) \/ Drain(s) \/ EndOfFile(s)
Waiting == SeeExit \/ SeeRunning \/ Expire \/ Nap \/ Join

ExecStep == run # "none" /\ (Command \/ Reading \/ Waiting)

(* What Capsule's own threads do, and a command that does not hang. *)
Progress ==
  \/ Reading \/ SeeExit \/ SeeRunning \/ Join
  \/ (\E s \in Stream : Write(s)) \/ Finish
==============================================================================
