SPECIFICATION Spec
CONSTANTS
  None = None
  build = build
  log = log
  a = a
  b = b
  kind = kind
  x = x
  y = y
  patch = patch
  empty = empty
  base = base
  next = next
  clean = clean
  dirty = dirty
  Root = {build, log}
  Directory = {build}
  File = {a, b}
  RootOf <- MCRootOf
  Size = 2
  Block = {kind, x, y}
  Content <- MCContent
  Parts = 3
  Value = {patch, empty, base, next, clean, dirty}
  Tracked <- MCTracked
  MaxMoves = 2
INVARIANT SealedAtOneInstant
SYMMETRY MCSymmetry
CHECK_DEADLOCK FALSE
