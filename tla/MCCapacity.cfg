SPECIFICATION Spec
CONSTANTS
  Cap = 2000
  Bare = 800
  Messages = {4, 40}
  Records = {200, 260}
  Results = {362, 364}
  Integrations = {323, 340}
INVARIANT SideEffectsRecordable
CHECK_DEADLOCK FALSE
