SPECIFICATION HostSpec
CONSTANTS
  MaxTokens = 7
  None = None
  Schemas = {"A", "B"}
INVARIANTS
  HostTypeOK
  OnceInOrder
  ResumedWhenSuspended
  NoOrphanFrame
  ModeFollowsSuccess
PROPERTIES
  AcceptedAsTold
