SPECIFICATION FairSpec
CONSTANTS
  None = None
  Requests = {r1, r2, r3}
  Easy = {h1, h2}
  Outcomes = {o1}
  AddMayFail = FALSE
INVARIANTS
  NoLostRequest
PROPERTIES
  EveryRequestResumed
  JoinReturns
  Implements
