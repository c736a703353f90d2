SPECIFICATION Spec
CONSTANTS
  None = None
  Requests = {r1, r2, r3, r4}
  Easy = {h1, h2, h3}
  Outcomes = {o1, o2}
  AddMayFail = TRUE
SYMMETRY Symmetry
INVARIANTS
  TypeOK
  NoDanglingContinuation
  WholeResult
  CleanupDetached
  IInv
