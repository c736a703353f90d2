SPECIFICATION Spec
CONSTANTS
  None = None
  Requests = {r1, r2}
  Easy = {h1, h2}
  Outcomes = {o1}
  AddMayFail = FALSE
PROPERTIES
  WakeupEndsIdling
