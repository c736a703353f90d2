SPECIFICATION HSpec
CONSTANTS
  Threads = {t1, t2, t3}
  Threshold = 2
  ResetTimeout = 1
  MaxNow = 2
  MaxCount = 4
SYMMETRY Symmetry
INVARIANTS
  HistoryTypeOK
  TripsInOutage
  OpenIsDeserved
PROPERTIES
  PauseIsKept
