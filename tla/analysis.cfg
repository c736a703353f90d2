SPECIFICATION FairAnalysisSpec
CONSTANTS
  None = None
  MaxModels = 3
  Requests = {1, 2, 3}
  Outcomes = {"curl_error", "http_error", "api_error", "garbled", "text", "mismatch", "valid"}
  Easy = {h1, h2}
  AddMayFail = FALSE
  Loaded = {"empty", "usable", "unusable"}
INVARIANTS
  AnalysisTypeOK
  FirstSuccessDecides
  OneAttemptAtATime
  NothingLeftBehind
  ValidatedOnceLoaded
PROPERTIES
  MainEnds
