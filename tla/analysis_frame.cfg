SPECIFICATION AnalysisSpec
CONSTANTS
  None = None
  MaxModels = 1
  Requests = {1}
  Outcomes = {"curl_error", "http_error", "api_error", "garbled", "text", "mismatch", "valid"}
  Easy = {h1}
  AddMayFail = FALSE
  Loaded = {"empty"}
INVARIANTS
  FrameOutlivesItsUse
