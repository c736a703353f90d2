SPECIFICATION FairAnalysisSpec
CONSTANTS
  None = None
  MaxModels = 1
  Requests = {1}
  Outcomes = {"curl_error", "http_error", "api_error", "garbled", "text", "mismatch", "valid"}
  Easy = {h1}
  AddMayFail = TRUE
  Loaded = {"empty"}
PROPERTIES
  MainEnds
