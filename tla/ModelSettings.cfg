\* Two requests overlap, of one workspace or of two.
SPECIFICATION Spec
CONSTANTS
  Workspaces = {w1, w2}
  Requests = {q1, q2}
  Offered <- MCOffered
  Models = {"m-1", "m_1"}
  Slug <- MCSlug
  Keys = {"k1", "k2"}
  Urls = {"default", "own"}
  Accepted <- MCAccepted
  Dims <- MCDims
  DefaultUrl = "default"
  DefaultModel = "m-1"
  DefaultSize = 1
  OllamaEnabled = TRUE
  MaxRequests = 4
SYMMETRY Symmetry
INVARIANTS SettingsFit ClientIsCurrent OneClientPerKey OneSpacePerCollection
CHECK_DEADLOCK FALSE
