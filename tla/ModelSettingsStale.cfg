\* The server's default and the same Ollama model picked by the workspace.
SPECIFICATION Spec
CONSTANTS
  Workspaces = {w1}
  Requests = {q1, q2}
  Offered <- MCOllama
  Models = {"m-1", "m_1"}
  Slug <- MCSlug
  Keys = {"k1", "k2"}
  Urls = {"default", "own"}
  Accepted <- MCAccepted
  Dims <- MCDims
  DefaultUrl = "default"
  DefaultModel = "m-1"
  DefaultSize = 1
  OllamaEnabled = TRUE
  MaxRequests = 4
SYMMETRY Symmetry
INVARIANT StaleIsTold
CHECK_DEADLOCK FALSE
