SPECIFICATION Spec
CONSTANTS
  None = None
  Root <- MCRoot
  MaxIters = 2
  Cap = 1
  HeadTokens = 2
  TailTokens = 2
  TriggerTokens = 5
  MaxTotalTokens = 6
  MinForceTokens = 3
  CacheMax = 1
  MinRemember = 2
  Scripts <- MCScripts
  Replies <- MCReplies
  Parsed <- MCParsed
  Passages <- MCPassages
  Outputs <- MCOutputs
  Home <- MCHome
  ImagePin = "valid"
  MaxOutput = 1
  MaxFile = 7
  MaxDir = 8
  MaxRefineIters = 2
  DefaultMaxIters = 1
  MaxNoProgress = 1
  JudgeReplies <- MCJudgeReplies
  Requests <- MCRequests
  Registered = {"llamacpp", "openai", "anthropic", "ollama"}
  DefaultProvider = "llamacpp"
  RagOn = TRUE
  GraphExpand = TRUE
  ServerAgentic = FALSE
  WorkspaceOpen = TRUE
  AllowExec = TRUE
  HasJudge = {TRUE, FALSE}
  Files <- MCFiles
INVARIANTS
  PromptFaithful
  
  
PROPERTIES
  OutsideUntouched
  
CHECK_DEADLOCK FALSE
