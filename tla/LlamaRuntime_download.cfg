SPECIFICATION Spec
CONSTANTS
  p1 = p1
  p2 = p2
  big = big
  small = small
  c1 = c1
  c2 = c2
  None = None
  MaxBytes = 2147483646
  Procs = {p1, p2}
  Repos = {big, small}
  Commits = {c1, c2}
  Servers = {}
  ServeProcs = {p1}
  NativeCtx = 4096
  PinnedLayers = 1
  AutoPickModel = TRUE
  FirstCommit = c1
  MaxMoves = 1
  Impatient = {p1}
  MaxCrashes = 1
  Ladder <- MCLadder
  Listing <- MCListing
  Ref <- MCRef
  Source <- MCRepo
  LocalSize <- MCLocalSize
  Machine <- MCMachine
  FreeMemory <- MCFreeOrNot
INVARIANTS
  FinalsVerified
PROPERTIES
  VerifiedKept
CHECK_DEADLOCK FALSE
