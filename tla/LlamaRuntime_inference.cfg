SPECIFICATION Spec
CONSTANTS
  p1 = p1
  p2 = p2
  big = big
  small = small
  c1 = c1
  c2 = c2
  None = None
  MaxBytes = 2147483646
  Procs = {p1, p2}
  Repos = {}
  Commits = {c1}
  Servers = {1, 2}
  ServeProcs = {p1}
  NativeCtx = 4096
  PinnedLayers = 0
  AutoPickModel = FALSE
  FirstCommit = c1
  MaxMoves = 0
  Impatient = {p1, p2}
  MaxCrashes = 1
  Ladder <- MCNoLadder
  Listing <- MCListing
  Ref <- MCRef
  Source <- MCLocal
  LocalSize <- MCLocalSize
  Machine <- MCMachine
  FreeMemory <- MCFree
INVARIANTS
  MachineNotOvercommitted
  ClosedMeansStopped
  
PROPERTIES
  CloseReturns
CHECK_DEADLOCK FALSE
