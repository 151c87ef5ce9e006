SPECIFICATION Spec
CONSTANTS
  op = op
  adm = adm
  out = out
  r1 = r1
  r2 = r2
  m1 = m1
  m2 = m2
  a1 = a1
  key = key
  repo = repo
  input = input
  None = None
  Users = {op, adm, out}
  TrustedKey = key
  ApprovalIds = {a1}
  Stops <- MCStops
  MaxTime = 1
  MaxRestarts = 1
  MaxMoves = 1
  Roles <- MCRoles
  ScopeRequest <- MCScope
  ServerRoots <- MCServerRoots
  Manifests <- MCManifests
  Catalogs <- MCCatalogs
  SourceManifests <- MCSourceManifests
  GitTree <- MCGitTree
  BundleOf <- MCBundleOf
  Checkouts <- MCCheckouts
  FirstCheckout <- MCFirst
  CheckoutPath <- MCPath
  TargetRequests <- MCTargetRequests
  JobRequests <- MCJobRequests
  ApprovalRequests <- MCApprovalRequests
  Artifacts <- MCArtifacts
INVARIANTS
  RecordedTargetsCaptured
  
  JobsMatchEvidence
PROPERTIES
  JobsUseTrustedApparatus
  CampaignLives
CHECK_DEADLOCK FALSE
