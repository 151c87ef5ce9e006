SPECIFICATION Spec
CONSTANTS
    None = None
    Entities <- MCEntities
    Tokens <- MCTokens
    Sim <- MCSim
    Lex <- MCLex
    Routes <- MCRoutes
    Builtin <- MCBuiltin
    Profiles <- MCProfiles
    Queries = {"q1", "q2"}
    Writes <- MCWrites
    Slots = {s1, s2}
    Ingesters = {"i1"}
    DocNames = {"c1", "c2"}
    Trees <- MCTrees
    Flags <- MCFlags
    Embedders <- MCEmbedders
    IngestBy = {"e2"}
    Declared <- MCDeclared
    Lengths <- MCLengths
    Disks <- MCDisks
    Externals <- MCExternals
    NewIds <- MCNewIds
    MaxStarts = 2
    MaxIngests = 1
    MaxRequests = 2
INVARIANTS
    PrivateMemory
    
    
    
CHECK_DEADLOCK FALSE
SYMMETRY SlotSymmetry
