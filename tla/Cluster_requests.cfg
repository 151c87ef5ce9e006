SPECIFICATION Spec
CONSTANTS
    None = None
    Class <- MCClass
    Addresses <- MCAddresses
    Requests = {r1, r2}
    Configs <- MCConfigs
    Worlds <- MCWorlds
    MaxRequests = 2
    MaxEvents = 1
INVARIANTS
    PlacementSafe
    
    
SYMMETRY SlotSymmetry
CHECK_DEADLOCK FALSE
