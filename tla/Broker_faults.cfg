SPECIFICATION Spec
CONSTANTS
    MaxJobs = 1
    Workers = {w1, w2}
    Observers = {o1}
    Cancellers = {x1}
    Campaigns <- CampaignSet
    CampaignOf <- OneCampaign
    CampaignConcurrency = 1
    QueueCap = 1
    MaxRestarts = 1
    ClientsMayLeave = TRUE
    StoreFaults = TRUE
    None = None
INVARIANTS SlotAccounting
 
CHECK_DEADLOCK FALSE
