SPECIFICATION Spec
CONSTANTS
    MaxJobs = 2
    Workers = {w1, w2}
    Observers = {o1}
    Cancellers = {}
    Campaigns <- CampaignSet
    CampaignOf <- OneCampaign
    CampaignConcurrency = 1
    QueueCap = 1
    MaxRestarts = 2
    ClientsMayLeave = FALSE
    StoreFaults = FALSE
    None = None
INVARIANTS SingleExecution QueuedIsScheduled WaitResultStands CampaignLimit
PROPERTIES EveryJobSettles
CHECK_DEADLOCK FALSE
