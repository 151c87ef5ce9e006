SPECIFICATION Spec
CONSTANTS
    MaxJobs = 2
    Workers = {w1, w2}
    Observers = {}
    Cancellers = {x1}
    Campaigns <- CampaignSet
    CampaignOf <- OneCampaign
    CampaignConcurrency = 1
    QueueCap = 1
    MaxRestarts = 0
    ClientsMayLeave = FALSE
    StoreFaults = FALSE
    None = None
PROPERTIES CancelledIsNotExecuted
CHECK_DEADLOCK FALSE
