SPECIFICATION Spec
CONSTANTS
    Callers = {w1}
    Stoppers = {s1}
    Reviewers = {r1}
    MaxFixRuns = 2
    MaxFaults = 2
    MayExpire = TRUE
    ReviewStatus = {"match", "no_match"}
    None = None
  
PROPERTIES EvidenceOrder
CHECK_DEADLOCK FALSE
