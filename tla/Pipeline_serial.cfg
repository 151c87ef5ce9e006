SPECIFICATION Spec
CONSTANTS
    MaxRuns = 6
    Workers = {w1}
    Sigs = {s1, s2}
    MinimumReproductions = 2
    MaxFaults = 1
    MayStop = TRUE
    None = None
INVARIANTS ReproducedBacked GroupsComplete
PROPERTIES EvidenceInOrder
SYMMETRY Symmetry
CHECK_DEADLOCK FALSE
