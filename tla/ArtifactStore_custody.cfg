SPECIFICATION Spec
CONSTANTS
    Artifacts = {a1, a2}
    Contents = {c1, c2}
    Keys = {k1, k2}
    Approvals = {d1, d2}
    Readers = {r1}
    Retention = 1
    MaxTime = 2
    MaxFaults = 2
    Plain = Plain
    None = None
INVARIANTS BytesHeld CustodyAgrees NoPlaintextCustody
PROPERTIES PurgeCompletes
CHECK_DEADLOCK FALSE
