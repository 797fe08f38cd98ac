SPECIFICATION ClientSpec
CONSTANTS
    n1 = n1
    n2 = n2
    n3 = n3
    n4 = n4
    n5 = n5
    Nobody = Nobody
    NoValue = NoValue
    Server = {n1, n2, n3}
    Key = {k}
    Value = {1, 2}
    Worker = {w, c}
    Fault = {}
    Unstable = {n1}
    AppendBatchSize = 128
    SnapshotThreshold <- OnlyFirst
    Ballot <- Handover
    MaxIndex = 2
    MaxCalls = 1
    Client = {c}
INVARIANTS
    AcknowledgedIsCommitted
    ReadsCurrent
    HopsClimb
CONSTRAINTS ValueIsTerm FirstWritesOnce
