SPECIFICATION LiveSpec
CONSTANTS
    n1 = n1
    n2 = n2
    n3 = n3
    n4 = n4
    n5 = n5
    Nobody = Nobody
    NoValue = NoValue
    Server = {n1, n2, n3}
    Key = {k}
    Value = {a}
    Worker = {1}
    Fault = {}
    Unstable = {n3}
    AppendBatchSize = 128
    SnapshotThreshold <- EachCommit
    Ballot <- Handover
    MaxIndex = 3
    MaxCalls = 1
    Reachable = {n2, n3}
PROPERTIES
    CatchUp
    CommitsOwnRows
