SPECIFICATION LiveSpec
CONSTANTS
    n1 = n1
    n2 = n2
    n3 = n3
    n4 = n4
    n5 = n5
    Nobody = Nobody
    NoValue = NoValue
    Server = {n1, n2, n3}
    Key = {k}
    Value = {a}
    Worker = {1, 2}
    Fault = {}
    Unstable = {n2}
    AppendBatchSize = 128
    SnapshotThreshold <- EachCommit
    Ballot <- Reelection
    MaxIndex = 3
    MaxCalls = 2
    Reachable = {n1, n2}
PROPERTIES
    CommitsOwnRows
CONSTRAINT Relapse
