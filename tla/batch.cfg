SPECIFICATION Spec
CONSTANTS
    n1 = n1
    n2 = n2
    n3 = n3
    n4 = n4
    n5 = n5
    Nobody = Nobody
    NoValue = NoValue
    Server = {n1, n2, n3}
    Key = {k}
    Value = {a}
    Worker = {1, 2}
    Fault = {}
    Unstable = {n2}
    AppendBatchSize = 1
    SnapshotThreshold <- NoSnapshots
    Ballot <- Reelection
    MaxIndex = 2
    MaxCalls = 2
INVARIANTS
    CommittedOnMajority
CONSTRAINT Divergence
