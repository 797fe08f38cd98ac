SPECIFICATION Spec
CONSTANTS
    n1 = n1
    n2 = n2
    n3 = n3
    n4 = n4
    n5 = n5
    Nobody = Nobody
    NoValue = NoValue
    Server = {n1, n2, n3, n4, n5}
    Key = {k}
    Value = {a}
    Worker = {1}
    Fault = {"SaveTermVote"}
    Unstable = {n3}
    AppendBatchSize = 128
    SnapshotThreshold <- NoSnapshots
    Ballot <- FiveNodes
    MaxIndex = 1
    MaxCalls = 2
INVARIANTS
    CommittedOnMajority
CONSTRAINT OneBadDisk
