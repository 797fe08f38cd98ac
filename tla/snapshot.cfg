SPECIFICATION Spec
CONSTANTS
    n1 = n1
    n2 = n2
    n3 = n3
    n4 = n4
    n5 = n5
    Nobody = Nobody
    NoValue = NoValue
    Server = {n1, n2, n3}
    Key = {k}
    Value = {a, b}
    Worker = {1}
    Fault = {"InstallSnapshot"}
    Unstable = {n1}
    AppendBatchSize = 128
    SnapshotThreshold <- EachCommit
    Ballot <- Succession
    MaxIndex = 2
    MaxCalls = 1
INVARIANTS
    NoLogGap
    LeaderCompleteness
    DurableStateMachine
PROPERTIES
    ImplementsStateMachine
SYMMETRY SymmetricValues
