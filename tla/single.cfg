SPECIFICATION Spec
CONSTANTS
    n1 = n1
    n2 = n2
    n3 = n3
    n4 = n4
    n5 = n5
    Nobody = Nobody
    NoValue = NoValue
    Server = {n1}
    Key = {k}
    Value = {a, b}
    Worker = {1}
    Fault = {"Entry", "ApplySet", "CreateSnapshot", "SnapshotIndexTerm"}
    Unstable = {n1}
    AppendBatchSize = 128
    SnapshotThreshold <- EachTwo
    Ballot <- Alone
    MaxIndex = 4
    MaxCalls = 1
INVARIANTS
    NoLogGap
PROPERTIES
    ImplementsStateMachine
