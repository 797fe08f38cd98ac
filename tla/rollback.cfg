SPECIFICATION Spec
CONSTANTS
    n1 = n1
    n2 = n2
    n3 = n3
    n4 = n4
    n5 = n5
    Nobody = Nobody
    NoValue = NoValue
    Server = {n1, n2, n3}
    Key = {k, l}
    Value = {a}
    Worker = {1, 2}
    Fault = {}
    Unstable = {}
    AppendBatchSize = 128
    SnapshotThreshold <- OnlyFirst
    Ballot <- OneTerm
    MaxIndex = 3
    MaxCalls = 2
INVARIANTS
    DurableStateMachine
SYMMETRY SymmetricKeys
