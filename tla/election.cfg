SPECIFICATION Spec
CONSTANTS
    n1 = n1
    n2 = n2
    n3 = n3
    n4 = n4
    n5 = n5
    Nobody = Nobody
    NoValue = NoValue
    Server = {n1, n2, n3}
    Key = {k}
    Value = {a}
    Worker = {1}
    Fault = {"SaveTermVote", "LastIndexAndTerm"}
    Unstable = {n1, n2, n3}
    AppendBatchSize = 128
    SnapshotThreshold <- NoSnapshots
    Ballot <- Contested
    MaxIndex = 0
    MaxCalls = 1
INVARIANTS
    ElectionSafety
    LeaderHint
    NoForwardingLoop
    VotesBacked
PROPERTIES
    VoteDurable
    ImplementsLeadership
SYMMETRY SymmetricCandidates
