\* Two handlers; more calls than nodes, so that nodes are freed and reused.
SPECIFICATION Spec
CONSTANTS
    Writers = {w1, w2}
    Items = {a}
    EOS = eos
    Nodes = {n1, n2, n3}
    NULL = null
    MaxCalls = 4
    MaxSpurious = 1
CHECK_DEADLOCK FALSE
INVARIANTS
    TypeOK
    ChainMatchesStream
    NodesHaveOneOwner
    TurnIsHonest
    NoLostWakeup
    StopAtFirstEos
PROPERTIES
    AnalysedStaysAtHead
    FeedSafety
    FeedProgress
    EosStopsReaders
    EveryReadingIsStored
