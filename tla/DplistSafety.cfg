SPECIFICATION Safety
CONSTANTS
    Nodes = {n1, n2, n3, n4}
    Objs = {o1, o2, o3}
    Keys = {k1, k2}
    NULL = NULL
    Indexes <- CallerIndexes
    CarefulCallers = TRUE
SYMMETRY AddressSymmetry
INVARIANTS
    BothWaysContents
    NothingLeaks
    QueriesAgree
PROPERTY ReferencesStay
