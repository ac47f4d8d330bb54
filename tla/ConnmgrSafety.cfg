\* Three handlers that share the argument slot, and two addresses: the third
\* accept gets the address of a closed socket that others may still hold.
SPECIFICATION Safety
SYMMETRY SensorAndAddrSymmetry
CONSTANTS
    Sensors = {s1, s2, s3}
    Addrs = {a1, a2}
    NULL = null
    MAX_CONN = 3
    IdLen = 1
    ValLen = 1
    TsLen = 1
    MaxRecords = 2
    MaxTotal = 6
    PartialDelivery = FALSE
    Torn = torn
    EOS = eos
CHECK_DEADLOCK FALSE
INVARIANTS
    TypeOK
    EosEndsStream
    TimelyStartsSuffice
    WholeRecordsOnly
    ExclusiveExact
    SocketsStayAlive
