\* The comment of connmgr.c:41, refuted.
SPECIFICATION Safety
CONSTANTS
    Sensors = {s1, s2}
    Addrs = {a1, a2}
    NULL = null
    MAX_CONN = 2
    IdLen = 1
    ValLen = 1
    TsLen = 1
    MaxRecords = 1
    MaxTotal = 6
    PartialDelivery = FALSE
    Torn = torn
    EOS = eos
CHECK_DEADLOCK FALSE
INVARIANT
    ThreadPerClient
