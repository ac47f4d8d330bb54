\* One handler, and recv may return part of a field: connmgr.c:94, refuted.
SPECIFICATION Safety
CONSTANTS
    Sensors = {s1}
    Addrs = {a1}
    NULL = null
    MAX_CONN = 1
    IdLen = 1
    ValLen = 2
    TsLen = 2
    MaxRecords = 1
    MaxTotal = 6
    PartialDelivery = TRUE
    Torn = torn
    EOS = eos
CHECK_DEADLOCK FALSE
INVARIANT
    EveryReadingWasSent
