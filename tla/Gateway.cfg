SPECIFICATION Spec
CONSTANTS
    Items = {i1, i2}
    EOS = eos
    MaxReadings = 3
INVARIANTS
    TypeOK
    CsvFollowsFeed
    EndIsComplete
PROPERTY GatewayEnds
CHECK_DEADLOCK FALSE
