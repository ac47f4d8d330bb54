SPECIFICATION Safety
CONSTANTS
    SensorIds = {15, 21}
    RoomIds = {1}
    Temps <- FewTemps
    Times = {7, 9}
    RUN_AVG_LENGTH = 2
    SET_MIN_TEMP = 3
    SET_MAX_TEMP = 8
    MaxLines = 3
    MaxReadings = 3
INVARIANTS
    TypeOK
    WindowIsRecent
    VerdictMatchesAverage
CHECK_DEADLOCK FALSE
