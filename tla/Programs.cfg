SPECIFICATION Spec
CONSTANTS
    BUFFER_SIZE = 2
    MaxItems = 4
    NumWorkers = 4
    N_PHILOSOPHERS = 5
    NUM_THREADS = 3
    Rounds = 2
    CounterLimit = 4
    Places = 2
    MaxRecords = 3
    NumReadings = 4
    Client = {c1, c2}
    MAX_CONN = 2
    MaxFields = 4
    Nodes = {1, 2, 3, 4}
    Objs = {1, 2, 3, 4, 5, 6}
    Keys <- ElementIds
    NULL = NULL
    Indexes <- CallerIndexes
    MaxNodes = 4
    Element = {1, 2}
    Index <- ListIndexes
    Id = {1, 2}
    RUN_AVG_LENGTH = 2
    MaxLines = 2
    MaxReadings = 3
INVARIANTS
    ThreadsSynchronise
    RecordsAreAccountedFor
    ListsAnswerAsTold
PROPERTIES
    ConsumersShareTheQueue
    ProgramsEnd
CHECK_DEADLOCK FALSE
