\* Three threads, lines of two characters, a pipe that is full after one line;
\* the gateway may exit early and the logger may crash.
SPECIFICATION Spec
CONSTANTS
    Threads = {t1, t2, t3}
    LineLen = 2
    PipeCap = 3
    MaxMsgs = 2
    MaxFile = 14
    NULL = null
    Dollar = dollar
    Garbage = garbage
    Failures = TRUE
INVARIANTS
    TypeOK
    LinesNumbered
    MessagesComplete
    FileThenPipe
    LogComplete
PROPERTY
    BothEnd
