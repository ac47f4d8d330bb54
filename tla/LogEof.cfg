\* The comment of main.c:71, refuted: no $ is written when the gateway exits early.
SPECIFICATION Safety
CONSTANTS
    Threads = {t1}
    LineLen = 2
    PipeCap = 3
    MaxMsgs = 1
    MaxFile = 4
    NULL = null
    Dollar = dollar
    Garbage = garbage
    Failures = TRUE
INVARIANT
    FileIsPrefix
