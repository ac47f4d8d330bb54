SPECIFICATION Spec
CONSTANTS
    NULL = null
    EOS = eos
    Torn = torn
    n1 = n1
    o1 = o1
CHECK_DEADLOCK FALSE
INVARIANT
    SomeClaimStands
