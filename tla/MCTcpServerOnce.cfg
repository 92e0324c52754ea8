SPECIFICATION Spec
CONSTANTS
    io1 = io1
    io2 = io2
    Conn = {c1}
    Fd = {f1}
    Base = base
    Pools <- NoneToTwo
    Thread = {t1}
    MaxForceClose = 1
    MaxCalls = 1
    None = none
INVARIANTS DestroyedOnce
CHECK_DEADLOCK FALSE
