SPECIFICATION MCSpec
CONSTANTS
    io1 = io1
    io2 = io2
    Conn = {c1, c2}
    Fd = {f1, f2}
    Base = base
    Pools <- NoneToTwo
    Thread = {t1}
    MaxForceClose = 1
    MaxCalls = 1
    None = none
INVARIANTS FreedDisconnected AssertsHold PointersAlive
PROPERTIES ClosedIsFreed DestroyEnds
\* The program ends when the server is gone, or at a failed assert.
CHECK_DEADLOCK FALSE
