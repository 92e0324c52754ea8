SPECIFICATION Spec
CONSTANTS
    Thread = {t1}
    Loop = loop
    MsgSize = 1
    highWaterMark_ = 3
    MaxCall = 1
INVARIANTS DestroyedOnce
