SPECIFICATION LiveSpec
CONSTANTS
    Thread = {t1}
    Loop = loop
    MsgSize = 2
    highWaterMark_ = 3
    MaxCall = 2
INVARIANTS StreamInOrder SendOrder WritingWhileBuffered
PROPERTIES FlushedBeforeFin ShutdownCompletes PeerGoneCloses
