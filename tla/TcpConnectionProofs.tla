------------------------- MODULE TcpConnectionProofs -------------------------
(***************************************************************************)
(* What a connection does with the bytes it is given, for every set of     *)
(* threads, message size, high-water mark and number of calls.             *)
(***************************************************************************)
EXTENDS TcpConnection, TLAPS

Byte == (Thread \cup {Loop}) \X Nat \X Nat

Functor ==
    [op : {"none", "connectEstablished", "shutdownInLoop", "forceCloseInLoop",
           "connectionCallback", "writeComplete", "highWaterMark"}]
    \cup [op : {"sendInLoop"}, from : Thread \cup {Loop}, seq : Nat]

Typed ==
    /\ outputBuffer_ \in Seq(Byte) /\ wire \in Seq(Byte) /\ sent \in Seq(Byte)
    /\ funcs_ \in Seq(Functor) /\ func \in Functor
    /\ calls \in [Thread \cup {Loop} -> Nat]
    /\ closes \in Nat

\* The strengthening of StreamInOrder: bytes are dropped only by a direct write, which
\* is tried when nothing waits, and what made it fail makes every later write fail.
StreamInv ==
    IF lost
    THEN /\ outputBuffer_ = <<>> /\ ~isWriting
         /\ fin \/ peer = "reset"
         /\ IsPrefix(wire, sent)
    ELSE wire \o outputBuffer_ = sent

ConnectionInv == Typed /\ StreamInv /\ WritingWhileBuffered

\* A step is first-order reasoning unless it says otherwise: arithmetic and sequences
\* are left to the SMT solver, by name.
USE Zenon

-----------------------------------------------------------------------------
\* Sequences: the facts the provers are given, each once.
\* A sequence is a function on 1 .. Len.
LEMMA SeqLen ==
    ASSUME NEW S, NEW s \in Seq(S)
    PROVE  Len(s) \in Nat /\ s \in [1 .. Len(s) -> S] /\ DOMAIN s = 1 .. Len(s)
BY SMT

\* Its elements are in the set.
LEMMA SeqElement == ASSUME NEW S, NEW s \in Seq(S), NEW i \in 1 .. Len(s) PROVE s[i] \in S
BY SMT

\* Only the empty sequence has length 0.
LEMMA SeqEmpty ==
    ASSUME NEW S
    PROVE  /\ <<>> \in Seq(S) /\ Len(<<>>) = 0
           /\ \A s \in Seq(S) : s # <<>> => Len(s) \in Nat \ {0}
BY SMT

\* What concatenation gives.
LEMMA SeqConcat ==
    ASSUME NEW S, NEW s \in Seq(S), NEW t \in Seq(S)
    PROVE  /\ s \o t \in Seq(S) /\ Len(s \o t) = Len(s) + Len(t)
           /\ \A i \in 1 .. Len(s) + Len(t) :
                (s \o t)[i] = IF i <= Len(s) THEN s[i] ELSE t[i - Len(s)]
BY SMT

\* The empty sequence is its unit.
LEMMA SeqUnit ==
    ASSUME NEW S, NEW s \in Seq(S)
    PROVE  s \o <<>> = s /\ <<>> \o s = s
BY SMT

\* A concatenation is its first part exactly when the second is empty.
LEMMA SeqSameConcat ==
    ASSUME NEW S, NEW s \in Seq(S), NEW t \in Seq(S)
    PROVE  /\ s \o t = s <=> t = <<>>
           /\ s \o t = <<>> <=> s = <<>> /\ t = <<>>
BY SMT

\* What Head and Tail give.
LEMMA SeqTail ==
    ASSUME NEW S, NEW s \in Seq(S), s # <<>>
    PROVE  /\ Head(s) \in S /\ Tail(s) \in Seq(S) /\ Len(Tail(s)) = Len(s) - 1
           /\ \A i \in 1 .. Len(Tail(s)) : Tail(s)[i] = s[i + 1]
BY SMT

\* What SubSeq gives.
LEMMA SeqSub ==
    ASSUME NEW S, NEW s, NEW m \in Int, NEW n \in Int, \A i \in m .. n : s[i] \in S
    PROVE  /\ SubSeq(s, m, n) \in Seq(S)
           /\ Len(SubSeq(s, m, n)) = IF m <= n THEN n - m + 1 ELSE 0
           /\ \A i \in 1 .. n - m + 1 : SubSeq(s, m, n)[i] = s[m + i - 1]
BY SMT

\* Sequences that agree everywhere are equal.
LEMMA SeqSame ==
    ASSUME NEW S, NEW s \in Seq(S), NEW t \in Seq(S),
           Len(s) = Len(t), \A i \in 1 .. Len(s) : s[i] = t[i]
    PROVE  s = t
BY SMT

\* A sequence cut in two is its two parts.
LEMMA SeqCut ==
    ASSUME NEW S, NEW s \in Seq(S), NEW n \in 0 .. Len(s)
    PROVE  SubSeq(s, 1, n) \o SubSeq(s, n + 1, Len(s)) = s
<1> DEFINE a == SubSeq(s, 1, n)
           b == SubSeq(s, n + 1, Len(s))
<1>1. a \in Seq(S) /\ b \in Seq(S) /\ Len(a) = n /\ Len(b) = Len(s) - n
  BY SMT
<1>2. a \o b \in Seq(S) /\ Len(a \o b) = Len(s)
  <2> HIDE DEF a, b
  <2> QED BY <1>1, SMT
<1>3. ASSUME NEW i \in 1 .. Len(s) PROVE (a \o b)[i] = s[i]
  <2>1. CASE i <= n
    <3>1. a[i] = s[i]
      BY <2>1, SMT
    <3> HIDE DEF a, b
    <3> QED BY <1>1, <2>1, <3>1, SMT
  <2>2. CASE i > n
    <3>1. b[i - n] = s[i]
      BY <2>2, SMT
    <3> HIDE DEF a, b
    <3> QED BY <1>1, <2>2, <3>1, SMT
  <2>3. i <= n \/ i > n
    BY SMT
  <2> QED BY <2>1, <2>2, <2>3
<1> HIDE DEF a, b
<1>4. a \o b = s
  BY <1>2, <1>3, SeqSame
<1> QED BY <1>4 DEF a, b

\* SubSeq from beyond its end is empty.
LEMMA SeqSubEmpty ==
    ASSUME NEW s, NEW m \in Int, NEW n \in Int, n < m
    PROVE  SubSeq(s, m, n) = <<>>
BY SMT

\* A message is a sequence of MsgSize bytes.
LEMMA BytesTyped ==
    ASSUME NEW t \in Thread \cup {Loop}, NEW k \in Nat
    PROVE  Bytes(t, k) \in Seq(Byte) /\ Len(Bytes(t, k)) = MsgSize
<1>1. \A i \in 1 .. MsgSize : <<t, k, i>> \in Byte
  BY BoundAssumption, SMT DEF Byte
<1>2. Bytes(t, k) \in [1 .. MsgSize -> Byte]
  BY <1>1 DEF Bytes
<1> QED BY <1>2, BoundAssumption, SMT

\* A write that takes the first n bytes leaves the others.
LEMMA Cut ==
    ASSUME NEW s \in Seq(Byte), NEW n \in 0 .. Len(s)
    PROVE  /\ SubSeq(s, 1, n) \in Seq(Byte)
           /\ SubSeq(s, n + 1, Len(s)) \in Seq(Byte)
           /\ SubSeq(s, 1, n) \o SubSeq(s, n + 1, Len(s)) = s
           /\ SubSeq(s, n + 1, Len(s)) = <<>> <=> n = Len(s)
<1>1. SubSeq(s, 1, n) \in Seq(Byte) /\ SubSeq(s, n + 1, Len(s)) \in Seq(Byte)
  BY SeqLen, SeqSub, SMT
<1>2. SubSeq(s, 1, n) \o SubSeq(s, n + 1, Len(s)) = s
  BY SeqCut
<1>3. Len(SubSeq(s, n + 1, Len(s))) = IF n + 1 <= Len(s) THEN Len(s) - n ELSE 0
  BY SeqLen, SeqSub, SMT
<1>4. SubSeq(s, n + 1, Len(s)) = <<>> <=> n = Len(s)
  <2>1. Len(s) \in Nat
    BY SeqLen
  <2>2. SubSeq(s, n + 1, Len(s)) = <<>> <=> Len(SubSeq(s, n + 1, Len(s))) = 0
    BY <1>1, SeqEmpty
  <2> QED BY <2>1, <2>2, <1>3, SMT
<1> QED BY <1>1, <1>2, <1>4

\* Concatenation of byte sequences is associative.
LEMMA BytesConcat ==
    \A a, b, c \in Seq(Byte) : (a \o b) \o c = a \o (b \o c)
<1> TAKE a, b, c \in Seq(Byte)
<1> QED BY SMT

\* A prefix stays a prefix when the longer sequence grows.
LEMMA PrefixGrows ==
    ASSUME NEW s \in Seq(Byte), NEW t \in Seq(Byte), NEW u \in Seq(Byte), IsPrefix(s, t)
    PROVE  IsPrefix(s, t \o u)
<1>1. CASE Len(s) = 0
  BY <1>1, SeqConcat, SeqLen, SeqSubEmpty, SMT DEF IsPrefix
<1>2. CASE Len(s) > 0
  <2>1. Len(s) \in 1 .. Len(t) /\ 1 \in 1 .. Len(t)
    BY <1>2, SeqLen, SMT DEF IsPrefix
  <2>2. SubSeq(t \o u, 1, Len(s)) = SubSeq(t, 1, Len(s))
    BY <2>1, SMT
  <2> QED BY <2>1, <2>2, SeqConcat, SeqLen, SMT DEF IsPrefix
<1> QED BY <1>1, <1>2, SeqLen, SMT
-----------------------------------------------------------------------------
\* What sendInLoop keeps, it keeps behind what is waiting, and it asks for POLLOUT.
LEMMA KeepStep ==
    ASSUME Typed, NEW rest \in Seq(Byte), Keep(rest)
    PROVE  /\ outputBuffer_' = outputBuffer_ \o rest /\ outputBuffer_' \in Seq(Byte)
           /\ funcs_' \in Seq(Functor)
           /\ isWriting'
<1>1. [op |-> "highWaterMark"] \in Functor
  BY DEF Functor
<1>2. outputBuffer_' = outputBuffer_ \o rest
  BY DEF Keep
<1>3. outputBuffer_' \in Seq(Byte)
  BY <1>2, SeqConcat, SMT DEF Typed
<1>4. funcs_' \in Seq(Functor)
  BY <1>1, SMT DEF Keep, queueInLoop, Typed
<1>5. isWriting'
  BY DEF Keep, isWriting, enable, chan
<1> QED BY <1>2, <1>3, <1>4, <1>5

\* sendInLoop, called in the loop or as a functor, keeps the invariant.
LEMMA SendStep ==
    ASSUME ConnectionInv, NEW t \in Thread \cup {Loop}, NEW k \in Nat, sendInLoop(t, k),
           UNCHANGED <<fin, peer, closes>>
    PROVE  /\ outputBuffer_' \in Seq(Byte) /\ wire' \in Seq(Byte) /\ sent' \in Seq(Byte)
           /\ funcs_' \in Seq(Functor)
           /\ StreamInv' /\ WritingWhileBuffered'
<1> DEFINE data == Bytes(t, k)
<1>1. data \in Seq(Byte) /\ Len(data) = MsgSize
  BY BytesTyped
<1> HIDE DEF data
<1>2. CASE UNCHANGED <<chan, stream, funcs_>>
  BY <1>2, SMT DEF ConnectionInv, Typed, StreamInv, WritingWhileBuffered, isWriting, chan, stream
<1>3. CASE ~ UNCHANGED <<chan, stream, funcs_>>
  <2> DEFINE direct == ~isWriting /\ outputBuffer_ = <<>>
  <2>1. PICK n \in IF direct THEN Written(MsgSize) ELSE {0} :
          /\ sent' = sent \o data
          /\ wire' = wire \o SubSeq(data, 1, n)
          /\ lost' = (lost \/ n = -1)
          /\ \/ n = -1 /\ UNCHANGED <<chan, outputBuffer_, funcs_>>
             \/ /\ n = MsgSize
                /\ queueInLoop(<<[op |-> "writeComplete"]>>)
                /\ UNCHANGED <<chan, outputBuffer_>>
             \/ n \in 0 .. MsgSize - 1 /\ Keep(SubSeq(data, n + 1, MsgSize))
    BY <1>3 DEF sendInLoop, data
  <2>2. n \in -1 .. MsgSize /\ (n = -1 => fin \/ peer = "reset")
    BY <2>1, BoundAssumption, SMT DEF Written
  <2>3. lost => n = -1
    BY <2>1 DEF Written, ConnectionInv, StreamInv
  <2>4. n \in {-1, MsgSize} => direct
    BY <2>1, BoundAssumption, SMT
  <2>5. sent' \in Seq(Byte)
    BY <2>1, <1>1, SeqConcat DEF ConnectionInv, Typed
  <2>6. CASE n = -1
    <3>1. wire' = wire /\ lost' /\ UNCHANGED <<events_, outputBuffer_, funcs_>>
      <4>1. SubSeq(data, 1, -1) = <<>>
        BY SeqSubEmpty, SMT
      <4>2. wire' = wire
        BY <4>1, <2>1, <2>6, SeqUnit, SMT DEF ConnectionInv, Typed
      <4>3. lost'
        BY <2>1, <2>6
      <4>4. n # MsgSize /\ n \notin 0 .. MsgSize - 1
        BY <2>6, BoundAssumption, SMT
      <4> QED BY <2>1, <4>2, <4>3, <4>4, SMT DEF chan
    <3>2. IsPrefix(wire, sent)
      <4>1. CASE lost
        BY <4>1 DEF ConnectionInv, StreamInv
      <4>2. CASE ~lost
        <5>1. wire \o outputBuffer_ = sent /\ outputBuffer_ = <<>>
          BY <4>2, <2>4, <2>6 DEF ConnectionInv, StreamInv
        <5>2. wire = sent
          BY <5>1, SeqUnit, SMT DEF ConnectionInv, Typed
        <5> QED BY <5>2, SeqLen, SMT DEF IsPrefix, ConnectionInv, Typed
      <4> QED BY <4>1, <4>2
    <3>3. IsPrefix(wire', sent')
      BY <3>1, <3>2, <2>1, <1>1, PrefixGrows DEF ConnectionInv, Typed
    <3>4. StreamInv'
      BY <3>1, <3>3, <2>2, <2>4, <2>6 DEF StreamInv, isWriting
    <3> QED BY <3>1, <3>4, <2>5
        DEF ConnectionInv, Typed, WritingWhileBuffered, isWriting
  <2>7. CASE n \in 0 .. MsgSize
    <3> DEFINE rest == SubSeq(data, n + 1, MsgSize)
               head == SubSeq(data, 1, n)
    <3>1. head \in Seq(Byte) /\ rest \in Seq(Byte) /\ head \o rest = data
          /\ (rest = <<>> <=> n = MsgSize)
      BY <2>7, <1>1, Cut
    <3> HIDE DEF rest, head
    <3>2. ~lost' /\ ~lost /\ wire \o outputBuffer_ = sent
      <4>1. n # -1
        BY <2>7, BoundAssumption, SMT
      <4>2. ~lost /\ ~lost'
        BY <4>1, <2>1, <2>3
      <4> QED BY <4>2 DEF ConnectionInv, StreamInv
    <3>3. wire' = wire \o head /\ wire' \in Seq(Byte)
      BY <2>1, <3>1, SeqConcat DEF head, ConnectionInv, Typed
    <3>4. outputBuffer_ \in Seq(Byte) /\ wire \in Seq(Byte)
      BY DEF ConnectionInv, Typed
    <3>5. CASE n = MsgSize
      <4>1. rest = <<>> /\ outputBuffer_ = <<>> /\ UNCHANGED <<events_, outputBuffer_>>
        BY <3>5, <3>1, <2>4, <2>1, BoundAssumption, SMT DEF Keep, chan
      <4>2. wire' \o outputBuffer_' = sent'
        BY <4>1, <3>1, <3>2, <3>3, <3>4, <2>1, SeqUnit
      <4>3. funcs_' \in Seq(Functor)
        <5>1. [op |-> "writeComplete"] \in Functor
          BY DEF Functor
        <5>2. funcs_' = funcs_ \o <<[op |-> "writeComplete"]>>
          BY <3>5, <2>1, BoundAssumption, SMT DEF queueInLoop
        <5> QED BY <5>1, <5>2, SMT DEF ConnectionInv, Typed
      <4> QED BY <4>1, <4>2, <4>3, <3>2, <3>3, <3>4, <2>5
          DEF StreamInv, WritingWhileBuffered, ConnectionInv, isWriting
    <3>6. CASE n \in 0 .. MsgSize - 1
      <4>1. Keep(rest)
        BY <3>6, <2>1, BoundAssumption, SMT DEF rest
      <4>2. /\ outputBuffer_' = outputBuffer_ \o rest /\ outputBuffer_' \in Seq(Byte)
            /\ funcs_' \in Seq(Functor) /\ isWriting'
        BY <4>1, <3>1, KeepStep DEF ConnectionInv
      <4>3. rest # <<>> /\ outputBuffer_' # <<>>
        BY <4>2, <3>1, <3>4, <3>6, BoundAssumption, SeqSameConcat, SMT
      <4>4. wire' \o outputBuffer_' = sent'
        <5>1. CASE direct
          <6>1. outputBuffer_' = rest /\ wire = sent
            BY <5>1, <4>2, <3>1, <3>2, <3>4, SeqUnit
          <6>2. wire' \o rest = wire \o data
            <7>1. (wire \o head) \o rest = wire \o (head \o rest)
              BY <3>1, <3>4, BytesConcat
            <7> QED BY <7>1, <3>1, <3>3
          <6> QED BY <6>1, <6>2, <2>1
        <5>2. CASE ~direct
          <6>1. n = 0
            BY <5>2, <2>1
          <6>2. head = <<>>
            BY <6>1, SeqSubEmpty, SMT DEF head
          <6>3. rest = data /\ wire' = wire
            BY <6>2, <3>1, <3>3, <3>4, <1>1, SeqUnit
          <6>4. (wire \o outputBuffer_) \o data = wire \o (outputBuffer_ \o data)
            BY <1>1, <3>4, BytesConcat
          <6> QED BY <6>3, <6>4, <4>2, <3>2, <2>1
        <5> QED BY <5>1, <5>2
      <4> QED BY <4>2, <4>3, <4>4, <3>2, <3>3, <2>5 DEF StreamInv, WritingWhileBuffered
    <3> QED BY <2>7, <3>5, <3>6, BoundAssumption, SMT
  <2> QED BY <2>2, <2>6, <2>7, BoundAssumption, SMT
<1> QED BY <1>2, <1>3, SMT

\* handleWrite moves bytes from the buffer to the kernel and stops asking for POLLOUT
\* with the last one.
LEMMA WriteStep ==
    ASSUME ConnectionInv, handleWrite
    PROVE  ConnectionInv'
<1> USE DEF ConnectionInv
<1>1. UNCHANGED <<func, calls, peer, closes>>
  BY DEF handleWrite
<1>2. CASE UNCHANGED <<chan, stream, funcs_, fin>>
  BY <1>1, <1>2 DEF Typed, StreamInv, WritingWhileBuffered, isWriting, chan, stream
<1>3. CASE ~ UNCHANGED <<chan, stream, funcs_, fin>>
  <2> DEFINE len == Len(outputBuffer_)
  <2>1. isWriting /\ UNCHANGED <<sent, lost>>
    BY <1>3 DEF handleWrite
  <2>2. PICK n \in Written(len) :
          ~(n <= 0) /\ Flushed(n, SubSeq(outputBuffer_, n + 1, len))
    BY <1>3, <2>1 DEF handleWrite, stream
  <2>3. ~lost /\ wire \o outputBuffer_ = sent
    BY <2>1 DEF StreamInv
  <2>4. n \in 1 .. len
    <3>1. len \in Nat
      BY SeqLen DEF Typed
    <3> QED BY <2>2, <3>1, SMT DEF Written
  <2> DEFINE rest == SubSeq(outputBuffer_, n + 1, len)
             head == SubSeq(outputBuffer_, 1, n)
  <2>5. head \in Seq(Byte) /\ rest \in Seq(Byte) /\ head \o rest = outputBuffer_
    BY <2>4, Cut, SMT DEF Typed
  <2>6. outputBuffer_' = rest /\ wire' = wire \o head
    BY <2>2 DEF Flushed
  <2> HIDE DEF rest, head
  <2>7. wire' \in Seq(Byte) /\ outputBuffer_' \in Seq(Byte) /\ sent' \in Seq(Byte)
    BY <2>1, <2>5, <2>6, SeqConcat DEF Typed
  <2>8. wire' \o outputBuffer_' = sent'
    <3>1. (wire \o head) \o rest = wire \o (head \o rest)
      <4>1. wire \in Seq(Byte)
        BY DEF Typed
      <4> QED BY <2>5, <4>1, BytesConcat
    <3> QED BY <3>1, <2>1, <2>3, <2>5, <2>6
  <2>9. funcs_' \in Seq(Functor)
    <3>1. [op |-> "writeComplete"] \in Functor
      BY DEF Functor
    <3>2. funcs_' \in {funcs_, funcs_ \o <<[op |-> "writeComplete"]>>}
      BY <2>2 DEF Flushed, queueInLoop
    <3>3. funcs_ \in Seq(Functor)
      BY DEF Typed
    <3>4. funcs_ \o <<[op |-> "writeComplete"]>> \in Seq(Functor)
      BY <3>1, <3>3, SMT
    <3> QED BY <3>2, <3>3, <3>4
  <2>10. isWriting' <=> outputBuffer_' # <<>>
    BY <2>1, <2>2, <2>6 DEF Flushed, disable, isWriting, chan, rest
  <2>11. Typed'
    BY <1>1, <2>7, <2>9 DEF Typed
  <2>12. StreamInv'
    BY <2>1, <2>3, <2>8 DEF StreamInv
  <2> QED BY <2>10, <2>11, <2>12 DEF WritingWhileBuffered
<1> QED BY <1>2, <1>3

\* Closing drops no byte of the stream and ends the duty to write.
LEMMA CloseStep ==
    ASSUME ConnectionInv, handleClose, UNCHANGED <<stream, funcs_, calls, peer, fin>>,
           func' \in Functor
    PROVE  ConnectionInv'
<1>1. closes' = closes + 1 /\ ~isWriting'
  BY DEF handleClose, isWriting
<1>2. closes' \in Nat /\ closes' # 0
  BY <1>1, SMT DEF ConnectionInv, Typed
<1> QED BY <1>1, <1>2 DEF ConnectionInv, Typed, StreamInv, WritingWhileBuffered, stream

\* A step that touches neither the stream nor the interest in POLLOUT keeps the
\* invariant; the write side stays shut down and a reset peer stays reset.
LEMMA QuietStep ==
    ASSUME ConnectionInv, UNCHANGED <<stream, closes>>, isWriting' = isWriting,
           fin => fin', peer = "reset" => peer' = "reset",
           funcs_' \in Seq(Functor), func' \in Functor,
           calls' \in [Thread \cup {Loop} -> Nat]
    PROVE  ConnectionInv'
  BY DEF ConnectionInv, Typed, StreamInv, WritingWhileBuffered, stream

-----------------------------------------------------------------------------
\* A new connection has no bytes and does not ask for POLLOUT.
LEMMA ConnectionInit == Init => ConnectionInv
<1> SUFFICES ASSUME Init PROVE ConnectionInv
  OBVIOUS
<1>1. [op |-> "connectEstablished"] \in Functor /\ [op |-> "none"] \in Functor
  BY DEF Functor
<1>2. Typed
  BY <1>1, SMT DEF Init, Typed
<1>3. <<>> \o <<>> = <<>>
  BY SMT
<1> QED BY <1>2, <1>3 DEF Init, ConnectionInv, StreamInv, WritingWhileBuffered, isWriting

\* The steps of the calls of another thread only change state_ and the functor queue.
LEMMA CallKeeps ==
    ASSUME ConnectionInv, NEW t \in Thread, send(t) \/ shutdown(t) \/ forceClose(t)
    PROVE  ConnectionInv'
<1>1. UNCHANGED <<chan, stream, func, peer, fin, closes>>
  BY DEF send, shutdown, forceClose, Call, SetDisconnecting, HandOver, CallStep
<1>2. calls' \in [Thread \cup {Loop} -> Nat]
  <2>1. calls' = calls \/ calls' = [calls EXCEPT ![t] = @ + 1]
    BY DEF send, shutdown, forceClose, Call, SetDisconnecting, HandOver
  <2> QED BY <2>1, SMT DEF ConnectionInv, Typed
<1>3. funcs_' \in Seq(Functor)
  <2>1. /\ [op |-> "sendInLoop", from |-> t, seq |-> calls[t]] \in Functor
        /\ [op |-> "shutdownInLoop"] \in Functor /\ [op |-> "forceCloseInLoop"] \in Functor
    BY DEF Functor, ConnectionInv, Typed
  <2>2. funcs_' = funcs_ \/ \E f \in Functor : funcs_' = funcs_ \o <<f>>
    BY <2>1 DEF send, shutdown, forceClose, Call, SetDisconnecting, HandOver, queueInLoop
  <2>3. ASSUME NEW f \in Functor PROVE funcs_ \o <<f>> \in Seq(Functor)
    BY SMT DEF ConnectionInv, Typed
  <2> QED BY <2>2, <2>3 DEF ConnectionInv, Typed
<1>4. isWriting' = isWriting /\ (fin => fin') /\ (peer = "reset" => peer' = "reset")
  BY <1>1 DEF isWriting, chan
<1>5. func' \in Functor
  BY <1>1 DEF ConnectionInv, Typed
<1> QED BY <1>1, <1>2, <1>3, <1>4, <1>5, QuietStep

\* The calls made in the user's callbacks keep the invariant.
LEMMA LoopCallKeeps ==
    ASSUME ConnectionInv, loopSend \/ loopShutdown \/ loopForceClose
    PROVE  ConnectionInv'
<1>1. UNCHANGED <<func, peer, closes>>
  BY DEF loopSend, loopShutdown, loopForceClose, LoopCall
<1>2. calls' \in [Thread \cup {Loop} -> Nat] /\ calls[Loop] + 1 \in Nat
  BY SMT DEF loopSend, loopShutdown, loopForceClose, LoopCall, ConnectionInv, Typed
<1>3. func' \in Functor
  BY <1>1 DEF ConnectionInv, Typed
<1>4. CASE loopSend
  <2>1. sendInLoop(Loop, calls[Loop] + 1) /\ UNCHANGED fin
    BY <1>4 DEF loopSend
  <2>2. /\ outputBuffer_' \in Seq(Byte) /\ wire' \in Seq(Byte) /\ sent' \in Seq(Byte)
        /\ funcs_' \in Seq(Functor) /\ StreamInv' /\ WritingWhileBuffered'
    BY <1>1, <1>2, <2>1, SendStep
  <2> QED BY <1>1, <1>2, <1>3, <2>2 DEF ConnectionInv, Typed
<1>5. CASE loopShutdown
  <2>1. UNCHANGED <<chan, stream, funcs_>> /\ (fin => fin')
    BY <1>5 DEF loopShutdown, shutdownInLoop
  <2>2. isWriting' = isWriting
    BY <2>1 DEF isWriting, chan
  <2>3. funcs_' \in Seq(Functor)
    BY <2>1 DEF ConnectionInv, Typed
  <2> QED BY <1>1, <1>2, <1>3, <2>1, <2>2, <2>3, QuietStep
<1>6. CASE loopForceClose
  <2>1. UNCHANGED <<chan, stream, fin>>
    BY <1>6 DEF loopForceClose
  <2>2. isWriting' = isWriting
    BY <2>1 DEF isWriting, chan
  <2>3. funcs_' \in Seq(Functor)
    <3>1. [op |-> "forceCloseInLoop"] \in Functor
      BY DEF Functor
    <3> QED BY <1>6, <3>1, SMT DEF loopForceClose, queueInLoop, ConnectionInv, Typed
  <2> QED BY <1>1, <1>2, <1>3, <2>1, <2>2, <2>3, QuietStep
<1> QED BY <1>4, <1>5, <1>6

\* The functors that concern the connection keep the invariant.
LEMMA FunctorKeeps ==
    ASSUME ConnectionInv, Functors
    PROVE  ConnectionInv'
<1>1. [op |-> "none"] \in Functor
  BY DEF Functor
<1>2. CASE takeFunctor
  <2>1. funcs_' \in Seq(Functor) /\ func' \in Functor
    <3>1. CASE funcs_ = <<>>
      BY <1>2, <3>1 DEF takeFunctor, ConnectionInv, Typed
    <3>2. CASE funcs_ # <<>>
      <4>1. Head(funcs_) \in Functor /\ Tail(funcs_) \in Seq(Functor)
        BY <3>2, SeqTail DEF ConnectionInv, Typed
      <4> QED BY <1>2, <3>2, <4>1 DEF takeFunctor
    <3> QED BY <3>1, <3>2
  <2>2. UNCHANGED <<chan, stream, closes, fin, peer, calls>>
    BY <1>2 DEF takeFunctor
  <2> QED BY <2>1, <2>2, QuietStep DEF ConnectionInv, Typed, isWriting, chan
<1>3. CASE connectEstablished
  <2>1. /\ UNCHANGED <<stream, funcs_, fin, closes, peer, calls>>
        /\ func' = [op |-> "connectionCallback"] /\ func' \in Functor
    BY <1>3 DEF connectEstablished, Functor
  <2>2. isWriting' = isWriting
    BY <1>3, SMT DEF connectEstablished, enable, isWriting
  <2> QED BY <1>1, <2>1, <2>2, QuietStep DEF ConnectionInv, Typed
<1>4. CASE runSendInLoop
  <2>1. /\ sendInLoop(func.from, func.seq) /\ func.op = "sendInLoop"
        /\ UNCHANGED <<fin, closes, peer, calls>> /\ func' = [op |-> "none"]
    BY <1>4 DEF runSendInLoop, Run
  <2>2. func.from \in Thread \cup {Loop} /\ func.seq \in Nat
    BY <2>1 DEF ConnectionInv, Typed, Functor
  <2>3. /\ outputBuffer_' \in Seq(Byte) /\ wire' \in Seq(Byte) /\ sent' \in Seq(Byte)
        /\ funcs_' \in Seq(Functor) /\ StreamInv' /\ WritingWhileBuffered'
    BY <2>1, <2>2, SendStep
  <2> QED BY <1>1, <2>1, <2>3 DEF ConnectionInv, Typed
<1>5. CASE runShutdownInLoop
  <2>1. /\ UNCHANGED <<chan, stream, funcs_, closes, peer, calls>>
        /\ func' = [op |-> "none"] /\ (fin => fin')
    BY <1>5 DEF runShutdownInLoop, Run, shutdownInLoop
  <2> QED BY <1>1, <2>1, QuietStep DEF ConnectionInv, Typed, isWriting, chan
<1>6. CASE forceCloseInLoop
  <2>1. UNCHANGED <<stream, funcs_, fin, calls, peer>> /\ func' = [op |-> "none"]
    BY <1>6 DEF forceCloseInLoop, Run
  <2>2. CASE handleClose
    BY <1>1, <2>1, <2>2, CloseStep
  <2>3. CASE UNCHANGED <<state_, chan, closes>>
    BY <1>1, <2>1, <2>3, QuietStep DEF ConnectionInv, Typed, isWriting, chan
  <2> QED BY <1>6, <2>2, <2>3 DEF forceCloseInLoop
<1>7. CASE userCallback
  <2>1. UNCHANGED <<chan, stream, funcs_, fin, closes, peer, calls>> /\ func' = [op |-> "none"]
    BY <1>7 DEF userCallback, Run
  <2> QED BY <1>1, <2>1, QuietStep DEF ConnectionInv, Typed, isWriting, chan
<1> QED BY <1>2, <1>3, <1>4, <1>5, <1>6, <1>7 DEF Functors

\* Every step of the connection, its callers, the kernel and the peer keeps it.
LEMMA ConnectionNext == ConnectionInv /\ [Next]_vars => ConnectionInv'
<1> SUFFICES ASSUME ConnectionInv, [Next]_vars
             PROVE  ConnectionInv'
  OBVIOUS
<1> DEFINE quiet == UNCHANGED <<chan, stream, funcs_, func, calls, fin, closes>>
<1>1. ASSUME quiet, peer = "reset" => peer' = "reset" PROVE ConnectionInv'
  BY <1>1, QuietStep DEF ConnectionInv, Typed, isWriting, chan
<1>2. CASE (\E R \in SUBSET {"hup", "in", "out"} : poll(R)) \/ messageDone
  BY <1>1, <1>2 DEF poll, messageDone
<1>3. CASE handleReadData \/ handleReadError \/ eventsDone
  BY <1>1, <1>3 DEF handleReadData, handleReadError, eventsDone
<1>4. CASE handleHup \/ handleReadEof
  <2>1. UNCHANGED <<stream, funcs_, func, calls, peer, fin>>
    BY <1>4, SMT DEF handleHup, handleReadEof
  <2>2. CASE handleClose
    BY <2>1, <2>2, CloseStep DEF ConnectionInv, Typed
  <2>3. CASE UNCHANGED <<state_, chan, closes>>
    BY <1>1, <2>1, <2>3
  <2> QED BY <1>4, <2>2, <2>3 DEF handleHup, handleReadEof
<1>5. CASE handleWrite
  BY <1>5, WriteStep
<1>6. CASE loopSend \/ loopShutdown \/ loopForceClose
  BY <1>6, LoopCallKeeps
<1>7. CASE Functors
  BY <1>7, FunctorKeeps
<1>8. CASE \E t \in Thread : send(t) \/ shutdown(t) \/ forceClose(t)
  BY <1>8, CallKeeps
<1>9. CASE peerGoes
  BY <1>1, <1>9 DEF peerGoes
<1>10. CASE UNCHANGED vars
  BY <1>1, <1>10 DEF vars
<1> QED BY <1>2, <1>3, <1>4, <1>5, <1>6, <1>7, <1>8, <1>9, <1>10 DEF Next, Events

\* The invariant holds in every state of every behaviour.
THEOREM ConnectionInvariance == Spec => []ConnectionInv
  BY ConnectionInit, ConnectionNext, PTL DEF Spec

-----------------------------------------------------------------------------
(***************************************************************************)
(* No byte given to sendInLoop is lost, repeated or overtaken between the  *)
(* direct write, outputBuffer_ and the writes of handleWrite, until a      *)
(* write fails for good (TcpConnection.cpp, sendInLoop and handleWrite).   *)
(***************************************************************************)
THEOREM BytesInOrder == Spec => []StreamInOrder
<1>1. ConnectionInv => StreamInOrder
  <2> SUFFICES ASSUME ConnectionInv PROVE StreamInOrder
    OBVIOUS
  <2>1. CASE lost
    <3>1. wire \o outputBuffer_ = wire /\ IsPrefix(wire, sent)
      BY <2>1, SeqUnit DEF ConnectionInv, Typed, StreamInv
    <3> QED BY <2>1, <3>1 DEF StreamInOrder
  <2>2. CASE ~lost
    <3>1. wire \o outputBuffer_ = sent
      BY <2>2 DEF ConnectionInv, StreamInv
    <3>2. IsPrefix(sent, sent)
      BY SeqLen, SMT DEF IsPrefix, ConnectionInv, Typed
    <3> QED BY <3>1, <3>2 DEF StreamInOrder
  <2> QED BY <2>1, <2>2
<1> QED BY <1>1, ConnectionInvariance, PTL

(***************************************************************************)
(* While the connection is open its channel asks for POLLOUT exactly when  *)
(* bytes wait in outputBuffer_ (enableWriting in sendInLoop,               *)
(* disableWriting in handleWrite).                                         *)
(***************************************************************************)
THEOREM WritesWhatWaits == Spec => []WritingWhileBuffered
  BY ConnectionInvariance, PTL DEF ConnectionInv

(***************************************************************************)
(* The write side of an open connection is shut down only behind the last  *)
(* byte (shutdownInLoop, and the end of handleWrite).                      *)
(***************************************************************************)
THEOREM ShutdownBehindData == Spec => FlushedBeforeFin
<1> DEFINE Shut == fin' /\ ~fin /\ closes = 0
                     => outputBuffer_' = <<>> /\ (wire' = sent' \/ lost)
<1>1. ConnectionInv /\ ConnectionInv' /\ [Next]_vars => [Shut]_vars
  <2> SUFFICES ASSUME ConnectionInv, ConnectionInv', Next, fin', ~fin, closes = 0
               PROVE  outputBuffer_' = <<>> /\ (wire' = sent' \/ lost)
    OBVIOUS
  <2>1. fin' # fin
    OBVIOUS
  <2>2. loopShutdown \/ runShutdownInLoop \/ handleWrite
    BY <2>1 DEF Next, Events, Functors, poll, handleHup, handleReadData, handleReadEof,
                handleReadError, eventsDone, loopSend, loopForceClose, messageDone,
                takeFunctor, connectEstablished, runSendInLoop, forceCloseInLoop,
                userCallback, send, shutdown, forceClose, Call, SetDisconnecting,
                HandOver, CallStep, peerGoes
  <2>3. outputBuffer_' = <<>> /\ UNCHANGED lost
    <3>1. CASE loopShutdown \/ runShutdownInLoop
      <4>1. ~isWriting /\ UNCHANGED stream
        BY <3>1 DEF loopShutdown, runShutdownInLoop, shutdownInLoop
      <4> QED BY <4>1 DEF ConnectionInv, WritingWhileBuffered, stream
    <3>2. CASE handleWrite
      BY <2>1, <3>2 DEF handleWrite, Flushed
    <3> QED BY <2>2, <3>1, <3>2
  <2>4. CASE ~lost
    <3>1. wire' \o outputBuffer_' = sent'
      BY <2>3, <2>4 DEF ConnectionInv, StreamInv
    <3> QED BY <2>3, <3>1, SeqUnit DEF ConnectionInv, Typed
  <2> QED BY <2>3, <2>4
<1> QED BY <1>1, ConnectionInvariance, PTL DEF Spec, FlushedBeforeFin

-----------------------------------------------------------------------------
(* The order of the messages: each call of send takes the next number of   *)
(* its thread, and the numbers still to come stay above those sent.         *)

IsSend(f) == f.op = "sendInLoop"

\* A send that waits comes after everything its thread has sent and before the send
\* its thread has begun.
Ahead(f) ==
    /\ f.from \in Thread
    /\ f.seq <= calls[f.from]
    /\ call[f.from] = "send" => f.seq < calls[f.from]
    /\ \A i \in 1 .. Len(sent) : sent[i][1] = f.from => sent[i][2] < f.seq

CallTyped ==
    call \in [Thread -> {"none", "send", "shutdown", "shutdownSet", "forceClose",
                         "forceCloseSet"}]

SentBelow ==
    \A i \in 1 .. Len(sent) :
        /\ sent[i][2] <= calls[sent[i][1]]
        /\ sent[i][1] \in Thread /\ call[sent[i][1]] = "send"
              => sent[i][2] < calls[sent[i][1]]

RunningAhead == IsSend(func) => Ahead(func)

QueueAhead == \A i \in 1 .. Len(funcs_) : IsSend(funcs_[i]) => Ahead(funcs_[i])

\* The sends of a thread run in the order in which they were queued.
QueueOrder ==
    \A i \in 1 .. Len(funcs_) : IsSend(funcs_[i]) =>
        /\ IsSend(func) /\ func.from = funcs_[i].from => func.seq < funcs_[i].seq
        /\ \A j \in 1 .. i - 1 : IsSend(funcs_[j]) /\ funcs_[j].from = funcs_[i].from
                                 => funcs_[j].seq < funcs_[i].seq

OrderInv ==
    /\ CallTyped
    /\ SentBelow
    /\ RunningAhead
    /\ QueueAhead
    /\ QueueOrder
    /\ SendOrder

\* What is in order stays so while nothing is sent.
LEMMA SentSame ==
    ASSUME SendOrder, sent' = sent
    PROVE  SendOrder'
BY SMT DEF SendOrder

\* The numbers sent stay below those of the calls while nothing is sent or begun.
LEMMA BelowSame ==
    ASSUME SentBelow, UNCHANGED <<sent, call, calls>>
    PROVE  SentBelow'
BY DEF SentBelow

\* A send stays ahead while nothing is sent and no call begins.
LEMMA AheadSame ==
    ASSUME NEW f, Ahead(f), UNCHANGED <<sent, calls>>,
           call'[f.from] = call[f.from] \/ call'[f.from] = "none"
    PROVE  Ahead(f)'
BY DEF Ahead

\* What is in sent after a send: what was there, and bytes of the message.
GrownBy(t, k) ==
    \A i \in 1 .. Len(sent') : \/ i \in 1 .. Len(sent) /\ sent'[i] = sent[i]
                               \/ sent'[i][1] = t /\ sent'[i][2] = k

\* A message numbered above all that its thread has sent goes behind them.
LEMMA SentGrows ==
    ASSUME Typed, SendOrder, NEW t \in Thread \cup {Loop}, NEW k \in Nat,
           sent' = sent \o Bytes(t, k),
           \A i \in 1 .. Len(sent) : sent[i][1] = t => sent[i][2] < k
    PROVE  /\ SendOrder'
           /\ GrownBy(t, k)
<1> DEFINE data == Bytes(t, k)
<1>1. data \in Seq(Byte) /\ Len(data) = MsgSize
  BY BytesTyped
<1>2. \A i \in 1 .. MsgSize : data[i] = <<t, k, i>>
  BY DEF Bytes
<1> HIDE DEF data
<1>3. Len(sent) \in Nat /\ sent \in Seq(Byte) /\ sent' = sent \o data
  BY SeqLen DEF Typed, data
<1>4. Len(sent') = Len(sent) + MsgSize
  BY <1>1, <1>3, SeqConcat
<1>5. \A i \in 1 .. Len(sent) : sent'[i] = sent[i]
  BY <1>1, <1>3, SeqConcat, BoundAssumption, SMT
<1>6. \A i \in Len(sent) + 1 .. Len(sent') : sent'[i] = <<t, k, i - Len(sent)>>
  <2> TAKE i \in Len(sent) + 1 .. Len(sent')
  <2>1. i \in 1 .. Len(sent) + Len(data) /\ ~(i <= Len(sent)) /\ i - Len(sent) \in 1 .. MsgSize
    BY <1>1, <1>3, <1>4, BoundAssumption, SMT
  <2>2. sent'[i] = data[i - Len(sent)]
    BY <1>1, <1>3, <2>1, SeqConcat, SMT
  <2> QED BY <1>2, <2>1, <2>2
<1>7. SendOrder'
  <2> SUFFICES ASSUME NEW i \in 1 .. Len(sent'), NEW j \in 1 .. Len(sent'),
                      i < j, sent'[i][1] = sent'[j][1]
               PROVE  \/ sent'[i][2] < sent'[j][2]
                      \/ sent'[i][2] = sent'[j][2] /\ sent'[i][3] < sent'[j][3]
    BY DEF SendOrder
  <2>1. CASE j <= Len(sent)
    <3>1. i \in 1 .. Len(sent) /\ j \in 1 .. Len(sent)
      BY <1>3, <1>4, <2>1, BoundAssumption, SMT
    <3>2. sent'[i] = sent[i] /\ sent'[j] = sent[j]
      BY <3>1, <1>5, SMT
    <3> QED BY <3>1, <3>2, SMT DEF SendOrder
  <2>2. CASE i <= Len(sent) /\ j > Len(sent)
    <3>1. i \in 1 .. Len(sent) /\ j \in Len(sent) + 1 .. Len(sent')
      BY <1>3, <1>4, <2>2, BoundAssumption, SMT
    <3>2. sent'[i] = sent[i] /\ sent'[j] = <<t, k, j - Len(sent)>>
      BY <3>1, <1>5, <1>6
    <3>3. sent[i][1] = t
      BY <3>2, SMT
    <3> QED BY <3>1, <3>2, <3>3, SMT
  <2>3. CASE i > Len(sent)
    <3>1. i \in Len(sent) + 1 .. Len(sent') /\ j \in Len(sent) + 1 .. Len(sent')
      BY <1>3, <1>4, <2>3, BoundAssumption, SMT
    <3>2. sent'[i] = <<t, k, i - Len(sent)>> /\ sent'[j] = <<t, k, j - Len(sent)>>
      BY <3>1, <1>6
    <3>3. i - Len(sent) < j - Len(sent)
      BY <1>3, <1>4, BoundAssumption, SMT
    <3> QED BY <3>2, <3>3, SMT
  <2>4. j <= Len(sent) \/ (i <= Len(sent) /\ j > Len(sent)) \/ i > Len(sent)
    BY <1>3, <1>4, BoundAssumption, SMT
  <2> QED BY <2>1, <2>2, <2>3, <2>4
<1>8. ASSUME NEW i \in 1 .. Len(sent')
      PROVE  \/ i \in 1 .. Len(sent) /\ sent'[i] = sent[i]
             \/ sent'[i][1] = t /\ sent'[i][2] = k
  <2>1. i \in 1 .. Len(sent) \/ i \in Len(sent) + 1 .. Len(sent')
    BY <1>3, <1>4, BoundAssumption, SMT
  <2>2. CASE i \in 1 .. Len(sent)
    BY <2>2, <1>5
  <2>3. CASE i \in Len(sent) + 1 .. Len(sent')
    <3>1. sent'[i] = <<t, k, i - Len(sent)>>
      BY <2>3, <1>6
    <3> QED BY <3>1, SMT
  <2> QED BY <2>1, <2>2, <2>3
<1>9. GrownBy(t, k)
  BY <1>8 DEF GrownBy
<1> QED BY <1>7, <1>9

\* At most one functor is put at the end of the queue, and it sends nothing.
Queued == funcs_' = funcs_ \/ \E f \in Functor : ~IsSend(f) /\ funcs_' = funcs_ \o <<f>>

\* The sends in the queue stay where they are.
LEMMA QueuedSends ==
    ASSUME Typed, Queued
    PROVE  /\ Len(funcs_) \in Nat /\ Len(funcs_') \in Nat
           /\ \A i \in 1 .. Len(funcs_') :
                IsSend(funcs_'[i]) => i \in 1 .. Len(funcs_) /\ funcs_'[i] = funcs_[i]
           /\ \A i \in 1 .. Len(funcs_) : funcs_'[i] = funcs_[i]
<1>1. CASE funcs_' = funcs_
  BY <1>1, SeqLen DEF Typed
<1>2. CASE funcs_' # funcs_
  <2>1. PICK f \in Functor : ~IsSend(f) /\ funcs_' = funcs_ \o <<f>>
    BY <1>2 DEF Queued
  <2>2. funcs_ \in Seq(Functor)
    BY DEF Typed
  <2>3. Len(funcs_) \in Nat /\ Len(funcs_') = Len(funcs_) + 1
    BY <2>1, <2>2, SMT
  <2>4. \A i \in 1 .. Len(funcs_) : funcs_'[i] = funcs_[i]
    BY <2>1, <2>2, SMT
  <2>5. funcs_'[Len(funcs_) + 1] = f
    BY <2>1, <2>2, SMT
  <2> QED BY <2>1, <2>3, <2>4, <2>5, SMT
<1> QED BY <1>1, <1>2

\* What is ahead of the loop stays so when it stays so for each functor.
LEMMA QueuedAhead ==
    ASSUME Typed, Queued, QueueAhead,
           \A i \in 1 .. Len(funcs_) : IsSend(funcs_[i]) /\ Ahead(funcs_[i]) => Ahead(funcs_[i])'
    PROVE  QueueAhead'
<1> SUFFICES ASSUME NEW i \in 1 .. Len(funcs_'), IsSend(funcs_'[i])
             PROVE  Ahead(funcs_[i])'
  BY DEF QueueAhead, IsSend
<1>1. i \in 1 .. Len(funcs_) /\ funcs_'[i] = funcs_[i]
  BY QueuedSends
<1> QED BY <1>1 DEF QueueAhead

\* The sends stay in order when nothing but the end of the running one happens to them.
LEMMA QueuedOrder ==
    ASSUME Typed, Queued, QueueOrder, func' = func \/ ~IsSend(func')
    PROVE  QueueOrder'
<1> SUFFICES ASSUME NEW i \in 1 .. Len(funcs_'), IsSend(funcs_'[i])
             PROVE  /\ IsSend(func') /\ func'.from = funcs_'[i].from => func'.seq < funcs_'[i].seq
                    /\ \A j \in 1 .. i - 1 : IsSend(funcs_'[j]) /\ funcs_'[j].from = funcs_'[i].from
                                             => funcs_'[j].seq < funcs_'[i].seq
  BY DEF QueueOrder, IsSend
<1>1. i \in 1 .. Len(funcs_) /\ funcs_'[i] = funcs_[i] /\ Len(funcs_) \in Nat
  BY QueuedSends
<1>2. \A j \in 1 .. i - 1 : j \in 1 .. Len(funcs_)
  BY <1>1, SMT
<1>3. \A j \in 1 .. i - 1 : funcs_'[j] = funcs_[j]
  BY <1>2, QueuedSends
<1>4. IsSend(funcs_[i])
  BY <1>1 DEF IsSend
<1>5. IsSend(func') /\ func'.from = funcs_'[i].from => func'.seq < funcs_'[i].seq
  BY <1>1, <1>4 DEF QueueOrder
<1> QED BY <1>1, <1>3, <1>4, <1>5 DEF QueueOrder

\* The waiting sends stay ahead and in order when what was ahead stays ahead.
LEMMA QueueKeeps ==
    ASSUME Typed, Queued, RunningAhead, QueueAhead, QueueOrder,
           func' = func \/ ~IsSend(func'), \A f : Ahead(f) => Ahead(f)'
    PROVE  RunningAhead' /\ QueueAhead' /\ QueueOrder'
<1>1. RunningAhead'
  BY DEF RunningAhead, Ahead, IsSend
<1>2. ASSUME NEW i \in 1 .. Len(funcs_), Ahead(funcs_[i])
      PROVE  Ahead(funcs_[i])'
  <2>1. funcs_'[i] = funcs_[i]
    BY QueuedSends
  <2> QED BY <1>2, <2>1 DEF Ahead
<1> QED BY <1>1, <1>2, QueuedAhead, QueuedOrder

\* A step that sends nothing and queues no send keeps the order, also when it ends the
\* functor that was running.
LEMMA QueueKeepsOrder ==
    ASSUME Typed, OrderInv, UNCHANGED <<sent, call, calls>>,
           func' = func \/ ~IsSend(func'), Queued
    PROVE  OrderInv'
<1>1. (CallTyped /\ SentBelow /\ SendOrder)'
  BY SentSame, BelowSame DEF OrderInv, CallTyped
<1>2. \A f : Ahead(f) => Ahead(f)'
  BY DEF Ahead
<1>3. RunningAhead' /\ QueueAhead' /\ QueueOrder'
  BY <1>2, QueueKeeps DEF OrderInv
<1> QED BY <1>1, <1>3 DEF OrderInv

\* sendInLoop sends the message or, on a closed connection, nothing.
LEMMA SendAppends ==
    ASSUME Typed, NEW t, NEW k, sendInLoop(t, k)
    PROVE  Queued /\ (sent' = sent \/ sent' = sent \o Bytes(t, k))
<1>1. /\ [op |-> "writeComplete"] \in Functor /\ ~IsSend([op |-> "writeComplete"])
      /\ [op |-> "highWaterMark"] \in Functor /\ ~IsSend([op |-> "highWaterMark"])
  BY DEF Functor, IsSend
<1>2. funcs_ \o <<>> = funcs_
  BY SeqUnit DEF Typed
<1>3. ASSUME NEW rest, Keep(rest) PROVE Queued
  BY <1>1, <1>2, <1>3 DEF Keep, queueInLoop, Queued
<1>4. queueInLoop(<<[op |-> "writeComplete"]>>) => Queued
  BY <1>1 DEF queueInLoop, Queued
<1>5. Queued
  BY <1>3, <1>4 DEF sendInLoop, Queued
<1> QED BY <1>5 DEF sendInLoop, stream

\* Taking the oldest functor keeps the order.
LEMMA TakeKeepsOrder ==
    ASSUME Typed, OrderInv, takeFunctor
    PROVE  OrderInv'
<1>1. UNCHANGED <<sent, call, calls>> /\ func.op = "none"
  BY DEF takeFunctor, stream
<1>2. CASE funcs_ = <<>>
  BY <1>1, <1>2, QueueKeepsOrder, SMT DEF takeFunctor, Queued
<1>3. CASE funcs_ # <<>>
  <2>1. func' = Head(funcs_) /\ funcs_' = Tail(funcs_)
    BY <1>3 DEF takeFunctor
  <2>2. funcs_ \in Seq(Functor)
    BY DEF Typed
  <2>3. Len(funcs_) \in Nat \ {0} /\ Len(funcs_') = Len(funcs_) - 1
    BY <1>3, <2>1, <2>2, SeqTail, SeqEmpty
  <2>4. func' = funcs_[1]
    BY <1>3, <2>1, <2>2, SMT
  <2>5. \A i \in 1 .. Len(funcs_') : funcs_'[i] = funcs_[i + 1]
    BY <1>3, <2>1, <2>2, SeqTail
  <2>6. RunningAhead'
    <3>1. IsSend(funcs_[1]) => Ahead(funcs_[1])
      BY <2>3, SMT DEF OrderInv, QueueAhead
    <3> QED BY <1>1, <2>4, <3>1 DEF RunningAhead, Ahead, IsSend
  <2>7. ASSUME NEW i \in 1 .. Len(funcs_'), IsSend(funcs_'[i])
        PROVE  /\ Ahead(funcs_[i])'
               /\ IsSend(func') /\ func'.from = funcs_'[i].from => func'.seq < funcs_'[i].seq
               /\ \A j \in 1 .. i - 1 : IsSend(funcs_'[j]) /\ funcs_'[j].from = funcs_'[i].from
                                         => funcs_'[j].seq < funcs_'[i].seq
    <3>1. i + 1 \in 1 .. Len(funcs_) /\ 1 \in 1 .. (i + 1) - 1 /\ funcs_'[i] = funcs_[i + 1]
      BY <2>3, <2>5, SMT
    <3>2. \A j \in 1 .. i - 1 : j + 1 \in 1 .. (i + 1) - 1 /\ funcs_'[j] = funcs_[j + 1]
      BY <2>3, <2>5, SMT
    <3>3. Ahead(funcs_[i])'
      <4>1. Ahead(funcs_[i + 1])
        BY <3>1, <2>7 DEF OrderInv, QueueAhead
      <4> QED BY <4>1, <3>1, <1>1 DEF Ahead
    <3>4. \A j \in 1 .. (i + 1) - 1 : IsSend(funcs_[j]) /\ funcs_[j].from = funcs_[i + 1].from
                                     => funcs_[j].seq < funcs_[i + 1].seq
      BY <3>1, <2>7 DEF OrderInv, QueueOrder
    <3>5. IsSend(func') /\ func'.from = funcs_'[i].from => func'.seq < funcs_'[i].seq
      BY <3>1, <3>4, <2>4
    <3> QED BY <3>1, <3>2, <3>3, <3>4, <3>5
  <2>8. QueueAhead' /\ QueueOrder'
    BY <2>7 DEF QueueAhead, QueueOrder, IsSend
  <2>9. (CallTyped /\ SentBelow /\ SendOrder)'
    BY <1>1, SentSame, BelowSame DEF OrderInv, CallTyped
  <2> QED BY <2>6, <2>8, <2>9 DEF OrderInv
<1> QED BY <1>2, <1>3

\* A call that begins takes the next number; shutdown and forceClose go on without one.
LEMMA CallKeepsOrder ==
    ASSUME Typed, OrderInv, UNCHANGED <<sent, func, funcs_>>,
           NEW t \in Thread,
           \/ calls' = [calls EXCEPT ![t] = @ + 1]
           \/ calls' = calls /\ call'[t] # "send",
           NEW to \in {"none", "send", "shutdown", "shutdownSet", "forceClose", "forceCloseSet"},
           call' = [call EXCEPT ![t] = to]
    PROVE  OrderInv'
<1>1. \A u \in Thread : calls[u] \in Nat /\ (u # t => calls'[u] = calls[u] /\ call'[u] = call[u])
  BY DEF Typed, OrderInv, CallTyped
<1>2. calls[Loop] \in Nat /\ calls'[Loop] = calls[Loop]
  BY ThreadAssumption DEF Typed
<1>3. \/ calls'[t] = calls[t] + 1
      \/ calls'[t] = calls[t] /\ call'[t] # "send"
  BY DEF Typed
<1>4. ASSUME NEW f \in Functor, IsSend(f), Ahead(f)
      PROVE  Ahead(f)'
  <2>1. f.from \in Thread /\ f.seq \in Nat
    BY <1>4 DEF Ahead, IsSend, Functor
  <2> QED BY <1>1, <1>3, <1>4, <2>1, SMT DEF Ahead
<1>5. \A i \in 1 .. Len(sent) : sent[i][1] \in Thread \cup {Loop} /\ sent[i][2] \in Nat
  <2> TAKE i \in 1 .. Len(sent)
  <2>1. sent[i] \in Byte
    BY SeqElement DEF Typed
  <2> QED BY <2>1 DEF Byte
<1>6. SentBelow'
  <2> SUFFICES ASSUME NEW i \in 1 .. Len(sent)
               PROVE  /\ sent[i][2] <= calls'[sent[i][1]]
                      /\ sent[i][1] \in Thread /\ call'[sent[i][1]] = "send"
                            => sent[i][2] < calls'[sent[i][1]]
    BY DEF SentBelow
  <2>1. sent[i][1] \in Thread \cup {Loop} /\ sent[i][2] \in Nat
    BY <1>5
  <2>2. /\ sent[i][2] <= calls[sent[i][1]]
        /\ sent[i][1] \in Thread /\ call[sent[i][1]] = "send" => sent[i][2] < calls[sent[i][1]]
    BY DEF OrderInv, SentBelow
  <2>3. CASE sent[i][1] = t
    BY <1>1, <1>3, <2>1, <2>2, <2>3, SMT
  <2>4. CASE sent[i][1] # t
    BY <1>1, <1>2, <2>1, <2>2, <2>4
  <2> QED BY <2>3, <2>4
<1>7. \A i \in 1 .. Len(funcs_) : funcs_[i] \in Functor
  BY SeqElement DEF Typed
<1>8. CallTyped'
  BY DEF OrderInv, CallTyped
<1>9. RunningAhead'
  <2> SUFFICES ASSUME IsSend(func) PROVE Ahead(func)'
    BY DEF RunningAhead, IsSend
  <2>1. Ahead(func) /\ func \in Functor
    BY DEF OrderInv, RunningAhead, Typed
  <2> QED BY <1>4, <2>1 DEF Ahead
<1>10. QueueAhead'
  <2> SUFFICES ASSUME NEW i \in 1 .. Len(funcs_), IsSend(funcs_[i])
               PROVE  Ahead(funcs_[i])'
    BY DEF QueueAhead, IsSend
  <2>1. Ahead(funcs_[i]) /\ funcs_[i] \in Functor
    BY <1>7, SMT DEF OrderInv, QueueAhead
  <2> QED BY <1>4, <2>1, SMT DEF Ahead
<1>11. QueueOrder' /\ SendOrder'
  BY SentSame, SMT DEF OrderInv, QueueOrder, IsSend
<1> QED BY <1>6, <1>8, <1>9, <1>10, <1>11 DEF OrderInv

\* <= is transitive.
LEMMA AtMost ==
    ASSUME NEW a \in Nat, NEW b \in Nat, NEW c \in Nat, a <= b, b <= c
    PROVE  a <= c
BY SMT

\* A message above all that its thread has sent and below its sends in the queue keeps
\* the order.
LEMMA SentKeepsOrder ==
    ASSUME Typed, OrderInv, NEW t \in Thread \cup {Loop}, NEW k \in Nat,
           sent' = sent \o Bytes(t, k), Queued, UNCHANGED call,
           \A u \in Thread : calls'[u] = calls[u],
           calls'[Loop] \in Nat, calls[Loop] <= calls'[Loop],
           k <= calls'[t], t \in Thread /\ call[t] = "send" => k < calls[t],
           \A i \in 1 .. Len(sent) : sent[i][1] = t => sent[i][2] < k,
           \A i \in 1 .. Len(funcs_) : IsSend(funcs_[i]) /\ funcs_[i].from = t
                                       => k < funcs_[i].seq,
           ~IsSend(func') \/ (t = Loop /\ func' = func)
    PROVE  OrderInv'
<1>1. SendOrder'
  BY SentGrows DEF OrderInv
<1>2. \A i \in 1 .. Len(sent') : \/ i \in 1 .. Len(sent) /\ sent'[i] = sent[i]
                                 \/ sent'[i][1] = t /\ sent'[i][2] = k
  <2>1. GrownBy(t, k)
    BY SentGrows DEF OrderInv
  <2> QED BY <2>1 DEF GrownBy
<1>3. ASSUME NEW f, Ahead(f), f.from = t => k < f.seq
      PROVE  Ahead(f)'
  <2>1. f.from \in Thread /\ calls'[f.from] = calls[f.from] /\ call'[f.from] = call[f.from]
    BY <1>3 DEF Ahead
  <2>2. ASSUME NEW i \in 1 .. Len(sent'), sent'[i][1] = f.from
        PROVE  sent'[i][2] < f.seq
    BY <1>2, <1>3, <2>2 DEF Ahead
  <2> QED BY <1>3, <2>1, <2>2 DEF Ahead
<1>4. \A i \in 1 .. Len(sent) : sent[i][1] \in Thread \cup {Loop} /\ sent[i][2] \in Nat
  <2> TAKE i \in 1 .. Len(sent)
  <2>1. sent[i] \in Byte
    BY SeqElement, SMT DEF Typed
  <2> QED BY <2>1 DEF Byte
<1>5. SentBelow'
  <2> SUFFICES ASSUME NEW i \in 1 .. Len(sent')
               PROVE  /\ sent'[i][2] <= calls'[sent'[i][1]]
                      /\ sent'[i][1] \in Thread /\ call'[sent'[i][1]] = "send"
                            => sent'[i][2] < calls'[sent'[i][1]]
    BY DEF SentBelow
  <2>1. CASE sent'[i][1] = t /\ sent'[i][2] = k
    BY <2>1
  <2>2. CASE i \in 1 .. Len(sent) /\ sent'[i] = sent[i]
    <3>1. sent[i][1] \in Thread \cup {Loop} /\ sent[i][2] \in Nat
      BY <2>2, <1>4
    <3>2. /\ sent[i][2] <= calls[sent[i][1]]
          /\ sent[i][1] \in Thread /\ call[sent[i][1]] = "send" => sent[i][2] < calls[sent[i][1]]
      BY <2>2 DEF OrderInv, SentBelow
    <3>3. CASE sent[i][1] \in Thread
      BY <2>2, <3>2, <3>3
    <3>4. CASE sent[i][1] = Loop
      <4>1. calls[Loop] \in Nat /\ Loop \notin Thread
        BY ThreadAssumption DEF Typed
      <4>2. sent[i][2] <= calls'[Loop]
        <5>1. sent[i][2] <= calls[Loop]
          BY <3>2, <3>4
        <5> QED BY <3>1, <4>1, <5>1, AtMost
      <4> QED BY <2>2, <3>4, <4>1, <4>2
    <3> QED BY <3>1, <3>3, <3>4
  <2> QED BY <1>2, <2>1, <2>2
<1>6. RunningAhead'
  <2>1. CASE ~IsSend(func')
    BY <2>1 DEF RunningAhead, IsSend
  <2>2. CASE IsSend(func')
    <3>1. t = Loop /\ func' = func /\ IsSend(func)
      BY <2>2 DEF IsSend
    <3>2. Ahead(func) /\ func.from # t
      BY <3>1, ThreadAssumption DEF OrderInv, RunningAhead, Ahead
    <3> QED BY <3>1, <3>2, <1>3 DEF RunningAhead, Ahead
  <2> QED BY <2>1, <2>2
<1>7. QueueAhead'
  <2> SUFFICES ASSUME NEW i \in 1 .. Len(funcs_), IsSend(funcs_[i]), Ahead(funcs_[i])
               PROVE  Ahead(funcs_[i])'
    BY QueuedAhead DEF OrderInv
  <2>1. funcs_'[i] = funcs_[i] /\ (funcs_[i].from = t => k < funcs_[i].seq)
    BY QueuedSends
  <2> QED BY <1>3, <2>1 DEF Ahead
<1>8. QueueOrder'
  BY QueuedOrder DEF OrderInv
<1>9. CallTyped'
  BY DEF OrderInv, CallTyped
<1> QED BY <1>1, <1>5, <1>6, <1>7, <1>8, <1>9 DEF OrderInv

\* A send that is handed to the loop goes behind the earlier sends of its thread.
LEMMA HandOverKeepsOrder ==
    ASSUME Typed, OrderInv, NEW t \in Thread,
           HandOver(t, "send", [op |-> "sendInLoop", from |-> t, seq |-> calls[t]])
    PROVE  OrderInv'
<1> DEFINE f == [op |-> "sendInLoop", from |-> t, seq |-> calls[t]]
<1>1. /\ call[t] = "send" /\ call' = [call EXCEPT ![t] = "none"]
      /\ UNCHANGED <<sent, func, calls>> /\ funcs_' = funcs_ \o <<f>>
  BY DEF HandOver, CallStep, queueInLoop, stream
<1>2. f \in Functor /\ f.from = t /\ f.seq = calls[t] /\ calls[t] \in Nat
  BY DEF Functor, Typed
<1> HIDE DEF f
<1>3. funcs_ \in Seq(Functor)
  BY DEF Typed
<1>4. /\ Len(funcs_) \in Nat /\ Len(funcs_') = Len(funcs_) + 1
      /\ \A i \in 1 .. Len(funcs_) : funcs_'[i] = funcs_[i]
      /\ funcs_'[Len(funcs_) + 1] = f
  BY <1>1, <1>2, <1>3, SMT
<1>5. \A u \in Thread : call'[u] = IF u = t THEN "none" ELSE call[u]
  BY <1>1 DEF OrderInv, CallTyped
<1>6. ASSUME NEW g, Ahead(g) PROVE Ahead(g)'
  <2>1. g.from \in Thread
    BY <1>6 DEF Ahead
  <2> QED BY <1>1, <1>5, <1>6, <2>1, AheadSame
<1>7. \A g : g = f => Ahead(g)'
  <2>1. \A i \in 1 .. Len(sent) : sent[i][1] = t => sent[i][2] < calls[t]
    BY <1>1 DEF OrderInv, SentBelow
  <2>2. calls'[t] = calls[t] /\ call'[t] = "none" /\ sent' = sent
    BY <1>1, <1>5
  <2>3. /\ f.from \in Thread /\ f.seq <= calls'[f.from] /\ call'[f.from] # "send"
        /\ \A i \in 1 .. Len(sent') : sent'[i][1] = f.from => sent'[i][2] < f.seq
    BY <1>2, <2>1, <2>2, SMT
  <2> QED BY <2>3 DEF Ahead
<1>8. ASSUME NEW i \in 1 .. Len(funcs_'), IsSend(funcs_'[i])
      PROVE  /\ Ahead(funcs_[i])'
             /\ IsSend(func') /\ func'.from = funcs_'[i].from => func'.seq < funcs_'[i].seq
             /\ \A j \in 1 .. i - 1 : IsSend(funcs_'[j]) /\ funcs_'[j].from = funcs_'[i].from
                                      => funcs_'[j].seq < funcs_'[i].seq
  <2>1. CASE i \in 1 .. Len(funcs_)
    <3>0. \A j \in 1 .. i - 1 : j \in 1 .. Len(funcs_)
      BY <1>4, <2>1, SMTT(30)
    <3>1. funcs_'[i] = funcs_[i] /\ \A j \in 1 .. i - 1 : funcs_'[j] = funcs_[j]
      BY <1>4, <2>1, <3>0
    <3>2. Ahead(funcs_[i])
      BY <1>8, <2>1, <3>1 DEF OrderInv, QueueAhead
    <3>3. Ahead(funcs_[i])'
      BY <1>6, <3>1, <3>2 DEF Ahead
    <3>4. /\ IsSend(func) /\ func.from = funcs_[i].from => func.seq < funcs_[i].seq
          /\ \A j \in 1 .. i - 1 : IsSend(funcs_[j]) /\ funcs_[j].from = funcs_[i].from
                                   => funcs_[j].seq < funcs_[i].seq
      BY <1>8, <2>1, <3>1 DEF OrderInv, QueueOrder
    <3> QED BY <1>1, <3>1, <3>3, <3>4
  <2>2. CASE i = Len(funcs_) + 1
    <3>1. funcs_'[i] = f
      BY <1>4, <2>2
    <3>2. Ahead(funcs_[i])'
      BY <1>7, <3>1 DEF Ahead
    <3>3. IsSend(func) /\ func.from = t => func.seq < calls[t]
      BY <1>1 DEF OrderInv, RunningAhead, Ahead
    <3>4. \A j \in 1 .. Len(funcs_) : IsSend(funcs_[j]) /\ funcs_[j].from = t
                                      => funcs_[j].seq < calls[t]
      BY <1>1 DEF OrderInv, QueueAhead, Ahead
    <3>5. \A j \in 1 .. i - 1 : j \in 1 .. Len(funcs_) /\ funcs_'[j] = funcs_[j]
      <4>1. \A j \in 1 .. i - 1 : j \in 1 .. Len(funcs_)
        BY <1>4, <2>2, SMT
      <4> QED BY <1>4, <4>1
    <3> QED BY <1>1, <1>2, <3>1, <3>2, <3>3, <3>4, <3>5
  <2>3. i \in 1 .. Len(funcs_) \/ i = Len(funcs_) + 1
    BY <1>4, SMT
  <2> QED BY <2>1, <2>2, <2>3
<1>9. RunningAhead'
  BY <1>1, <1>6 DEF OrderInv, RunningAhead, IsSend, Ahead
<1>10. SentBelow'
  <2>1. \A i \in 1 .. Len(sent) :
          sent[i][1] \in Thread /\ call'[sent[i][1]] = "send" => call[sent[i][1]] = "send"
    BY <1>5
  <2> QED BY <1>1, <2>1 DEF OrderInv, SentBelow
<1>11. CallTyped'
  BY <1>1 DEF OrderInv, CallTyped
<1>12. SendOrder'
  BY <1>1, SentSame DEF OrderInv
<1>13. QueueAhead' /\ QueueOrder'
  BY <1>8 DEF QueueAhead, QueueOrder, IsSend
<1> QED BY <1>9, <1>10, <1>11, <1>12, <1>13 DEF OrderInv

\* Handing over a shutdown or a forceClose keeps the order.
LEMMA HandOverOther ==
    ASSUME Typed, OrderInv, NEW t \in Thread, NEW from, NEW f \in Functor, ~IsSend(f),
           HandOver(t, from, f)
    PROVE  OrderInv'
<1>1. call' = [call EXCEPT ![t] = "none"] /\ UNCHANGED <<sent, func, calls>> /\ Queued
  BY DEF HandOver, CallStep, queueInLoop, stream, Queued
<1>2. \A u \in Thread : call'[u] = IF u = t THEN "none" ELSE call[u]
  BY <1>1 DEF OrderInv, CallTyped
<1>3. CallTyped'
  BY <1>1 DEF OrderInv, CallTyped
<1>4. ASSUME NEW g, Ahead(g) PROVE Ahead(g)'
  <2>1. g.from \in Thread
    BY <1>4 DEF Ahead
  <2> QED BY <1>1, <1>2, <1>4, <2>1, AheadSame
<1>5. SentBelow'
  <2>1. \A i \in 1 .. Len(sent) :
          sent[i][1] \in Thread /\ call'[sent[i][1]] = "send" => call[sent[i][1]] = "send"
    BY <1>2
  <2> QED BY <1>1, <2>1 DEF OrderInv, SentBelow
<1>6. RunningAhead' /\ QueueAhead' /\ QueueOrder'
  BY <1>1, <1>4, QueueKeeps DEF OrderInv
<1>7. SendOrder'
  BY <1>1, SentSame DEF OrderInv
<1> QED BY <1>3, <1>5, <1>6, <1>7 DEF OrderInv

\* A call of shutdown or forceClose in messageCallback_ counts as a call of the loop's.
LEMMA LoopCountKeepsOrder ==
    ASSUME Typed, OrderInv, UNCHANGED <<sent, call, func>>, Queued,
           calls' = [calls EXCEPT ![Loop] = @ + 1]
    PROVE  OrderInv'
<1>1. /\ calls[Loop] \in Nat /\ calls'[Loop] = calls[Loop] + 1
      /\ \A u \in Thread : calls'[u] = calls[u]
  BY ThreadAssumption DEF Typed
<1>2. \A f : Ahead(f) => Ahead(f)'
  BY <1>1 DEF Ahead
<1>3. SentBelow'
  <2> SUFFICES ASSUME NEW i \in 1 .. Len(sent)
               PROVE  /\ sent[i][2] <= calls'[sent[i][1]]
                      /\ sent[i][1] \in Thread /\ call[sent[i][1]] = "send"
                            => sent[i][2] < calls'[sent[i][1]]
    BY DEF SentBelow
  <2>1. sent[i] \in Byte
    BY SeqElement DEF Typed
  <2>2. sent[i][1] \in Thread \cup {Loop} /\ sent[i][2] \in Nat
    BY <2>1 DEF Byte
  <2>3. /\ sent[i][2] <= calls[sent[i][1]]
        /\ sent[i][1] \in Thread /\ call[sent[i][1]] = "send" => sent[i][2] < calls[sent[i][1]]
    BY DEF OrderInv, SentBelow
  <2>4. CASE sent[i][1] \in Thread
    BY <1>1, <2>3, <2>4
  <2>5. CASE sent[i][1] = Loop
    <3>1. Loop \notin Thread /\ sent[i][2] <= calls[Loop]
      BY <2>3, <2>5, ThreadAssumption
    <3>2. sent[i][2] <= calls'[Loop]
      BY <1>1, <2>2, <3>1, SMT
    <3> QED BY <2>5, <3>1, <3>2
  <2> QED BY <2>2, <2>4, <2>5
<1>4. RunningAhead' /\ QueueAhead' /\ QueueOrder'
  BY <1>2, QueueKeeps DEF OrderInv
<1>5. CallTyped' /\ SendOrder'
  BY SentSame DEF OrderInv, CallTyped
<1> QED BY <1>3, <1>4, <1>5 DEF OrderInv

\* The calls of another thread keep the order.
LEMMA CallsKeepOrder ==
    ASSUME Typed, OrderInv, NEW t \in Thread, send(t) \/ shutdown(t) \/ forceClose(t)
    PROVE  OrderInv'
<1>1. ASSUME NEW op \in {"send", "shutdown", "forceClose"}, NEW states, Call(t, op, states)
      PROVE  OrderInv'
  BY <1>1, CallKeepsOrder DEF Call, CallStep, stream
<1>2. ASSUME NEW from, NEW to \in {"shutdownSet", "forceCloseSet"}, SetDisconnecting(t, from, to)
      PROVE  OrderInv'
  <2>1. /\ call' = [call EXCEPT ![t] = to] /\ call'[t] # "send"
        /\ UNCHANGED <<sent, func, funcs_, calls>>
    BY <1>2 DEF SetDisconnecting, CallStep, stream, OrderInv, CallTyped
  <2> QED BY <2>1, CallKeepsOrder
<1>3. CASE HandOver(t, "send", [op |-> "sendInLoop", from |-> t, seq |-> calls[t]])
  BY <1>3, HandOverKeepsOrder
<1>4. ASSUME NEW from \in {"shutdownSet", "forceCloseSet"}, NEW f \in Functor, ~IsSend(f),
             HandOver(t, from, f)
      PROVE  OrderInv'
  BY <1>4, HandOverOther
<1>5. /\ [op |-> "forceCloseInLoop"] \in Functor /\ ~IsSend([op |-> "forceCloseInLoop"])
      /\ [op |-> "shutdownInLoop"] \in Functor /\ ~IsSend([op |-> "shutdownInLoop"])
  BY DEF Functor, IsSend
<1>6. CASE send(t)
  BY <1>1, <1>3, <1>6 DEF send
<1>7. CASE shutdown(t)
  BY <1>1, <1>2, <1>4, <1>5, <1>7 DEF shutdown
<1>8. CASE forceClose(t)
  BY <1>1, <1>2, <1>4, <1>5, <1>8 DEF forceClose
<1> QED BY <1>6, <1>7, <1>8

\* Nothing has been sent, queued or begun at first.
LEMMA OrderInit == Init => OrderInv
<1> SUFFICES ASSUME Init PROVE OrderInv
  OBVIOUS
<1>1. Len(sent) = 0 /\ Len(funcs_) = 1 /\ ~IsSend(funcs_[1]) /\ ~IsSend(func)
  BY DEF Init, IsSend
<1>2. CallTyped
  BY DEF Init, CallTyped
<1>3. RunningAhead /\ QueueAhead /\ QueueOrder
  BY <1>1, SMT DEF RunningAhead, QueueAhead, QueueOrder
<1> QED BY <1>1, <1>2, <1>3, SMT DEF OrderInv, SentBelow, SendOrder

\* Every step keeps the order.
LEMMA OrderNext == Typed /\ OrderInv /\ [Next]_vars => OrderInv'
<1> SUFFICES ASSUME Typed, OrderInv, [Next]_vars
             PROVE  OrderInv'
  OBVIOUS
<1>1. /\ [op |-> "writeComplete"] \in Functor /\ ~IsSend([op |-> "writeComplete"])
      /\ [op |-> "forceCloseInLoop"] \in Functor /\ ~IsSend([op |-> "forceCloseInLoop"])
      /\ [op |-> "shutdownInLoop"] \in Functor /\ ~IsSend([op |-> "shutdownInLoop"])
      /\ ~IsSend([op |-> "none"])
  BY SMT DEF Functor, IsSend
<1>2. CASE UNCHANGED <<sent, call, calls, func, funcs_>>
  BY <1>2, QueueKeepsOrder DEF Queued
<1>3. CASE (\E R \in SUBSET {"hup", "in", "out"} : poll(R)) \/ messageDone \/ peerGoes
           \/ UNCHANGED vars
  BY <1>2, <1>3 DEF poll, messageDone, peerGoes, vars, stream
<1>4. CASE handleHup \/ handleReadEof \/ handleReadData \/ handleReadError \/ eventsDone
  BY <1>2, <1>4 DEF handleHup, handleReadEof, handleReadData, handleReadError, eventsDone,
                    stream
<1>5. CASE handleWrite
  <2>1. UNCHANGED <<sent, call, calls, func>>
    BY <1>5 DEF handleWrite, stream
  <2>2. Queued
    BY <1>1, <1>5 DEF handleWrite, Flushed, queueInLoop, Queued
  <2> QED BY <2>1, <2>2, QueueKeepsOrder
<1>6. CASE loopSend
  <2>1. /\ sendInLoop(Loop, calls[Loop] + 1) /\ UNCHANGED <<func, call>>
        /\ calls' = [calls EXCEPT ![Loop] = @ + 1] /\ state_ = "kConnected"
    BY <1>6 DEF loopSend, LoopCall
  <2>2. calls[Loop] \in Nat /\ calls'[Loop] = calls[Loop] + 1
        /\ \A u \in Thread : calls'[u] = calls[u]
    BY <2>1, ThreadAssumption DEF Typed
  <2>3. Queued /\ sent' = sent \o Bytes(Loop, calls[Loop] + 1)
    BY <2>1, SendAppends DEF sendInLoop
  <2>4. \A i \in 1 .. Len(sent) : sent[i][1] = Loop => sent[i][2] < calls[Loop] + 1
    <3> SUFFICES ASSUME NEW i \in 1 .. Len(sent), sent[i][1] = Loop
                 PROVE  sent[i][2] < calls[Loop] + 1
      OBVIOUS
    <3>1. sent[i] \in Byte
      BY SeqElement DEF Typed
    <3>2. sent[i][2] \in Nat /\ sent[i][2] <= calls[Loop]
      BY <3>1 DEF Byte, OrderInv, SentBelow
    <3> QED BY <3>2, <2>2, SMT
  <2>5. \A i \in 1 .. Len(funcs_) : IsSend(funcs_[i]) => funcs_[i].from # Loop
    BY ThreadAssumption DEF OrderInv, QueueAhead, Ahead
  <2> DEFINE k == calls[Loop] + 1
  <2>6. /\ k \in Nat /\ k <= calls'[Loop] /\ calls'[Loop] \in Nat /\ calls[Loop] <= calls'[Loop]
        /\ Loop \in Thread /\ call[Loop] = "send" => k < calls[Loop]
        /\ \A i \in 1 .. Len(funcs_) : IsSend(funcs_[i]) /\ funcs_[i].from = Loop
                                       => k < funcs_[i].seq
    BY <2>2, <2>5, ThreadAssumption, SMT
  <2>7. ~IsSend(func') \/ (Loop = Loop /\ func' = func)
    BY <2>1
  <2> HIDE DEF k
  <2>8. sent' = sent \o Bytes(Loop, k) /\ \A i \in 1 .. Len(sent) : sent[i][1] = Loop => sent[i][2] < k
    BY <2>3, <2>4 DEF k
  <2> QED BY <2>1, <2>2, <2>3, <2>6, <2>7, <2>8, SentKeepsOrder
<1>7. CASE loopShutdown \/ loopForceClose
  <2>1. UNCHANGED <<sent, call, func>> /\ calls' = [calls EXCEPT ![Loop] = @ + 1]
    BY <1>7 DEF loopShutdown, loopForceClose, LoopCall, stream
  <2>2. Queued
    BY <1>1, <1>7 DEF loopShutdown, loopForceClose, queueInLoop, Queued
  <2> QED BY <2>1, <2>2, LoopCountKeepsOrder
<1>8. CASE takeFunctor
  BY <1>8, TakeKeepsOrder
<1>12. CASE connectEstablished
  <2>1. UNCHANGED <<sent, call, calls, funcs_>> /\ func' = [op |-> "connectionCallback"]
    BY <1>12 DEF connectEstablished, stream
  <2>2. ~IsSend([op |-> "connectionCallback"])
    BY SMT DEF IsSend
  <2> QED BY <1>1, <2>1, <2>2, QueueKeepsOrder DEF Queued
<1>9. CASE runShutdownInLoop \/ forceCloseInLoop \/ userCallback
  <2>1. UNCHANGED <<sent, call, calls, funcs_>> /\ func' = [op |-> "none"]
    BY <1>9 DEF runShutdownInLoop, forceCloseInLoop, userCallback, Run, stream
  <2> QED BY <1>1, <2>1, QueueKeepsOrder DEF Queued
<1>10. CASE runSendInLoop
  <2>1. /\ sendInLoop(func.from, func.seq) /\ IsSend(func)
        /\ UNCHANGED <<calls, call>> /\ func' = [op |-> "none"]
    BY <1>10 DEF runSendInLoop, Run, IsSend
  <2>2. func.from \in Thread /\ func.seq \in Nat /\ Ahead(func)
    BY <2>1 DEF OrderInv, RunningAhead, Ahead, Typed, Functor, IsSend
  <2>3. Queued /\ (sent' = sent \/ sent' = sent \o Bytes(func.from, func.seq))
    BY <2>1, SendAppends
  <2>4. CASE sent' = sent
    BY <1>1, <2>1, <2>3, <2>4, QueueKeepsOrder
  <2>5. CASE sent' = sent \o Bytes(func.from, func.seq)
    <3>1. calls[Loop] \in Nat
      BY DEF Typed
    <3>2. \A i \in 1 .. Len(funcs_) : IsSend(funcs_[i]) /\ funcs_[i].from = func.from
                                      => func.seq < funcs_[i].seq
      BY <2>1 DEF OrderInv, QueueOrder
    <3> DEFINE t == func.from
               k == func.seq
    <3>3. /\ t \in Thread \cup {Loop} /\ k \in Nat /\ sent' = sent \o Bytes(t, k)
          /\ k <= calls'[t] /\ (t \in Thread /\ call[t] = "send" => k < calls[t])
          /\ \A i \in 1 .. Len(sent) : sent[i][1] = t => sent[i][2] < k
          /\ \A i \in 1 .. Len(funcs_) : IsSend(funcs_[i]) /\ funcs_[i].from = t
                                         => k < funcs_[i].seq
      BY <2>1, <2>2, <2>5, <3>2 DEF Ahead
    <3>4. /\ \A u \in Thread : calls'[u] = calls[u]
          /\ calls'[Loop] \in Nat /\ calls[Loop] <= calls'[Loop]
      BY <2>1, <3>1, SMT
    <3> HIDE DEF t, k
    <3> QED BY <1>1, <2>1, <2>3, <3>3, <3>4, SentKeepsOrder
  <2> QED BY <2>3, <2>4, <2>5
<1>11. CASE \E t \in Thread : send(t) \/ shutdown(t) \/ forceClose(t)
  BY <1>11, CallsKeepOrder
<1> QED BY <1>3, <1>4, <1>5, <1>6, <1>7, <1>8, <1>9, <1>10, <1>11, <1>12
        DEF Next, Events, Functors

(***************************************************************************)
(* The messages of a thread reach the stream whole and in the order of its *)
(* calls of send, whatever the other threads do: the functor queue and the *)
(* direct path of sendInLoop do not overtake one another                   *)
(* (TcpConnection.cpp, send and sendInLoop).                               *)
(***************************************************************************)
THEOREM MessagesInOrder == Spec => []SendOrder
<1>1. Spec => []OrderInv
  <2>1. ConnectionInv => Typed
    BY DEF ConnectionInv
  <2> QED BY <2>1, ConnectionInvariance, OrderInit, OrderNext, PTL DEF Spec
<1>2. OrderInv => SendOrder
  BY DEF OrderInv
<1> QED BY <1>1, <1>2, PTL
=============================================================================
