---------------------------- MODULE HttpServerProofs ----------------------------
(***************************************************************************)
(* Proofs about HttpServer, for every set of lines, every stream and every  *)
(* way the reads cut it.                                                    *)
(***************************************************************************)
EXTENDS HttpServer, SequenceTheorems, TLAPS

Version == {"kUnknown", "kHttp10", "kHttp11"}
Request == [method_ : BOOLEAN, version_ : Version, Connection : {"", "close", "Keep-Alive"}]
Response == [status : {200, 400}, close : BOOLEAN]

\* The responses s match n requests handled, on a connection in state c.
Match(s, n, c) ==
    /\ c = "kConnected" => Len(s) = n /\ \A i \in DOMAIN s : ~s[i].close
    /\ \A i \in DOMAIN s :
          /\ s[i].status = 200 => i <= n
          /\ s[i].status = 400 => s[i].close
          /\ s[i].close => i = Len(s)

\* A response that is the 200 of one more request, or a 400, which closes; n is the number
\* of requests handled after it.
Answers(status, close, n) ==
    \/ status = 200 /\ n = Len(handled) + 1
    \/ status = 400 /\ n = Len(handled) /\ close

\* What makes OneAnswerEach inductive: a response that closes leaves the connection
\* disconnecting, and a connection once disconnecting stays so.
AnswerInv ==
    /\ request_ \in Request /\ handled \in Seq(Request)
    /\ sent \in Seq(Response)
    /\ connection \in {"kConnected", "kDisconnecting"}
    /\ Match(sent, Len(handled), connection)

\* A response to one more request, or a 400 that closes, keeps the match: sendAndShutdown
\* appends on an open connection only, and closes it when the response does.
LEMMA SendInv ==
    ASSUME AnswerInv, NEW status \in {200, 400}, NEW close \in BOOLEAN, NEW n \in Nat,
           sendAndShutdown(status, close), Answers(status, close, n)
    PROVE  /\ sent' \in Seq(Response)
           /\ connection' \in {"kConnected", "kDisconnecting"}
           /\ Match(sent', n, connection')
<1> DEFINE r == [status |-> status, close |-> close]
<1>1. r \in Response /\ r.close = close /\ r.status = status
  BY DEF Response
<1>2. /\ sent' = IF connection = "kConnected" THEN Append(sent, r) ELSE sent
      /\ connection' = IF close THEN "kDisconnecting" ELSE connection
  BY DEF sendAndShutdown
<1> HIDE DEF r
<1>3. /\ Len(handled) \in Nat /\ Len(sent) \in Nat /\ DOMAIN sent = 1 .. Len(sent)
      /\ sent \in Seq(Response)
  BY LenProperties DEF AnswerInv
<1>4. /\ n >= Len(handled)
      /\ status = 200 => n = Len(handled) + 1
      /\ status = 400 => close
  BY <1>3 DEF Answers
<1>5. Match(sent, Len(handled), connection)
  BY Zenon DEF AnswerInv
<1>6. CASE connection = "kConnected"
  <2>1. sent' = Append(sent, r)
    BY <1>2, <1>6
  <2>2. /\ sent' \in Seq(Response) /\ Len(sent') = Len(sent) + 1
        /\ DOMAIN sent' = 1 .. Len(sent) + 1
        /\ sent'[Len(sent) + 1] = r
        /\ \A i \in 1 .. Len(sent) : sent'[i] = sent[i]
    <3>1. sent' \in Seq(Response) /\ Len(sent') = Len(sent) + 1
      BY <1>1, <1>3, <2>1, AppendProperties
    <3>2. /\ sent'[Len(sent) + 1] = r
          /\ \A i \in 1 .. Len(sent) : sent'[i] = sent[i]
      BY <1>1, <1>3, <2>1, AppendProperties
    <3> QED
      BY <3>1, <3>2, LenProperties
  <2>3. /\ Len(sent) = Len(handled)
        /\ \A i \in 1 .. Len(sent) : ~sent[i].close /\ sent[i].status # 400
    <3>1. /\ Len(sent) = Len(handled)
          /\ \A i \in DOMAIN sent : ~sent[i].close /\ (sent[i].status = 400 => sent[i].close)
      BY <1>6, <1>5, Zenon DEF Match
    <3> QED
      BY <1>3, <3>1
  <2>4. ASSUME NEW i \in DOMAIN sent'
        PROVE  /\ sent'[i].status = 200 => i <= n
               /\ sent'[i].status = 400 => sent'[i].close
               /\ sent'[i].close => i = Len(sent')
    <3>1. CASE i \in 1 .. Len(sent)
      BY <1>3, <1>4, <2>2, <2>3, <3>1
    <3>2. CASE i = Len(sent) + 1
      <4>1. sent'[i] = r /\ i = Len(sent')
        BY <2>2, <3>2, Zenon
      <4>2. status = 200 => i <= n
        BY <1>3, <1>4, <2>3, <3>2
      <4> QED
        BY <1>1, <1>4, <4>1, <4>2, Zenon
    <3> QED
      BY <1>3, <2>2, <3>1, <3>2
  <2>5. connection' = "kConnected" =>
           Len(sent') = n /\ \A i \in DOMAIN sent' : ~sent'[i].close
    <3> SUFFICES ASSUME connection' = "kConnected"
                 PROVE  Len(sent') = n /\ \A i \in DOMAIN sent' : ~sent'[i].close
      OBVIOUS
    <3>1. ~close /\ status = 200
      BY <1>2, <1>4
    <3>2. Len(sent') = n
      BY <1>3, <1>4, <2>2, <2>3, <3>1
    <3>3. ASSUME NEW i \in DOMAIN sent' PROVE ~sent'[i].close
      <4>1. CASE i \in 1 .. Len(sent)
        BY <2>2, <2>3, <4>1
      <4>2. CASE i = Len(sent) + 1
        BY <1>1, <2>2, <3>1, <4>2
      <4> QED
        BY <1>3, <2>2, <4>1, <4>2
    <3> QED
      BY <3>2, <3>3
  <2>6. connection' \in {"kConnected", "kDisconnecting"}
    BY <1>2, <1>6
  <2> QED
    BY <2>2, <2>4, <2>5, <2>6, Zenon DEF Match
<1>7. CASE connection = "kDisconnecting"
  <2>1. sent' = sent /\ connection' = "kDisconnecting"
    BY <1>2, <1>7
  <2>2. ASSUME NEW i \in DOMAIN sent
        PROVE  /\ sent[i].status = 200 => i <= n
               /\ sent[i].status = 400 => sent[i].close
               /\ sent[i].close => i = Len(sent)
    <3>1. /\ sent[i].status = 200 => i <= Len(handled)
          /\ sent[i].status = 400 => sent[i].close
          /\ sent[i].close => i = Len(sent)
      BY <1>5, Zenon DEF Match
    <3> QED
      BY <1>3, <1>4, <3>1
  <2> QED
    BY <1>3, <2>1, <2>2 DEF Match
<1> QED
  BY <1>6, <1>7 DEF AnswerInv

\* addHeader keeps the request's type.
LEMMA AddHeaderType ==
    ASSUME NEW req \in Request, NEW l PROVE addHeader(req, l) \in Request
<1> DEFINE values == {h \in Headers \ {"none"} : h \in ToSet(l)}
<1>1. CASE values = {}
  BY <1>1 DEF addHeader
<1>2. CASE values # {}
  <2>1. (CHOOSE h \in values : TRUE) \in values
    BY <1>2
  <2>2. (CHOOSE h \in values : TRUE) \in {"", "close", "Keep-Alive"}
    <3>1. \A h \in values : h \in {"", "close", "Keep-Alive"}
      BY Zenon DEF Headers
    <3> QED
      BY <2>1, <3>1, Zenon
  <2>3. addHeader(req, l) = [req EXCEPT !.Connection = CHOOSE h \in values : TRUE]
    BY <1>2 DEF addHeader
  <2> HIDE DEF values
  <2> QED
    BY <2>2, <2>3, Zenon DEF Request
<1> QED
  BY <1>1, <1>2

\* Every step preserves AnswerInv.
LEMMA AnswerStep == AnswerInv /\ [Next]_vars => AnswerInv'
<1> SUFFICES ASSUME AnswerInv, [Next]_vars PROVE AnswerInv'
  OBVIOUS
<1>1. CASE UNCHANGED <<sent, connection, handled, request_>>
  BY <1>1 DEF AnswerInv, Match
<1>2. CASE methodAsserts
  BY <1>1, <1>2 DEF methodAsserts
<1>3. CASE requestLine
  <2>1. /\ request_' = [request_ EXCEPT !.method_ = TRUE, !.version_ = getVersion(line_)]
        /\ sent' = sent /\ connection' = connection /\ handled' = handled
    BY <1>3, Zenon DEF requestLine
  <2>2. getVersion(line_) \in Version
    BY Zenon DEF getVersion, Version
  <2>3. request_' \in Request
    BY <2>1, <2>2, Zenon DEF AnswerInv, Request
  <2> QED
    BY <2>1, <2>3, Zenon DEF AnswerInv
<1>4. CASE badRequestLine
  <2> DEFINE close == TRUE
  <2>1. /\ sendAndShutdown(400, close) /\ handled' = handled
        /\ request_' = [request_ EXCEPT !.method_ = @ \/ hasMethod(line_)]
    BY <1>4, Zenon DEF badRequestLine
  <2>2. request_' \in Request
    BY <2>1, Zenon DEF AnswerInv, Request
  <2>3. Len(handled) \in Nat
    BY LenProperties DEF AnswerInv
  <2>4. 400 \in {200, 400} /\ close \in BOOLEAN /\ Answers(400, close, Len(handled))
    BY Zenon DEF Answers
  <2> HIDE DEF close
  <2>5. /\ sent' \in Seq(Response) /\ connection' \in {"kConnected", "kDisconnecting"}
        /\ Match(sent', Len(handled), connection')
    BY <2>1, <2>3, <2>4, SendInv, SMT
  <2> QED
    BY <2>1, <2>2, <2>5, Zenon DEF AnswerInv
<1>5. CASE header
  <2>1. /\ request_' = addHeader(request_, line_)
        /\ sent' = sent /\ connection' = connection /\ handled' = handled
    BY <1>5, Zenon DEF header
  <2>2. request_' \in Request
    BY <2>1, AddHeaderType, Zenon DEF AnswerInv
  <2> QED
    BY <2>1, <2>2, Zenon DEF AnswerInv
<1>6. ASSUME NEW callback \in Callback, gotAll(callback) PROVE AnswerInv'
  <2> DEFINE close == closeConnection(request_, callback)
  <2>1. /\ sendAndShutdown(200, close) /\ request_' = NoRequest
        /\ handled' = Append(handled, request_)
    BY <1>6, Zenon DEF gotAll
  <2>2. close \in BOOLEAN
    BY Zenon DEF closeConnection, mustClose
  <2> HIDE DEF close
  <2>3. request_' \in Request
    BY <2>1, Zenon DEF NoRequest, Request, Version
  <2>4. /\ handled' \in Seq(Request) /\ Len(handled') = Len(handled) + 1
        /\ Len(handled') \in Nat
    BY <2>1, AppendProperties, LenProperties DEF AnswerInv
  <2>5. 200 \in {200, 400} /\ Answers(200, close, Len(handled'))
    BY <2>4, Zenon DEF Answers
  <2>6. /\ sent' \in Seq(Response) /\ connection' \in {"kConnected", "kDisconnecting"}
        /\ Match(sent', Len(handled'), connection')
    BY <2>1, <2>2, <2>4, <2>5, SendInv, SMT
  <2> QED
    BY <2>3, <2>4, <2>6, Zenon DEF AnswerInv
<1>7. CASE Next
  <2>1. CASE \E n \in 1 .. Len(bytes) - received : handleRead(n)
    BY <1>1, <2>1 DEF handleRead
  <2>2. CASE incomplete
    BY <1>1, <2>2 DEF incomplete
  <2> QED
    BY <1>2, <1>3, <1>4, <1>5, <1>6, <1>7, <2>1, <2>2, Zenon DEF Next
<1> QED
  BY <1>1, <1>7 DEF vars

\* The responses match the requests handled one for one until the connection is shut
\* down, and nothing is sent after a response that closes, whatever the peer sends and
\* whatever the callback makes of closeConnection.
THEOREM ResponsesMatch == Spec => []OneAnswerEach
<1>1. Init => AnswerInv
  <2> SUFFICES ASSUME Init PROVE AnswerInv
    OBVIOUS
  <2>1. sent = <<>> /\ sent \in Seq(Response) /\ DOMAIN sent = {} /\ Len(sent) = 0
    BY EmptySeq DEF Init
  <2>2. handled = <<>> /\ handled \in Seq(Request) /\ Len(handled) = 0
    BY EmptySeq DEF Init
  <2>3. request_ \in Request /\ connection = "kConnected"
    BY Zenon DEF Init, NoRequest, Request, Version
  <2> QED
    BY <2>1, <2>2, <2>3 DEF AnswerInv, Match
<1>2. AnswerInv => OneAnswerEach
  BY DEF AnswerInv, Match, OneAnswerEach
<1> QED
  BY <1>1, <1>2, AnswerStep, PTL DEF Spec
================================================================================
