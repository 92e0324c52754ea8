------------------------------ MODULE HttpServer ------------------------------
(***************************************************************************)
(* The HTTP server on one connection (http/): every read appends what the   *)
(* socket had to the input buffer and parses what is complete.  A byte is a *)
(* CR, an LF or a token standing for the text of a line; reads cut the      *)
(* stream anywhere.  The socket and the output side are TcpConnection's.    *)
(***************************************************************************)
EXTENDS PooledByteBuf

CONSTANTS
    Line,             \* the lines a peer may send, as token sequences without the CRLF
    MaxLines,         \* lines in a stream (a bound)
    InitialCapacity   \* of the input buffer

VARIABLES
    stream,        \* the lines the peer sends
    received,      \* bytes read so far
    inputBuffer_,
    state_,        \* of the HttpContext
    request_,      \* method_ valid?, version_, the Connection header
    connection,    \* state_ of the TcpConnection
    pc,            \* "poll", or "parse" in parseRequest's loop
    handled,       \* requests given to httpCallback_
    sent,          \* responses handed to an open connection
    answered,      \* the last read ended with a request handled
    asserted       \* assert(method_ == kInvalid) failed

vars == <<stream, received, inputBuffer_, state_, request_, connection, pc, handled, sent,
          answered, asserted>>

CRLF == <<CR, LF>>
bytes == FlattenSeq([i \in DOMAIN stream |-> stream[i] \o CRLF])
NoRequest == [method_ |-> FALSE, version_ |-> "kUnknown", Connection |-> ""]

Init ==
    /\ stream \in UNION {[1 .. n -> Line] : n \in 1 .. MaxLines}
    /\ received = 0
    /\ inputBuffer_ = newBuffer(InitialCapacity)
    /\ state_ = "kExpectRequestLine"
    /\ request_ = NoRequest
    /\ connection = "kConnected"
    /\ pc = "poll"
    /\ handled = <<>> /\ sent = <<>>
    /\ answered = FALSE /\ asserted = FALSE

----------------------------------------------------------------------------
(* What a line says.  Tokens "GET1.1" and "GET1.0" are whole request lines,  *)
(* "GET?" starts with a method and does not end as a request line has to.    *)

Text == {"GET1.1", "GET1.0", "GET?", "none", "close", "Keep-Alive"}
Headers == {"none", "close", "Keep-Alive"}   \* "none" is some other header

\* setMethod is reached: there is a space.
HasSpace(line) == ToSet(line) \cap Text # {}
hasMethod(line) == line # <<>> /\ Head(line) \in {"GET1.1", "GET1.0", "GET?"}
validRequestLine(line) == line \in {<<"GET1.1">>, <<"GET1.0">>}
getVersion(line) == IF line = <<"GET1.1">> THEN "kHttp11" ELSE "kHttp10"
HasColon(line) == ToSet(line) \cap Headers # {}

\* addHeader: the last Connection header counts.  A stray CR or LF at an end of the value
\* is trimmed with the other space.
addHeader(req, line) ==
    LET values == {h \in Headers \ {"none"} : h \in ToSet(line)}
    IN  IF values = {} THEN req ELSE [req EXCEPT !.Connection = CHOOSE h \in values : TRUE]

\* close, as onRequest computes it.
mustClose(req) ==
    \/ req.Connection = "close"
    \/ req.version_ = "kHttp10" /\ req.Connection # "Keep-Alive"

\* closeConnection() of the response, after an httpCallback_ that leaves it as it is or
\* calls setCloseConnection.
Callback == {"leaves", "true", "false"}
closeConnection(req, callback) ==
    IF callback = "leaves" THEN mustClose(req) ELSE callback = "true"

----------------------------------------------------------------------------
\* The line parseRequest looks at.
line_ == SubSeq(peek(inputBuffer_), 1, findCRLF(inputBuffer_) - 1)
retrieveUntil(at) == retrieve(inputBuffer_, at)

\* TcpConnection::send and shutdown, as far as they decide what is sent.
\* Mutant: send does not look at the state.
sendAnyway(status, close) ==
    /\ sent' = Append(sent, [status |-> status, close |-> close])
    /\ connection' = IF close THEN "kDisconnecting" ELSE connection

sendAndShutdown(status, close) ==
    /\ sent' = IF connection = "kConnected"
               THEN Append(sent, [status |-> status, close |-> close]) ELSE sent
    /\ connection' = IF close THEN "kDisconnecting" ELSE connection

\* handleRead with n bytes, then onMessage starts to parse.
handleRead(n) ==
    /\ pc = "poll" /\ ~asserted
    /\ n <= ReadLimit(inputBuffer_)
    /\ inputBuffer_' = readFd(inputBuffer_, SubSeq(bytes, received + 1, received + n))
    /\ received' = received + n
    /\ pc' = "parse"
    /\ answered' = FALSE
    /\ UNCHANGED <<stream, state_, request_, connection, handled, sent, asserted>>

\* No CRLF yet: wait for the next read.
incomplete ==
    /\ pc = "parse"
    /\ findCRLF(inputBuffer_) = 0
    /\ pc' = "poll"
    /\ UNCHANGED <<stream, received, inputBuffer_, state_, request_, connection, handled, sent,
                   answered, asserted>>

\* setMethod meets the method of a line it already parsed.
methodAsserts ==
    /\ pc = "parse" /\ state_ = "kExpectRequestLine"
    /\ findCRLF(inputBuffer_) # 0
    /\ HasSpace(line_) /\ request_.method_
    /\ asserted' = TRUE
    /\ pc' = "poll"
    /\ UNCHANGED <<stream, received, inputBuffer_, state_, request_, connection, handled, sent, answered>>

requestLine ==
    /\ pc = "parse" /\ state_ = "kExpectRequestLine"
    /\ findCRLF(inputBuffer_) # 0
    /\ ~request_.method_
    /\ validRequestLine(line_)
    /\ request_' = [request_ EXCEPT !.method_ = TRUE, !.version_ = getVersion(line_)]
    /\ inputBuffer_' = retrieveUntil(findCRLF(inputBuffer_) + 1)
    /\ state_' = "kExpectHeaders"
    /\ UNCHANGED <<stream, received, connection, pc, handled, sent, answered, asserted>>

\* processRequestLine fails: 400 and shutdown.  The line stays in the buffer and what was
\* set of the request stays set.
badRequestLine ==
    /\ pc = "parse" /\ state_ = "kExpectRequestLine"
    /\ findCRLF(inputBuffer_) # 0
    /\ ~(HasSpace(line_) /\ request_.method_)
    /\ ~validRequestLine(line_)
    /\ request_' = [request_ EXCEPT !.method_ = @ \/ hasMethod(line_)]
    /\ sendAndShutdown(400, TRUE)
    /\ pc' = "poll"
    /\ UNCHANGED <<stream, received, inputBuffer_, state_, handled, answered, asserted>>

header ==
    /\ pc = "parse" /\ state_ = "kExpectHeaders"
    /\ findCRLF(inputBuffer_) # 0
    /\ HasColon(line_)
    /\ request_' = addHeader(request_, line_)
    /\ inputBuffer_' = retrieveUntil(findCRLF(inputBuffer_) + 1)
    /\ UNCHANGED <<stream, received, state_, connection, pc, handled, sent, answered, asserted>>

\* Mutant: the line that ends the headers is left in the buffer.
gotAllKept(callback) ==
    /\ pc = "parse" /\ state_ = "kExpectHeaders"
    /\ findCRLF(inputBuffer_) # 0
    /\ ~HasColon(line_)
    /\ handled' = Append(handled, request_)
    /\ sendAndShutdown(200, closeConnection(request_, callback))
    /\ request_' = NoRequest
    /\ state_' = "kExpectRequestLine"
    /\ pc' = "poll"
    /\ answered' = TRUE
    /\ UNCHANGED <<stream, received, inputBuffer_, asserted>>

\* A line without a colon ends the headers, empty or not: kGotAll, onRequest and reset.
\* The rest of the buffer waits.
gotAll(callback) ==
    /\ pc = "parse" /\ state_ = "kExpectHeaders"
    /\ findCRLF(inputBuffer_) # 0
    /\ ~HasColon(line_)
    /\ handled' = Append(handled, request_)
    /\ inputBuffer_' = retrieveUntil(findCRLF(inputBuffer_) + 1)
    /\ sendAndShutdown(200, closeConnection(request_, callback))
    /\ request_' = NoRequest
    /\ state_' = "kExpectRequestLine"
    /\ pc' = "poll"
    /\ answered' = TRUE
    /\ UNCHANGED <<stream, received, asserted>>

Next ==
    \/ \E n \in 1 .. Len(bytes) - received : handleRead(n)
    \/ incomplete
    \/ methodAsserts
    \/ requestLine
    \/ badRequestLine
    \/ header
    \/ \E callback \in Callback : gotAll(callback)

Spec == Init /\ [][Next]_vars

----------------------------------------------------------------------------
(* The reference: what a stream of whole lines asks for.                     *)

Start == [open |-> FALSE, bad |-> FALSE, odd |-> FALSE, req |-> NoRequest, requests |-> <<>>]

\* One more line.  After a line that is no request line nothing is asked for any more.  An
\* "empty line, end of header" (HttpContext.cc:68) ends a request; the reference says
\* nothing of a line within the headers that is neither a header nor empty, nor of what
\* follows it.
Take(s, line) ==
    CASE s.bad \/ s.odd -> s
      [] ~s.open /\ validRequestLine(line) ->
            [s EXCEPT !.open = TRUE,
                      !.req = [NoRequest EXCEPT !.method_ = TRUE, !.version_ = getVersion(line)]]
      [] ~s.open /\ ~validRequestLine(line) -> [s EXCEPT !.bad = TRUE]
      [] s.open /\ HasColon(line) -> [s EXCEPT !.req = addHeader(@, line)]
      [] s.open /\ line = <<>> -> [s EXCEPT !.open = FALSE, !.requests = Append(@, s.req)]
      [] OTHER -> [s EXCEPT !.odd = TRUE]

\* The bytes of the first i lines, the lines that have arrived whole, and the requests
\* they make.
Upto(i) == Len(FlattenSeq([j \in 1 .. i |-> stream[j] \o CRLF]))
arrived == Max({i \in 0 .. Len(stream) : Upto(i) <= received})
Asked == FoldLeft(Take, Start, SubSeq(stream, 1, arrived))

\* However the reads cut the stream, and wherever the buffer grew or started over, what is
\* done is what the lines that arrived ask for: the requests handled are the first ones
\* they make, a read that handled none leaves none waiting in the buffer, and a 400 is
\* sent only for a line that is no request line where one has to be, which always ends
\* the connection's responses.
RequestsHandled ==
    /\ ~Asked.odd => IsPrefix(handled, Asked.requests)
    /\ pc = "poll" /\ ~answered /\ ~asserted =>
          /\ IsPrefix(Asked.requests, handled)
          /\ Asked.bad => connection = "kDisconnecting"
    /\ ~Asked.odd => \A i \in DOMAIN sent : sent[i].status = 400 => Asked.bad

\* The buffer holds the last of the bytes received, unchanged by growth and by the part
\* that came through extrabuf, and what it no longer holds is whole lines.
BytesKept ==
    /\ IsSuffix(peek(inputBuffer_), SubSeq(bytes, 1, received))
    /\ \E i \in 0 .. Len(stream) : Upto(i) = received - readableBytes(inputBuffer_)

\* The responses match the requests, although reads go on and requests are still parsed
\* on a connection that is shutting down: while the connection is open every request
\* handled has had one response; the i-th response answers the i-th request, or is the
\* 400, which closes; and nothing is sent after a response that closes.
OneAnswerEach ==
    /\ connection = "kConnected" => Len(sent) = Len(handled)
    /\ \A i \in DOMAIN sent :
          /\ sent[i].status = 200 => i <= Len(handled)
          /\ sent[i].status = 400 => sent[i].close
          /\ sent[i].close => i = Len(sent)

\* assert(method_ == kInvalid) in setMethod (HttpRequest.h:30) never fails.
MethodSetOnce == ~asserted
================================================================================
