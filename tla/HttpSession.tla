----------------------------- MODULE HttpSession -----------------------------
(***************************************************************************)
(* One connection of the HTTP server: Session reads, feeds the incremental *)
(* Parser, dispatches through the Router, writes the response and reads on.*)
(*                                                                         *)
(* The client's bytes are the sequence stream.  A line is two bytes, of    *)
(* which the second ends it, so that TCP can cut within lines; a byte knows*)
(* its message and what line it belongs to.  The parser's buffer_ is always*)
(* a segment of the stream, kept as the positions lo+1..hi; the headers and*)
(* the body of a request are sets of positions.                            *)
(*                                                                         *)
(* A definition X_y just before X is a faulty variant of X; no             *)
(* specification uses it.                                                  *)
(***************************************************************************)
EXTENDS Naturals, Sequences

CONSTANTS
    Kinds,        \* the requests a client may send
    MaxMessages,  \* bound: requests on the connection
    ReadBuf       \* size of read_buf_

\* route: what dispatch finds for method and path.  fault: a malformed request
\* line or header line.
MessageSet == [headers : Nat, length : Nat, route : {"handler", "method", "none"},
               fault : {"none", "line", "header"}]

ASSUME KindsAssumption == Kinds \subseteq MessageSet
ASSUME SizesAssumption == MaxMessages \in Nat /\ ReadBuf \in Nat \ {0}

VARIABLES
    messages,   \* the requests the client has sent, one after the other
    stream,     \* their bytes
    io,         \* "reading", "writing" or "closed"
    state,      \* state_ of the parser
    lo, hi,     \* buffer_ is stream[lo+1..hi]; hi bytes have been read
    req,        \* req_
    reply,      \* response being written
    responses   \* responses written

clientVars == <<messages, stream>>
parserVars == <<state, lo, req>>
vars == <<clientVars, io, hi, parserVars, reply, responses>>

\* The lines of request m: a Content-Length header, the last, only if there is a body.
LineCount(m) ==
    m.headers + 2 + (IF m.fault = "header" THEN 1 ELSE 0) + (IF m.length > 0 THEN 1 ELSE 0)
LineOf(m, j) ==
    CASE j = 1 -> IF m.fault = "line" THEN "bad" ELSE "request"
      [] j \in 2..(m.headers + 1) -> "header"
      [] j = LineCount(m) -> "blank"
      [] j = m.headers + 2 /\ m.fault = "header" -> "bad"
      [] OTHER -> "length"

\* The bytes of m, the k-th request: its lines, then its body.
Bytes(m, k) ==
    [i \in 1..(2 * LineCount(m) + m.length) |->
        IF i <= 2 * LineCount(m)
        THEN [kind |-> LineOf(m, (i + 1) \div 2), lf |-> i % 2 = 0, msg |-> k]
        ELSE [kind |-> "body", lf |-> FALSE, msg |-> k]]

NoRequest == [msg |-> 0, headers |-> {}, length |-> 0, body |-> {}]
NoReply == [status |-> 0, req |-> NoRequest]

Init ==
    /\ messages = << >> /\ stream = << >>
    /\ io = "reading"
    /\ state = "METHOD" /\ lo = 0 /\ hi = 0 /\ req = NoRequest
    /\ reply = NoReply /\ responses = << >>

-----------------------------------------------------------------------------
(* Parser::feed.                                                           *)

\* What the line from p to its end q is; a piece of a line is no request line.
LineKind(p, q) == IF q = p + 1 THEN stream[q].kind ELSE "bad"

\* One pass of try_consume_line, for the line that ends at q.
ParseLine(p, q) ==
    LET kind == LineKind(p.lo + 1, q)
        next == [p EXCEPT !.lo = q]
    IN  CASE p.state = "METHOD" /\ kind = "request" ->
               [next EXCEPT !.state = "HEADER_KEY", !.req.msg = stream[q].msg]
          [] p.state = "HEADER_KEY" /\ kind = "blank" ->
               [next EXCEPT !.state = "BODY"]
          [] p.state = "HEADER_KEY" /\ kind = "length" ->
               [next EXCEPT !.req.length = messages[stream[q].msg].length]
          [] p.state = "HEADER_KEY" /\ kind \notin {"blank", "length", "bad"} ->
               [next EXCEPT !.req.headers = @ \cup {q}]
          [] p.state = "METHOD" /\ kind # "request" -> [p EXCEPT !.state = "ERROR"]
          [] p.state = "HEADER_KEY" /\ kind = "bad" -> [p EXCEPT !.state = "ERROR"]
          [] OTHER -> p

ParseBody_waitsForMore(p, n) ==
    IF p.state = "BODY" /\ n - p.lo > p.req.length
    THEN [p EXCEPT !.state = "DONE", !.lo = p.lo + p.req.length,
                   !.req.body = (p.lo + 1)..(p.lo + p.req.length)]
    ELSE p
\* The body, once all of it is in the buffer, which then ends at n.
ParseBody(p, n) ==
    IF p.state = "BODY" /\ n - p.lo >= p.req.length
    THEN [p EXCEPT !.state = "DONE", !.lo = p.lo + p.req.length,
                   !.req.body = (p.lo + 1)..(p.lo + p.req.length)]
    ELSE p

\* feed, when it is given the bytes hi+1..n: passes[q] is the parser once it has tried
\* the lines that end in lo+1..q.
Passes(n) ==
    LET passes[q \in lo..n] ==
            IF q = lo THEN [state |-> state, lo |-> lo, req |-> req]
            ELSE IF stream[q].lf THEN ParseLine(passes[q - 1], q)
            ELSE passes[q - 1]
    IN  passes
Feed(n) == ParseBody(Passes(n)[n], n)

-----------------------------------------------------------------------------
(* Session and Router.                                                     *)

\* Router::dispatch: no fallback is set.
Dispatch(r) ==
    LET route == messages[r.msg].route
    IN  [status |-> CASE route = "handler" -> 200
                      [] route = "method"  -> 405
                      [] OTHER             -> 404,
         req |-> r]

BadRequest == [status |-> 400, req |-> NoRequest]

\* The client sends the next request when it has the response to the last one, and
\* gives up after a malformed request.
SendRequest ==
    \E m \in Kinds :
        /\ Len(messages) < MaxMessages
        /\ Len(responses) = Len(messages)
        /\ \A j \in 1..Len(messages) : messages[j].fault = "none"
        /\ messages' = Append(messages, m)
        /\ stream' = stream \o Bytes(m, Len(messages) + 1)
        /\ UNCHANGED <<io, hi, parserVars, reply, responses>>

\* The completion handler of do_read.
Read ==
    \E n \in (hi + 1)..(hi + ReadBuf) :
        /\ io = "reading" /\ n <= Len(stream)
        /\ hi' = n
        /\ LET p == Feed(n)
           IN  /\ state' = p.state /\ lo' = p.lo /\ req' = p.req
               /\ CASE p.state = "ERROR" -> io' = "writing" /\ reply' = BadRequest
                    [] p.state = "DONE"  -> io' = "writing" /\ reply' = Dispatch(p.req)
                    [] OTHER             -> UNCHANGED <<io, reply>>
        /\ UNCHANGED <<clientVars, responses>>

ReadFails ==
    /\ io = "reading"
    /\ io' = "closed"
    /\ UNCHANGED <<clientVars, hi, parserVars, reply, responses>>

\* do_write's completion: the parser is reset, with what is left in its buffer.
WriteCompletes_keepsRequest ==
    /\ io = "writing"
    /\ responses' = Append(responses, reply)
    /\ state' = "METHOD" /\ lo' = hi
    /\ io' = "reading"
    /\ reply' = NoReply
    /\ UNCHANGED <<clientVars, hi, req>>
WriteCompletes ==
    /\ io = "writing"
    /\ responses' = Append(responses, reply)
    /\ state' = "METHOD" /\ lo' = hi /\ req' = NoRequest
    /\ io' = "reading"
    /\ reply' = NoReply
    /\ UNCHANGED <<clientVars, hi>>

WriteFails ==
    /\ io = "writing"
    /\ io' = "closed"
    /\ UNCHANGED <<clientVars, hi, parserVars, reply, responses>>

Next == SendRequest \/ Read \/ ReadFails \/ WriteCompletes \/ WriteFails

Spec == Init /\ [][Next]_vars

\* What was sent arrives or the connection fails; a write ends.
FairSpec == Spec /\ WF_vars(Read) /\ WF_vars(WriteCompletes \/ WriteFails)

-----------------------------------------------------------------------------
(* Properties.                                                             *)

\* Reference: what message k asks for, whatever way TCP cut it.
Own(kind, k) == {i \in 1..Len(stream) : stream[i].kind = kind /\ stream[i].msg = k}
Expected(k) ==
    IF messages[k].fault # "none" THEN BadRequest
    ELSE Dispatch([msg |-> k, length |-> messages[k].length,
                   headers |-> {i \in Own("header", k) : stream[i].lf},
                   body |-> Own("body", k)])

\* A client gets, in order, the response to each request it sent, made from that
\* request's headers and body and nothing else, up to its first malformed request,
\* whose answer is 400 (Parser::feed, Session::do_read and do_write).
AnswersRequests ==
    \A k \in 1..Len(responses) :
        (\A j \in 1..Len(messages) : j < k => messages[j].fault = "none")
            => k <= Len(messages) /\ responses[k] = Expected(k)

\* Every request that was sent is answered, unless the connection fails: a parser that
\* waits has overlooked no line and no body in its buffer.
RequestsAnswered ==
    \A k \in 1..MaxMessages :
        (Len(messages) >= k) ~> (Len(responses) >= k \/ io = "closed")
=============================================================================
