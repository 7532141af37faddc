-------------------------- MODULE HttpSessionProofs --------------------------
(***************************************************************************)
(* Proofs about HttpSession: however TCP cuts the requests, each is        *)
(* answered from its own bytes.                                            *)
(*                                                                         *)
(* The parser's record after the first d bytes of a request is a function  *)
(* of the lines that end in them (Parsed), as long as none of these is bad.*)
(* An induction on the bytes that one feed is given shows that feed keeps  *)
(* it so; the invariant says what parser, response being written and       *)
(* responses are between two events.                                       *)
(***************************************************************************)
EXTENDS HttpSession, WellFoundedInduction, TLAPS

\* A set that has 0 and the successor of each of its numbers has them all.
LEMMA NatSetInduction ==
    ASSUME NEW T, 0 \in T, \A n \in Nat : n \in T => n + 1 \in T
    PROVE  Nat \subseteq T
  <1> DEFINE R == {ss \in Nat \X Nat : ss[1] < ss[2]}
  <1>1. IsWellFoundedOn(R, Nat)
    BY NatLessThanWellFounded DEF OpToRel
  <1>2. ASSUME NEW x \in Nat \ T PROVE \E y \in Nat \ T : <<y, x>> \in R
    <2>1. x # 0 /\ x - 1 \in Nat /\ x - 1 < x /\ (x - 1) + 1 = x
      OBVIOUS
    <2>2. x - 1 \notin T
      BY <2>1
    <2> QED BY <2>1, <2>2
  <1> HIDE DEF R
  <1>3. Nat \ T = {}
    BY <1>1, <1>2, WFMin
  <1> QED BY <1>3

Requests == [msg : Nat, headers : SUBSET Nat, length : Nat, body : SUBSET Nat]
Parsers == [state : {"METHOD", "HEADER_KEY", "BODY", "DONE", "ERROR"}, lo : Nat,
            req : Requests]
Replies == [status : Nat, req : Requests]
ByteSet == [kind : {"bad", "request", "header", "length", "blank", "body"},
            lf : BOOLEAN, msg : Nat]

Parser == [state |-> state, lo |-> lo, req |-> req]

\* The variables are of their types, and the buffer is a segment of the stream.
TypeOK ==
    /\ messages \in Seq(Kinds)
    /\ stream \in Seq(ByteSet)
    /\ io \in {"reading", "writing", "closed"}
    /\ Parser \in Parsers
    /\ hi \in 0..Len(stream) /\ lo <= hi
    /\ reply \in Replies
    /\ responses \in Seq(Replies)

SizeOf(m) == 2 * LineCount(m) + m.length

\* The request being sent or answered, and where its bytes begin.
Last == messages[Len(messages)]
Base == Len(stream) - SizeOf(Last)

\* The line that the parser refuses, or one past the last.
BadLine(m) == CASE m.fault = "line" -> 1
                [] m.fault = "header" -> m.headers + 2
                [] OTHER -> LineCount(m) + 1

\* How many lines of m end in its first d bytes.
Ended(m, d) == IF d < 2 * LineCount(m) THEN d \div 2 ELSE LineCount(m)

\* The parser after e lines of m, the k-th request, whose bytes follow byte b.
HeaderEnds(m, b, e) == {i \in Nat : \E j \in 2..(m.headers + 1) : j <= e /\ i = b + 2 * j}
Parsed(m, k, b, e) ==
    [state |-> CASE e = 0 -> "METHOD"
                 [] e = LineCount(m) -> "BODY"
                 [] OTHER -> "HEADER_KEY",
     lo |-> b + 2 * e,
     req |-> [msg |-> IF e = 0 THEN 0 ELSE k,
              headers |-> HeaderEnds(m, b, e),
              length |-> IF e + 1 >= LineCount(m) THEN m.length ELSE 0,
              body |-> {}]]

\* The stream ends with the bytes of the last request, and those before it belong to
\* earlier ones, none of which was malformed.
StreamInv ==
    /\ \A i \in 1..Len(stream) : stream[i].msg \in 1..Len(messages)
    /\ messages # << >> =>
        /\ Base >= 0
        /\ \A i \in 1..SizeOf(Last) : stream[Base + i] = Bytes(Last, Len(messages))[i]
        /\ \A i \in 1..Base : stream[i].msg < Len(messages)
    /\ \A j \in 1..(Len(messages) - 1) : messages[j].fault = "none"

\* The last request is being received: its lines in the buffer are parsed, none is bad,
\* and some of its bytes have not been read.
Receiving ==
    /\ hi >= Base /\ hi < Len(stream)
    /\ Ended(Last, hi - Base) < BadLine(Last)
    /\ Parser = Parsed(Last, Len(messages), Base, Ended(Last, hi - Base))

\* Every request is answered, and the parser holds nothing.
AtRest == lo = Len(stream) /\ hi = Len(stream) /\ state = "METHOD" /\ req = NoRequest

\* At most the last request is unanswered; its response, when it is being written, is
\* the one expected; without a malformed request nothing else is ever written.
ProgressInv ==
    /\ Len(responses) + 1 >= Len(messages)
    /\ \A k \in 1..Len(responses) : k <= Len(messages) => responses[k] = Expected(k)
    /\ Len(responses) + 1 = Len(messages) =>
        /\ io = "reading" => Receiving
        /\ io = "writing" => reply = Expected(Len(messages))
                              /\ (Last.fault = "none" => hi = Len(stream))
    /\ Len(responses) = Len(messages) /\ (messages = << >> \/ Last.fault = "none") =>
        /\ io # "writing"
        /\ io = "reading" => AtRest
    /\ Len(responses) > Len(messages) => messages # << >> /\ Last.fault # "none"

IInv == TypeOK /\ StreamInv /\ ProgressInv

-----------------------------------------------------------------------------
(* The passes that a feed makes.                                           *)

\* What the pass at byte q makes of the record p.
Pass(p, q) == IF stream[q].lf THEN ParseLine(p, q) ELSE p

\* g lists the records of the passes up to byte n.
PassesTo(g, n) == g = [q \in lo..n |-> IF q = lo THEN Parser ELSE Pass(g[q - 1], q)]

\* The recursion of passes has a solution.
LEMMA PassesExist ==
    ASSUME lo \in Nat
    PROVE  \A n \in Nat : lo <= n => \E g : PassesTo(g, n)
  <1> DEFINE T == {i \in Nat : \E g : PassesTo(g, lo + i)}
  <1>1. 0 \in T
    <2> DEFINE g == [q \in lo..(lo + 0) |-> Parser]
    <2>1. PassesTo(g, lo + 0)
      BY DEF PassesTo
    <2> QED BY <2>1
  <1>2. ASSUME NEW i \in Nat, i \in T PROVE i + 1 \in T
    <2>1. PICK g : PassesTo(g, lo + i)
      BY <1>2
    <2>2. PICK n \in Nat : n = lo + i
      OBVIOUS
    <2> DEFINE h == [q \in lo..(n + 1) |-> IF q = n + 1 THEN Pass(g[n], q) ELSE g[q]]
    <2>3. ASSUME NEW q \in lo..(n + 1)
          PROVE  h[q] = IF q = lo THEN Parser ELSE Pass(h[q - 1], q)
      <3>1. CASE q = n + 1
        <4>1. q # lo /\ q - 1 = n /\ h[q - 1] = g[n]
          BY <2>2, <3>1
        <4> QED BY <3>1, <4>1
      <3>2. CASE q # n + 1
        <4>1. q \in lo..n /\ h[q] = g[q]
          BY <2>2, <3>2
        <4>2. g[q] = IF q = lo THEN Parser ELSE Pass(g[q - 1], q)
          BY <2>1, <2>2, <4>1 DEF PassesTo
        <4>3. q # lo => h[q - 1] = g[q - 1]
          BY <2>2, <4>1
        <4> QED BY <4>1, <4>2, <4>3
      <3> QED BY <3>1, <3>2
    <2>4. h = [q \in lo..(n + 1) |-> IF q = lo THEN Parser ELSE Pass(h[q - 1], q)]
      <3>1. h = [q \in lo..(n + 1) |-> h[q]]
        OBVIOUS
      <3> HIDE DEF h
      <3> QED BY <2>3, <3>1
    <2>5. PassesTo(h, lo + (i + 1))
      <3> HIDE DEF h
      <3>1. lo + (i + 1) = n + 1
        BY <2>2
      <3> QED BY <2>4, <3>1 DEF PassesTo
    <2> QED BY <2>5
  <1>3. Nat \subseteq T
    <2> HIDE DEF T
    <2> QED BY <1>1, <1>2, NatSetInduction
  <1>4. ASSUME NEW n \in Nat, lo <= n PROVE \E g : PassesTo(g, n)
    <2>1. n - lo \in T /\ lo + (n - lo) = n
      BY <1>3, <1>4
    <2> QED BY <2>1
  <1> QED BY <1>4

\* Each pass works on the record that the one before it left.
LEMMA PassByPass ==
    ASSUME lo \in Nat, NEW n \in Nat, lo <= n
    PROVE  /\ Passes(n)[lo] = Parser
           /\ \A q \in (lo + 1)..n : Passes(n)[q] = Pass(Passes(n)[q - 1], q)
  <1>1. PICK g : PassesTo(g, n)
    BY PassesExist
  <1>2. PassesTo(Passes(n), n)
    BY <1>1 DEF PassesTo, Passes, Pass, Parser
  <1> QED BY <1>2 DEF PassesTo

-----------------------------------------------------------------------------
(* Types of what the parser makes.                                         *)

\* A line leaves a record of the parser, whose buffer begins after it or where it did.
LEMMA ParseLineType ==
    ASSUME TypeOK, StreamInv, NEW p \in Parsers, NEW q \in 1..Len(stream)
    PROVE  ParseLine(p, q) \in Parsers /\ ParseLine(p, q).lo \in {p.lo, q}
  <1>1. /\ p.state \in {"METHOD", "HEADER_KEY", "BODY", "DONE", "ERROR"}
        /\ p.req \in Requests /\ p.lo \in Nat
        /\ p = [state |-> p.state, lo |-> p.lo, req |-> p.req]
    BY DEF Parsers
  <1>2. stream[q].msg \in 1..Len(messages) /\ stream[q].msg \in Nat
    BY DEF TypeOK, StreamInv, ByteSet
  <1>3. messages[stream[q].msg].length \in Nat
    <2>1. messages[stream[q].msg] \in Kinds
      BY <1>2 DEF TypeOK
    <2> QED BY <2>1, KindsAssumption DEF MessageSet
  <1>4. PICK k : k = LineKind(p.lo + 1, q)
    OBVIOUS
  <1>5. CASE p.state = "METHOD" /\ k = "request"
    <2>1. ParseLine(p, q) = [state |-> "HEADER_KEY", lo |-> q,
                             req |-> [p.req EXCEPT !.msg = stream[q].msg]]
      <3>1. ParseLine(p, q) = [[p EXCEPT !.lo = q] EXCEPT
                                  !.state = "HEADER_KEY", !.req.msg = stream[q].msg]
        BY <1>4, <1>5 DEF ParseLine
      <3> QED BY <1>1, <3>1
    <2> QED BY <1>1, <1>2, <2>1 DEF Parsers, Requests
  <1>6. CASE p.state = "HEADER_KEY" /\ k = "blank"
    <2>1. ParseLine(p, q) = [state |-> "BODY", lo |-> q, req |-> p.req]
      <3>1. ParseLine(p, q) = [[p EXCEPT !.lo = q] EXCEPT !.state = "BODY"]
        BY <1>4, <1>6 DEF ParseLine
      <3> QED BY <1>1, <3>1
    <2> QED BY <1>1, <2>1 DEF Parsers
  <1>7. CASE p.state = "HEADER_KEY" /\ k = "length"
    <2>1. ParseLine(p, q) = [state |-> p.state, lo |-> q,
                    req |-> [p.req EXCEPT !.length = messages[stream[q].msg].length]]
      <3>1. ParseLine(p, q) = [[p EXCEPT !.lo = q] EXCEPT
                                  !.req.length = messages[stream[q].msg].length]
        BY <1>4, <1>7 DEF ParseLine
      <3> QED BY <1>1, <3>1
    <2> QED BY <1>1, <1>3, <2>1 DEF Parsers, Requests
  <1>8. CASE p.state = "HEADER_KEY" /\ k \notin {"blank", "length", "bad"}
    <2>1. ParseLine(p, q) = [state |-> p.state, lo |-> q,
                             req |-> [p.req EXCEPT !.headers = p.req.headers \cup {q}]]
      <3>1. ParseLine(p, q) = [[p EXCEPT !.lo = q] EXCEPT !.req.headers = @ \cup {q}]
        BY <1>4, <1>8 DEF ParseLine
      <3> QED BY <1>1, <3>1
    <2> QED BY <1>1, <2>1 DEF Parsers, Requests
  <1>9. CASE \/ p.state = "METHOD" /\ k # "request"
             \/ p.state = "HEADER_KEY" /\ k = "bad"
             \/ p.state \notin {"METHOD", "HEADER_KEY"}
    <2>1. ParseLine(p, q) = [p EXCEPT !.state = "ERROR"] \/ ParseLine(p, q) = p
      BY <1>1, <1>4, <1>9 DEF ParseLine
    <2> QED BY <1>1, <2>1 DEF Parsers
  <1> QED BY <1>5, <1>6, <1>7, <1>8, <1>9

\* So does the body; it does not reach beyond the buffer.
LEMMA ParseBodyType ==
    ASSUME NEW p \in Parsers, NEW n \in Nat
    PROVE  ParseBody(p, n) \in Parsers /\ (p.lo <= n => ParseBody(p, n).lo <= n)
  <1>1. p.req \in Requests /\ p.lo \in Nat /\ p.req.length \in Nat
    BY DEF Parsers, Requests
  <1>2. CASE p.state = "BODY" /\ n - p.lo >= p.req.length
    <2>1. PICK b : b = (p.lo + 1)..(p.lo + p.req.length)
      OBVIOUS
    <2>2. b \in SUBSET Nat
      BY <1>1, <2>1
    <2>3. ParseBody(p, n) = [state |-> "DONE", lo |-> p.lo + p.req.length,
                             req |-> [p.req EXCEPT !.body = b]]
      BY <1>1, <1>2, <2>1 DEF ParseBody, Parsers, Requests
    <2>4. [p.req EXCEPT !.body = b] \in Requests
      BY <1>1, <2>2 DEF Requests
    <2>5. p.lo + p.req.length \in Nat /\ p.lo + p.req.length <= n
      BY <1>1, <1>2
    <2>6. ParseBody(p, n) \in Parsers
      BY <2>3, <2>4, <2>5 DEF Parsers
    <2> QED BY <2>3, <2>5, <2>6
  <1>3. CASE ~ (p.state = "BODY" /\ n - p.lo >= p.req.length)
    BY <1>3 DEF ParseBody
  <1> QED BY <1>2, <1>3

\* Every pass of a feed leaves a record, and so does the feed.
LEMMA FeedType ==
    ASSUME TypeOK, StreamInv, NEW n \in hi..Len(stream)
    PROVE  Feed(n) \in Parsers /\ Feed(n).lo <= n
  <1>1. lo \in Nat /\ lo <= n /\ n \in Nat /\ Len(stream) \in Nat /\ Parser \in Parsers
    BY DEF TypeOK, Parser, Parsers
  <1> DEFINE T == {i \in Nat : lo + i <= n => /\ Passes(n)[lo + i] \in Parsers
                                                /\ Passes(n)[lo + i].lo <= lo + i}
  <1>2. 0 \in T
    <2>1. Passes(n)[lo + 0] = Parser /\ Parser.lo = lo
      BY <1>1, PassByPass DEF Parser
    <2> QED BY <1>1, <2>1
  <1>3. ASSUME NEW i \in Nat, i \in T PROVE i + 1 \in T
    <2> SUFFICES ASSUME lo + (i + 1) <= n
                 PROVE  /\ Passes(n)[lo + (i + 1)] \in Parsers
                        /\ Passes(n)[lo + (i + 1)].lo <= lo + (i + 1)
      OBVIOUS
    <2>1. PICK q \in (lo + 1)..n : q = lo + (i + 1) /\ q - 1 = lo + i /\ q \in 1..Len(stream)
      BY <1>1
    <2>2. PICK p \in Parsers : p = Passes(n)[q - 1] /\ p.lo <= q - 1 /\ p.lo \in Nat
      BY <1>1, <1>3, <2>1 DEF Parsers
    <2>3. Passes(n)[q] = Pass(Passes(n)[q - 1], q)
      BY <1>1, PassByPass
    <2>4. Pass(p, q) \in Parsers /\ Pass(p, q).lo \in {p.lo, q}
      BY <2>1, ParseLineType DEF Pass
    <2> QED BY <1>1, <2>1, <2>2, <2>3, <2>4
  <1>4. n - lo \in T /\ lo + (n - lo) = n
    <2> HIDE DEF T
    <2>1. Nat \subseteq T
      BY <1>2, <1>3, NatSetInduction
    <2> QED BY <1>1, <2>1
  <1>5. Passes(n)[n] \in Parsers /\ Passes(n)[n].lo <= n
    BY <1>1, <1>4
  <1> QED BY <1>1, <1>5, ParseBodyType DEF Feed

-----------------------------------------------------------------------------
(* The parser's record along the bytes of one request.                     *)

\* The lines of a request, one by one.
LEMMA Lines ==
    ASSUME NEW m \in MessageSet
    PROVE  /\ m.headers \in Nat /\ m.length \in Nat
           /\ m.fault \in {"none", "line", "header"}
           /\ LineCount(m) \in Nat /\ LineCount(m) >= m.headers + 2
           /\ BadLine(m) \in Nat /\ BadLine(m) >= 1
           /\ m.fault = "none" <=> BadLine(m) > LineCount(m)
           /\ SizeOf(m) \in Nat /\ SizeOf(m) >= 4
           /\ SizeOf(m) = 2 * LineCount(m) + m.length
           /\ m.fault = "line" => BadLine(m) = 1
           /\ m.fault = "header" => BadLine(m) = m.headers + 2
           /\ LineCount(m) = m.headers + 2 + (IF m.fault = "header" THEN 1 ELSE 0)
                                            + (IF m.length > 0 THEN 1 ELSE 0)
  <1>1. /\ m.headers \in Nat /\ m.length \in Nat
        /\ m.fault \in {"none", "line", "header"}
    BY DEF MessageSet
  <1> QED BY <1>1 DEF LineCount, BadLine, SizeOf

\* Each good line in turn takes the record where the lines read so far say; the bad
\* one is refused.
LEMMA LineByLine ==
    ASSUME NEW m \in MessageSet, NEW k \in Nat, messages[k] = m,
           NEW b \in Nat, NEW e \in 0..(LineCount(m) - 1), NEW q, q = b + 2 * (e + 1),
           stream[q].kind = LineOf(m, e + 1), stream[q].msg = k,
           e < BadLine(m)
    PROVE  /\ e + 1 < BadLine(m) =>
                ParseLine(Parsed(m, k, b, e), q) = Parsed(m, k, b, e + 1)
           /\ e + 1 = BadLine(m) => ParseLine(Parsed(m, k, b, e), q).state = "ERROR"
  <1>1. /\ m.headers \in Nat /\ m.length \in Nat
        /\ m.fault \in {"none", "line", "header"}
        /\ LineCount(m) = m.headers + 2 + (IF m.fault = "header" THEN 1 ELSE 0)
                                         + (IF m.length > 0 THEN 1 ELSE 0)
        /\ LineCount(m) \in Nat /\ LineCount(m) >= m.headers + 2 /\ e \in Nat
        /\ m.fault = "none" <=> BadLine(m) > LineCount(m)
        /\ m.fault = "line" => BadLine(m) = 1
        /\ m.fault = "header" => BadLine(m) = m.headers + 2
    BY Lines
  <1>2. PICK p : p = Parsed(m, k, b, e)
    OBVIOUS
  <1>3. PICK h, x, n, z : /\ z = {}
                          /\ h = HeaderEnds(m, b, e)
                          /\ x = IF e = 0 THEN 0 ELSE k
                          /\ n = IF e + 1 >= LineCount(m) THEN m.length ELSE 0
    OBVIOUS
  <1>4. /\ p.lo = b + 2 * e
        /\ p.state = CASE e = 0 -> "METHOD" [] e = LineCount(m) -> "BODY"
                       [] OTHER -> "HEADER_KEY"
        /\ p.req = [msg |-> x, headers |-> h, length |-> n, body |-> z]
        /\ p = [state |-> p.state, lo |-> p.lo, req |-> p.req]
    BY <1>2, <1>3 DEF Parsed
  <1>4a. PICK c : c = p.req /\ c = [msg |-> x, headers |-> h, length |-> n, body |-> z]
    BY <1>4
  <1>5. p.state = IF e = 0 THEN "METHOD" ELSE "HEADER_KEY"
    BY <1>1, <1>4
  <1>6. LineKind(p.lo + 1, q) = LineOf(m, e + 1)
    <2>1. q = (p.lo + 1) + 1 /\ stream[q].kind = LineOf(m, e + 1)
      BY <1>1, <1>4
    <2> QED BY <2>1 DEF LineKind
  <1>7. stream[q].msg = k
    OBVIOUS
  <1>8. HeaderEnds(m, b, e + 1) = IF e + 1 \in 2..(m.headers + 1) THEN h \cup {q} ELSE h
    BY <1>1, <1>3 DEF HeaderEnds
  <1>9. PICK g, l, s : /\ g = HeaderEnds(m, b, e + 1)
                       /\ l = IF e + 2 >= LineCount(m) THEN m.length ELSE 0
                       /\ s = IF e + 1 = LineCount(m) THEN "BODY" ELSE "HEADER_KEY"
    OBVIOUS
  <1>10. Parsed(m, k, b, e + 1) =
             [state |-> s, lo |-> q,
              req |-> [msg |-> k, headers |-> g, length |-> l, body |-> z]]
    <2>1. e + 1 # 0 /\ b + 2 * (e + 1) = q /\ (e + 1) + 1 = e + 2
      BY <1>1
    <2> QED BY <1>1, <1>3, <1>9, <2>1 DEF Parsed
  <1>11. CASE e = 0
    <2>1. LineOf(m, e + 1) = IF m.fault = "line" THEN "bad" ELSE "request"
      BY <1>1, <1>11 DEF LineOf
    <2>2. CASE m.fault = "line"
      <3>1. ParseLine(p, q) = [p EXCEPT !.state = "ERROR"]
        BY <1>5, <1>6, <1>11, <2>1, <2>2 DEF ParseLine
      <3> QED BY <1>1, <1>2, <1>4, <1>11, <2>2, <3>1
    <2>3. CASE m.fault # "line"
      <3>1. ParseLine(p, q) = [[p EXCEPT !.lo = q] EXCEPT
                                  !.state = "HEADER_KEY", !.req.msg = stream[q].msg]
        BY <1>5, <1>6, <1>11, <2>1, <2>3 DEF ParseLine
      <3>2. g = h /\ (m.length = 0 \/ e + 2 < LineCount(m))
        BY <1>1, <1>8, <1>9, <1>11
      <3>3. ParseLine(p, q) = Parsed(m, k, b, e + 1)
        <4>1. PICK r : r = [c EXCEPT !.msg = k]
          OBVIOUS
        <4>2. ParseLine(p, q) = [state |-> "HEADER_KEY", lo |-> q, req |-> r]
          BY <1>4, <1>7, <1>4a, <3>1, <4>1
        <4>3. n = 0 /\ l = 0 /\ s = "HEADER_KEY"
          BY <1>1, <1>3, <1>9, <1>11
        <4>4. r = [msg |-> k, headers |-> h, length |-> n, body |-> z]
          BY <1>4a, <4>1
        <4> QED BY <1>10, <3>2, <4>2, <4>3, <4>4
      <3>4. e + 1 # BadLine(m)
        BY <1>1, <1>11, <2>3
      <3> QED BY <1>2, <3>3, <3>4
    <2> QED BY <2>2, <2>3
  <1>12. CASE e + 1 \in 2..(m.headers + 1)
    <2>1. LineOf(m, e + 1) = "header"
      BY <1>1, <1>12 DEF LineOf
    <2>2. ParseLine(p, q) = [[p EXCEPT !.lo = q] EXCEPT !.req.headers = @ \cup {q}]
      BY <1>5, <1>6, <1>12, <2>1 DEF ParseLine
    <2>3. e + 1 # LineCount(m) /\ (e + 2 >= LineCount(m) => m.length = 0)
      BY <1>1, <1>12
    <2>4. g = h \cup {q} /\ e # 0 /\ e + 1 < LineCount(m)
      BY <1>1, <1>8, <1>9, <1>12
    <2>5. ParseLine(p, q) = Parsed(m, k, b, e + 1)
      <3>1. PICK r : r = [c EXCEPT !.headers = g]
        OBVIOUS
      <3>1a. c.headers = h
        BY <1>4a
      <3>2. ParseLine(p, q) = [state |-> "HEADER_KEY", lo |-> q, req |-> r]
        BY <1>4, <1>5, <1>4a, <2>2, <2>4, <3>1, <3>1a, ZenonT(40)
      <3>3. n = 0 /\ l = 0 /\ s = "HEADER_KEY" /\ x = k
        BY <1>1, <1>3, <1>9, <2>3, <2>4
      <3>4. r = [msg |-> x, headers |-> g, length |-> n, body |-> z]
        BY <1>4a, <3>1
      <3> QED BY <1>10, <3>2, <3>3, <3>4
    <2>6. e + 1 # BadLine(m)
      BY <1>1, <1>12
    <2> QED BY <1>2, <2>5, <2>6
  <1>13. CASE e + 1 = LineCount(m)
    <2>1. LineOf(m, e + 1) = "blank" /\ e # 0
      BY <1>1, <1>13 DEF LineOf
    <2>2. ParseLine(p, q) = [[p EXCEPT !.lo = q] EXCEPT !.state = "BODY"]
      BY <1>5, <1>6, <2>1 DEF ParseLine
    <2>3. g = h
      BY <1>1, <1>8, <1>9, <1>13
    <2>4. ParseLine(p, q) = Parsed(m, k, b, e + 1)
      <3>1. ParseLine(p, q) = [state |-> "BODY", lo |-> q, req |-> p.req]
        BY <1>4, <2>2
      <3>2. n = m.length /\ l = m.length /\ s = "BODY" /\ x = k
        BY <1>1, <1>3, <1>9, <1>13, <2>1
      <3> QED BY <1>4, <1>10, <2>3, <3>1, <3>2
    <2>5. e + 1 # BadLine(m)
      BY <1>1, <1>13, <2>1
    <2> QED BY <1>2, <2>4, <2>5
  <1>14. CASE e + 1 = m.headers + 2 /\ m.fault = "header"
    <2>1. LineOf(m, e + 1) = "bad" /\ e # 0
      BY <1>1, <1>14 DEF LineOf
    <2>2. ParseLine(p, q) = [p EXCEPT !.state = "ERROR"]
      BY <1>5, <1>6, <2>1 DEF ParseLine
    <2> QED BY <1>1, <1>2, <1>4, <1>14, <2>2
  <1>15. CASE /\ e + 1 >= m.headers + 2 /\ e + 1 < LineCount(m)
              /\ ~ (e + 1 = m.headers + 2 /\ m.fault = "header")
    <2>1. m.fault = "none" /\ m.length > 0 /\ e + 2 = LineCount(m) /\ e # 0
      BY <1>1, <1>15
    <2>2. LineOf(m, e + 1) = "length"
      BY <1>1, <1>15, <2>1 DEF LineOf
    <2>3. ParseLine(p, q) = [[p EXCEPT !.lo = q] EXCEPT
                                !.req.length = messages[stream[q].msg].length]
      BY <1>5, <1>6, <2>1, <2>2 DEF ParseLine
    <2>4. g = h
      BY <1>1, <1>8, <1>9, <1>15
    <2>5. ParseLine(p, q) = Parsed(m, k, b, e + 1)
      <3>1. PICK r : r = [c EXCEPT !.length = m.length]
        OBVIOUS
      <3>2. ParseLine(p, q) = [state |-> "HEADER_KEY", lo |-> q, req |-> r]
        BY <1>4, <1>5, <1>4a, <1>7, <2>1, <2>3, <3>1
      <3>3. l = m.length /\ s = "HEADER_KEY" /\ x = k
        BY <1>1, <1>3, <1>9, <2>1
      <3>4. r = [msg |-> x, headers |-> h, length |-> m.length, body |-> z]
        BY <1>4a, <3>1
      <3> QED BY <1>10, <2>4, <3>2, <3>3, <3>4
    <2>6. e + 1 # BadLine(m)
      BY <1>1, <2>1
    <2> QED BY <1>2, <2>5, <2>6
  <1> QED BY <1>1, <1>11, <1>12, <1>13, <1>14, <1>15

\* A record in error stays as it is.
LEMMA ErrorStays ==
    ASSUME NEW p, p.state = "ERROR", NEW q
    PROVE  Pass(p, q) = p
  BY DEF Pass, ParseLine

\* The bytes of a request, one by one: a byte that ends a line ends the next one.
LEMMA ByteByByte ==
    ASSUME NEW m \in MessageSet, NEW k \in Nat, NEW d \in Nat, d < SizeOf(m)
    PROVE  /\ Ended(m, d) \in 0..LineCount(m)
           /\ Bytes(m, k)[d + 1].msg = k
           /\ Bytes(m, k)[d + 1].lf => /\ Ended(m, d + 1) = Ended(m, d) + 1
                                       /\ Ended(m, d) < LineCount(m)
                                       /\ d + 1 = 2 * (Ended(m, d) + 1)
                                       /\ Bytes(m, k)[d + 1].kind = LineOf(m, Ended(m, d) + 1)
           /\ ~ Bytes(m, k)[d + 1].lf => Ended(m, d + 1) = Ended(m, d)
  <1>1. PICK c \in Nat : c = LineCount(m) /\ c >= 2
    BY Lines
  <1>2. /\ m.length \in Nat /\ SizeOf(m) = 2 * c + m.length
        /\ d + 1 \in 1..(2 * c + m.length)
    BY <1>1, Lines
  <1>3. /\ Ended(m, d) = IF d < 2 * c THEN d \div 2 ELSE c
        /\ Ended(m, d + 1) = IF d + 1 < 2 * c THEN (d + 1) \div 2 ELSE c
    BY <1>1 DEF Ended
  <1>4. Bytes(m, k)[d + 1] =
            IF d + 1 <= 2 * c
            THEN [kind |-> LineOf(m, ((d + 1) + 1) \div 2), lf |-> (d + 1) % 2 = 0, msg |-> k]
            ELSE [kind |-> "body", lf |-> FALSE, msg |-> k]
    BY <1>1, <1>2 DEF Bytes
  <1>4a. d + 1 <= 2 * c => Bytes(m, k)[d + 1].lf = ((d + 1) % 2 = 0)
    BY <1>4
  <1>5. CASE d + 1 > 2 * c
    BY <1>1, <1>3, <1>4, <1>5
  <1>6. CASE d + 1 <= 2 * c /\ (d + 1) % 2 = 0
    <2>1. PICK e \in Nat : d + 1 = 2 * (e + 1)
      <3>1. (d + 1) \div 2 \in Nat \ {0} /\ d + 1 = 2 * ((d + 1) \div 2)
        BY <1>6
      <3>2. PICK e \in Nat : e + 1 = (d + 1) \div 2
        BY <3>1
      <3> QED BY <3>1, <3>2
    <2>2. Ended(m, d) = e /\ Ended(m, d + 1) = e + 1 /\ e < c
      BY <1>1, <1>3, <1>6, <2>1
    <2>3. ((d + 1) + 1) \div 2 = e + 1
      BY <2>1
    <2>4. /\ Bytes(m, k)[d + 1].kind = LineOf(m, e + 1)
          /\ Bytes(m, k)[d + 1].msg = k
      BY <1>4, <1>6, <2>3
    <2>5. Bytes(m, k)[d + 1].lf
      BY <1>6, <1>4a
    <2> QED BY <1>1, <2>1, <2>2, <2>4, <2>5
  <1>7. CASE d + 1 <= 2 * c /\ (d + 1) % 2 # 0
    <2>1. PICK e \in Nat : d = 2 * e
      BY <1>7
    <2>2. Ended(m, d) = e /\ Ended(m, d + 1) = e /\ e < c
      BY <1>1, <1>3, <1>7, <2>1
    <2>3. ~ Bytes(m, k)[d + 1].lf
      BY <1>7, <1>4a
    <2>4. Bytes(m, k)[d + 1].msg = k
      BY <1>4, <1>7
    <2> QED BY <1>1, <2>2, <2>3, <2>4
  <1> QED BY <1>1, <1>5, <1>6, <1>7

\* The last request and its place in the stream.
LEMMA LastFacts ==
    ASSUME TypeOK, StreamInv, messages # << >>
    PROVE  /\ Last \in MessageSet /\ Len(messages) \in Nat \ {0}
           /\ messages[Len(messages)] = Last
           /\ Base \in Nat /\ Len(stream) \in Nat /\ Len(stream) = Base + SizeOf(Last)
           /\ SizeOf(Last) \in Nat
  <1>1. Len(messages) \in Nat /\ Len(messages) # 0 /\ messages[Len(messages)] \in Kinds
    BY DEF TypeOK
  <1>2. Last \in MessageSet
    BY <1>1, KindsAssumption DEF Last
  <1>3. SizeOf(Last) \in Nat /\ Len(stream) \in Nat
    BY <1>2, Lines DEF TypeOK
  <1>4. Base >= 0
    BY DEF StreamInv
  <1> QED BY <1>1, <1>2, <1>3, <1>4 DEF Base, Last

\* Where a pass at byte q has to leave the record p while the last request is received.
Good(p, q) ==
    /\ Ended(Last, q - Base) < BadLine(Last) =>
         p = Parsed(Last, Len(messages), Base, Ended(Last, q - Base))
    /\ Ended(Last, q - Base) >= BadLine(Last) => p.state = "ERROR"

\* A pass leaves the record good.
LEMMA PassGood ==
    ASSUME TypeOK, StreamInv, messages # << >>, NEW q \in (Base + 1)..Len(stream),
           NEW p, Good(p, q - 1)
    PROVE  Good(Pass(p, q), q)
  <1>1. PICK m, k, b : m = Last /\ k = Len(messages) /\ b = Base
    OBVIOUS
  <1>2. m \in MessageSet /\ k \in Nat /\ messages[k] = m /\ b \in Nat /\ q \in Nat
    BY <1>1, LastFacts
  <1>3. PICK d \in Nat : d = (q - 1) - b /\ d + 1 = q - b /\ d < SizeOf(m)
    BY <1>1, <1>2, LastFacts
  <1>4. stream[q] = Bytes(m, k)[d + 1]
    <2>1. d + 1 \in 1..SizeOf(m) /\ q = b + (d + 1)
      BY <1>1, <1>2, <1>3, LastFacts
    <2> QED BY <1>1, <2>1 DEF StreamInv
  <1>5. PICK e \in Nat : e = Ended(m, d)
    BY <1>2, <1>3, ByteByByte, Lines
  <1>6. BadLine(m) \in Nat /\ LineCount(m) \in Nat
    BY <1>2, Lines
  <1>7. CASE ~ stream[q].lf
    <2>1. Pass(p, q) = p /\ Ended(m, d + 1) = Ended(m, d)
      BY <1>2, <1>3, <1>4, <1>7, ByteByByte DEF Pass
    <2> QED BY <1>1, <1>3, <2>1 DEF Good
  <1>8. CASE stream[q].lf
    <2>1. /\ Ended(m, d + 1) = e + 1 /\ e \in 0..(LineCount(m) - 1)
          /\ d + 1 = 2 * (e + 1) /\ stream[q].kind = LineOf(m, e + 1) /\ stream[q].msg = k
      BY <1>2, <1>3, <1>4, <1>5, <1>6, <1>8, ByteByByte
    <2>2. q = b + 2 * (e + 1)
      BY <1>2, <1>3, <2>1
    <2>3. CASE e < BadLine(m)
      <3>1. p = Parsed(m, k, b, e)
        BY <1>1, <1>3, <1>5, <2>3 DEF Good
      <3>2. Pass(p, q) = ParseLine(Parsed(m, k, b, e), q)
        BY <1>8, <3>1 DEF Pass
      <3>3. /\ e + 1 < BadLine(m) => Pass(p, q) = Parsed(m, k, b, e + 1)
            /\ e + 1 = BadLine(m) => Pass(p, q).state = "ERROR"
        BY <1>2, <2>1, <2>2, <2>3, <3>2, LineByLine
      <3>4. e + 1 <= BadLine(m)
        BY <1>6, <2>3
      <3> QED BY <1>1, <1>3, <1>6, <2>1, <3>3, <3>4 DEF Good
    <2>4. CASE e >= BadLine(m)
      <3>1. p.state = "ERROR"
        BY <1>1, <1>3, <1>5, <2>4 DEF Good
      <3>2. Pass(p, q) = p
        BY <3>1, ErrorStays
      <3>3. e + 1 >= BadLine(m) /\ ~ (e + 1 < BadLine(m))
        BY <1>6, <2>4
      <3> QED BY <1>1, <1>3, <2>1, <3>1, <3>2, <3>3 DEF Good
    <2> QED BY <1>6, <2>3, <2>4
  <1> QED BY <1>7, <1>8

\* A feed leaves the record good.
LEMMA PassesGood ==
    ASSUME TypeOK, StreamInv, messages # << >>, Receiving, NEW n \in (hi + 1)..Len(stream)
    PROVE  Good(Passes(n)[n], n)
  <1>1. /\ Last \in MessageSet /\ Base \in Nat /\ Len(stream) \in Nat
        /\ LineCount(Last) \in Nat /\ BadLine(Last) \in Nat
    BY LastFacts, Lines
  <1>2. PICK e \in 0..LineCount(Last) : e = Ended(Last, hi - Base) /\ e < BadLine(Last)
    <2>1. hi - Base \in Nat /\ hi - Base < SizeOf(Last)
      BY <1>1, LastFacts DEF Receiving, TypeOK
    <2> QED BY <1>1, <2>1, ByteByByte DEF Receiving
  <1>3. Parser = Parsed(Last, Len(messages), Base, e) /\ lo = Base + 2 * e
    <2>1. Parser = Parsed(Last, Len(messages), Base, e)
      BY <1>2 DEF Receiving
    <2>2. Parser.lo = Base + 2 * e
      BY <2>1 DEF Parsed
    <2> QED BY <2>1, <2>2 DEF Parser
  <1>4. lo \in Nat /\ n \in Nat /\ lo <= n /\ n <= Len(stream) /\ lo >= Base
    BY <1>1, <1>2, <1>3, SMTT(30) DEF TypeOK
  <1>5. Ended(Last, lo - Base) = e
    <2>1. e \in Nat /\ e <= LineCount(Last) /\ lo - Base = 2 * e
      BY <1>1, <1>2, <1>3
    <2>2. (2 * e) \div 2 = e
      BY <2>1
    <2>3. 2 * e < 2 * LineCount(Last) \/ e = LineCount(Last)
      BY <1>1, <2>1
    <2> QED BY <1>1, <2>1, <2>2, <2>3 DEF Ended
  <1> DEFINE T == {i \in Nat : lo + i <= n => Good(Passes(n)[lo + i], lo + i)}
  <1>6. 0 \in T
    <2>1. Passes(n)[lo + 0] = Parser /\ lo + 0 = lo
      BY <1>4, PassByPass
    <2>2. Good(Parser, lo)
      BY <1>1, <1>2, <1>3, <1>5 DEF Good
    <2> QED BY <2>1, <2>2
  <1>7. ASSUME NEW i \in Nat, i \in T PROVE i + 1 \in T
    <2> SUFFICES ASSUME lo + (i + 1) <= n
                 PROVE  Good(Passes(n)[lo + (i + 1)], lo + (i + 1))
      OBVIOUS
    <2>1. PICK q \in (lo + 1)..n : q = lo + (i + 1) /\ q - 1 = lo + i
      BY <1>4
    <2>2. Good(Passes(n)[q - 1], q - 1)
      BY <1>4, <1>7, <2>1
    <2>3. q \in (Base + 1)..Len(stream)
      BY <1>1, <1>4, <2>1
    <2>4. Passes(n)[q] = Pass(Passes(n)[q - 1], q)
      BY <1>4, <2>1, PassByPass
    <2>5. PICK p : p = Passes(n)[q - 1]
      OBVIOUS
    <2>6. Good(Pass(p, q), q)
      BY <2>2, <2>3, <2>5, PassGood
    <2> QED BY <2>1, <2>4, <2>5, <2>6
  <1>8. n - lo \in T /\ lo + (n - lo) = n
    <2> HIDE DEF T
    <2>1. Nat \subseteq T
      BY <1>6, <1>7, NatSetInduction
    <2> QED BY <1>4, <2>1
  <1> QED BY <1>4, <1>8

\* The record of the whole request.
Whole == [msg |-> Len(messages), headers |-> HeaderEnds(Last, Base, LineCount(Last)),
          length |-> Last.length,
          body |-> (Base + 2 * LineCount(Last) + 1)..Len(stream)]

\* A feed while the last request is received: a bad line is an error; the end of the
\* request is its end for the parser, too; before it the parser waits.
LEMMA FeedGood ==
    ASSUME TypeOK, StreamInv, messages # << >>, Receiving, NEW n \in (hi + 1)..Len(stream)
    PROVE  \/ Feed(n).state = "ERROR" /\ Last.fault # "none"
           \/ Feed(n).state = "DONE" /\ Last.fault = "none" /\ n = Len(stream)
                 /\ Feed(n).req = Whole
           \/ /\ n < Len(stream) /\ Ended(Last, n - Base) < BadLine(Last)
              /\ Feed(n).state \notin {"ERROR", "DONE"}
              /\ Feed(n) = Parsed(Last, Len(messages), Base, Ended(Last, n - Base))
  <1>1. PICK p, c, b, e, m : /\ p = Passes(n)[n] /\ c = LineCount(Last) /\ b = Base
                             /\ e = Ended(Last, n - Base) /\ m = Last
    OBVIOUS
  <1>2. /\ m \in MessageSet /\ b \in Nat /\ Len(stream) \in Nat /\ c \in Nat /\ c >= 2
        /\ m.length \in Nat /\ n \in Nat /\ n > b /\ n <= Len(stream)
        /\ Len(stream) = b + 2 * c + m.length /\ BadLine(m) \in Nat
        /\ m.fault = "none" <=> BadLine(m) > c
    <2>1. /\ m \in MessageSet /\ b \in Nat /\ Len(stream) \in Nat
          /\ Len(stream) = b + SizeOf(m)
      BY <1>1, LastFacts
    <2>2. /\ c \in Nat /\ m.length \in Nat /\ c >= 2 /\ SizeOf(m) = 2 * c + m.length
          /\ BadLine(m) \in Nat /\ (m.fault = "none" <=> BadLine(m) > c)
      BY <1>1, <2>1, Lines, SMTT(30)
    <2>3. n \in Nat /\ n > b /\ n <= Len(stream)
      BY <1>1, <2>1 DEF Receiving, TypeOK
    <2> QED BY <2>1, <2>2, <2>3
  <1>3. e = IF n - b < 2 * c THEN (n - b) \div 2 ELSE c
    BY <1>1 DEF Ended
  <1>4. e \in 0..c /\ (e = c => n - b >= 2 * c) /\ (n = Len(stream) => e = c)
    BY <1>2, <1>3
  <1>5. Good(p, n) /\ Feed(n) = ParseBody(p, n)
    BY <1>1, PassesGood DEF Feed
  <1>6. CASE e >= BadLine(m)
    <2>1. p.state = "ERROR"
      BY <1>1, <1>5, <1>6 DEF Good
    <2>2. Feed(n) = p
      BY <1>5, <2>1 DEF ParseBody
    <2>3. m.fault # "none"
      BY <1>2, <1>4, <1>6
    <2> QED BY <1>1, <2>1, <2>2, <2>3
  <1>7. CASE e < BadLine(m)
    <2>1. p = Parsed(m, Len(messages), b, e)
      BY <1>1, <1>5, <1>7 DEF Good
    <2>2. CASE e < c
      <3>1. p.state \in {"METHOD", "HEADER_KEY"}
        <4>1. p.state = CASE e = 0 -> "METHOD" [] e = LineCount(m) -> "BODY"
                         [] OTHER -> "HEADER_KEY"
          BY <2>1 DEF Parsed
        <4> QED BY <1>1, <1>4, <2>2, <4>1
      <3>2. Feed(n) = p
        BY <1>5, <3>1 DEF ParseBody
      <3>3. n < Len(stream)
        BY <1>2, <1>4, <2>2
      <3> QED BY <1>1, <1>7, <2>1, <3>1, <3>2, <3>3
    <2>3. CASE e = c
      <3>1. p.state = "BODY" /\ p.lo = b + 2 * c
        <4>1. p.state = CASE e = 0 -> "METHOD" [] e = LineCount(m) -> "BODY"
                         [] OTHER -> "HEADER_KEY"
          BY <2>1 DEF Parsed
        <4>2. p.lo = b + 2 * e
          BY <2>1 DEF Parsed
        <4> QED BY <1>1, <1>2, <2>3, <4>1, <4>2
      <3>2. PICK h, z : h = HeaderEnds(m, b, c) /\ z = {}
        OBVIOUS
      <3>3. p.req = [msg |-> Len(messages), headers |-> h, length |-> m.length, body |-> z]
        <4>1. p.req = [msg |-> IF e = 0 THEN 0 ELSE Len(messages),
                       headers |-> HeaderEnds(m, b, e),
                       length |-> IF e + 1 >= LineCount(m) THEN m.length ELSE 0, body |-> {}]
          BY <2>1 DEF Parsed
        <4>2. e # 0 /\ e + 1 >= LineCount(m)
          BY <1>1, <1>2, <2>3, SMTT(30)
        <4> QED BY <2>3, <3>2, <4>1, <4>2
      <3>4. p.req.length = m.length
        BY <3>3
      <3>5. CASE n < Len(stream)
        <4>1. ~ (n - p.lo >= p.req.length)
          BY <1>2, <3>1, <3>4, <3>5
        <4>2. Feed(n) = p
          BY <1>5, <4>1 DEF ParseBody
        <4> QED BY <1>1, <1>7, <2>1, <3>1, <3>5, <4>2
      <3>6. CASE n = Len(stream)
        <4>1. n - p.lo >= p.req.length
          BY <1>2, <3>1, <3>4, <3>6
        <4>2. PICK y : y = (p.lo + 1)..(p.lo + p.req.length)
          OBVIOUS
        <4>3. y = (b + 2 * c + 1)..Len(stream)
          BY <1>2, <3>1, <3>4, <4>2
        <4>4. Feed(n) = [p EXCEPT !.state = "DONE", !.lo = p.lo + p.req.length,
                                  !.req.body = y]
          BY <1>5, <3>1, <4>1, <4>2 DEF ParseBody
        <4>5. PICK r : r = p.req
          OBVIOUS
        <4>6. p = [state |-> p.state, lo |-> p.lo, req |-> r]
          BY <2>1, <4>5 DEF Parsed
        <4>7. Feed(n).state = "DONE" /\ Feed(n).req = [r EXCEPT !.body = y]
          BY <4>4, <4>6
        <4>8. PICK w : w = [r EXCEPT !.body = y]
          OBVIOUS
        <4>9. w = [msg |-> Len(messages), headers |-> h, length |-> m.length, body |-> y]
          BY <3>3, <4>5, <4>8
        <4>10. Feed(n).req = Whole
          BY <1>1, <3>2, <4>3, <4>7, <4>8, <4>9 DEF Whole
        <4>11. m.fault = "none"
          BY <1>2, <1>7, <2>3
        <4> QED BY <1>1, <3>6, <4>7, <4>10, <4>11
      <3> QED BY <1>2, <3>5, <3>6
    <2> QED BY <1>2, <1>4, <2>2, <2>3
  <1> QED BY <1>2, <1>4, <1>6, <1>7

-----------------------------------------------------------------------------
(* What a request asks for.                                                *)

\* Where the header lines of the last request end, and where its body is.
LEMMA OwnParts ==
    ASSUME TypeOK, StreamInv, messages # << >>, Last.fault = "none"
    PROVE  /\ {i \in Own("header", Len(messages)) : stream[i].lf}
                 = HeaderEnds(Last, Base, LineCount(Last))
           /\ Own("body", Len(messages)) = (Base + 2 * LineCount(Last) + 1)..Len(stream)
  <1>1. PICK c, b, m, k, h, z, w :
            /\ c = LineCount(Last) /\ b = Base /\ m = Last /\ k = Len(messages)
            /\ h = HeaderEnds(m, b, c) /\ z = Len(stream) /\ w = m.headers
    OBVIOUS
  <1>2. /\ m \in MessageSet /\ b \in Nat /\ z \in Nat /\ c \in Nat /\ c >= w + 2
        /\ m.length \in Nat /\ z = b + 2 * c + m.length /\ w \in Nat /\ k \in Nat
        /\ c = w + 2 + (IF m.length > 0 THEN 1 ELSE 0)
        /\ SizeOf(m) = 2 * c + m.length
    <2>1. /\ m \in MessageSet /\ b \in Nat /\ z \in Nat /\ z = b + SizeOf(m) /\ k \in Nat
      BY <1>1, LastFacts
    <2>2. /\ c \in Nat /\ m.length \in Nat /\ w \in Nat /\ SizeOf(m) = 2 * c + m.length
          /\ c = w + 2 + (IF m.length > 0 THEN 1 ELSE 0)
      BY <1>1, <2>1, Lines, SMTT(30)
    <2> QED BY <2>1, <2>2
  <1>3. ASSUME NEW i \in 1..z, i <= b
        PROVE  stream[i].msg # k
    <2>1. i \in 1..Base /\ i \in 1..Len(stream)
      BY <1>1, <1>2, <1>3
    <2>2. stream[i].msg < Len(messages) /\ stream[i].msg \in 1..Len(messages)
      BY <2>1 DEF StreamInv
    <2> QED BY <1>1, <1>2, <2>2
  <1>4. ASSUME NEW t \in Nat, t <= c
        PROVE  LineOf(m, t) # "body" /\ (LineOf(m, t) = "header" <=> t \in 2..(w + 1))
    <2>1. m.fault = "none" /\ w = m.headers /\ c = LineCount(m)
      BY <1>1
    <2>2. CASE t = 1
      BY <1>2, <2>1, <2>2 DEF LineOf
    <2>3. CASE t \in 2..(w + 1)
      BY <1>2, <2>1, <2>3 DEF LineOf
    <2>4. CASE t = c
      BY <1>2, <2>1, <2>4 DEF LineOf
    <2>5. CASE t # 1 /\ t \notin 2..(w + 1) /\ t # c
      BY <1>2, <2>1, <2>5 DEF LineOf
    <2> QED BY <2>2, <2>3, <2>4, <2>5
  <1>5. ASSUME NEW i \in 1..z, i > b, i - b <= 2 * c
        PROVE  /\ stream[i].kind = LineOf(m, ((i - b) + 1) \div 2)
               /\ stream[i].msg = k
               /\ stream[i].lf = ((i - b) % 2 = 0)
    <2>1. PICK j \in 1..SizeOf(m) : j = i - b /\ i = b + j /\ j <= 2 * c
      BY <1>2, <1>5
    <2>2. stream[i] = Bytes(m, k)[j]
      BY <1>1, <2>1 DEF StreamInv
    <2>3. j \in 1..(2 * LineCount(m) + m.length) /\ j <= 2 * LineCount(m)
      BY <1>1, <2>1 DEF SizeOf
    <2>4. Bytes(m, k)[j] = [kind |-> LineOf(m, (j + 1) \div 2), lf |-> j % 2 = 0, msg |-> k]
      BY <2>3 DEF Bytes
    <2>5. stream[i].kind = LineOf(m, (j + 1) \div 2) /\ stream[i].msg = k
      BY <2>2, <2>4
    <2>6. stream[i].lf = (j % 2 = 0)
      BY <2>2, <2>4
    <2> QED BY <2>1, <2>5, <2>6
  <1>6. ASSUME NEW i \in 1..z, i - b > 2 * c
        PROVE  stream[i].kind = "body" /\ stream[i].msg = k
    <2>1. PICK j \in 1..SizeOf(m) : j = i - b /\ i = b + j /\ j > 2 * c
      BY <1>2, <1>6
    <2>2. stream[i] = Bytes(m, k)[j]
      BY <1>1, <2>1 DEF StreamInv
    <2>3. j \in 1..(2 * LineCount(m) + m.length) /\ ~ (j <= 2 * LineCount(m))
      BY <1>1, <1>2, <2>1 DEF SizeOf
    <2>4. Bytes(m, k)[j] = [kind |-> "body", lf |-> FALSE, msg |-> k]
      BY <2>3 DEF Bytes
    <2> QED BY <2>2, <2>4
  <1>7. ASSUME NEW i \in 1..z
        PROVE  i \in Own("body", k) <=> i \in (b + 2 * c + 1)..z
    <2>1. i \in Own("body", k) <=> stream[i].kind = "body" /\ stream[i].msg = k
      BY <1>1 DEF Own
    <2>2. CASE i <= b
      BY <1>2, <1>3, <2>1, <2>2
    <2>3. CASE i > b /\ i - b <= 2 * c
      <3>1. PICK t \in Nat : t = ((i - b) + 1) \div 2 /\ t <= c
        BY <1>2, <2>3
      <3>2. stream[i].kind # "body"
        BY <1>4, <1>5, <2>3, <3>1
      <3> QED BY <1>2, <2>1, <2>3, <3>2
    <2>4. CASE i - b > 2 * c
      BY <1>2, <1>6, <2>1, <2>4
    <2> QED BY <1>2, <2>2, <2>3, <2>4
  <1>8. ASSUME NEW i \in 1..z
        PROVE  i \in Own("header", k) /\ stream[i].lf <=> i \in h
    <2>1. i \in Own("header", k) <=> stream[i].kind = "header" /\ stream[i].msg = k
      BY <1>1 DEF Own
    <2>2. i \in h <=> \E j \in 2..(w + 1) : i = b + 2 * j
      <3>1. h = {x \in Nat : \E j \in 2..(w + 1) : j <= c /\ x = b + 2 * j}
        BY <1>1 DEF HeaderEnds
      <3>2. \A j \in 2..(w + 1) : j <= c
        BY <1>2
      <3>3. i \in Nat
        BY <1>2
      <3> QED BY <3>1, <3>2, <3>3
    <2>3. CASE i <= b
      BY <1>2, <1>3, <2>1, <2>2, <2>3
    <2>4. CASE i > b /\ i - b <= 2 * c
      <3>1. PICK t \in Nat : t = ((i - b) + 1) \div 2 /\ t <= c
        BY <1>2, <2>4
      <3>2. stream[i].kind = "header" <=> t \in 2..(w + 1)
        BY <1>4, <1>5, <2>4, <3>1
      <3>3. stream[i].msg = k /\ stream[i].lf = ((i - b) % 2 = 0)
        BY <1>5, <2>4
      <3>4. (i - b) % 2 = 0 <=> i = b + 2 * t
        BY <1>2, <2>4, <3>1
      <3>5. ASSUME NEW j \in 2..(w + 1), i = b + 2 * j PROVE j = t
        BY <1>2, <3>1, <3>5
      <3> QED BY <2>1, <2>2, <3>2, <3>3, <3>4, <3>5
    <2>5. CASE i - b > 2 * c
      <3>1. ~ (i \in h)
        BY <1>2, <2>2, <2>5
      <3> QED BY <1>6, <2>1, <2>5, <3>1
    <2> QED BY <1>2, <2>3, <2>4, <2>5
  <1>9. /\ Own("body", k) \subseteq 1..z /\ Own("header", k) \subseteq 1..z
        /\ (b + 2 * c + 1)..z \subseteq 1..z
    <2>1. Own("body", k) \subseteq 1..z /\ Own("header", k) \subseteq 1..z
      BY <1>1 DEF Own
    <2>2. \A i \in (b + 2 * c + 1)..z : i \in 1..z
      BY <1>2
    <2> QED BY <2>1, <2>2
  <1>10. h \subseteq 1..z
    <2>1. ASSUME NEW i \in h PROVE i \in 1..z
      <3>1. PICK j \in 2..(w + 1) : i = b + 2 * j
        BY <1>1 DEF HeaderEnds
      <3> QED BY <1>2, <3>1
    <2> QED BY <2>1
  <1> QED BY <1>1, <1>7, <1>8, <1>9, <1>10

\* The response to the last request is the one to the whole of it.
LEMMA WholeExpected ==
    ASSUME TypeOK, StreamInv, messages # << >>
    PROVE  Expected(Len(messages)) =
               IF Last.fault = "none" THEN Dispatch(Whole) ELSE BadRequest
  <1>1. CASE Last.fault = "none"
    <2>1. PICK x, h, n, y : /\ x = Len(messages) /\ n = Last.length
                            /\ h = HeaderEnds(Last, Base, LineCount(Last))
                            /\ y = (Base + 2 * LineCount(Last) + 1)..Len(stream)
      OBVIOUS
    <2>2. Whole = [msg |-> x, headers |-> h, length |-> n, body |-> y]
      BY <2>1 DEF Whole
    <2>3. /\ {i \in Own("header", x) : stream[i].lf} = h
          /\ Own("body", x) = y /\ messages[x] = Last
      BY <1>1, <2>1, OwnParts DEF Last
    <2>4. Expected(x) = Dispatch([msg |-> x, length |-> n, headers |-> h, body |-> y])
      BY <1>1, <2>1, <2>3 DEF Expected
    <2>5. [msg |-> x, length |-> n, headers |-> h, body |-> y]
              = [msg |-> x, headers |-> h, length |-> n, body |-> y]
      OBVIOUS
    <2> QED BY <1>1, <2>1, <2>2, <2>4, <2>5
  <1>2. CASE Last.fault # "none"
    BY <1>2 DEF Expected, Last
  <1> QED BY <1>1, <1>2

-----------------------------------------------------------------------------
(* The invariant, action by action.                                        *)

\* The records the variables begin with.
LEMMA NoTypes == NoRequest \in Requests /\ NoReply \in Replies /\ BadRequest \in Replies
  <1>1. PICK z : z = {}
    OBVIOUS
  <1>2. NoRequest = [msg |-> 0, headers |-> z, length |-> 0, body |-> z] /\ z \in SUBSET Nat
    BY <1>1 DEF NoRequest
  <1>3. NoRequest \in Requests
    BY <1>2 DEF Requests
  <1> QED BY <1>3 DEF NoReply, BadRequest, Replies

\* A response has the type of one.
LEMMA DispatchType ==
    ASSUME NEW r \in Requests
    PROVE  Dispatch(r) \in Replies
  <1>1. PICK c : c = CASE messages[r.msg].route = "handler" -> 200
                       [] messages[r.msg].route = "method"  -> 405
                       [] OTHER                             -> 404
    OBVIOUS
  <1>2. c \in Nat
    <2>1. CASE messages[r.msg].route = "handler"
      BY <1>1, <2>1
    <2>2. CASE messages[r.msg].route = "method"
      BY <1>1, <2>2
    <2>3. CASE messages[r.msg].route \notin {"handler", "method"}
      BY <1>1, <2>3
    <2> QED BY <2>1, <2>2, <2>3
  <1>3. Dispatch(r) = [status |-> c, req |-> r]
    BY <1>1 DEF Dispatch
  <1> QED BY <1>2, <1>3 DEF Replies

\* A new connection.
LEMMA InitInv == Init => IInv
  <1> SUFFICES ASSUME Init PROVE IInv
    OBVIOUS
  <1>1. /\ messages = << >> /\ stream = << >> /\ responses = << >>
        /\ Len(messages) = 0 /\ Len(stream) = 0 /\ Len(responses) = 0
        /\ io = "reading" /\ state = "METHOD" /\ lo = 0 /\ hi = 0
        /\ req = NoRequest /\ reply = NoReply
    BY DEF Init
  <1>2. TypeOK
    <2>1. Parser \in Parsers
      BY <1>1, NoTypes DEF Parser, Parsers
    <2> QED BY <1>1, <2>1, NoTypes DEF TypeOK
  <1>3. StreamInv
    BY <1>1 DEF StreamInv
  <1>4. ProgressInv
    BY <1>1 DEF ProgressInv, AtRest
  <1> QED BY <1>2, <1>3, <1>4 DEF IInv

\* What does not touch the client's requests does not change what they ask for.
LEMMA ClientUnchanged ==
    ASSUME clientVars' = clientVars
    PROVE  /\ messages' = messages /\ stream' = stream
           /\ Last' = Last /\ Base' = Base
           /\ StreamInv => StreamInv'
           /\ \A k : Expected(k)' = Expected(k)
  <1>1. messages' = messages /\ stream' = stream
    BY DEF clientVars
  <1>2. Last' = Last /\ Base' = Base
    BY <1>1 DEF Last, Base
  <1>3. StreamInv => StreamInv'
    BY <1>1, <1>2 DEF StreamInv
  <1>4. ASSUME NEW k PROVE Expected(k)' = Expected(k)
    BY <1>1 DEF Expected, Own, Dispatch
  <1> QED BY <1>1, <1>2, <1>3, <1>4

\* A connection that fails.
LEMMA FailsKeeps == IInv /\ (ReadFails \/ WriteFails) => IInv'
  <1> SUFFICES ASSUME IInv, ReadFails \/ WriteFails PROVE IInv'
    OBVIOUS
  <1>1. /\ io' = "closed" /\ clientVars' = clientVars /\ hi' = hi /\ reply' = reply
        /\ responses' = responses /\ state' = state /\ lo' = lo /\ req' = req
    BY DEF ReadFails, WriteFails, parserVars
  <1>2. /\ messages' = messages /\ stream' = stream /\ Last' = Last
        /\ \A k : Expected(k)' = Expected(k)
        /\ StreamInv'
    BY <1>1, ClientUnchanged DEF IInv
  <1>3. TypeOK'
    BY <1>1, <1>2 DEF IInv, TypeOK, Parser
  <1>4. ProgressInv'
    BY <1>1, <1>2 DEF IInv, ProgressInv
  <1> QED BY <1>2, <1>3, <1>4 DEF IInv

\* The end of a write.
LEMMA WriteCompletesKeeps == IInv /\ WriteCompletes => IInv'
  <1> SUFFICES ASSUME IInv, WriteCompletes PROVE IInv'
    OBVIOUS
  <1>1. /\ io = "writing" /\ io' = "reading" /\ clientVars' = clientVars /\ hi' = hi
        /\ reply' = NoReply /\ responses' = Append(responses, reply)
        /\ state' = "METHOD" /\ lo' = hi /\ req' = NoRequest
    BY DEF WriteCompletes
  <1>2. /\ messages' = messages /\ stream' = stream /\ Last' = Last
        /\ \A k : Expected(k)' = Expected(k)
        /\ StreamInv'
    BY <1>1, ClientUnchanged DEF IInv
  <1>3. /\ Len(responses') = Len(responses) + 1 /\ Len(responses) \in Nat
        /\ \A k \in 1..Len(responses) : responses'[k] = responses[k]
        /\ responses'[Len(responses) + 1] = reply
        /\ responses' \in Seq(Replies)
        /\ Len(messages) \in Nat
    BY <1>1 DEF IInv, TypeOK
  <1>4. TypeOK'
    <2>1. Parser' \in Parsers
      <3>1. Parser' = [state |-> "METHOD", lo |-> hi, req |-> NoRequest] /\ hi \in Nat
        BY <1>1 DEF Parser, IInv, TypeOK
      <3> QED BY <3>1, NoTypes DEF Parsers
    <2> QED BY <1>1, <1>2, <1>3, <2>1, NoTypes DEF IInv, TypeOK
  <1>5. ASSUME Len(responses) + 1 = Len(messages)
        PROVE  /\ reply = Expected(Len(messages))
               /\ Last.fault = "none" => hi = Len(stream)
    BY <1>1, <1>5 DEF IInv, ProgressInv
  <1>6. ASSUME Len(responses) = Len(messages)
        PROVE  messages # << >> /\ Last.fault # "none"
    BY <1>1, <1>6 DEF IInv, ProgressInv
  <1>7. ProgressInv'
    <2>1. Len(responses') + 1 >= Len(messages')
      BY <1>2, <1>3 DEF IInv, ProgressInv
    <2>2. ASSUME NEW k \in 1..Len(responses'), k <= Len(messages')
          PROVE  responses'[k] = Expected(k)'
      <3>1. CASE k <= Len(responses)
        BY <1>2, <1>3, <2>2, <3>1 DEF IInv, ProgressInv
      <3>2. CASE k = Len(responses) + 1
        <4>1. Len(responses) + 1 = Len(messages)
          BY <1>2, <1>3, <2>2, <3>2 DEF IInv, ProgressInv
        <4> QED BY <1>2, <1>3, <1>5, <3>2, <4>1
      <3> QED BY <1>3, <3>1, <3>2
    <2>3. ~ (Len(responses') + 1 = Len(messages'))
      BY <1>2, <1>3 DEF IInv, ProgressInv
    <2>4. ASSUME Len(responses') = Len(messages'), messages' = << >> \/ (Last.fault = "none")'
          PROVE  io' # "writing" /\ AtRest'
      <3>1. Len(responses) + 1 = Len(messages) /\ Last.fault = "none"
        BY <1>2, <1>3, <2>4
      <3> QED BY <1>1, <1>2, <1>5, <3>1 DEF AtRest
    <2>5. ASSUME Len(responses') > Len(messages')
          PROVE  messages' # << >> /\ (Last.fault # "none")'
      <3>1. Len(responses) = Len(messages) \/ Len(responses) > Len(messages)
        BY <1>2, <1>3, <2>5
      <3> QED BY <1>2, <1>6, <3>1 DEF IInv, ProgressInv
    <2> QED BY <2>1, <2>2, <2>3, <2>4, <2>5 DEF ProgressInv
  <1> QED BY <1>2, <1>4, <1>7 DEF IInv

\* A read.
LEMMA ReadKeeps == IInv /\ Read => IInv'
  <1> SUFFICES ASSUME IInv, Read PROVE IInv'
    OBVIOUS
  <1>1. PICK n \in (hi + 1)..(hi + ReadBuf) :
            /\ io = "reading" /\ n <= Len(stream) /\ hi' = n
            /\ state' = Feed(n).state /\ lo' = Feed(n).lo /\ req' = Feed(n).req
            /\ CASE Feed(n).state = "ERROR" -> io' = "writing" /\ reply' = BadRequest
                 [] Feed(n).state = "DONE"  -> io' = "writing" /\ reply' = Dispatch(Feed(n).req)
                 [] OTHER                   -> UNCHANGED <<io, reply>>
            /\ clientVars' = clientVars /\ responses' = responses
    BY Zenon DEF Read
  <1>2. TypeOK /\ StreamInv /\ ProgressInv
    BY DEF IInv
  <1>3. n \in (hi + 1)..Len(stream) /\ n \in hi..Len(stream) /\ n \in 0..Len(stream)
    BY <1>1, <1>2, SizesAssumption DEF TypeOK
  <1>4. Feed(n) \in Parsers /\ Feed(n).lo <= n
    BY <1>2, <1>3, FeedType
  <1>5. Parser' = Feed(n)
    <2>1. Feed(n) = [state |-> Feed(n).state, lo |-> Feed(n).lo, req |-> Feed(n).req]
      BY <1>4 DEF Parsers
    <2> QED BY <1>1, <2>1 DEF Parser
  <1>6. /\ messages' = messages /\ stream' = stream /\ Last' = Last /\ Base' = Base
        /\ \A k : Expected(k)' = Expected(k)
        /\ StreamInv'
    BY <1>1, <1>2, ClientUnchanged
  <1>7. \/ Feed(n).state = "ERROR" /\ io' = "writing" /\ reply' = BadRequest
        \/ Feed(n).state = "DONE" /\ io' = "writing" /\ reply' = Dispatch(Feed(n).req)
        \/ Feed(n).state \notin {"ERROR", "DONE"} /\ io' = "reading" /\ reply' = reply
    <2>1. CASE Feed(n).state = "ERROR"
      BY <1>1, <2>1
    <2>2. CASE Feed(n).state = "DONE"
      BY <1>1, <2>2
    <2>3. CASE Feed(n).state \notin {"ERROR", "DONE"}
      BY <1>1, <2>3
    <2> QED BY <2>1, <2>2, <2>3
  <1>8. TypeOK'
    <2>1. reply' \in Replies
      <3>1. Feed(n).req \in Requests
        BY <1>4 DEF Parsers
      <3> QED BY <1>2, <1>7, <3>1, DispatchType, NoTypes DEF TypeOK
    <2>2. io' \in {"reading", "writing", "closed"}
      BY <1>7
    <2>3. Parser' \in Parsers /\ lo' <= hi' /\ hi' \in 0..Len(stream')
      BY <1>1, <1>3, <1>4, <1>5, <1>6
    <2> QED BY <1>1, <1>2, <1>6, <2>1, <2>2, <2>3 DEF TypeOK
  <1>9. ProgressInv'
    <2>1. Len(responses') = Len(responses) /\ Len(messages') = Len(messages)
      BY <1>1, <1>6
    <2>2. \A k \in 1..Len(responses') : k <= Len(messages') => responses'[k] = Expected(k)'
      BY <1>1, <1>2, <1>6 DEF ProgressInv
    <2>3. ASSUME Len(responses) + 1 = Len(messages)
          PROVE  /\ io' = "reading" => Receiving'
                 /\ io' = "writing" => /\ reply' = Expected(Len(messages))
                                       /\ Last.fault = "none" => hi' = Len(stream)
      <3>1. messages # << >> /\ Receiving
        BY <1>1, <1>2, <2>3 DEF ProgressInv, TypeOK
      <3>2. CASE Feed(n).state = "ERROR" /\ Last.fault # "none"
        BY <1>2, <1>7, <3>1, <3>2, WholeExpected
      <3>3. CASE /\ Feed(n).state = "DONE" /\ Last.fault = "none" /\ n = Len(stream)
                 /\ Feed(n).req = Whole
        BY <1>1, <1>2, <1>7, <3>1, <3>3, WholeExpected
      <3>4. CASE /\ n < Len(stream) /\ Ended(Last, n - Base) < BadLine(Last)
                 /\ Feed(n).state \notin {"ERROR", "DONE"}
                 /\ Feed(n) = Parsed(Last, Len(messages), Base, Ended(Last, n - Base))
        <4>1. n >= Base
          BY <1>2, <1>3, <3>1, LastFacts DEF Receiving, TypeOK
        <4>2. Receiving'
          BY <1>1, <1>5, <1>6, <3>4, <4>1 DEF Receiving
        <4> QED BY <1>7, <3>4, <4>2
      <3> QED BY <1>2, <1>3, <3>1, <3>2, <3>3, <3>4, FeedGood
    <2>4. ~ (Len(responses) = Len(messages) /\ (messages = << >> \/ Last.fault = "none"))
      <3> SUFFICES ASSUME Len(responses) = Len(messages),
                          messages = << >> \/ Last.fault = "none"
                   PROVE  FALSE
        OBVIOUS
      <3>1. hi = Len(stream)
        BY <1>1, <1>2 DEF ProgressInv, AtRest
      <3> QED BY <1>2, <1>3, <3>1 DEF TypeOK
    <2>5. Len(responses) + 1 >= Len(messages)
      BY <1>2 DEF ProgressInv
    <2>6. Len(responses) > Len(messages) => messages # << >> /\ Last.fault # "none"
      BY <1>2 DEF ProgressInv
    <2> QED BY <1>6, <2>1, <2>2, <2>3, <2>4, <2>5, <2>6 DEF ProgressInv
  <1> QED BY <1>6, <1>8, <1>9 DEF IInv

\* The bytes of a request make a sequence of bytes.
LEMMA BytesType ==
    ASSUME NEW m \in MessageSet, NEW k \in Nat
    PROVE  Bytes(m, k) \in Seq(ByteSet) /\ Len(Bytes(m, k)) = SizeOf(m)
  <1>1. PICK n \in Nat : n = SizeOf(m) /\ n = 2 * LineCount(m) + m.length
    BY Lines
  <1>2. ASSUME NEW j
        PROVE  LineOf(m, j) \in {"bad", "request", "header", "length", "blank"}
    <2>1. m.headers \in Nat /\ LineCount(m) \in Nat /\ LineCount(m) >= m.headers + 2
      BY Lines
    <2>2. CASE j = 1
      BY <2>1, <2>2 DEF LineOf
    <2>3. CASE j \in 2..(m.headers + 1)
      BY <2>1, <2>3 DEF LineOf
    <2>4. CASE j = LineCount(m)
      BY <2>1, <2>4 DEF LineOf
    <2>5. CASE j = m.headers + 2 /\ m.fault = "header" /\ j # LineCount(m)
      BY <2>1, <2>5 DEF LineOf
    <2>6. CASE /\ j # 1 /\ j \notin 2..(m.headers + 1) /\ j # LineCount(m)
               /\ ~ (j = m.headers + 2 /\ m.fault = "header")
      BY <2>1, <2>6 DEF LineOf
    <2> QED BY <2>2, <2>3, <2>4, <2>5, <2>6
  <1>3. ASSUME NEW i \in 1..n PROVE Bytes(m, k)[i] \in ByteSet
    <2>1. CASE i <= 2 * LineCount(m)
      <3>1. PICK l, f : l = LineOf(m, (i + 1) \div 2) /\ f = (i % 2 = 0)
        OBVIOUS
      <3>2. f \in BOOLEAN
        BY <3>1
      <3>3. Bytes(m, k)[i] = [kind |-> l, lf |-> f, msg |-> k]
        BY <1>1, <2>1, <3>1 DEF Bytes
      <3> QED BY <1>2, <3>1, <3>2, <3>3 DEF ByteSet
    <2>2. CASE ~ (i <= 2 * LineCount(m))
      <3>1. Bytes(m, k)[i] = [kind |-> "body", lf |-> FALSE, msg |-> k]
        BY <1>1, <2>2 DEF Bytes
      <3> QED BY <3>1 DEF ByteSet
    <2> QED BY <2>1, <2>2
  <1>4. DOMAIN Bytes(m, k) = 1..n /\ Bytes(m, k) = [i \in 1..n |-> Bytes(m, k)[i]]
    BY <1>1 DEF Bytes
  <1>5. PICK f : f = Bytes(m, k)
    OBVIOUS
  <1>6. f \in [1..n -> ByteSet] /\ f \in Seq(ByteSet) /\ Len(f) = n
    BY <1>3, <1>4, <1>5
  <1> QED BY <1>1, <1>5, <1>6

\* A request: it comes when every other is answered, and its bytes end the stream.
LEMMA SendKeeps == IInv /\ SendRequest => IInv'
  <1> SUFFICES ASSUME IInv, SendRequest PROVE IInv'
    OBVIOUS
  <1>1. PICK m \in Kinds :
            /\ Len(responses) = Len(messages)
            /\ \A j \in 1..Len(messages) : messages[j].fault = "none"
            /\ messages' = Append(messages, m)
            /\ stream' = stream \o Bytes(m, Len(messages) + 1)
            /\ UNCHANGED <<io, hi, parserVars, reply, responses>>
    BY DEF SendRequest
  <1>2. TypeOK /\ StreamInv /\ ProgressInv
    BY DEF IInv
  <1>3. PICK k \in Nat : k = Len(messages)
    BY <1>2 DEF TypeOK
  <1>4. PICK f \in Seq(ByteSet) : f = Bytes(m, k + 1) /\ Len(f) = SizeOf(m)
    BY <1>3, BytesType, KindsAssumption
  <1>5. /\ m \in MessageSet /\ SizeOf(m) \in Nat /\ SizeOf(m) >= 4
        /\ BadLine(m) \in Nat /\ BadLine(m) >= 1 /\ LineCount(m) \in Nat /\ LineCount(m) >= 2
    BY KindsAssumption, Lines
  <1>6. /\ messages' \in Seq(Kinds) /\ Len(messages') = k + 1 /\ messages'[k + 1] = m
        /\ \A j \in 1..k : messages'[j] = messages[j]
    BY <1>1, <1>2, <1>3 DEF TypeOK
  <1>7. PICK z \in Nat : z = Len(stream)
    BY <1>2 DEF TypeOK
  <1>8. /\ stream' \in Seq(ByteSet) /\ Len(stream') = z + SizeOf(m)
        /\ \A i \in 1..z : stream'[i] = stream[i]
        /\ \A i \in 1..SizeOf(m) : stream'[z + i] = f[i]
    <2>1. stream \in Seq(ByteSet) /\ stream' = stream \o f
      BY <1>1, <1>2, <1>3, <1>4 DEF TypeOK
    <2>2. \A i \in 1..SizeOf(m) : z + i \in 1..(z + SizeOf(m)) /\ ~ (z + i \in 1..z)
      BY <1>5
    <2>3. PICK n \in Nat : n = SizeOf(m) /\ n = Len(f)
      BY <1>4, <1>5
    <2>4. stream \o f \in Seq(ByteSet) /\ Len(stream \o f) = z + n
      BY <1>7, <2>1, <2>3
    <2>5. \A i \in 1..z : (stream \o f)[i] = stream[i]
      BY <1>7, <2>1, <2>3
    <2>6. ASSUME NEW i \in 1..n PROVE (stream \o f)[z + i] = f[i]
      <3>1. z + i \in 1..(z + n) /\ z + i > z /\ (z + i) - z = i
        OBVIOUS
      <3> QED BY <1>7, <2>1, <2>3, <3>1
    <2> QED BY <2>1, <2>3, <2>4, <2>5, <2>6
  <1>9. Last' = m /\ Base' = z /\ messages' # << >>
    <2>1. Last' = m
      BY <1>6 DEF Last
    <2>2. messages' # << >>
      BY <1>6
    <2> QED BY <1>5, <1>8, <2>1, <2>2 DEF Base
  <1>10. ASSUME NEW i \in 1..SizeOf(m) PROVE f[i].msg = k + 1
    <2>1. i - 1 \in Nat /\ i - 1 < SizeOf(m) /\ (i - 1) + 1 = i
      BY <1>5
    <2> QED BY <1>4, <1>5, <2>1, ByteByByte
  <1>11. UNCHANGED <<io, hi, parserVars, reply, responses>>
    BY <1>1
  <1>12. TypeOK'
    <2>1. Parser' = Parser
      BY <1>11 DEF Parser, parserVars
    <2>2. lo' = lo /\ hi' = hi /\ io' = io /\ reply' = reply /\ responses' = responses
      BY <1>11 DEF parserVars
    <2>3. hi \in 0..Len(stream')
      BY <1>2, <1>5, <1>7, <1>8 DEF TypeOK
    <2> QED BY <1>2, <1>6, <1>8, <2>1, <2>2, <2>3 DEF TypeOK
  <1>13. \A i \in 1..Len(stream') : i \in 1..z \/ (i - z \in 1..SizeOf(m) /\ z + (i - z) = i)
    BY <1>5, <1>8
  <1>14. \A i \in 1..z : stream[i].msg \in 1..k
    BY <1>2, <1>3, <1>7 DEF StreamInv
  <1>15. \A i \in 1..Len(stream') : stream'[i].msg = IF i \in 1..z THEN stream[i].msg ELSE k + 1
    BY <1>8, <1>10, <1>13
  <1>16. StreamInv'
    <2>1. \A i \in 1..Len(stream') : stream'[i].msg \in 1..Len(messages')
      BY <1>6, <1>14, <1>15
    <2>2. \A i \in 1..SizeOf(m) : stream'[z + i] = Bytes(m, k + 1)[i]
      BY <1>4, <1>8
    <2>3. \A i \in 1..z : stream'[i].msg < k + 1
      BY <1>8, <1>14
    <2>4. \A j \in 1..(Len(messages') - 1) : messages'[j].fault = "none"
      BY <1>1, <1>3, <1>6
    <2> QED BY <1>6, <1>9, <2>1, <2>2, <2>3, <2>4 DEF StreamInv
  <1>17. ASSUME NEW j \in 1..k PROVE Expected(j)' = Expected(j)
    <2>1. ASSUME NEW kind PROVE Own(kind, j)' = Own(kind, j)
      <3>1. \A i \in 1..Len(stream') : stream'[i].msg = j => i \in 1..z
        BY <1>15
      <3>2. 1..z \subseteq 1..Len(stream')
        BY <1>5, <1>8
      <3> QED BY <1>7, <1>8, <3>1, <3>2 DEF Own
    <2>2. messages'[j] = messages[j]
      BY <1>6
    <2>3. {i \in Own("header", j)' : stream'[i].lf} = {i \in Own("header", j) : stream[i].lf}
      BY <1>7, <1>8, <2>1, SMTT(30) DEF Own
    <2>4. Own("body", j)' = Own("body", j)
      BY <2>1
    <2>5. PICK h, b, n : /\ h = {i \in Own("header", j) : stream[i].lf}
                         /\ b = Own("body", j) /\ n = messages[j].length
      OBVIOUS
    <2>5a. PICK r : r = [msg |-> j, length |-> n, headers |-> h, body |-> b]
      OBVIOUS
    <2>6. r = [msg |-> j, length |-> n, headers |-> h, body |-> b] /\ r.msg = j
      BY <2>5a
    <2>7. Expected(j) = IF messages[j].fault # "none" THEN BadRequest ELSE Dispatch(r)
      BY <2>5, <2>6 DEF Expected
    <2>8. Expected(j)' = IF messages[j].fault # "none" THEN BadRequest ELSE Dispatch(r)'
      BY <2>2, <2>3, <2>4, <2>5, <2>6 DEF Expected
    <2>9. Dispatch(r)' = Dispatch(r)
      BY <2>2, <2>6 DEF Dispatch
    <2> QED BY <2>7, <2>8, <2>9
  <1>18. ProgressInv'
    <2>1. responses' = responses /\ io' = io /\ hi' = hi /\ reply' = reply
      BY <1>11
    <2>2. \A j \in 1..Len(responses') : responses'[j] = Expected(j)'
      BY <1>1, <1>2, <1>3, <1>17, <2>1 DEF ProgressInv
    <2>3. messages = << >> \/ Last.fault = "none"
      <3>1. messages # << >> => k \in 1..k
        BY <1>2, <1>3 DEF TypeOK
      <3> QED BY <1>1, <1>3, <3>1 DEF Last
    <2>4. io # "writing" /\ (io = "reading" => AtRest)
      BY <1>1, <1>2, <2>3 DEF ProgressInv
    <2>5. ASSUME AtRest PROVE Receiving'
      <3>1. lo = z /\ hi = z /\ state = "METHOD" /\ req = NoRequest
        BY <1>7, <2>5 DEF AtRest
      <3>2. Ended(m, z - z) = 0
        BY <1>5, <1>7 DEF Ended
      <3>3. PICK x : x = {}
        OBVIOUS
      <3>4. HeaderEnds(m, z, 0) = x
        BY <3>3 DEF HeaderEnds
      <3>5. Parsed(m, k + 1, z, 0) =
                [state |-> "METHOD", lo |-> z,
                 req |-> [msg |-> 0, headers |-> x, length |-> 0, body |-> x]]
        <4>1. ~ (0 + 1 >= LineCount(m)) /\ 0 # LineCount(m) /\ z + 2 * 0 = z
          BY <1>5
        <4> QED BY <3>3, <3>4, <4>1 DEF Parsed
      <3>6. NoRequest = [msg |-> 0, headers |-> x, length |-> 0, body |-> x]
        BY <3>3 DEF NoRequest
      <3>7. Parser' = Parsed(m, k + 1, z, 0)
        BY <1>11, <3>1, <3>5, <3>6 DEF Parser, parserVars
      <3>8. hi' >= z /\ hi' < Len(stream') /\ hi' - z = z - z
        BY <1>5, <1>8, <2>1, <3>1
      <3> QED BY <1>5, <1>6, <1>9, <3>2, <3>7, <3>8 DEF Receiving
    <2>6. Len(responses') = k /\ Len(messages') = k + 1
      BY <1>1, <1>3, <1>6, <2>1
    <2> QED BY <2>1, <2>2, <2>4, <2>5, <2>6 DEF ProgressInv
  <1> QED BY <1>12, <1>16, <1>18 DEF IInv

\* Nothing happens.
LEMMA StutterKeeps == IInv /\ UNCHANGED vars => IInv'
  <1> SUFFICES ASSUME IInv, UNCHANGED vars PROVE IInv'
    OBVIOUS
  <1>1. /\ clientVars' = clientVars /\ io' = io /\ hi' = hi /\ reply' = reply
        /\ responses' = responses /\ state' = state /\ lo' = lo /\ req' = req
    BY DEF vars, parserVars
  <1>2. /\ messages' = messages /\ stream' = stream /\ Last' = Last /\ Base' = Base
        /\ \A k : Expected(k)' = Expected(k)
        /\ StreamInv'
    BY <1>1, ClientUnchanged DEF IInv
  <1>3. TypeOK'
    BY <1>1, <1>2 DEF IInv, TypeOK, Parser
  <1>4. ProgressInv'
    BY <1>1, <1>2 DEF IInv, ProgressInv, Receiving, AtRest, Parser
  <1> QED BY <1>2, <1>3, <1>4 DEF IInv

-----------------------------------------------------------------------------
(* The theorems.                                                           *)

\* What Parser, Session and Router have made of the bytes so far is what the requests
\* they belong to say, at every cut that TCP makes.
THEOREM SpecIInv == Spec => []IInv
  <1>1. IInv /\ [Next]_vars => IInv'
    BY SendKeeps, ReadKeeps, FailsKeeps, WriteCompletesKeeps, StutterKeeps DEF Next
  <1> QED BY InitInv, <1>1, PTL DEF Spec

\* Every variable keeps its type, and buffer_ is always a segment of what was received.
THEOREM SpecTypeOK == Spec => []TypeOK
  <1>1. IInv => TypeOK
    BY DEF IInv
  <1> QED BY SpecIInv, <1>1, PTL

\* A client gets, in order, the response to each request it sent, made from that
\* request's headers and body and nothing else, up to its first malformed request,
\* whose answer is 400, whatever the requests and the sizes of the reads are.
THEOREM SpecAnswersRequests == Spec => []AnswersRequests
  <1>1. IInv => AnswersRequests
    <2> SUFFICES ASSUME IInv, NEW k \in 1..Len(responses),
                        \A j \in 1..Len(messages) : j < k => messages[j].fault = "none"
                 PROVE  k <= Len(messages) /\ responses[k] = Expected(k)
      BY DEF AnswersRequests
    <2>1. TypeOK /\ StreamInv /\ ProgressInv
      BY DEF IInv
    <2>2. k <= Len(messages)
      <3> SUFFICES ASSUME k > Len(messages) PROVE FALSE
        BY <2>1 DEF TypeOK
      <3>1. messages # << >> /\ Last.fault # "none"
        BY <2>1 DEF ProgressInv, TypeOK
      <3>2. Len(messages) \in 1..Len(messages)
        BY <2>1, <3>1 DEF TypeOK
      <3> QED BY <3>1, <3>2 DEF Last
    <2> QED BY <2>1, <2>2 DEF ProgressInv
  <1> QED BY SpecIInv, <1>1, PTL
=============================================================================
