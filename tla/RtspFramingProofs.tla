------------------------- MODULE RtspFramingProofs -------------------------
(***************************************************************************)
(* Proofs about RtspFraming: type correctness, that each answer bears the  *)
(* CSeq of its request, and that each report reaches HandleRtcpData, for   *)
(* any number of messages and any cuts between requests.                   *)
(***************************************************************************)
EXTENDS RtspFraming, TLAPS

Messages == Request \cup Report

-----------------------------------------------------------------------------
(* The inductive invariant.                                                *)

\* The messages lie one after the other in the stream.
Layout ==
    /\ \A k \in DOMAIN sent :
          /\ k \in Requests => sent[k].to = sent[k].from + LineLen + 2
          /\ k \in Reports => sent[k].to = FrameEnd(sent[k])
          /\ sent[k].to <= Total
    /\ \A j, k \in DOMAIN sent : j < k => sent[j].to <= sent[k].from

\* The requests are numbered in the order in which they are sent.
Numbers ==
    /\ \A k \in Requests : sent[k].cseq \in 1..nrequests
    /\ \A i \in 1..nrequests : \E k \in Requests : sent[k].cseq = i
    /\ \A j, k \in Requests : j < k => sent[j].cseq < sent[k].cseq

AtBoundary(p) == \A k \in DOMAIN sent : ~(sent[k].from < p /\ p < sent[k].to)

\* Only the last message can be a request without an answer; what is answered has
\* left the buffer.
AnswersInv ==
    /\ Len(answers) <= nrequests
    /\ \A i \in 1..Len(answers) : answers[i] = i
    /\ Len(answers) # nrequests =>
          /\ Len(answers) + 1 = nrequests
          /\ Len(sent) \in Requests /\ sent[Len(sent)].cseq = nrequests
    /\ \A k \in Requests : sent[k].cseq <= Len(answers) => sent[k].to <= start

\* The buffer begins with a message, and holds no whole one.
BufferInv ==
    /\ AtBoundary(start)
    /\ \A k \in DOMAIN sent : sent[k].to <= received => sent[k].to <= start
    /\ ~Streaming => \A k \in Reports : sent[k].to <= start

ReportsInv ==
    /\ \A k \in Reports :
          sent[k].to > start => (sent[k].rtcp <=> sent[k].channel = rtcpChannel)
    /\ reports = {k \in Reports : sent[k].rtcp /\ sent[k].to <= start}

Tidy == AnswersInv /\ BufferInv /\ ReportsInv

IInv == TypeOK /\ Layout /\ Numbers /\ (~cut => Tidy)

-----------------------------------------------------------------------------
(* Facts about the messages.                                               *)

\* Every message is a request or a report, with its fields.
LEMMA MessageType ==
    ASSUME TypeOK, NEW k \in DOMAIN sent
    PROVE  /\ Len(sent) \in Nat /\ k \in 1..Len(sent)
           /\ sent[k].from \in Nat /\ sent[k].to \in Nat
           /\ k \in Requests <=> k \notin Reports
           /\ k \in Requests => sent[k] \in Request
           /\ k \in Reports => sent[k] \in Report
  <1>1. sent \in Seq(Messages)
    BY DEF TypeOK, Messages
  <1>2. Len(sent) \in Nat /\ k \in 1..Len(sent) /\ sent[k] \in Messages
    BY <1>1
  <1>3. QED BY <1>2 DEF Messages, Request, Report, Requests, Reports

\* Total is the end of the last message.
LEMMA TotalType ==
    ASSUME TypeOK
    PROVE  /\ Total \in Nat /\ Len(sent) \in Nat /\ DOMAIN sent = 1..Len(sent)
           /\ Len(sent) > 0 => Len(sent) \in DOMAIN sent /\ Total = sent[Len(sent)].to
           /\ Len(sent) = 0 => Total = 0
  <1>1. sent \in Seq(Messages)
    BY DEF TypeOK, Messages
  <1>2. Len(sent) \in Nat /\ DOMAIN sent = 1..Len(sent) /\ (Len(sent) = 0 <=> sent = << >>)
    BY <1>1
  <1>3. CASE Len(sent) = 0
    BY <1>2, <1>3 DEF Total
  <1>4. CASE Len(sent) > 0
    <2>1. Len(sent) \in DOMAIN sent
      BY <1>2, <1>4
    <2>2. sent[Len(sent)].to \in Nat
      BY <2>1, MessageType
    <2>3. QED BY <1>2, <1>4, <2>1, <2>2 DEF Total
  <1>5. QED BY <1>2, <1>3, <1>4

\* A new message comes after those that are there.
LEMMA NewMessage ==
    ASSUME TypeOK, NEW m \in Messages, sent' = Append(sent, m)
    PROVE  /\ sent' \in Seq(Messages)
           /\ Len(sent') = Len(sent) + 1 /\ Len(sent) \in Nat
           /\ DOMAIN sent = 1..Len(sent) /\ DOMAIN sent' = 1..(Len(sent) + 1)
           /\ \A k \in DOMAIN sent : sent'[k] = sent[k]
           /\ sent'[Len(sent) + 1] = m
           /\ Total' = m.to
  <1>1. sent \in Seq(Messages)
    BY DEF TypeOK, Messages
  <1>2. /\ sent' \in Seq(Messages)
        /\ Len(sent') = Len(sent) + 1 /\ Len(sent) \in Nat
        /\ DOMAIN sent = 1..Len(sent) /\ DOMAIN sent' = 1..(Len(sent) + 1)
        /\ \A k \in DOMAIN sent : sent'[k] = sent[k]
        /\ sent'[Len(sent) + 1] = m
    BY <1>1
  <1>3. sent' # << >>
    BY <1>2
  <1>4. Total' = sent'[Len(sent')].to
    BY <1>3 DEF Total
  <1>5. QED BY <1>2, <1>4

\* A message ends before a later one does.
LEMMA OrderedEnds ==
    ASSUME TypeOK, Layout, NEW j \in DOMAIN sent, NEW k \in DOMAIN sent, j < k
    PROVE  sent[j].to <= sent[k].from /\ sent[k].from <= sent[k].to
  <1>1. sent[k].from \in Nat /\ sent[k].to \in Nat
    BY MessageType
  <1>2. CASE k \in Requests
    BY <1>1, <1>2, LengthsAssumption DEF Layout
  <1>3. CASE k \in Reports
    <2>1. sent[k].size \in Nat /\ sent[k].to = sent[k].from + HeaderLen + sent[k].size
      BY <1>3, MessageType DEF Layout, FrameEnd, Report
    <2>2. QED BY <1>1, <2>1, LengthsAssumption DEF Layout
  <1>4. QED BY <1>2, <1>3, MessageType DEF Layout

-----------------------------------------------------------------------------
(* The client's steps.                                                     *)

\* Initially.
LEMMA InitInv == ASSUME Init PROVE IInv
  <1>1. sent = << >> /\ DOMAIN sent = {} /\ Len(sent) = 0 /\ Total = 0
    BY DEF Init, Total
  <1>2. sent \in Seq(Request \cup Report) /\ answers \in Seq(Nat \cup {None})
    BY <1>1 DEF Init
  <1>3. received \in 0..Total /\ start \in 0..received /\ reports \subseteq DOMAIN sent
    BY <1>1 DEF Init
  <1>4. TypeOK
    BY <1>2, <1>3, ChannelsAssumption DEF Init, TypeOK
  <1>5. Requests = {} /\ Reports = {}
    BY <1>1 DEF Requests, Reports
  <1>6. Layout
    BY <1>1 DEF Layout
  <1>7. Numbers
    <2>1. nrequests = 0 /\ 1..nrequests = {}
      BY DEF Init
    <2>2. QED BY <1>5, <2>1 DEF Numbers
  <1>8. AnswersInv
    <2>1. answers = << >> /\ Len(answers) = 0 /\ nrequests = 0 /\ 1..Len(answers) = {}
      BY DEF Init
    <2>2. QED BY <1>5, <2>1 DEF AnswersInv
  <1>9. BufferInv /\ ReportsInv
    BY <1>1, <1>5 DEF Init, BufferInv, ReportsInv, AtBoundary
  <1>10. QED BY <1>4, <1>6, <1>7, <1>8, <1>9 DEF IInv, Tidy

\* The client sends a request.
LEMMA SendRequestKeeps ==
    ASSUME IInv, NEW m \in Methods, NEW c \in Channels \cup {Same}, SendRequest(m, c)
    PROVE  IInv'
  <1> DEFINE r == [kind |-> "request", method |-> m, channel |-> c, cseq |-> nrequests + 1,
                   from |-> Total, to |-> Total + LineLen + 2]
             n == Len(sent) + 1
  <1>1. TypeOK /\ Layout /\ Numbers /\ Total \in Nat /\ nrequests \in Nat
    BY TotalType DEF IInv, TypeOK
  <1>2. r \in Request /\ r \in Messages
    BY <1>1, LengthsAssumption DEF Request, Messages
  <1>3. sent' = Append(sent, r)
    BY DEF SendRequest
  <1>4. /\ sent' \in Seq(Messages)
        /\ Len(sent') = n /\ Len(sent) \in Nat
        /\ DOMAIN sent = 1..Len(sent) /\ DOMAIN sent' = 1..n
        /\ \A k \in DOMAIN sent : sent'[k] = sent[k]
        /\ sent'[n] = r /\ Total' = r.to
    BY <1>1, <1>2, <1>3, NewMessage
  <1> HIDE DEF r
  <1>5. /\ r.kind = "request" /\ r.cseq = nrequests + 1 /\ r.from = Total
        /\ r.to = Total + LineLen + 2 /\ nrequests' = nrequests + 1
    BY DEF r, SendRequest
  <1>6. Requests' = Requests \cup {n} /\ Reports' = Reports
    BY <1>4, <1>5 DEF Requests, Reports
  <1>7. UNCHANGED <<received, start, cut, contextVars, answers, reports>>
    BY DEF SendRequest
  <1>8. TypeOK'
    BY <1>1, <1>4, <1>5, <1>7, LengthsAssumption DEF TypeOK, Messages, contextVars
  <1>9. Layout'
    BY <1>1, <1>4, <1>5, <1>6, MessageType, LengthsAssumption, SMTT(30)
       DEF Layout, FrameEnd, Requests, Reports
  <1>10. Numbers'
    <2>1. /\ Requests \subseteq 1..Len(sent)
          /\ \A k \in Requests : sent'[k] = sent[k] /\ sent[k].cseq \in 1..nrequests
      BY <1>1, <1>4 DEF Numbers, Requests
    <2>2. \A k \in Requests' : sent'[k].cseq \in 1..nrequests'
      BY <1>1, <1>4, <1>5, <1>6, <2>1
    <2>3. ASSUME NEW i \in 1..nrequests' PROVE \E k \in Requests' : sent'[k].cseq = i
      <3>1. CASE i = nrequests + 1
        BY <1>4, <1>5, <1>6, <3>1
      <3>2. CASE i \in 1..nrequests
        BY <1>1, <1>6, <2>1, <3>2 DEF Numbers
      <3>3. QED BY <1>1, <1>5, <3>1, <3>2
    <2>4. ASSUME NEW j \in Requests', NEW k \in Requests', j < k
          PROVE  sent'[j].cseq < sent'[k].cseq
      <3>1. j \in Requests
        BY <1>4, <1>6, <2>1, <2>4
      <3>2. CASE k = n
        BY <1>1, <1>4, <1>5, <2>1, <3>1, <3>2
      <3>3. CASE k \in Requests
        BY <1>1, <2>1, <2>4, <3>1, <3>3 DEF Numbers
      <3>4. QED BY <1>6, <3>2, <3>3
    <2>5. QED BY <2>2, <2>3, <2>4 DEF Numbers
  <1>11. ASSUME ~cut PROVE Tidy'
    <2>1. Tidy /\ Satisfied
      BY <1>11 DEF IInv, SendRequest
    <2>2. AnswersInv'
      <3>1. Len(answers) = nrequests /\ answers' = answers /\ start' = start
        BY <1>7, <2>1 DEF Satisfied
      <3>2. /\ Requests \subseteq 1..Len(sent)
            /\ \A k \in Requests : sent'[k] = sent[k] /\ sent[k].to <= start
        BY <1>1, <1>4, <2>1, <3>1 DEF Numbers, Requests, Tidy, AnswersInv
      <3>3. \A k \in Requests' : sent'[k].cseq <= Len(answers) => sent'[k].to <= start
        BY <1>1, <1>4, <1>5, <1>6, <3>1, <3>2
      <3>4. n \in Requests' /\ sent'[n].cseq = nrequests'
        BY <1>4, <1>5, <1>6
      <3>5. \A i \in 1..Len(answers) : answers[i] = i
        BY <2>1 DEF Tidy, AnswersInv
      <3>6. QED BY <1>1, <1>4, <1>5, <3>1, <3>3, <3>4, <3>5 DEF AnswersInv
    <2>3. BufferInv'
      <3>1. /\ start \in Nat /\ received \in Nat /\ start <= received /\ received <= Total
            /\ start' = start /\ received' = received /\ (Streaming' <=> Streaming)
        BY <1>1, <1>7 DEF TypeOK, contextVars, Streaming
      <3>2. AtBoundary(start)'
        BY <1>1, <1>4, <1>5, <2>1, <3>1 DEF Tidy, BufferInv, AtBoundary
      <3>3. \A k \in DOMAIN sent' : sent'[k].to <= received => sent'[k].to <= start
        BY <1>1, <1>4, <1>5, <2>1, <3>1, LengthsAssumption DEF Tidy, BufferInv
      <3>4. ~Streaming => \A k \in Reports' : sent'[k].to <= start
        BY <1>4, <1>6, <2>1 DEF Tidy, BufferInv, Reports
      <3>5. QED BY <3>1, <3>2, <3>3, <3>4 DEF BufferInv
    <2>4. ReportsInv'
      BY <1>4, <1>6, <1>7, <2>1 DEF Tidy, ReportsInv, Reports, contextVars
    <2>5. QED BY <2>2, <2>3, <2>4 DEF Tidy
  <1>12. QED BY <1>7, <1>8, <1>9, <1>10, <1>11 DEF IInv

\* The client sends a report.
LEMMA SendReportKeeps ==
    ASSUME IInv, NEW c \in Channels, NEW size \in Nat, SendReport(c, size)
    PROVE  IInv'
  <1> DEFINE r == [kind |-> "report", channel |-> c, size |-> size, rtcp |-> (c = rtcpChannel),
                   from |-> Total, to |-> Total + HeaderLen + size]
             n == Len(sent) + 1
  <1>1. TypeOK /\ Layout /\ Numbers /\ Total \in Nat /\ nrequests \in Nat
    BY TotalType DEF IInv, TypeOK
  <1>2. r \in Report /\ r \in Messages
    BY <1>1, LengthsAssumption DEF Report, Messages
  <1>3. sent' = Append(sent, r)
    BY DEF SendReport
  <1>4. /\ sent' \in Seq(Messages)
        /\ Len(sent') = n /\ Len(sent) \in Nat
        /\ DOMAIN sent = 1..Len(sent) /\ DOMAIN sent' = 1..n
        /\ \A k \in DOMAIN sent : sent'[k] = sent[k]
        /\ sent'[n] = r /\ Total' = r.to
    BY <1>1, <1>2, <1>3, NewMessage
  <1>5. /\ r.kind = "report" /\ r.from = Total /\ r.size = size
        /\ r.to = Total + HeaderLen + size /\ (r.rtcp <=> r.channel = rtcpChannel)
    OBVIOUS
  <1> HIDE DEF r
  <1>6. Requests' = Requests /\ Reports' = Reports \cup {n}
    BY <1>4, <1>5 DEF Requests, Reports
  <1>7. UNCHANGED <<nrequests, received, start, cut, contextVars, answers, reports>>
    BY DEF SendReport
  <1>8. TypeOK'
    BY <1>1, <1>4, <1>5, <1>7, LengthsAssumption DEF TypeOK, Messages, contextVars
  <1>9. Layout'
    <2>1. \A k \in DOMAIN sent : /\ sent'[k] = sent[k] /\ sent[k].from \in Nat
                                /\ sent[k].to \in Nat /\ sent[k].to <= Total
      BY <1>1, <1>4, MessageType DEF Layout
    <2>2. Total' \in Nat /\ Total <= Total' /\ sent'[n].to = Total' /\ sent'[n].from = Total
      BY <1>1, <1>4, <1>5, LengthsAssumption
    <2>3. \A k \in DOMAIN sent' : sent'[k].to <= Total'
      BY <1>1, <1>4, <2>1, <2>2
    <2>4. \A k \in Requests' : sent'[k].to = sent'[k].from + LineLen + 2
      BY <1>1, <1>6, <2>1 DEF Layout, Requests
    <2>5. \A k \in Reports : sent'[k].to = FrameEnd(sent'[k])
      BY <1>1, <2>1 DEF Layout, Reports
    <2>6. sent'[n].to = FrameEnd(sent'[n])
      BY <1>1, <1>4, <1>5 DEF FrameEnd
    <2>7. \A j, k \in DOMAIN sent' : j < k => sent'[j].to <= sent'[k].from
      BY <1>1, <1>4, <2>1, <2>2 DEF Layout
    <2>8. QED BY <1>6, <2>3, <2>4, <2>5, <2>6, <2>7 DEF Layout
  <1>10. Numbers'
    BY <1>1, <1>4, <1>6, <1>7 DEF Numbers, Requests
  <1>11. ASSUME ~cut PROVE Tidy'
    <2>1. Tidy /\ Satisfied /\ Streaming
      BY <1>11 DEF IInv, SendReport
    <2>2. AnswersInv'
      BY <1>1, <1>4, <1>6, <1>7, <2>1 DEF Tidy, AnswersInv, Satisfied, Requests
    <2>3. BufferInv'
      <3>1. /\ start \in Nat /\ received \in Nat /\ start <= received /\ received <= Total
            /\ start' = start /\ received' = received /\ Streaming'
        BY <1>1, <1>7, <2>1 DEF TypeOK, contextVars, Streaming
      <3>2. AtBoundary(start)'
        BY <1>1, <1>4, <1>5, <2>1, <3>1 DEF Tidy, BufferInv, AtBoundary
      <3>3. \A k \in DOMAIN sent' : sent'[k].to <= received => sent'[k].to <= start
        BY <1>1, <1>4, <1>5, <2>1, <3>1, LengthsAssumption DEF Tidy, BufferInv
      <3>4. QED BY <3>1, <3>2, <3>3 DEF BufferInv
    <2>4. ReportsInv'
      BY <1>1, <1>4, <1>5, <1>6, <1>7, <2>1, LengthsAssumption
      DEF Tidy, ReportsInv, Reports, contextVars, TypeOK
    <2>5. QED BY <2>2, <2>3, <2>4 DEF Tidy
  <1>12. QED BY <1>7, <1>8, <1>9, <1>10, <1>11 DEF IInv
-----------------------------------------------------------------------------
(* What OnBytes finds in the buffer.                                       *)

\* A frame that is taken is a report that is wholly there.
LEMMA WholeFramesAre ==
    ASSUME TypeOK, Layout, NEW b \in Nat, NEW k \in WholeFrames(b)
    PROVE  /\ k \in Reports /\ FrameEnd(sent[k]) = sent[k].to
           /\ start <= sent[k].from /\ start < sent[k].to /\ sent[k].to <= b
  <1>1. /\ k \in DOMAIN sent /\ sent[k].from >= start /\ start \in Nat
        /\ sent[k].to > start => sent[k].kind = "report" /\ FrameEnd(sent[k]) <= b
    <2>1. k \in 1..Len(sent) /\ Len(sent) \in Nat
      BY MessageType DEF WholeFrames
    <2>2. k \in 1..k
      BY <2>1
    <2>3. QED BY <2>2 DEF WholeFrames, TypeOK
  <1>2. sent[k].from \in Nat /\ sent[k].to \in Nat
    BY <1>1, MessageType
  <1>3. sent[k].to > sent[k].from
    <2>1. CASE k \in Requests
      BY <1>1, <1>2, <2>1, LengthsAssumption DEF Layout
    <2>2. CASE k \in Reports
      <3>1. sent[k].size \in Nat /\ sent[k].to = sent[k].from + HeaderLen + sent[k].size
        BY <1>1, <2>2, MessageType DEF Layout, FrameEnd, Report
      <3>2. QED BY <1>2, <3>1, LengthsAssumption
    <2>3. QED BY <1>1, <2>1, <2>2, MessageType
  <1>4. k \in Reports /\ FrameEnd(sent[k]) <= b
    BY <1>1, <1>2, <1>3 DEF Reports
  <1>5. QED BY <1>1, <1>2, <1>3, <1>4 DEF Layout

\* Where the buffer may begin after them.
LEMMA AfterFrames ==
    ASSUME TypeOK, Layout, NEW b \in Nat, start <= b, NEW s \in {start} \cup Ends(b)
    PROVE  s \in Nat /\ start <= s /\ s <= b /\ (AtBoundary(start) => AtBoundary(s))
  <1>1. CASE s = start
    BY <1>1 DEF TypeOK
  <1>2. CASE s \in Ends(b)
    <2>1. PICK k \in WholeFrames(b) : s = FrameEnd(sent[k])
      BY <1>2 DEF Ends
    <2>2. /\ k \in DOMAIN sent /\ s = sent[k].to
          /\ start < sent[k].to /\ sent[k].to <= b
      BY <2>1, WholeFramesAre DEF Reports
    <2>3. ASSUME NEW j \in DOMAIN sent PROVE ~(sent[j].from < s /\ s < sent[j].to)
      <3>1. /\ j \in 1..Len(sent) /\ k \in 1..Len(sent) /\ Len(sent) \in Nat
            /\ sent[j].from \in Nat /\ sent[j].to \in Nat
            /\ sent[k].from \in Nat /\ sent[k].to \in Nat
        BY <2>2, MessageType
      <3>2. CASE j < k
        BY <2>2, <3>1, <3>2, WholeFramesAre, OrderedEnds
      <3>3. CASE j >= k
        BY <2>2, <3>1, <3>3 DEF Layout
      <3>4. QED BY <3>1, <3>2, <3>3
    <2>4. s \in Nat /\ start \in Nat
      BY <2>2, MessageType DEF TypeOK
    <2>5. QED BY <2>2, <2>3, <2>4 DEF AtBoundary
  <1>3. QED BY <1>1, <1>2

\* A request in the buffer is the last message, and has no answer.
LEMMA Unanswered ==
    ASSUME IInv, Tidy, NEW j \in Requests, sent[j].to > start
    PROVE  /\ j = Len(sent) /\ sent[j].to = Total
           /\ sent[j].cseq = nrequests /\ Len(answers) + 1 = nrequests
  <1>1. /\ TypeOK /\ Layout /\ Numbers /\ AnswersInv
        /\ j \in DOMAIN sent /\ sent[j].to \in Nat /\ start \in Nat /\ nrequests \in Nat
        /\ Len(answers) \in Nat /\ j \in 1..Len(sent) /\ Len(sent) \in Nat
    BY MessageType DEF IInv, Tidy, TypeOK, Requests
  <1>2. sent[j].cseq \in 1..nrequests /\ ~(sent[j].cseq <= Len(answers))
    BY <1>1 DEF Numbers, AnswersInv
  <1>3. /\ Len(answers) + 1 = nrequests /\ sent[j].cseq = nrequests
        /\ Len(sent) \in Requests /\ sent[Len(sent)].cseq = nrequests
    BY <1>1, <1>2 DEF AnswersInv
  <1>4. j = Len(sent)
    BY <1>1, <1>3 DEF Numbers
  <1>5. QED BY <1>1, <1>3, <1>4, TotalType

\* Every report that is wholly there is taken.
LEMMA EveryFrame ==
    ASSUME IInv, Tidy, NEW b \in Nat, NEW k \in Reports, sent[k].to > start, sent[k].to <= b
    PROVE  k \in WholeFrames(b)
  <1>1. /\ TypeOK /\ Layout /\ k \in DOMAIN sent /\ start \in Nat
        /\ sent[k].from \in Nat /\ sent[k].to \in Nat
        /\ k \in 1..Len(sent) /\ Len(sent) \in Nat
    BY MessageType DEF IInv, TypeOK, Reports
  <1>2. sent[k].from >= start
    BY <1>1 DEF Tidy, BufferInv, AtBoundary
  <1>3. ASSUME NEW j \in 1..k, sent[j].to > start
        PROVE  sent[j].kind = "report" /\ FrameEnd(sent[j]) <= b
    <2>1. j \in DOMAIN sent
      BY <1>1, TotalType
    <2>2. sent[j].to \in Nat /\ (j \in Requests <=> j \notin Reports)
      BY <1>1, <2>1, MessageType
    <2>3. j \in Reports
      <3>1. CASE j \in Requests
        <4>1. j = Len(sent)
          BY <1>3, <3>1, Unanswered
        <4>2. QED BY <1>1, <2>2, <3>1, <4>1
      <3>2. QED BY <2>2, <3>1
    <2>4. sent[j].to <= b
      <3>1. CASE j = k
        BY <3>1
      <3>2. CASE j < k
        BY <1>1, <2>1, <2>2, <3>2, OrderedEnds
      <3>3. QED BY <1>1, <3>1, <3>2
    <2>5. QED BY <1>1, <2>3, <2>4 DEF Layout, Reports
  <1>4. QED BY <1>1, <1>2, <1>3 DEF WholeFrames

\* What HandleRtspRequest is given, unless a read cuts a request: a whole one.
LEMMA WholeRequest ==
    ASSUME IInv, Tidy, NEW b \in Nat, b <= Total, ~Cuts(b),
           NEW s \in Nat, start <= s, s < b, AtBoundary(s),
           NEW k \in Requests, Holds(sent[k], s)
    PROVE  /\ sent[k].from = s /\ b = Total
           /\ HandleRtspRequest(sent[k], s, b) => answers' = Append(answers, nrequests)
           /\ Len(answers) + 1 = nrequests
  <1>1. /\ TypeOK /\ k \in DOMAIN sent /\ sent[k].from \in Nat /\ sent[k].to \in Nat
        /\ start \in Nat /\ sent[k].kind = "request" /\ Layout
    BY MessageType DEF IInv, TypeOK, Requests
  <1>2. sent[k].from = s /\ sent[k].to > start
    BY <1>1 DEF AtBoundary, Holds
  <1>3. /\ k = Len(sent) /\ sent[k].to = Total
        /\ sent[k].cseq = nrequests /\ Len(answers) + 1 = nrequests
    BY <1>2, Unanswered
  <1>4. b = sent[k].to
    BY <1>1, <1>2, <1>3 DEF Cuts
  <1>5. b = sent[k].from + LineLen + 2
    BY <1>1, <1>4 DEF Layout
  <1>6. IsRequestLine(sent[k], s, b) /\ CSeqRead(sent[k], b) = nrequests
    BY <1>1, <1>2, <1>3, <1>5, LengthsAssumption DEF IsRequestLine, CSeqRead
  <1>7. QED BY <1>2, <1>3, <1>4, <1>6 DEF HandleRtspRequest

-----------------------------------------------------------------------------
(* A read.                                                                 *)

\* HandleRtspRequest keeps the types.
LEMMA HandlingType ==
    ASSUME TypeOK, NEW k \in DOMAIN sent, NEW a \in Nat, NEW b \in Nat,
           HandleRtspRequest(sent[k], a, b)
    PROVE  /\ state' \in {"INIT", "READY", "PLAYING", "PAUSED", "TEARDOWN"}
           /\ cseq' \in Nat \cup {None} /\ rtcpChannel' \in Channels
           /\ answers' \in Seq(Nat \cup {None})
  <1>1. CASE IsRequestLine(sent[k], a, b)
    <2>1. sent[k] \in Request
      BY <1>1, MessageType DEF IsRequestLine, Requests
    <2>2. cseq' \in Nat \cup {None}
      BY <1>1, <2>1 DEF HandleRtspRequest, CSeqRead, Request, TypeOK
    <2>3. answers' \in Seq(Nat \cup {None})
      <3>1. answers \in Seq(Nat \cup {None}) /\ answers' = Append(answers, cseq')
        BY <1>1 DEF HandleRtspRequest, TypeOK
      <3>2. QED BY ONLY <2>2, <3>1
    <2>4. state' \in {"INIT", "READY", "PLAYING", "PAUSED", "TEARDOWN"}
      BY <1>1 DEF HandleRtspRequest, NextState, TypeOK
    <2>5. rtcpChannel' \in Channels
      BY <1>1, <2>1 DEF HandleRtspRequest, Request, TypeOK
    <2>6. QED BY <2>2, <2>3, <2>4, <2>5
  <1>2. CASE ~IsRequestLine(sent[k], a, b)
    BY <1>2 DEF HandleRtspRequest, TypeOK, contextVars
  <1>3. QED BY <1>1, <1>2

\* A read keeps the types.
LEMMA OnBytesType ==
    ASSUME TypeOK, Layout, NEW n \in 1..(Total - received), OnBytes(n)
    PROVE  /\ TypeOK' /\ received' = received + n /\ received' \in Nat
           /\ received < received' /\ received' <= Total
           /\ UNCHANGED <<sent, nrequests>> /\ (cut' <=> cut \/ Cuts(received'))
  <1> DEFINE b == received + n
  <1>1. /\ received \in Nat /\ start \in Nat /\ Total \in Nat /\ start <= received
        /\ b \in Nat /\ received < b /\ b <= Total
    BY TotalType DEF TypeOK
  <1>2. /\ received' = b /\ (cut' <=> cut \/ Cuts(b)) /\ cut' \in BOOLEAN
        /\ sent' = sent /\ nrequests' = nrequests /\ Total' = Total
    BY DEF OnBytes, clientVars, Total, TypeOK
  <1> HIDE DEF b
  <1>3. /\ state' \in {"INIT", "READY", "PLAYING", "PAUSED", "TEARDOWN"}
        /\ cseq' \in Nat \cup {None} /\ rtcpChannel' \in Channels
        /\ answers' \in Seq(Nat \cup {None})
        /\ start' \in 0..b /\ reports' \subseteq DOMAIN sent
    <2>1. CASE Streaming
      <3>1. ProcessInterleavedData(b)
        BY <2>1 DEF OnBytes, b
      <3>2. PICK s \in {start} \cup Ends(b) :
               /\ TakeFrames(b, s)
               /\ IF MustWait(s, b)
                  THEN start' = s /\ UNCHANGED <<contextVars, answers>>
                  ELSE /\ start' = b
                       /\ \E k \in DOMAIN sent :
                             /\ Holds(sent[k], s)
                             /\ \E text \in IsText(sent[k], s) :
                                   IF text THEN HandleRtspRequest(sent[k], s, b)
                                   ELSE UNCHANGED <<contextVars, answers>>
        BY <3>1 DEF ProcessInterleavedData
      <3>3. s \in Nat /\ s <= b
        BY <1>1, AfterFrames
      <3>4. reports' \subseteq DOMAIN sent
        BY <3>2 DEF TakeFrames, WholeFrames, TypeOK
      <3>5. CASE UNCHANGED <<contextVars, answers>>
        BY <1>1, <3>2, <3>3, <3>4, <3>5 DEF TypeOK, contextVars
      <3>6. CASE \E k \in DOMAIN sent : HandleRtspRequest(sent[k], s, b) /\ start' = b
        BY <1>1, <3>3, <3>4, <3>6, HandlingType
      <3>7. QED BY <3>2, <3>5, <3>6
    <2>2. CASE ~Streaming
      <3>1. PICK k \in DOMAIN sent : HandleRtspRequest(sent[k], start, b)
        BY <2>2 DEF OnBytes, b
      <3>2. start' = b /\ reports' = reports
        BY <2>2 DEF OnBytes, b
      <3>3. QED BY <1>1, <3>1, <3>2, HandlingType DEF TypeOK
    <2>3. QED BY <2>1, <2>2
  <1>4. TypeOK'
    BY <1>1, <1>2, <1>3 DEF TypeOK
  <1>5. QED BY <1>1, <1>2, <1>4 DEF b

\* A whole request is all there is, and what was before it has been taken.
LEMMA RequestTaken ==
    ASSUME IInv, Tidy, TypeOK', sent' = sent, nrequests' = nrequests,
           start' = Total, received' = Total,
           /\ answers' = Append(answers, nrequests) /\ Len(answers) + 1 = nrequests
           \/ answers' = answers,
           reports' = {k \in Reports : sent[k].rtcp}
    PROVE  Tidy'
  <1>1. /\ TypeOK /\ Layout /\ Total \in Nat /\ start \in Nat /\ start <= Total
        /\ Requests' = Requests /\ Reports' = Reports
    <2>1. TypeOK /\ Total \in Nat
      BY TotalType DEF IInv
    <2>2. QED BY <2>1 DEF IInv, TypeOK, Requests, Reports
  <1>2. \A k \in DOMAIN sent : sent[k].to \in Nat /\ sent[k].to <= Total
    BY <1>1, MessageType DEF Layout
  <1>3. AnswersInv'
    <2>1. AnswersInv /\ answers \in Seq(Nat \cup {None}) /\ nrequests \in Nat
      BY <1>1 DEF Tidy, TypeOK
    <2>2. CASE answers' = Append(answers, nrequests) /\ Len(answers) + 1 = nrequests
      <3>1. Len(answers') = nrequests /\ \A i \in 1..Len(answers') : answers'[i] = i
        BY <2>1, <2>2 DEF AnswersInv
      <3>2. QED BY <1>1, <1>2, <2>1, <3>1 DEF AnswersInv, Requests
    <2>3. CASE answers' = answers
      BY <1>1, <1>2, <2>1, <2>3 DEF AnswersInv, Requests
    <2>4. QED BY <2>2, <2>3
  <1>4. BufferInv'
    BY <1>1, <1>2 DEF BufferInv, AtBoundary, Reports
  <1>5. ReportsInv'
    BY <1>1, <1>2 DEF ReportsInv, Reports
  <1>6. QED BY <1>3, <1>4, <1>5 DEF Tidy

\* A read that cuts no request leaves whole messages answered or taken, and no others.
LEMMA OnBytesKeepsTidy ==
    ASSUME IInv, Tidy, NEW n \in 1..(Total - received), OnBytes(n), ~Cuts(received + n)
    PROVE  Tidy'
  <1> DEFINE b == received + n
  <1>1. /\ TypeOK /\ Layout /\ start \in Nat /\ b \in Nat /\ received \in Nat
        /\ start <= received /\ received < b /\ b <= Total
        /\ AtBoundary(start) /\ ~Cuts(b) /\ Total \in Nat
    BY TotalType DEF IInv, TypeOK, Tidy, BufferInv
  <1>2. /\ TypeOK' /\ received' = b /\ sent' = sent /\ nrequests' = nrequests
        /\ Requests' = Requests /\ Reports' = Reports
    BY <1>1, OnBytesType DEF Requests, Reports
  <1>3. OnBytes(n) /\ b = received + n
    OBVIOUS
  <1> HIDE DEF b
  <1>4. CASE ~Streaming
    <2>1. PICK k \in DOMAIN sent : Holds(sent[k], start) /\ HandleRtspRequest(sent[k], start, b)
      BY <1>3, <1>4 DEF OnBytes
    <2>2. start' = b /\ reports' = reports
      BY <1>3, <1>4 DEF OnBytes
    <2>3. \A j \in Reports : sent[j].to <= start
      BY <1>4 DEF Tidy, BufferInv
    <2>4. k \in Requests
      BY <1>1, <2>1, <2>3, MessageType DEF Holds
    <2>5. /\ b = Total /\ answers' = Append(answers, nrequests)
          /\ Len(answers) + 1 = nrequests
      BY <1>1, <2>1, <2>4, WholeRequest
    <2>6. reports' = {j \in Reports : sent[j].rtcp}
      BY <2>2, <2>3 DEF Tidy, ReportsInv
    <2>7. QED BY <1>2, <2>2, <2>5, <2>6, RequestTaken
  <1>5. CASE Streaming
    <2>1. PICK s \in {start} \cup Ends(b) :
             /\ TakeFrames(b, s)
             /\ IF MustWait(s, b)
                THEN start' = s /\ UNCHANGED <<contextVars, answers>>
                ELSE /\ start' = b
                     /\ \E k \in DOMAIN sent :
                           /\ Holds(sent[k], s)
                           /\ \E text \in IsText(sent[k], s) :
                                 IF text THEN HandleRtspRequest(sent[k], s, b)
                                 ELSE UNCHANGED <<contextVars, answers>>
      BY <1>3, <1>5 DEF OnBytes, ProcessInterleavedData
    <2>2. s \in Nat /\ start <= s /\ s <= b /\ AtBoundary(s)
      BY <1>1, AfterFrames
    <2>3. \A k \in WholeFrames(b) : k \in Reports /\ start < sent[k].to /\ sent[k].to <= s
      BY <1>1, <2>1, WholeFramesAre DEF TakeFrames, Ends
    <2>4. \A k \in Reports : start < sent[k].to /\ sent[k].to <= b => k \in WholeFrames(b)
      BY <1>1, EveryFrame
    <2>5. reports' = {k \in Reports : sent[k].rtcp /\ (sent[k].to <= start \/ k \in WholeFrames(b))}
      <3>1. reports = {k \in Reports : sent[k].rtcp /\ sent[k].to <= start}
        BY DEF Tidy, ReportsInv
      <3>2. reports' = reports \cup {k \in WholeFrames(b) : sent[k].channel = rtcpChannel}
        BY <2>1 DEF TakeFrames
      <3>3. \A k \in WholeFrames(b) : sent[k].rtcp <=> sent[k].channel = rtcpChannel
        BY <2>3 DEF Tidy, ReportsInv
      <3>4. QED BY <2>3, <3>1, <3>2, <3>3
    <2>6. \A k \in DOMAIN sent : sent[k].from \in Nat /\ sent[k].to \in Nat
      BY <1>1, MessageType
    <2>7. CASE MustWait(s, b)
      <3>1. start' = s /\ UNCHANGED <<contextVars, answers>>
        BY <2>1, <2>7
      <3>2. AnswersInv'
        BY <1>1, <1>2, <2>2, <2>6, <3>1 DEF Tidy, AnswersInv, Requests
      <3>3. ASSUME NEW k \in Requests, sent[k].to <= b PROVE sent[k].to <= s
        <4>1. SUFFICES ASSUME s < sent[k].to PROVE FALSE
          BY <2>2, <2>6 DEF Requests
        <4>2. k = Len(sent) /\ s <= sent[k].from /\ k \in DOMAIN sent
          BY <1>1, <2>2, <2>6, <4>1, Unanswered DEF AtBoundary, Requests
        <4>3. b - s >= LineLen + 2
          BY <1>1, <2>2, <2>6, <3>3, <4>2, LengthsAssumption DEF Layout
        <4>4. PICK j \in DOMAIN sent : Holds(sent[j], s) /\ sent[j].kind = "report"
          BY <1>1, <2>2, <2>7, <4>3, LengthsAssumption DEF MustWait
        <4>5. j \in Reports /\ j # k /\ j \in 1..Len(sent) /\ Len(sent) \in Nat
          BY <1>1, <4>4, MessageType DEF Reports, Requests
        <4>6. sent[j].to <= sent[k].from
          BY <1>1, <4>2, <4>5, OrderedEnds DEF Reports
        <4>7. start < sent[j].to /\ sent[j].to <= b /\ s < sent[j].to
          <5>1. sent[k].from <= b /\ sent[k].from \in Nat /\ sent[j].to \in Nat
            BY <1>1, <2>6, <3>3, <4>2, OrderedEnds, LengthsAssumption, SMTT(30) DEF Layout
          <5>2. s < sent[j].to
            BY <4>4 DEF Holds
          <5>3. QED BY <1>1, <2>2, <4>6, <5>1, <5>2
        <4>8. QED BY <2>2, <2>3, <2>4, <2>6, <4>5, <4>7 DEF Reports
      <3>4. \A k \in DOMAIN sent : sent[k].to <= b => sent[k].to <= s
        <4>1. ASSUME NEW k \in Reports, sent[k].to <= b PROVE sent[k].to <= s
          <5>1. CASE sent[k].to <= start
            BY <1>1, <2>2, <2>6, <5>1 DEF Reports
          <5>2. CASE start < sent[k].to
            BY <2>3, <2>4, <4>1, <5>2
          <5>3. QED BY <1>1, <2>6, <5>1, <5>2 DEF Reports
        <4>2. QED BY <1>1, <3>3, <4>1, MessageType
      <3>5. BufferInv'
        BY <1>2, <1>5, <2>2, <3>1, <3>4 DEF BufferInv, AtBoundary, Streaming, contextVars
      <3>6. ReportsInv'
        <4>1. ASSUME NEW k \in Reports, sent[k].to > s
              PROVE  sent[k].rtcp <=> sent[k].channel = rtcpChannel
          <5>1. sent[k].to > start
            BY <1>1, <2>2, <2>6, <4>1 DEF Reports
          <5>2. QED BY <5>1 DEF Tidy, ReportsInv
        <4>2. \A k \in Reports : (sent[k].to <= start \/ k \in WholeFrames(b)) <=> sent[k].to <= s
          <5>1. ASSUME NEW k \in Reports
                PROVE  (sent[k].to <= start \/ k \in WholeFrames(b)) <=> sent[k].to <= s
            <6>1. sent[k].to \in Nat
              BY <2>6 DEF Reports
            <6>2. sent[k].to <= s => sent[k].to <= b
              BY <1>1, <2>2, <6>1
            <6>3. sent[k].to <= start => sent[k].to <= s
              BY <1>1, <2>2, <6>1
            <6>4. sent[k].to <= start \/ start < sent[k].to
              BY <1>1, <6>1
            <6>5. QED BY <2>3, <2>4, <6>2, <6>3, <6>4
          <5>2. QED BY <5>1
        <4>3. reports' = {k \in Reports : sent[k].rtcp /\ sent[k].to <= s}
          BY <2>5, <4>2
        <4>4. QED BY <1>2, <3>1, <4>1, <4>3 DEF ReportsInv, contextVars
      <3>7. QED BY <3>2, <3>5, <3>6 DEF Tidy
    <2>8. CASE ~MustWait(s, b)
      <3>1. PICK k \in DOMAIN sent :
               /\ Holds(sent[k], s)
               /\ \E text \in IsText(sent[k], s) :
                     IF text THEN HandleRtspRequest(sent[k], s, b)
                     ELSE UNCHANGED <<contextVars, answers>>
        BY <2>1, <2>8
      <3>2. start' = b /\ s < b /\ k \in Requests
        BY <1>1, <2>1, <2>2, <2>8, <3>1, MessageType, LengthsAssumption DEF MustWait, Reports
      <3>3. /\ b = Total /\ Len(answers) + 1 = nrequests
            /\ HandleRtspRequest(sent[k], s, b) => answers' = Append(answers, nrequests)
        BY <1>1, <2>2, <3>1, <3>2, WholeRequest
      <3>4. \A j \in Reports : sent[j].to <= start \/ j \in WholeFrames(b)
        BY <1>1, <2>4, <2>6, <3>3 DEF Layout, Reports
      <3>5. reports' = {j \in Reports : sent[j].rtcp}
        BY <2>5, <3>4
      <3>6. answers' = Append(answers, nrequests) \/ answers' = answers
        BY <3>1, <3>3
      <3>7. QED BY <1>2, <3>2, <3>3, <3>5, <3>6, RequestTaken
    <2>9. QED BY <2>7, <2>8
  <1>6. QED BY <1>4, <1>5

\* A read.
LEMMA OnBytesKeeps ==
    ASSUME IInv, NEW n \in 1..(Total - received), OnBytes(n)
    PROVE  IInv'
  <1>1. /\ TypeOK' /\ sent' = sent /\ nrequests' = nrequests
        /\ received' = received + n /\ (cut' <=> cut \/ Cuts(received'))
    BY OnBytesType DEF IInv
  <1>2. Layout' /\ Numbers'
    BY <1>1 DEF IInv, Layout, Numbers, Requests, Reports, Total, FrameEnd
  <1>3. ASSUME ~cut' PROVE Tidy'
    BY <1>1, <1>3, OnBytesKeepsTidy DEF IInv
  <1>4. QED BY <1>1, <1>2, <1>3 DEF IInv

-----------------------------------------------------------------------------
(* The theorems.                                                           *)

\* Every step keeps the invariant.
LEMMA NextKeeps == ASSUME IInv, [Next]_vars PROVE IInv'
  <1>1. CASE Client
    <2>1. CASE \E m \in Methods \ {"SETUP"} : SendRequest(m, Same)
      BY <2>1, SendRequestKeeps
    <2>2. CASE \E c \in Channels \cup {Same} : SendRequest("SETUP", c)
      <3>1. "SETUP" \in Methods
        BY DEF Methods, Known
      <3>2. QED BY <2>2, <3>1, SendRequestKeeps
    <2>3. CASE \E c \in Channels, n \in 0..MaxSize : SendReport(c, n)
      <3>1. 0..MaxSize \subseteq Nat
        BY BoundsAssumption
      <3>2. QED BY <2>3, <3>1, SendReportKeeps
    <2>4. QED BY <1>1, <2>1, <2>2, <2>3 DEF Client
  <1>2. CASE Read
    BY <1>2, OnBytesKeeps DEF Read
  <1>3. CASE UNCHANGED vars
    BY <1>3 DEF vars, clientVars, contextVars, IInv, TypeOK, Layout, Numbers, Tidy, AnswersInv,
                BufferInv, ReportsInv, AtBoundary, Requests, Reports, Total, FrameEnd, Streaming
  <1>4. QED BY <1>1, <1>2, <1>3 DEF Next

\* The invariant holds always.
THEOREM SpecIInv == Spec => []IInv
  BY InitInv, NextKeeps, PTL DEF Spec

\* Every variable keeps its type, for any number of messages of any size: in particular
\* read_buffer_ is a piece of what the client sent.
THEOREM SpecTypeOK == Spec => []TypeOK
  <1>1. IInv => TypeOK
    BY DEF IInv
  <1>2. QED BY <1>1, SpecIInv, PTL

\* If no request is cut, each answer bears the CSeq of its own request and comes after
\* it, however the reports between the requests are cut.
THEOREM SpecAnswersMatch == Spec => []AnswersMatch
  <1>1. ASSUME IInv PROVE AnswersMatch
    <2>1. SUFFICES
            ASSUME ~cut
            PROVE  /\ \A i \in 1..Len(answers) : answers[i] = i
                   /\ \A i \in 1..Len(answers) :
                         \E k \in Requests : sent[k].cseq = i /\ sent[k].to <= received
      BY DEF AnswersMatch
    <2>2. /\ TypeOK /\ Numbers /\ AnswersInv /\ start \in Nat /\ received \in Nat
          /\ start <= received /\ nrequests \in Nat /\ Len(answers) \in Nat
      BY <1>1, <2>1 DEF IInv, Tidy, TypeOK
    <2>3. ASSUME NEW i \in 1..Len(answers)
          PROVE  \E k \in Requests : sent[k].cseq = i /\ sent[k].to <= received
      <3>1. PICK k \in Requests : sent[k].cseq = i
        BY <2>2 DEF Numbers, AnswersInv
      <3>2. sent[k].to <= start /\ sent[k].to \in Nat
        BY <2>2, <3>1, MessageType DEF AnswersInv, Requests
      <3>3. QED BY <2>2, <3>1, <3>2
    <2>4. QED BY <2>2, <2>3 DEF AnswersInv
  <1>2. QED BY <1>1, SpecIInv, PTL

\* If no request is cut, HandleRtcpData gets each report on its channel, once, and
\* nothing else.
THEOREM SpecReportsArrive == Spec => []ReportsArrive
  <1>1. ASSUME IInv PROVE ReportsArrive
    <2>1. SUFFICES ASSUME ~cut
                   PROVE  reports = {k \in Reports : sent[k].rtcp /\ sent[k].to <= received}
      BY DEF ReportsArrive
    <2>2. /\ TypeOK /\ Tidy /\ start \in Nat /\ received \in Nat /\ start <= received
      BY <1>1, <2>1 DEF IInv, TypeOK
    <2>3. \A k \in Reports : sent[k].to <= received <=> sent[k].to <= start
      BY <2>2, MessageType DEF Tidy, BufferInv, Reports
    <2>4. QED BY <2>2, <2>3 DEF Tidy, ReportsInv
  <1>2. QED BY <1>1, SpecIInv, PTL
=============================================================================
