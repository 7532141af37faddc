---------------------------- MODULE RtspFraming ----------------------------
(***************************************************************************)
(* The bytes a client sends on its RTSP connection: requests and, once it  *)
(* has a session over TCP, $ frames with its RTCP reports.  OnBytes finds  *)
(* them again in whatever pieces TCP delivers.                             *)
(*                                                                         *)
(* A byte is its position in the stream, so that read_buffer_ is the bytes *)
(* from start up to received.  A request is LineLen bytes of request line, *)
(* one for its CSeq line, which is never cut, and one for the other        *)
(* headers; a report is HeaderLen bytes of header and its payload.  The    *)
(* client has one request at a time under way, sends reports while it has  *)
(* none and the session is READY or PLAYING, and sends nothing more after  *)
(* an answer that is not the one it waits for.  How the requests act on the*)
(* stream is in RtspSession; here OPTIONS stands for all that change       *)
(* nothing: DESCRIBE, SET_PARAMETER, and a SETUP without a valid transport.*)
(* What HandleRtcpData and HandleRtpData do is to log.                     *)
(*                                                                         *)
(* A definition X_y just before X is a faulty variant of X; no             *)
(* specification uses it.                                                  *)
(***************************************************************************)
EXTENDS Naturals, Sequences

CONSTANTS
    HeaderLen,    \* bytes of a $ header, the least ProcessInterleavedData looks at
    LineLen,      \* bytes of a request line
    Channels,     \* channels of $ frames
    Same,         \* a SETUP without interleaved=, or not over TCP
    None,
    MaxMessages,  \* bound: messages the client sends
    MaxSize       \* bound: payload of a report

ASSUME LengthsAssumption ==
    HeaderLen \in Nat \ {0} /\ LineLen \in Nat /\ LineLen >= HeaderLen
ASSUME ChannelsAssumption == Channels \subseteq Nat /\ 1 \in Channels
ASSUME BoundsAssumption == MaxMessages \in Nat /\ MaxSize \in Nat
ASSUME NoneAssumption == None \notin Nat /\ Same \notin Nat \cup {None}

Known == {"OPTIONS", "SETUP", "PLAY", "PAUSE", "TEARDOWN"}   \* by their first letter
Methods == Known \cup {"GET_PARAMETER"}

VARIABLES
    sent,       \* the client's messages, each with its first byte and the one after it
    nrequests,  \* how many of them are requests
    received,   \* bytes that OnBytes has been given
    start,      \* the first of those in read_buffer_
    cut,        \* history: a read ended inside a request
    state,      \* context_.state
    cseq,       \* context_.cseq, as the number of the request; None if empty
    rtcpChannel,\* context_.rtcp_channel
    answers,    \* the CSeq of every response
    reports     \* the messages given to HandleRtcpData

clientVars == <<sent, nrequests>>
contextVars == <<state, cseq, rtcpChannel>>
vars == <<clientVars, received, start, cut, contextVars, answers, reports>>

Init ==
    /\ sent = << >> /\ nrequests = 0
    /\ received = 0 /\ start = 0 /\ cut = FALSE
    /\ state = "INIT" /\ cseq = None /\ rtcpChannel = 1
    /\ answers = << >> /\ reports = {}

Streaming == state \in {"READY", "PLAYING"}

-----------------------------------------------------------------------------
(* The client.                                                             *)

Total == IF sent = << >> THEN 0 ELSE sent[Len(sent)].to

\* Every request has its answer, and there is no other.
Satisfied ==
    /\ Len(answers) = nrequests
    /\ \A i \in 1..nrequests : answers[i] = i

\* SETUP may ask for a channel for the reports.
SendRequest(m, c) ==
    /\ Len(sent) < MaxMessages /\ Satisfied
    /\ sent' = Append(sent, [kind |-> "request", method |-> m, channel |-> c,
                             cseq |-> nrequests + 1,
                             from |-> Total, to |-> Total + LineLen + 2])
    /\ nrequests' = nrequests + 1
    /\ UNCHANGED <<received, start, cut, contextVars, answers, reports>>

SendReport(c, n) ==
    /\ Len(sent) < MaxMessages /\ Satisfied /\ Streaming
    /\ sent' = Append(sent, [kind |-> "report", channel |-> c, size |-> n,
                             rtcp |-> (c = rtcpChannel),
                             from |-> Total, to |-> Total + HeaderLen + n])
    /\ UNCHANGED <<nrequests, received, start, cut, contextVars, answers, reports>>

-----------------------------------------------------------------------------
(* HandleRtspRequest, for the bytes from a up to b.                        *)

\* Methods that the state does not allow are answered with an error.
NextState(m, headersRead) ==
    CASE m.method = "SETUP" /\ headersRead       -> "READY"
      [] m.method = "PLAY" /\ state = "READY"    -> "PLAYING"
      [] m.method = "PAUSE" /\ state = "PLAYING" -> "PAUSED"
      [] m.method = "TEARDOWN"                   -> "TEARDOWN"
      [] OTHER                                   -> state

IsRequestLine(m, a, b) == m.kind = "request" /\ a = m.from /\ b >= m.from + LineLen

\* Without a CSeq header the last one stays.
CSeqRead_unread(m, b) == cseq
CSeqRead(m, b) == IF b > m.from + LineLen THEN m.cseq ELSE cseq

HandleRtspRequest(m, a, b) ==
    IF IsRequestLine(m, a, b)
    THEN /\ cseq' = CSeqRead(m, b)
         /\ answers' = Append(answers, cseq')
         /\ state' = NextState(m, b >= m.to)
         /\ rtcpChannel' = IF m.method = "SETUP" /\ b >= m.to /\ m.channel # Same
                           THEN m.channel ELSE rtcpChannel
    ELSE answers' = Append(answers, None) /\ UNCHANGED contextVars

-----------------------------------------------------------------------------
(* OnBytes and ProcessInterleavedData.                                     *)

Holds(m, p) == m.from <= p /\ p < m.to

FrameEnd_withoutHeader(m) == m.from + m.size
FrameEnd(m) == m.from + HeaderLen + m.size

\* The $ frames at the front of the buffer that are wholly there.
WholeFrames_firstOnly(b) ==
    {k \in DOMAIN sent :
        sent[k].from = start /\ sent[k].kind = "report" /\ FrameEnd(sent[k]) <= b}
WholeFrames(b) ==
    {k \in DOMAIN sent :
        /\ sent[k].from >= start
        /\ \A j \in 1..k : sent[j].to > start =>
               sent[j].kind = "report" /\ FrameEnd(sent[j]) <= b}

Ends(b) == {FrameEnd(sent[k]) : k \in WholeFrames(b)}

\* They are taken out of the buffer, which then begins at s.
TakeFrames(b, s) ==
    /\ \A e \in Ends(b) : e <= s
    /\ reports' = reports \cup {k \in WholeFrames(b) : sent[k].channel = rtcpChannel}

\* Text that begins with a letter of a known method is a request, and all there is;
\* what comes after the first letter of a request may begin with any.
IsText(m, a) == IF a = m.from THEN {m.method \in Known} ELSE BOOLEAN

\* At s less than a header is there, or a $ frame that is not wholly there.
MustWait(s, b) ==
    b - s < HeaderLen \/ \E k \in DOMAIN sent : Holds(sent[k], s) /\ sent[k].kind = "report"

ProcessInterleavedData(b) ==
    \E s \in {start} \cup Ends(b) :
        /\ TakeFrames(b, s)
        /\ IF MustWait(s, b)
           THEN start' = s /\ UNCHANGED <<contextVars, answers>>
           ELSE /\ start' = b
                /\ \E k \in DOMAIN sent :
                      /\ Holds(sent[k], s)
                      /\ \E text \in IsText(sent[k], s) :
                            IF text THEN HandleRtspRequest(sent[k], s, b)
                            ELSE UNCHANGED <<contextVars, answers>>

\* What the server makes of the middle of a report depends on its bytes; the
\* connection is not followed further.
InSync ==
    \A k \in DOMAIN sent :
        sent[k].kind = "report" => ~(sent[k].from < start /\ start < sent[k].to)

\* A read that ends at b ends inside a request.
Cuts(b) ==
    \E k \in DOMAIN sent :
        sent[k].kind = "request" /\ sent[k].from < b /\ b < sent[k].to

OnBytes(n) ==
    LET b == received + n
    IN /\ InSync /\ b <= Total
       /\ received' = b
       /\ cut' = (cut \/ Cuts(b))
       /\ IF Streaming
          THEN ProcessInterleavedData(b)
          ELSE /\ \E k \in DOMAIN sent :
                     Holds(sent[k], start) /\ HandleRtspRequest(sent[k], start, b)
               /\ start' = b
               /\ UNCHANGED reports
       /\ UNCHANGED clientVars

-----------------------------------------------------------------------------
Client ==
    \/ \E m \in Methods \ {"SETUP"} : SendRequest(m, Same)
    \/ \E c \in Channels \cup {Same} : SendRequest("SETUP", c)
    \/ \E c \in Channels, n \in 0..MaxSize : SendReport(c, n)

Read == \E n \in 1..(Total - received) : OnBytes(n)

Next == Client \/ Read

Spec == Init /\ [][Next]_vars

\* io_context::run delivers what has arrived.
FairSpec == Spec /\ WF_vars(Read)

-----------------------------------------------------------------------------
(* Properties.                                                             *)

Requests == {k \in DOMAIN sent : sent[k].kind = "request"}
Reports == {k \in DOMAIN sent : sent[k].kind = "report"}

Request ==
    [kind : {"request"}, method : Methods, channel : Channels \cup {Same},
     cseq : Nat, from : Nat, to : Nat]
Report ==
    [kind : {"report"}, channel : Channels, size : Nat, rtcp : BOOLEAN,
     from : Nat, to : Nat]

\* The type invariant: in particular the buffer is a piece of what was sent.
TypeOK ==
    /\ sent \in Seq(Request \cup Report) /\ nrequests \in Nat
    /\ received \in 0..Total /\ start \in 0..received /\ cut \in BOOLEAN
    /\ state \in {"INIT", "READY", "PLAYING", "PAUSED", "TEARDOWN"}
    /\ cseq \in Nat \cup {None} /\ rtcpChannel \in Channels
    /\ answers \in Seq(Nat \cup {None})
    /\ reports \subseteq DOMAIN sent

\* If no request is cut, then however reports are cut and whatever comes with them
\* in a read, the answers are those of the requests, in order and each with the CSeq
\* of its own, and none comes before its request.
AnswersMatch ==
    ~cut => /\ \A i \in 1..Len(answers) : answers[i] = i
            /\ \A i \in 1..Len(answers) :
                  \E k \in Requests : sent[k].cseq = i /\ sent[k].to <= received

\* If no request is cut, HandleRtcpData gets each report on the channel negotiated
\* when it was sent, once it is wholly there, and nothing else.
ReportsArrive ==
    ~cut => reports = {k \in Reports : sent[k].rtcp /\ sent[k].to <= received}

\* A request that begins with a known letter is answered, unless it was cut.
RequestsAnswered ==
    \A i \in 1..MaxMessages :
        (\E k \in Requests : sent[k].cseq = i /\ sent[k].method \in Known)
            ~> (Len(answers) >= i \/ cut)
=============================================================================
