----------------------------- MODULE RtspSession -----------------------------
(***************************************************************************)
(* One RTSP connection of RtspServer: the request handlers of RtspSession, *)
(* the AsioRtpTransport that SETUP creates for it, whose timer sends one   *)
(* RTP packet per tick, and the queue between the H.264 file and the timer.*)
(*                                                                         *)
(* Everything runs on the io thread of RtspManager, one handler at a time; *)
(* what interleaves is the order in which requests and expired timers are  *)
(* served.  A request arrives in one read and alone; its header text is    *)
(* reduced to the cases HandleSetup tells apart, and its response left out.*)
(* The video file is a sequence of frames, a frame the number of RTP       *)
(* packets H264Source::HandleFrame makes of it, and a timestamp is counted *)
(* in frames from context_.rtp_timestamp.                                  *)
(*                                                                         *)
(* A definition X_y just before X is a faulty variant of X; no             *)
(* specification uses it.                                                  *)
(***************************************************************************)
EXTENDS Naturals, Sequences

CONSTANTS
    Frames,         \* packets per frame of the video file; << >> without one
    HasParameters,  \* real_sps_ or real_pps_ is there: the first frame has one
    InitialPlaying, \* what a fresh MediaChannelInfo may hold in is_playing
    Parameters,     \* the SPS or PPS packets of a PLAY
    None,
    MaxRequests     \* bound: requests on the connection

ASSUME FramesAssumption == Frames \in Seq(Nat \ {0})
ASSUME ParametersAssumption == HasParameters \in BOOLEAN /\ (HasParameters => Frames # << >>)
ASSUME InitialAssumption == InitialPlaying \subseteq BOOLEAN
ASSUME RequestsAssumption == MaxRequests \in Nat

Packet == [frame : Nat, part : Nat, ts : Nat]

ASSUME NoneAssumption == None \notin Packet \cup {"tcp", "udp", Parameters}
ASSUME ParametersAreNoPacket == Parameters \notin Packet

VARIABLES
    open,       \* the connection is there and being read
    state,      \* context_.state
    transport,  \* rtp_transport_: None, or how it sends
    playing,    \* its is_playing
    loop,       \* its is_loop_running_
    armed,      \* its timer is waiting
    due,        \* its timer handlers that are queued to run
    stale,      \* the same of transports that are destroyed
    crashed,    \* such a handler has brought the process down
    queue,      \* packet_queue_
    frame,      \* position of nal_source_, in frames
    index,      \* frame_index_
    sent,       \* the last packet of the file that went out, on any transport
    wire,       \* what this transport sent last: None, Parameters or a packet
    begun,      \* a frame has begun since the last PLAY
    nrequests   \* requests received so far

mediaVars == <<queue, frame, index>>
streamVars == <<sent, wire, begun>>   \* a history of what was sent
timerVars == <<playing, loop, armed, due>>
clientVars == <<open, nrequests>>
vars == <<clientVars, state, transport, timerVars, stale, crashed,
          mediaVars, streamVars>>

RtspStates == {"INIT", "READY", "PLAYING", "PAUSED", "TEARDOWN"}

Init ==
    /\ open = TRUE /\ state = "INIT"
    /\ transport = None
    /\ playing = FALSE /\ loop = FALSE /\ armed = FALSE /\ due = 0
    /\ stale = 0 /\ crashed = FALSE
    /\ queue = << >> /\ frame = 0 /\ index = 0
    /\ sent = None /\ wire = None /\ begun = FALSE /\ nrequests = 0

-----------------------------------------------------------------------------
(* The transport's timer loop (SetPlaying, StartEventLoop, StopEventLoop). *)

StartEventLoop ==
    /\ loop' = TRUE
    /\ armed' = (armed \/ ~loop)

StopEventLoop_keepsFlag ==
    /\ armed' = FALSE
    /\ UNCHANGED loop
StopEventLoop ==
    /\ loop' = FALSE
    /\ armed' = FALSE

SetPlaying(b) ==
    /\ UNCHANGED due
    /\ IF transport = None \/ playing = b
       THEN UNCHANGED <<playing, loop, armed>>
       ELSE playing' = b /\ IF b THEN StartEventLoop ELSE StopEventLoop

\* rtp_transport_ = make_shared: the old one's destructor cancels its timer, but
\* not a handler that is already queued.
NewTransport(kind) ==
    /\ transport' = kind
    /\ playing' \in InitialPlaying
    /\ loop' = FALSE /\ armed' = FALSE /\ due' = 0
    /\ stale' = stale + due
    /\ wire' = None

-----------------------------------------------------------------------------
(* Reading (OnBytes, HandleRtspRequest).                                   *)

Receive ==
    /\ open /\ ~crashed /\ nrequests < MaxRequests
    /\ nrequests' = nrequests + 1
    /\ UNCHANGED <<open, crashed>>

\* A request that changes nothing: OPTIONS, DESCRIBE, SET_PARAMETER, a malformed
\* SETUP, and any method that is answered with an error or, in READY and PLAYING,
\* dropped by ProcessInterleavedData.
Query ==
    /\ Receive
    /\ UNCHANGED <<state, transport, timerVars, stale, mediaVars, streamVars>>

SetupTcp ==
    /\ Receive
    /\ state' = "READY"
    /\ NewTransport("tcp")
    /\ UNCHANGED <<mediaVars, sent, begun>>

SetupUdp ==
    /\ Receive
    /\ state' = "READY"
    /\ NewTransport("udp")
    /\ UNCHANGED <<mediaVars, sent, begun>>

\* A Transport header with "multicast" and without "RTP/AVP": no transport is
\* created, and the one that is there stays.
SetupMulticast ==
    /\ Receive
    /\ state' = "READY"
    /\ UNCHANGED <<transport, timerVars, stale, mediaVars, streamVars>>

HasMoreData == frame < Len(Frames)

SendSpsPps == wire' = IF HasParameters THEN Parameters ELSE wire

\* The file is rewound, the queue keeps what an earlier play has left in it.
Play_keepsIndex ==
    /\ state = "READY"
    /\ Receive
    /\ state' = "PLAYING"
    /\ IF transport = None THEN UNCHANGED <<frame, index, wire, begun>>
       ELSE /\ frame' = IF HasMoreData THEN 0 ELSE frame
            /\ SendSpsPps
            /\ begun' = FALSE
            /\ UNCHANGED index
    /\ SetPlaying(TRUE)
    /\ UNCHANGED <<transport, stale, queue, sent>>
Play ==
    /\ state = "READY"
    /\ Receive
    /\ state' = "PLAYING"
    /\ IF transport = None THEN UNCHANGED <<frame, index, wire, begun>>
       ELSE /\ frame' = IF HasMoreData THEN 0 ELSE frame
            /\ index' = 0
            /\ SendSpsPps
            /\ begun' = FALSE
    /\ SetPlaying(TRUE)
    /\ UNCHANGED <<transport, stale, queue, sent>>

Pause_keepsPlaying ==
    /\ state = "PLAYING"
    /\ Receive
    /\ state' = "PAUSED"
    /\ UNCHANGED <<transport, timerVars, stale, mediaVars, streamVars>>
Pause ==
    /\ state = "PLAYING"
    /\ Receive
    /\ state' = "PAUSED"
    /\ SetPlaying(FALSE)
    /\ UNCHANGED <<transport, stale, mediaVars, streamVars>>

Teardown ==
    /\ Receive
    /\ state' = "TEARDOWN"
    /\ SetPlaying(FALSE)
    /\ UNCHANGED <<transport, stale, mediaVars, streamVars>>

\* The peer goes away: handle_error and OnClose leave the stream as it is.
Disconnect ==
    /\ open /\ ~crashed
    /\ open' = FALSE
    /\ UNCHANGED <<nrequests, state, transport, timerVars, stale, crashed,
                   mediaVars, streamVars>>

-----------------------------------------------------------------------------
(* Streaming (OnTimer, ProduceNextPacket, FeedNextNALFrame).               *)

TimerExpires ==
    /\ armed /\ ~crashed
    /\ armed' = FALSE
    /\ due' = due + 1
    /\ UNCHANGED <<clientVars, state, transport, playing, loop, stale,
                   crashed, mediaVars, streamVars>>

AtEnd == frame = Len(Frames)
Position == IF AtEnd THEN 0 ELSE frame
Index == IF AtEnd THEN 0 ELSE index
PacketsOf(f, t) == [i \in 1..Frames[f + 1] |-> [frame |-> f, part |-> i, ts |-> t]]

SendRtpPacket(packet) ==
    /\ sent' = packet /\ wire' = packet
    /\ begun' = (begun \/ packet.part = 1)

\* The next frame of the file goes into the queue; after the last, the first.
FeedNextNALFrame ==
    LET packets == queue \o PacketsOf(Position, Index)
    IN  /\ queue' = Tail(packets) /\ SendRtpPacket(Head(packets))
        /\ frame' = Position + 1
        /\ index' = Index + 1

ProduceNextPacket_feedsAlways ==
    IF Frames # << >> THEN FeedNextNALFrame ELSE UNCHANGED <<mediaVars, streamVars>>
ProduceNextPacket ==
    IF queue # << >>
    THEN /\ queue' = Tail(queue) /\ SendRtpPacket(Head(queue))
         /\ UNCHANGED <<frame, index>>
    ELSE IF Frames # << >> THEN FeedNextNALFrame
    ELSE UNCHANGED <<mediaVars, streamVars>>

\* A tick of a loop that runs: one packet, and the timer again.
Tick_onlyWithPacket ==
    /\ due > 0 /\ playing /\ loop /\ ~crashed
    /\ due' = due - 1
    /\ ProduceNextPacket
    /\ armed' = (queue # << >>)
    /\ UNCHANGED <<clientVars, state, transport, playing, loop, stale,
                   crashed>>
Tick ==
    /\ due > 0 /\ playing /\ loop /\ ~crashed
    /\ due' = due - 1
    /\ ProduceNextPacket
    /\ armed' = TRUE
    /\ UNCHANGED <<clientVars, state, transport, playing, loop, stale,
                   crashed>>

\* A tick that comes after the loop was stopped.
LateTick_dropsPacket ==
    /\ due > 0 /\ ~(playing /\ loop) /\ ~crashed
    /\ due' = due - 1
    /\ queue' = IF queue = << >> THEN queue ELSE Tail(queue)
    /\ UNCHANGED <<clientVars, state, transport, playing, loop, armed,
                   stale, crashed, frame, index, streamVars>>
LateTick ==
    /\ due > 0 /\ ~(playing /\ loop) /\ ~crashed
    /\ due' = due - 1
    /\ UNCHANGED <<clientVars, state, transport, playing, loop, armed,
                   stale, crashed, mediaVars, streamVars>>

\* A tick of a destroyed transport reads freed memory: it finds the flags the
\* destructor cleared and returns, or the process ends.
StaleTick ==
    /\ stale > 0 /\ ~crashed
    /\ stale' = stale - 1
    /\ crashed' \in BOOLEAN
    /\ UNCHANGED <<clientVars, state, transport, timerVars, mediaVars,
                   streamVars>>

-----------------------------------------------------------------------------
Requests ==
    \/ Query
    \/ SetupTcp \/ SetupUdp \/ SetupMulticast
    \/ Play \/ Pause \/ Teardown

Streaming == TimerExpires \/ Tick \/ LateTick \/ StaleTick

Next == Requests \/ Disconnect \/ Streaming

Spec == Init /\ [][Next]_vars

\* Timers expire and the io thread runs their handlers.
FairSpec == Spec /\ WF_vars(TimerExpires) /\ WF_vars(Tick \/ LateTick)

-----------------------------------------------------------------------------
(* Properties.                                                             *)

SessionTypeOK ==
    /\ open \in BOOLEAN /\ state \in RtspStates
    /\ transport \in {None, "tcp", "udp"}
    /\ playing \in BOOLEAN /\ loop \in BOOLEAN /\ armed \in BOOLEAN
    /\ due \in Nat /\ stale \in Nat /\ crashed \in BOOLEAN
    /\ nrequests \in Nat

MediaTypeOK ==
    /\ queue \in Seq(Packet)
    /\ frame \in 0..Len(Frames) /\ index \in 0..Len(Frames)
    /\ sent \in Packet \cup {None}
    /\ wire \in Packet \cup {None, Parameters} /\ begun \in BOOLEAN

TypeOK == SessionTypeOK /\ MediaTypeOK

\* A loop that says it runs has its timer waiting or a tick to serve: no order of
\* PLAY, PAUSE, SETUP and ticks leaves it flagged and asleep.
LoopHasTimer == loop => armed \/ due > 0

\* packet_queue_, which nothing bounds, never holds more than what is left of one
\* frame, whatever PLAY and PAUSE find in it.
QueueHoldsOneFrame ==
    \A i, j \in 1..Len(queue) :
        queue[i].frame = queue[j].frame /\ queue[i].part - i = queue[j].part - j

\* A frame always carries the timestamp of its place in the file, also after the
\* file or the play has started anew.
TimestampsFollowFrames ==
    /\ \A i \in 1..Len(queue) : queue[i].ts = queue[i].frame
    /\ sent # None => sent.ts = sent.frame

\* The packet that has to come after those sent: the next part of their frame, the
\* next frame of the file, or, after a PLAY, the first.
NextPacket ==
    IF sent # None /\ sent.part < Frames[sent.frame + 1]
    THEN [sent EXCEPT !.part = @ + 1]
    ELSE LET f == IF begun /\ sent.frame + 1 < Len(Frames) THEN sent.frame + 1 ELSE 0
         IN  [frame |-> f, part |-> 1, ts |-> f]

\* Whatever PAUSE, SETUP and PLAY find in packet_queue_, the packets go out in the
\* order of the file, and a PLAY starts it anew once the frame under way has ended.
\* The rest of that frame comes behind the parameter sets of the PLAY, or on the
\* transport of a SETUP: to a receiver it is cut.  It is the only one between two
\* PLAYs: the parts of any other come one right after the other on one transport,
\* which has sent the parameter sets first (HandlePlay, ProduceNextPacket).
CutOnlyByPlay ==
    [][sent' # sent => /\ sent' = NextPacket
                       /\ sent'.part > 1 /\ begun => wire = sent
                       /\ HasParameters => wire # None]_vars

\* Nothing is sent unless the session is PLAYING, whatever ticks are queued when
\* it stops; after a SETUP that keeps the transport, it may be READY.
SilentWhenStopped ==
    [][wire' \notin {wire, None} => state \notin {"INIT", "PAUSED", "TEARDOWN"}]_vars

\* A session that stays PLAYING with its loop running keeps sending, whatever
\* PAUSE, SETUP and queued ticks came before.
PlayingStreams ==
    <>[](state = "PLAYING" /\ loop /\ Frames # << >> /\ ~crashed)
        => []<><<Tick>>_vars
=============================================================================
