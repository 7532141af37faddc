------------------------------ MODULE WsSession ------------------------------
(***************************************************************************)
(* One WebSocket connection of the server: WsSession, from the HTTP        *)
(* upgrade to the close of the socket.                                     *)
(*                                                                         *)
(* Threads.  One io thread runs every completion handler (reads, writes,   *)
(* the heartbeat timer and the closures EnqueueFrame posts to the strand); *)
(* application threads call SendText and Close at any moment.  A handler   *)
(* is one step, with two exceptions: ProcessFrameBuffer takes one step for *)
(* each pass of its loop (other threads run between two passes), and Close *)
(* on an application thread is a load of state_, a store to it and a post. *)
(*                                                                         *)
(* Data.  Bytes are counted in units.  A frame header is two units (the    *)
(* first two bytes; extended length and masking key), a header without a   *)
(* masking key one.  The peer's bytes are the sequence peerLog, whose      *)
(* first element is its HTTP request; a payload unit is represented by the *)
(* index of the frame that carried it.                                     *)
(*                                                                         *)
(* A definition X_y just before X is a faulty variant of X (what a likely  *)
(* mistake in the code would make of it); no specification uses it.  The   *)
(* properties are tested against these variants.                           *)
(***************************************************************************)
EXTENDS Integers, Sequences

CONSTANTS
    Threads,        \* application threads that may call SendText and Close
    Frames,         \* frames the peer may send after its request
    Requests,       \* first requests the peer may send
    Replies,        \* what a callback may do on the session it is handed
    MaxFrames,      \* bound: frames the peer sends after its request
    MaxIdle,        \* bound: the clock stops this long after the last frame
    MaxPosts,       \* bound: the application posts only below this many frames
    ReadBuf,        \* size of read_buf_
    MaxHandshake,   \* options_.max_handshake_bytes
    MaxFrameBuf,    \* options_.max_frame_buffer_bytes
    MaxMessage,     \* options_.max_message_bytes
    MaxControl,     \* the 125 bytes a control frame may carry
    Interval,       \* options_.heartbeat_interval
    Timeout         \* options_.heartbeat_timeout

-----------------------------------------------------------------------------
(* Close codes (ws_types.hpp), and the records that stand for bytes.       *)

NormalClosure    == 1000
ProtocolError    == 1002
NoStatusReceived == 1005
AbnormalClosure  == 1006
MessageTooBig    == 1009

DataOps    == {"Text", "Binary", "Continuation"}
ControlOps == {"Close", "Ping", "Pong"}

\* badAt: 0, or the header unit in which ParseHeader meets the error.
FrameSet == [op : DataOps \cup ControlOps \cup {"Upgrade", "NotUpgrade"},
             fin : BOOLEAN, masked : BOOLEAN, badAt : 0..2,
             len : Nat, code : Nat]

\* OutgoingItem; id is the position in the order of the calls to EnqueueFrame.
ItemSet == [id : Nat, kind : {"Text", "Ping", "Pong", "Close"}, code : Nat]
Item(kind, code, id) == [id |-> id, kind |-> kind, code |-> code]

NoTimer == -1

ASSUME FramesAssumption ==
    /\ Frames \subseteq {f \in FrameSet : f.op \in DataOps \cup ControlOps}
    /\ Requests \subseteq {f \in FrameSet : f.op \in {"Upgrade", "NotUpgrade"}
                                            /\ f.len > 0}
ASSUME RepliesAssumption == Replies \subseteq {"none", "send", "close"}
ASSUME SizesAssumption ==
    /\ MaxFrames \in Nat /\ MaxIdle \in Nat /\ MaxPosts \in Nat
    /\ ReadBuf \in Nat \ {0}
    /\ MaxHandshake \in Nat /\ MaxFrameBuf \in Nat /\ MaxMessage \in Nat
    /\ MaxControl \in Nat
\* SetSessionOptions raises a smaller timeout to the interval.
ASSUME HeartbeatAssumption ==
    Interval \in Nat \ {0} /\ Timeout \in Nat /\ Timeout >= Interval

IsControlFrame(f) == f.op \in ControlOps
HeaderLen(f) == IF f.masked THEN 2 ELSE 1
FrameTotalSize(f) ==
    IF f.op \in {"Upgrade", "NotUpgrade"} THEN f.len ELSE HeaderLen(f) + f.len

\* frame::ParseHeader on the first n units of f.
ParseHeader(f, n) ==
    IF f.badAt = 1 THEN "error"
    ELSE IF n < HeaderLen(f) THEN "incomplete"
    ELSE IF f.badAt = 2 THEN "error" ELSE "complete"

-----------------------------------------------------------------------------
VARIABLES
    \* the peer and the network, inbound
    peerLog,     \* what the peer has sent: its request, then its frames
    unread,      \* units sent and not yet received
    \* the session
    state,       \* state_
    open,        \* socket_ is open
    rd, rdn,     \* outstanding async_read_some, and the units it returned
    buffered,    \* size of handshake_buf_, later of frame_buf_
    next,        \* index in peerLog of the frame at the front of the buffer
    io,          \* the io thread: "idle", or in the loop of ProcessFrameBuffer
    msgStarted, msgOp, msgPayload,           \* reassembly of fragments
    strand,      \* closures of EnqueueFrame posted and not yet run
    queue,       \* send_queue_
    writing,     \* writing_
    wr,          \* outstanding async_write
    timer,       \* time until heartbeat_timer_ expires, 0: its handler is due
    idle,        \* time since last_activity_
    awaiting,    \* awaiting_pong_
    app,         \* where each application thread is in Close
    \* what the outside world has seen
    nposts,      \* calls of EnqueueFrame so far
    wire,        \* frames written to the socket
    delivered,   \* messages given to message_handler_
    closeCalls,  \* codes given to close_handler_ (RemoveSession follows each)
    sincePing    \* time since the heartbeat Ping that is unanswered

peerVars  == <<peerLog, unread>>
readVars  == <<rd, rdn>>
parseVars == <<next, buffered, io>>
msgVars   == <<msgStarted, msgOp, msgPayload, delivered>>
postVars  == <<strand, nposts>>
queueVars == <<queue, writing>>
connVars  == <<state, open, rd, wr, timer, closeCalls>>
beatVars  == <<idle, awaiting, sincePing>>
vars == <<peerVars, readVars, parseVars, msgVars, postVars, queueVars,
          connVars, beatVars, wire, app>>

States == {"Handshaking", "Active", "Closing", "Closed"}

Init ==
    /\ \E r \in Requests : peerLog = <<r>> /\ unread = FrameTotalSize(r)
    /\ state = "Handshaking" /\ open = TRUE
    /\ rd = "pending" /\ rdn = 0                \* Start: DoReadHandshake
    /\ buffered = 0 /\ next = 1 /\ io = "idle"
    /\ msgStarted = FALSE /\ msgOp = "Text" /\ msgPayload = << >>
    /\ strand = << >> /\ queue = << >> /\ writing = FALSE /\ wr = "none"
    /\ timer = NoTimer /\ idle = 0 /\ awaiting = FALSE
    /\ app = [t \in Threads |-> "idle"]
    /\ nposts = 0 /\ wire = << >> /\ delivered = << >>
    /\ closeCalls = << >> /\ sincePing = 0

-----------------------------------------------------------------------------
(* Operations that handlers call.                                          *)

\* EnqueueFrame for each <<kind, code>> in turn: the item is posted to the
\* strand, whatever the state.
EnqueueFrame(frames) ==
    /\ strand' = strand \o [i \in 1..Len(frames) |->
                               Item(frames[i][1], frames[i][2], nposts + i)]
    /\ nposts' = nposts + Len(frames)

\* What a callback does on the session: nothing, SendText, or Close().  Close
\* runs on the io thread here, so its check and its store are not separated.
CallbackFrames(reply, st) ==
    CASE reply = "send" -> << <<"Text", 0>> >>
      [] reply = "close" /\ st = "Active" -> << <<"Close", NormalClosure>> >>
      [] OTHER -> << >>
CallbackState(reply, st) ==
    IF reply = "close" /\ st = "Active" THEN "Closing" ELSE st

\* Close(code), and the reply to a Close frame, on the io thread.
Close(code) ==
    IF state = "Active"
    THEN state' = "Closing" /\ EnqueueFrame(<< <<"Close", code>> >>)
    ELSE UNCHANGED <<state, postVars>>

\* DoClose(code), called when the outstanding operations are r and w and the
\* timer is t.  The compare_exchange succeeds when state_ is Closed already, so
\* the rest runs on every call.  Closing the socket aborts what is in flight; a
\* completion already queued keeps its result.
DoClose(code, r, w, t) ==
    /\ state' = "Closed"
    /\ timer' = IF t = 0 THEN 0 ELSE NoTimer
    /\ open' = FALSE
    /\ rd' = IF r = "pending" THEN "fail" ELSE r
    /\ wr' = IF w = "inflight" THEN "err" ELSE w
    /\ closeCalls' = Append(closeCalls, code)

\* DoWrite on a non-empty queue: async_write fails at once on a closed socket.
DoWrite == wr' = IF open THEN "inflight" ELSE "err"

RefreshHeartbeat == idle' = 0 /\ awaiting' = FALSE /\ sincePing' = 0

-----------------------------------------------------------------------------
(* The peer and the network (the asio reactor and TCP).                    *)

PeerSend ==
    \E f \in Frames :
        /\ open
        /\ Len(peerLog) <= MaxFrames
        /\ peerLog' = Append(peerLog, f)
        /\ unread' = unread + FrameTotalSize(f)
        /\ UNCHANGED <<readVars, parseVars, msgVars, postVars, queueVars,
                       state, open, wr, timer, closeCalls, beatVars, wire, app>>

\* TCP delivers any non-empty part of what was sent, or an error.
ReadSome ==
    \E n \in 1..ReadBuf :
        /\ rd = "pending" /\ n <= unread
        /\ rd' = "done" /\ rdn' = n /\ unread' = unread - n
        /\ UNCHANGED <<peerLog, parseVars, msgVars, postVars, queueVars,
                       state, open, wr, timer, closeCalls, beatVars, wire, app>>

ReadFails ==
    /\ rd = "pending"
    /\ rd' = "fail"
    /\ UNCHANGED <<peerVars, rdn, parseVars, msgVars, postVars, queueVars,
                   state, open, wr, timer, closeCalls, beatVars, wire, app>>

WriteCompletes ==
    /\ wr = "inflight"
    /\ \/ wr' = "ok" /\ wire' = Append(wire, Head(queue))
       \/ wr' = "err" /\ UNCHANGED wire
    /\ UNCHANGED <<peerVars, readVars, parseVars, msgVars, postVars, queueVars,
                   state, open, timer, closeCalls, beatVars, app>>

\* A time unit is long compared with a handler: a timer that is due is served
\* before the clock moves on.
Tick ==
    /\ timer > 0 /\ idle < MaxIdle
    /\ timer' = timer - 1
    /\ idle' = idle + 1
    /\ sincePing' = IF awaiting THEN sincePing + 1 ELSE 0
    /\ UNCHANGED <<peerVars, readVars, parseVars, msgVars, postVars, queueVars,
                   state, open, wr, closeCalls, awaiting, wire, app>>

-----------------------------------------------------------------------------
(* The handshake: the completion handler of DoReadHandshake.               *)

\* The outstanding read is DoReadHandshake's until the request is consumed.
HandshakeRead == next = 1 /\ rd = "done"

HandshakeFails(code) ==
    /\ DoClose(code, "none", wr, timer)
    /\ buffered' = buffered + rdn /\ rdn' = 0
    /\ UNCHANGED <<peerVars, next, io, msgVars, postVars, queueVars, beatVars,
                   wire, app>>

HandshakeReadError ==
    /\ next = 1 /\ rd = "fail"
    /\ HandshakeFails(AbnormalClosure)

HandshakeTooLarge ==
    /\ HandshakeRead
    /\ buffered + rdn > MaxHandshake
    /\ HandshakeFails(ProtocolError)

HandshakeIncomplete ==
    /\ HandshakeRead
    /\ buffered + rdn <= MaxHandshake
    /\ buffered + rdn < FrameTotalSize(peerLog[1])
    /\ buffered' = buffered + rdn
    /\ rd' = "pending" /\ rdn' = 0
    /\ UNCHANGED <<peerVars, next, io, msgVars, postVars, queueVars, state,
                   open, wr, timer, closeCalls, beatVars, wire, app>>

RequestComplete ==
    /\ HandshakeRead
    /\ buffered + rdn <= MaxHandshake
    /\ buffered + rdn >= FrameTotalSize(peerLog[1])

HandshakeRejected ==
    /\ RequestComplete
    /\ peerLog[1].op = "NotUpgrade"
    /\ HandshakeFails(ProtocolError)

HandshakeReplyFails ==
    /\ RequestComplete
    /\ peerLog[1].op = "Upgrade"
    /\ HandshakeFails(AbnormalClosure)

\* 101 written; bytes after the request become the first bytes of frame_buf_.
HandshakeSucceeds ==
    \E reply \in Replies :
        /\ RequestComplete
        /\ peerLog[1].op = "Upgrade"
        /\ RefreshHeartbeat
        /\ timer' = Interval
        /\ next' = 2
        /\ buffered' = buffered + rdn - FrameTotalSize(peerLog[1])
        /\ EnqueueFrame(CallbackFrames(reply, "Active"))
        /\ state' = CallbackState(reply, "Active")
        /\ IF buffered' > 0 THEN io' = "loop" /\ rd' = "none"
                            ELSE io' = io /\ rd' = "pending"
        /\ rdn' = 0
        /\ UNCHANGED <<peerVars, msgVars, queueVars, open, wr, closeCalls,
                       wire, app>>

-----------------------------------------------------------------------------
(* Reading frames: OnFrameData and ProcessFrameBuffer.                     *)

FrameReadError ==
    /\ io = "idle" /\ next > 1 /\ rd = "fail"
    /\ DoClose(AbnormalClosure, "none", wr, timer)
    /\ UNCHANGED <<peerVars, rdn, parseVars, msgVars, postVars, queueVars,
                   beatVars, wire, app>>

FrameBufFull_offByOne(n) == n >= MaxFrameBuf
FrameBufFull(n) == n > MaxFrameBuf

OnFrameData ==
    /\ io = "idle" /\ next > 1 /\ rd = "done"
    /\ buffered' = buffered + rdn
    /\ rdn' = 0
    /\ rd' = "none"
    /\ IF FrameBufFull(buffered')
       THEN io' = io /\ Close(MessageTooBig)
       ELSE io' = "loop" /\ UNCHANGED <<state, postVars>>
    /\ UNCHANGED <<peerVars, next, msgVars, queueVars, open, wr, timer,
                   closeCalls, beatVars, wire, app>>

\* The frame the loop looks at, and how far the checks before its payload get.
Cur == peerLog[next]
AtFrame == io = "loop" /\ buffered > 0 /\ next <= Len(peerLog)
Accumulated(f) == IF f.op = "Continuation" THEN Len(msgPayload) ELSE 0
TooBig(f) ==
    \/ ~IsControlFrame(f) /\ Accumulated(f) + f.len > MaxMessage
    \/ FrameTotalSize(f) > MaxFrameBuf
HeaderOk(f) == ParseHeader(f, buffered) = "complete" /\ f.masked
WholeFrame_unchecked(f) == HeaderOk(f) /\ ~TooBig(f)
WholeFrame(f) == HeaderOk(f) /\ ~TooBig(f) /\ buffered >= FrameTotalSize(f)
GoodControl(f) == f.fin /\ f.len <= MaxControl

Return == io' = "idle" /\ UNCHANGED <<next, buffered>>
Consume ==
    /\ next' = next + 1
    /\ buffered' = buffered - FrameTotalSize(Cur)

\* A bad header, an unmasked frame, or a control frame that is fragmented or
\* too long.
FrameProtocolError ==
    /\ AtFrame
    /\ \/ /\ \/ ParseHeader(Cur, buffered) = "error"
             \/ ParseHeader(Cur, buffered) = "complete" /\ ~Cur.masked
          /\ UNCHANGED beatVars
       \/ /\ WholeFrame(Cur) /\ IsControlFrame(Cur) /\ ~GoodControl(Cur)
          /\ RefreshHeartbeat
    /\ DoClose(ProtocolError, rd, wr, timer)
    /\ Return
    /\ UNCHANGED <<peerVars, rdn, msgVars, postVars, queueVars, wire, app>>

FrameTooBig ==
    /\ AtFrame
    /\ HeaderOk(Cur) /\ TooBig(Cur)
    /\ Close(MessageTooBig)
    /\ Return
    /\ UNCHANGED <<peerVars, readVars, msgVars, queueVars, open, wr, timer,
                   closeCalls, beatVars, wire, app>>

LoopEnds_noReadOnPartial ==
    /\ io = "loop"
    /\ buffered = 0 \/ ParseHeader(Cur, buffered) = "incomplete"
                    \/ (HeaderOk(Cur) /\ buffered < FrameTotalSize(Cur))
    /\ rd' = IF state \in {"Closing", "Closed"} \/ buffered > 0 THEN rd
                                                              ELSE "pending"
    /\ Return
    /\ UNCHANGED <<peerVars, rdn, msgVars, postVars, queueVars, state, open,
                   wr, timer, closeCalls, beatVars, wire, app>>

\* The loop ends: nothing left, or an incomplete frame.  Read on unless closing.
LoopEnds ==
    /\ io = "loop"
    /\ \/ buffered = 0
       \/ AtFrame /\ ParseHeader(Cur, buffered) = "incomplete"
       \/ /\ AtFrame /\ HeaderOk(Cur) /\ ~TooBig(Cur)
          /\ buffered < FrameTotalSize(Cur)
    /\ rd' = IF state \in {"Closing", "Closed"} THEN rd ELSE "pending"
    /\ Return
    /\ UNCHANGED <<peerVars, rdn, msgVars, postVars, queueVars, state, open,
                   wr, timer, closeCalls, beatVars, wire, app>>

\* After a control frame the loop goes on unless the session is Closed (then the
\* buffer is left as it is).
AfterControl ==
    IF state' = "Closed" THEN Return ELSE io' = io /\ Consume

EchoedCode(f) == IF f.len >= 2 THEN f.code ELSE NoStatusReceived

HandleClose ==
    /\ AtFrame /\ WholeFrame(Cur) /\ Cur.op = "Close" /\ GoodControl(Cur)
    /\ RefreshHeartbeat
    /\ Close(EchoedCode(Cur))
    /\ AfterControl
    /\ UNCHANGED <<peerVars, readVars, msgVars, queueVars, open, wr, timer,
                   closeCalls, wire, app>>

\* ping_handler_ runs before the Pong is enqueued.
HandlePing ==
    /\ AtFrame /\ WholeFrame(Cur) /\ Cur.op = "Ping" /\ GoodControl(Cur)
    /\ RefreshHeartbeat
    /\ \E reply \in Replies :
          /\ EnqueueFrame(CallbackFrames(reply, state) \o << <<"Pong", 0>> >>)
          /\ state' = CallbackState(reply, state)
    /\ AfterControl
    /\ UNCHANGED <<peerVars, readVars, msgVars, queueVars, open, wr, timer,
                   closeCalls, wire, app>>

HandlePong ==
    /\ AtFrame /\ WholeFrame(Cur) /\ Cur.op = "Pong" /\ GoodControl(Cur)
    /\ RefreshHeartbeat
    /\ UNCHANGED state
    /\ AfterControl
    /\ UNCHANGED <<peerVars, readVars, msgVars, postVars, queueVars, open, wr,
                   timer, closeCalls, wire, app>>

\* A first fragment inside a message, or a continuation outside one.
OutOfSequence(f) == (f.op = "Continuation") # msgStarted
Payload(i) == [k \in 1..peerLog[i].len |-> i]

\* msg_opcode_ and msg_payload_ once frame i of the peer is added.
MessageOp(i) == IF peerLog[i].op = "Continuation" THEN msgOp ELSE peerLog[i].op
MessageData_overwritten(i) == Payload(i)
MessageData(i) ==
    IF peerLog[i].op = "Continuation" THEN msgPayload \o Payload(i) ELSE Payload(i)

\* DoClose, but the loop is not left: the next frame is processed as usual.
HandleDataFrameError ==
    /\ AtFrame /\ WholeFrame(Cur) /\ Cur.op \in DataOps
    /\ OutOfSequence(Cur)
    /\ RefreshHeartbeat
    /\ DoClose(ProtocolError, rd, wr, timer)
    /\ Consume
    /\ UNCHANGED <<peerVars, rdn, io, msgVars, postVars, queueVars, wire, app>>

HandleDataFrame ==
    /\ AtFrame /\ WholeFrame(Cur) /\ Cur.op \in DataOps
    /\ ~OutOfSequence(Cur)
    /\ RefreshHeartbeat
    /\ msgOp' = MessageOp(next)
    /\ \/ /\ ~Cur.fin
          /\ msgStarted' = TRUE /\ msgPayload' = MessageData(next)
          /\ UNCHANGED <<delivered, state, postVars>>
       \/ /\ Cur.fin                                         \* DeliverMessage
          /\ msgStarted' = FALSE /\ msgPayload' = << >>
          /\ delivered' = Append(delivered, [op |-> MessageOp(next),
                                            payload |-> MessageData(next)])
          /\ \E reply \in Replies :
                /\ EnqueueFrame(CallbackFrames(reply, state))
                /\ state' = CallbackState(reply, state)
    /\ Consume
    /\ UNCHANGED <<peerVars, readVars, io, queueVars, open, wr, timer,
                   closeCalls, wire, app>>

-----------------------------------------------------------------------------
(* Writing: the closure EnqueueFrame posts, and the completion of DoWrite. *)

RunPosted ==
    /\ io = "idle" /\ strand # << >>
    /\ strand' = Tail(strand)
    /\ queue' = Append(queue, Head(strand))
    /\ IF queue = << >> /\ ~writing THEN writing' = TRUE /\ DoWrite
                                    ELSE UNCHANGED <<writing, wr>>
    /\ UNCHANGED <<peerVars, readVars, parseVars, msgVars, nposts, state, open,
                   timer, closeCalls, beatVars, wire, app>>

\* The next write, if any, once the front of the queue is popped.
WriteNext ==
    /\ queue' = Tail(queue)
    /\ IF Tail(queue) # << >> THEN writing' = TRUE /\ DoWrite
                              ELSE writing' = FALSE /\ wr' = "none"
    /\ UNCHANGED <<peerVars, readVars, parseVars, msgVars, postVars, state, open,
                   timer, closeCalls, beatVars, wire, app>>

WriteError_goesOn == io = "idle" /\ wr = "err" /\ WriteNext
WriteError ==
    /\ io = "idle" /\ wr = "err"
    /\ queue' = Tail(queue) /\ writing' = FALSE
    /\ DoClose(AbnormalClosure, rd, "none", timer)
    /\ UNCHANGED <<peerVars, rdn, parseVars, msgVars, postVars, beatVars, wire,
                   app>>

CloseFrameWritten_goesOn ==
    io = "idle" /\ wr = "ok" /\ Head(queue).kind = "Close" /\ WriteNext
CloseFrameWritten ==
    /\ io = "idle" /\ wr = "ok" /\ Head(queue).kind = "Close"
    /\ queue' = Tail(queue) /\ writing' = FALSE
    /\ DoClose(NormalClosure, rd, "none", timer)
    /\ UNCHANGED <<peerVars, rdn, parseVars, msgVars, postVars, beatVars, wire,
                   app>>

FrameWritten_stops ==
    /\ io = "idle" /\ wr = "ok" /\ Head(queue).kind # "Close"
    /\ queue' = Tail(queue) /\ writing' = FALSE /\ wr' = "none"
    /\ UNCHANGED <<peerVars, readVars, parseVars, msgVars, postVars, state, open,
                   timer, closeCalls, beatVars, wire, app>>
FrameWritten ==
    io = "idle" /\ wr = "ok" /\ Head(queue).kind # "Close" /\ WriteNext

-----------------------------------------------------------------------------
(* OnHeartbeatTimer.                                                       *)

TimerDue_evenIfAborted == io = "idle" /\ timer >= 0
TimerDue == io = "idle" /\ timer = 0

TimerStops ==
    /\ TimerDue /\ state # "Active"
    /\ timer' = NoTimer
    /\ UNCHANGED <<peerVars, readVars, parseVars, msgVars, postVars, queueVars,
                   state, open, wr, closeCalls, beatVars, wire, app>>

HeartbeatExpires ==
    /\ TimerDue /\ state = "Active"
    /\ awaiting /\ idle >= Timeout
    /\ DoClose(AbnormalClosure, rd, wr, NoTimer)
    /\ UNCHANGED <<peerVars, rdn, parseVars, msgVars, postVars, queueVars,
                   beatVars, wire, app>>

HeartbeatPing ==
    /\ TimerDue /\ state = "Active"
    /\ ~awaiting /\ idle >= Interval
    /\ awaiting' = TRUE /\ sincePing' = 0
    /\ EnqueueFrame(<< <<"Ping", 0>> >>)
    /\ timer' = Interval
    /\ UNCHANGED <<peerVars, readVars, parseVars, msgVars, queueVars, state,
                   open, wr, closeCalls, idle, wire, app>>

HeartbeatRearms_forgetsPing ==
    /\ TimerDue /\ state = "Active"
    /\ IF awaiting THEN idle < Timeout ELSE idle < Interval
    /\ timer' = Interval /\ awaiting' = FALSE
    /\ UNCHANGED <<peerVars, readVars, parseVars, msgVars, postVars, queueVars,
                   state, open, wr, closeCalls, idle, sincePing, wire, app>>
HeartbeatRearms ==
    /\ TimerDue /\ state = "Active"
    /\ IF awaiting THEN idle < Timeout ELSE idle < Interval
    /\ timer' = Interval
    /\ UNCHANGED <<peerVars, readVars, parseVars, msgVars, postVars, queueVars,
                   state, open, wr, closeCalls, beatVars, wire, app>>

-----------------------------------------------------------------------------
(* Application threads.  They hold the session once a callback has run.    *)

AppSend(t) ==
    /\ app[t] = "idle" /\ state # "Handshaking" /\ nposts < MaxPosts
    /\ EnqueueFrame(<< <<"Text", 0>> >>)
    /\ UNCHANGED <<peerVars, readVars, parseVars, msgVars, queueVars, state,
                   open, wr, timer, closeCalls, beatVars, wire, app>>

\* Close(): "if (state_ != Active) return", "state_ = Closing", EnqueueFrame.
AppCloseChecks_anyState(t) ==
    /\ app[t] = "idle"
    /\ app' = [app EXCEPT ![t] = "checked"]
    /\ UNCHANGED <<peerVars, readVars, parseVars, msgVars, postVars, queueVars,
                   state, open, wr, timer, closeCalls, beatVars, wire>>
AppCloseChecks(t) ==
    /\ app[t] = "idle" /\ state = "Active"
    /\ app' = [app EXCEPT ![t] = "checked"]
    /\ UNCHANGED <<peerVars, readVars, parseVars, msgVars, postVars, queueVars,
                   state, open, wr, timer, closeCalls, beatVars, wire>>

AppCloseStores(t) ==
    /\ app[t] = "checked"
    /\ app' = [app EXCEPT ![t] = "stored"]
    /\ state' = "Closing"
    /\ UNCHANGED <<peerVars, readVars, parseVars, msgVars, postVars, queueVars,
                   open, wr, timer, closeCalls, beatVars, wire>>

AppClosePosts(t) ==
    /\ app[t] = "stored"
    /\ app' = [app EXCEPT ![t] = "idle"]
    /\ EnqueueFrame(<< <<"Close", NormalClosure>> >>)
    /\ UNCHANGED <<peerVars, readVars, parseVars, msgVars, queueVars, state,
                   open, wr, timer, closeCalls, beatVars, wire>>

-----------------------------------------------------------------------------
Network == PeerSend \/ ReadSome \/ ReadFails \/ WriteCompletes \/ Tick

Handshake ==
    \/ HandshakeReadError \/ HandshakeTooLarge \/ HandshakeIncomplete
    \/ HandshakeRejected \/ HandshakeReplyFails \/ HandshakeSucceeds

FrameLoop ==
    \/ FrameReadError \/ OnFrameData \/ FrameProtocolError \/ FrameTooBig
    \/ LoopEnds \/ HandleClose \/ HandlePing \/ HandlePong
    \/ HandleDataFrameError \/ HandleDataFrame

Writer == RunPosted \/ WriteError \/ CloseFrameWritten \/ FrameWritten

Heartbeat == TimerStops \/ HeartbeatExpires \/ HeartbeatPing \/ HeartbeatRearms

App(t) == AppSend(t) \/ AppCloseChecks(t) \/ AppCloseStores(t) \/ AppClosePosts(t)

Next ==
    \/ Network \/ Handshake \/ FrameLoop \/ Writer \/ Heartbeat
    \/ \E t \in Threads : App(t)

Spec == Init /\ [][Next]_vars

\* The io thread serves every ready handler; an application thread inside Close
\* finishes it; a write ends, by the peer reading or by the connection failing.
Fairness ==
    /\ WF_vars(Handshake) /\ WF_vars(FrameLoop) /\ WF_vars(Writer)
    /\ WF_vars(Heartbeat) /\ WF_vars(WriteCompletes)
    /\ \A t \in Threads : WF_vars(AppCloseStores(t) \/ AppClosePosts(t))

FairSpec == Spec /\ Fairness

-----------------------------------------------------------------------------
(* Properties.                                                             *)

PeerTypeOK == peerLog \in Seq(FrameSet) /\ unread \in Nat
ReadTypeOK ==
    /\ rd \in {"none", "pending", "done", "fail"} /\ rdn \in Nat
    /\ buffered \in Nat /\ next \in Nat \ {0} /\ io \in {"idle", "loop"}
MsgTypeOK ==
    /\ msgStarted \in BOOLEAN /\ msgOp \in DataOps /\ msgPayload \in Seq(Nat)
    /\ delivered \in Seq([op : DataOps, payload : Seq(Nat)])
PostTypeOK == strand \in Seq(ItemSet) /\ nposts \in Nat
QueueTypeOK ==
    /\ queue \in Seq(ItemSet) /\ wire \in Seq(ItemSet)
    /\ writing \in BOOLEAN /\ wr \in {"none", "inflight", "ok", "err"}
ConnTypeOK == state \in States /\ open \in BOOLEAN /\ closeCalls \in Seq(Nat)
BeatTypeOK ==
    /\ timer \in Int /\ timer >= NoTimer
    /\ idle \in Nat /\ awaiting \in BOOLEAN /\ sincePing \in Nat
AppTypeOK == app \in [Threads -> {"idle", "checked", "stored"}]

\* Every variable has the type its declaration in ws_session.hpp gives it, in
\* the units of this model: frame_buf_ in particular never shrinks by more than
\* it holds (ProcessFrameBuffer's erase).
TypeOK ==
    /\ PeerTypeOK /\ ReadTypeOK /\ MsgTypeOK /\ PostTypeOK /\ QueueTypeOK
    /\ ConnTypeOK /\ BeatTypeOK /\ AppTypeOK

\* The frames on the wire are those passed to EnqueueFrame, in the order of the
\* calls and without a gap, whatever threads called it and however writes fail.
WireInPostOrder == \A i \in 1..Len(wire) : wire[i].id = i

\* Nothing is written after a Close frame, so the peer sees at most one, even
\* when two threads, or a thread and the reply to the peer's Close, both enqueue
\* one (DoWrite's completion handler, is_close).
CloseFrameIsLast ==
    \A i \in 1..Len(wire) : wire[i].kind = "Close" => i = Len(wire)

\* EnqueueFrame starts a write only when the queue was empty, so on an open
\* socket a queued frame always has a write outstanding that will serve it; and
\* writing_ says truly whether one is outstanding.
QueuedFrameHasWriter ==
    /\ writing <=> wr # "none"
    /\ open /\ queue # << >> => wr # "none"

\* Between two handlers an Active session has a read outstanding: no way through
\* ProcessFrameBuffer leaves a live session that listens no more.
ActiveSessionReads == state = "Active" /\ io = "idle" => rd # "none"

\* Reference: a message is a run of the peer's data frames from the one that gives its
\* type to the one that ends it; control frames may come between.
IsData(f) == f.op \in DataOps
IsRun(log, s, e) ==
    /\ IsData(log[s]) /\ IsData(log[e]) /\ log[s].op # "Continuation"
    /\ \A i \in (s + 1)..e : IsData(log[i]) => log[i].op = "Continuation"
    /\ \A i \in s..(e - 1) : IsData(log[i]) => ~log[i].fin
\* The payloads of the data frames s..e, one after the other.
Units(log, i) == [k \in 1..log[i].len |-> i]
RunPayload(log, s, e) ==
    LET joined[i \in s..e] ==
            IF i = s THEN Units(log, i)
            ELSE IF IsData(log[i]) THEN joined[i - 1] \o Units(log, i) ELSE joined[i - 1]
    IN  joined[e]

\* Until the session is closed, message_handler_ has received exactly the
\* messages the processed frames make up, each with the type of its first
\* fragment and the payload of all its fragments, in order (HandleDataFrame).
MessagesEnd(ends) ==
    /\ \A j, k \in 1..Len(delivered) : j < k => ends[j] < ends[k]
    /\ {ends[k] : k \in 1..Len(delivered)}
          = {e \in 2..(next - 1) : IsData(peerLog[e]) /\ peerLog[e].fin}
    /\ \A k \in 1..Len(delivered) : \E s \in 2..ends[k] :
          /\ IsRun(peerLog, s, ends[k])
          /\ delivered[k] = [op |-> peerLog[s].op,
                             payload |-> RunPayload(peerLog, s, ends[k])]
DeliversWhatWasSent ==
    closeCalls = << >> => \E ends \in [1..Len(delivered) -> 2..(next - 1)] : MessagesEnd(ends)

\* What makes frame e, alone or with the fragments before it, too big, or says so.
ExceedsLimits(log, e) ==
    \/ FrameTotalSize(log[e]) > MaxFrameBuf
    \/ IsControlFrame(log[e]) /\ log[e].len > MaxControl
    \/ IsData(log[e]) /\ log[e].len > MaxMessage
    \/ \E s \in 2..e : IsRun(log, s, e) /\ Len(RunPayload(log, s, e)) > MaxMessage
SaysTooBig(f) == f.op = "Close" /\ f.code = MessageTooBig
Refusal(item) == item.kind = "Close" /\ item.code = MessageTooBig
Refused == \E items \in {strand, queue, wire} : \E i \in 1..Len(items) : Refusal(items[i])

\* The limits cut where they should: no message that message_handler_ gets exceeds
\* max_message_bytes, however it is fragmented, and a peer whose messages and frames
\* respect the limits is never refused with 1009, however TCP cuts its bytes.
LimitsExact ==
    /\ \A k \in 1..Len(delivered) : Len(delivered[k].payload) <= MaxMessage
    /\ Refused => \E e \in 2..Len(peerLog) :
                    ExceedsLimits(peerLog, e) \/ SaysTooBig(peerLog[e])

\* The second half is true of a buffer that holds the longest legal frame less a byte,
\* and one read: OnFrameData counts the bytes of the next frames, too.
RoomForOneRead ==
    /\ 1 + MaxMessage + ReadBuf <= MaxFrameBuf
    /\ 1 + MaxControl + ReadBuf <= MaxFrameBuf

\* The session implements the outbox WsOutbox specifies.  The frame whose write
\* has completed is on the wire although it still heads the queue.
Unsent == (IF wr = "ok" THEN Tail(queue) ELSE queue) \o strand
CloseFrameSent == \E i \in 1..Len(wire) : wire[i].kind = "Close"
CloseItems == {it \in ItemSet : it.kind = "Close"}
Outbox == INSTANCE WsOutbox
          WITH Frame <- ItemSet, CloseFrame <- CloseItems, pending <- Unsent,
               sent <- wire, shut <- ~open \/ CloseFrameSent
ImplementsOutbox == Outbox!Spec

\* Whoever calls Close and whenever, the handshake does not revive a session
\* that is closing or closed.
NeverReopens ==
    [][(state \in {"Closing", "Closed"}) => (state' # "Active")]_vars

\* OnHeartbeatTimer: a peer that goes silent does not stay Active longer than
\* this after its last complete frame.
IdleBound ==
    IF Timeout + Interval > 3 * Interval THEN Timeout + Interval ELSE 3 * Interval
SilentPeerIsDropped == state = "Active" => idle < IdleBound

\* OnHeartbeatTimer: no peer is dropped that was not pinged, or that still has
\* part of one interval left to answer the Ping.
PongWithinIntervalSuffices ==
    [][HeartbeatExpires => (awaiting /\ sincePing >= Interval)]_vars

\* A frame posted while the socket stays open is written in the end.
PostedFramesDrain ==
    (strand # << >> \/ queue # << >>)
        ~> (strand = << >> /\ queue = << >>) \/ ~open

\* A session that starts to close gets its socket closed.
ClosingReleasesSocket == state = "Closing" ~> ~open
=============================================================================
