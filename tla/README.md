# A TLA+ development of camera-player

The program serves an H.264 file to RTSP clients, and carries an HTTP server and
a WebSocket server. This directory models its concurrent and protocol parts in
TLA+, checks them with TLC on small instances and proves the most important
properties for every instance with TLAPS. `PROJECT.json` maps each definition to
the lines it stands for and lists every run, finding, hazard and theorem.

## The system

| Part | Sources | Keeps | Does | Hard about it | Here |
|---|---|---|---|---|---|
| WebSocket session | `server/ws/ws_session.*`, `ws_types.hpp` | `state_`, frame buffer, fragments, `send_queue_`, `writing_`, heartbeat times | upgrade, frame loop, control frames, queue and writer, heartbeat, close | application threads against the io thread, partial reads, callbacks that send and close, timers | `WsSession`, `WsOutbox` |
| WebSocket server | `server/ws/ws_server.*` | `sessions_` under a mutex, `running_`, acceptor, io thread | accept loop, broadcast, `RemoveSession`, `Stop` | `Stop` and broadcasts against accepts and closing sessions; joining a thread that still has work | `WsServer` |
| WebSocket codec, upgrade | `ws_frame.hpp`, `ws_handshake.hpp` | - | `ParseHeader`, `EncodeServerFrame`, accept key, request text | three forms of a length, headers that arrive in pieces | `WsFrame`, `AcceptKey`; the request's outcomes in `WsSession` |
| RTSP session | `rtsp/rtspsession.*` | `context_`, `read_buffer_`, `packet_queue_`, `frame_index_` | OPTIONS to TEARDOWN, `ProduceNextPacket` | requests against queued ticks; what a new play finds in the queue; requests and `$` frames cut by TCP | `RtspSession`, `RtspFraming` |
| RTP transport, senders | `rtp/rtptransport.*`, `rtpsender.*` | `is_playing`, `is_loop_running_`, the timer | `SetPlaying`, `OnTimer`, sending | a handler that outlives its transport; synchronous writes on a socket in use; lost packets | `RtspSession`, `MediaSession` |
| H.264 source | `rtp/h264source.*`, `rawh264source.*` | file position | grouping NAL units into frames, FU-A | start codes next to zeros, fragment boundaries, what ends a frame | `H264`; in `RtspSession` a sequence of frames |
| HTTP session, parser, router | `server/http/*` | `buffer_`, `state_`, `req_` | incremental parse, dispatch, keep-alive | requests cut anywhere by TCP | `HttpSession` |
| RTSP server, HTTP server, main | `rtsp/rtspserver.*`, `rtspmgr.h`, `server/http/server.*`, `main.cpp` | acceptors, threads | start and stop | a signal handler that joins threads | not modelled |
| Media session | `rtp/mediasession.*` | `clients_`, two mutexes, multicast addresses | add, remove, dispatch, multicast | frames, clients and owners on different threads; callbacks under a lock | `MediaSession` |
| SHA-1, Base64 | `ws/sha1.*` | partial block, digest | `Update`, `Final`, Base64 | pieces of any size, padding across a block | `Sha1`, `AcceptKey` |

The parts meet as follows. `WsServer` owns its sessions through `sessions_` and is
called back by `WsSession::DoClose` (`RemoveSession`); both run their handlers on
one io thread, the application calls them from others. `RtspSession` derives from
the TCP session, owns an `AsioRtpTransport`, and is asked by its timer for the next
packet (`ProduceNextPacket`), which pulls a frame from the file when the queue is
empty; over TCP the packets go through the socket of the requests. `http::Session`
owns a `Parser` and shares a constant `Router`. Each server has its own
`io_context` and thread, so that the three protocols do not share state. `AsioMediaSession`
sends each frame to the transports of many clients, which it holds by `weak_ptr`;
`RtspServer` does not use it, so that its callers are any threads.

## Modules

| Module | Contents |
|---|---|
| `WsSession` | one WebSocket connection |
| `WsOutbox` | abstract: what the sending half promises, an ordered outbox |
| `WsServer` | the accept loop, the session table, broadcasts, `Stop` |
| `RtspSession` | one RTSP connection, its transport, timer and packet queue |
| `HttpSession` | one HTTP connection with parser and router |
| `RtspFraming` | what `OnBytes` makes of the bytes of a connection |
| `H264` | from a file's bytes to NAL units, frames and RTP payloads |
| `H264Reference` | what H.264 and RFC 6184 say of those, and the properties that compare |
| `MediaSession` | one stream to many clients, and its multicast address |
| `Sha1` | cutting a text into blocks, and padding |
| `AcceptKey` | `Sha1` with `ProcessBlock` and Base64: the accept key |
| `WsFrame` | WebSocket frames byte by byte |
| `WsWire` | `AcceptKey`, then `WsFrame`: the bytes of one connection |
| `MC*` | the sets that the configurations give to the constants |
| `*Proofs` | the theorems about the module of that name; `WsWireProofs` about `Sha1` and `WsFrame` |

A definition named `X_y` in front of `X` is a faulty variant of `X`, the bug that
the property it belongs to is there to catch. No specification uses one.

### WsSession

The peer's bytes are frames with a header and a payload length; a read takes up to
`ReadBuf` bytes, so every cut by TCP occurs. Each handler of the io thread is an
action: `HandshakeRead` and what follows it, `OnFrameData`, one action for each way
an iteration of `ProcessFrameBuffer` ends, `RunPosted` (the closure of
`EnqueueFrame`), the completions of `DoWrite`, and the timer. What `ParseHeader` makes
of bytes is in `WsFrame`; here only its outcomes count. The frame loop is split per
frame, because callbacks and application threads act in between; a program counter
keeps other handlers of the same thread out. `Close` of an
application thread is three actions - check, store, post - as nothing makes them
atomic; the same call by a callback on the io thread is one. A callback may send or
close (`Replies`). Frames are consumed one by one in the model, at the end of the
loop in the code, which no other handler can tell apart. A payload unit is the index
of its frame, so that a reassembled payload says which frames it is made of and in
which order. The inner size checks at
`ws_session.cpp:331-334` and `344-347` cannot be reached past the check at
`193-200` and are left out. An exception thrown by a callback is not modelled.

Time passes by `Tick`, which cannot pass over a timer that is due: a handler may be
late by the order of handlers, never by the clock. In the runs about other things
`MaxIdle = 0` freezes the clock.

### WsOutbox

`Post`, `Send`, `Shut` on three variables. `ImplementsOutbox` in `WsSession` maps
posted frames, what is on the wire and whether the session is shut onto them.

### WsServer

A session is reduced to its life (`States` of `WsSession`), its socket and the frames
posted to it. `BroadcastText` and `Stop` are walks over a snapshot of the table held
under the mutex, one action per session and per check and post; `RemoveSession` waits
for the mutex. Only a server that owns its `io_context` is modelled, from after
`Start`. `acceptor_.close()` against an accept that has completed is a choice, as it
is in asio. Not modelled: an external `io_context`, `Start` after `Stop`, `Stop` in a
callback.

### RtspSession

Everything runs on one io thread; what interleaves is the order in which requests and
timers are served. A request arrives whole and alone; what happens when it does not is
in `RtspFraming`. Its response is left out, as nothing here depends on when it is
written. The file is a sequence of frames, each the number of packets `HandleFrame`
makes of it. The SPS and PPS that `SendSpsPps` sends at a PLAY are one event, which
happens if the file has any (`HasParameters`). Two histories are told apart: `sent`, the
last packet of the file on any transport, and `wire`, the last thing sent on the
present one. They show what a PLAY does to a frame whose rest an earlier play has left
in `packet_queue_`: `begun` is false until that rest has gone out and a new frame has
begun. The text of requests, sequence numbers, the interleaved channel and the outcome of
a send are left out. `is_playing` of a new transport is whatever the memory held
(`InitialPlaying`), as the source does not initialise it. `StaleTick` is the handler of
a destroyed transport, which captured a raw `this`: it returns or brings the process
down.

### RtspFraming

A byte is its position in the stream, so that `read_buffer_` is two positions and any
segmentation is a choice of where a read ends. `OnBytes` and
`ProcessInterleavedData` are one action; requests act on the state by `NextState`,
without the stream, which is in `RtspSession`. What the middle of a request looks like
depends on its text, so that both outcomes of the test for text are taken there. `cut`
remembers that a read ended inside a request: the properties are about connections
where none did, with reports cut anywhere and joined to the request after them. The
client sends no report before `SETUP` is answered or after `PAUSE`, and one request at
a time.

### HttpSession

A line is two bytes, the second of which ends it, so that TCP can cut within lines.
`buffer_` is always a segment of what was sent and is kept as two positions; the bytes
of a request are added to the stream when the client sends it. `Passes` is the loop of
`Parser::feed`, byte by byte: a pass at the byte that ends a line parses the line
(`ParseLine`), any other waits, and the body follows the passes. The client waits for a
response before it sends the next request, and gives up after a malformed one.
`feed`'s return value, which its caller ignores, and exceptions are left out.

### H264

`ExtractNALUnits`, `ReadNextFrame`, `Reset` and `HandleFrame` on bytes, with a small
`MaxPayload`. `FeedNextNALFrame` reads a frame and packs its units in one handler, so
`ReadNextFrame` does both here. A frame is the set of its places in `cached_nals_`.
`H264Reference` has the units of the byte stream format (`AnnexB`), the receiver of
RFC 6184 (`Receive`) and the three properties. Where the standard drops every zero
before a start code, `Unit` drops one, as the code does; the others stay with the unit
before them. A NAL unit of type 28 would be taken for a fragment by any receiver, and
nothing is said of a file that has one (`NoFragmentType`). The module is why `RtspSession`
may take a file for a sequence of frames of at least one packet each. `Close` and a second
`Open` are left out: a session opens one file once.

### MediaSession

`HandleFrame` holds `frame_mutex_` for a frame and `client_mutex_` for each packet of
it; the model takes one action per packet and client, so that everything another
thread may do comes between: adding and removing clients, an owner that drops the
transport (`client.lock()` then fails) or closes the socket, a send that fails.
`SendRtp` counts the packet whether it is sent or not. In multicast the first client's
transport sends for all. `DropTransport` and `CloseSocket` belong to the owner, which
is outside the class. `is_active` of a new entry and the first sequence number are
whatever the memory held (`mediasession.cpp:97`, `rtp.h`). `made` counts the
packets the sources have made for each channel, against which the gaps that a receiver
sees are told. A transport that is stopped or has no sender returns before it numbers a
packet (`rtptransport.cpp:88-91`); that return is left out, as it cannot be told from a
loss after which nothing is sent: nobody stops a transport and starts it again. `GetMulticastIp` draws at
most ten random addresses; the model draws a free one, or finds that ten were taken.

### Sha1, AcceptKey, WsFrame, WsWire

`Sha1` is about which bytes reach `ProcessBlock`: a byte says where it comes from, and
block and length sizes are constants. `AcceptKey` runs `ProcessBlock` over those
blocks one loop iteration at a time, on words of two halves of 16 bits, as TLC's
integers are 32 bits wide and signed, and encodes the digest; it is the only module
that uses `Bitwise`, which keeps it out of the provers' reach. `WsFrame` has
`ParseHeader`, `ApplyMask` and `EncodeServerFrame` against a client that writes headers
as RFC 6455 has them, right and wrong. A byte of a header is its value; a byte of a
payload, which is only ever masked, is the set of its bits. Base64 gets only digests of
20 bytes, so that only a remainder of two bytes occurs. Lengths of frames are any number
below 2^64 in `WsFrame`; TLC gets some below 2^31.

## Runs

| Run | Instance | Shows |
|---|---|---|
| `frames` | three frames of any kind, fragments, control frames, refused ones, every cut | `TypeOK` (never more erased than there is), `ActiveSessionReads`, `DeliversWhatWasSent`, `LimitsExact` |
| `writer` | two threads, three posts, callbacks that reply or close, write failures | `WireInPostOrder`, `CloseFrameIsLast`, `QueuedFrameHasWriter`, `NeverReopens`, `ImplementsOutbox` |
| `time` | one thread, a peer that answers, closes or falls silent, a clock to 10 | `SilentPeerIsDropped`, `PongWithinIntervalSuffices`, `PostedFramesDrain`, `ClosingReleasesSocket` |
| `server_table` | two connections, two broadcasting threads, two broadcasts, `Stop` | `TypeOK`, `LoopSeesTable`, `TableIsAccurate`, `BroadcastsAgree`, `BroadcastReaches` |
| `server_stop` | two connections, one broadcast, fairness | `StopReturns` |
| `rtsp_stream` | three frames of one to three packets, eight requests | `LoopHasTimer`, `QueueHoldsOneFrame`, `TimestampsFollowFrames`, `CutOnlyByPlay`, `SilentWhenStopped`, `PlayingStreams` |
| `rtsp_reads` | four requests and reports, every cut and joint | `AnswersMatch`, `ReportsArrive`, `RequestsAnswered` |
| `h264` | all files of up to seven bytes; up to four NAL units of six kinds | `FindsNalUnits`, `FramesCoverFile`, `ReceiverSeesUnits` |
| `http` | three requests of five kinds, every cut | `AnswersRequests`, `RequestsAnswered` |
| `media` | two threads, two clients, two frames of up to two packets, one address | `FramesInOrder`, `SendsOnOpenSocket`, `LossLeavesGap`, `AddressesAccounted` |
| `wire` | the guide's example key, given in pieces of every size; headers at every boundary of the length, valid and not | `PaddedOnce`, `KeyAccepted`, `FramesUnderstood` |

One run ends in a counterexample: there the code does not do what a comment says.

| Run | Property | Disagreement |
|---|---|---|
| `close_twice` | `CloseFlowRunsOnce` | `DoClose` on a closed session runs the close handler again; the comment at `ws_session.cpp:512` says once |

### Other disagreements

Found while modelling; no run is spent on them.

WebSocket:
- After a fragmentation error the frame loop goes on and may call `message_handler_` of
  a session that `close_handler_` has ended (`ws_session.cpp:231`, `ws_session.hpp:30`).
- A Close frame without a status is answered with 1005 (`ws_session.cpp:284`,
  `ws_types.hpp:29`).
- `heartbeat_timeout` counts from the last activity and not from the Ping
  (`ws_session.cpp:386`, `docs/websocket.md:249`).
- `Stop` does not close a session in its handshake (`ws_server.cpp:74`,
  `ws_session.cpp:438`, `ws_server.hpp:53`), and an accept that has completed is added
  after `Stop` has cleared the table (`ws_server.cpp:97`, `docs/websocket.md:154`).
- `GenerateId` may repeat an id, which `AddSession` then overwrites.
- A complete frame waits in the buffer that `max_frame_buffer_bytes` bounds, together
  with one read. With the guide's `max_message_bytes` of 2 MB (`docs/websocket.md:87`)
  and the default buffer of 2 MB (`ws_types.hpp:72`) a message of that size is refused
  with 1009; see `RoomForOneRead` in `WsSession`.

RTSP and RTP:
- `is_playing` of a new channel is not initialised (`rtptransport.cpp:203`, `rtp.h:83`);
  where it is true, PLAY starts no timer.
- Over TCP a packet may be written into the middle of a response
  (`rtpsender.cpp:29`, `tcpsession.h:33`), and goes out on channel 0 whatever was
  negotiated (`rtpsender.cpp:22`).
- A request that TCP cuts is answered 400 without a CSeq, or with the last one, and the
  rest of it again (`rtsp.h:60` has the CSeq for matching). Of two requests in one read
  the first is answered, with the CSeq of the last.
- GET_PARAMETER is advertised (`rtspsession.cpp:222`) but dropped without an answer in
  READY and PLAYING (`:103`).
- A report in flight when PAUSE or TEARDOWN is served is answered 400. `interleaved=a`
  without a second channel makes a the channel of the reports.
- RTP-Info's `seq` is not the one in the headers (`rtspsession.cpp:376-385`);
  `SendSpsPps` and the multicast sender place payloads at the wrong offset
  (`:423-446`, `rtpsender.cpp:129-134`).
- A PLAY that finds packets in `packet_queue_` (`rtspsession.cpp:402`) sends SPS and PPS
  between two fragments of a frame (`:416`), with the timestamp of the first frame; after
  a SETUP it sends the rest of that frame on another transport, with another SSRC and
  other sequence numbers. A receiver loses the frame. `CutOnlyByPlay` says that no other
  frame is cut.
- `ReadNextFrame` ends a frame before the next slice, so that a picture of several slices
  comes back in several frames; the parameters that open a picture come with the frame
  before it, and its delimiter is dropped (`rawh264source.cpp:83`, `nalsource.h:45`).

Media session:
- `AddClient` refuses a handle whose old entry has lost its transport, and
  `RemoveClient` then notifies nobody.
- A callback that calls the session back waits for the mutex its own thread holds
  (`mediasession.cpp:106`).
- `AddSource` and `RemoveSource` are not locked against `HandleFrame`; two calls of
  `StartMulticast` at once lose an address.

HTTP: `feed` never returns -1 (`http_parser.hpp:69`).

### Bounds

Every bound is a constant. `MaxFrames = 3` allows a first fragment, a control frame
and a last fragment; the frame buffer holds the longest frame less a byte, and one read,
the smallest that lets a legal peer in (`RoomForOneRead`), and one byte more is the off-by-one the run looks for. Two
threads and three posts allow a close to race a send and another close. The clock of
`time` runs to the timeout plus the interval, by when a silent peer must be gone, and the
timeout exceeds two intervals, so that a timer can find a Ping unanswered and not yet
late. Two sessions and two broadcasters are what it takes for
two orders to disagree. Four messages on an RTSP connection allow SETUP, a report, a request
joined to a report, and a request after it; a header and a request line of two bytes
can each be cut. In `media`, two frames from two threads can mix; three sequence numbers, from the last one, wrap, and let as
many packets be lost in a row as there are numbers, where a gap cannot be seen.
The accept key's text is 60 bytes, so that the padding needs a second block. Eight
RTSP requests allow SETUP, PLAY, PAUSE, SETUP, PLAY, PAUSE, SETUP, PLAY: a rest that one PLAY
has left may be left again by the next. Three HTTP requests allow two that leave something behind. Seven bytes hold a start code, a
unit and another start code with a zero to spare; with `MaxPayload = 4` the units lie
on either side of one packet and of two and three fragments. Where a theorem exists the
bounds do not matter.

Threads are symmetric in `writer` and `media`, threads and sessions in `server_table`;
none of them has a liveness property (`BroadcastReaches` and `ImplementsOutbox` are
about steps). Deadlock is not checked: connections end and requests are bounded, so
every system stops.

### Fairness

Weak fairness for what `io_context::run` does on a running thread: a handler that is
ready is served, a timer that is due fires. Weak fairness for an application thread
inside a call, which the operating system schedules; none for making the call. A write
completes or fails: the peer reads or the connection breaks. This last assumption is
the missing timeout of `Closing`: without it `ClosingReleasesSocket` is false, as the
code has no timer there. `StopReturns` excepts sessions that `Close` does not reach.
`PlayingStreams` speaks of a loop that has started, which one with an uninitialised
`is_playing` may not have. In `rtsp_reads` bytes that have arrived are read.

## Proofs

| Module | Theorems |
|---|---|
| `WsSessionProofs` | `TypeCorrect`, `WireOrder`, `CloseLast`, `NoLostWakeup`, `SilentPeer`, `PongInTime`, `NoReopen`, `ActiveListens`, `MessagesIntact`, `LimitsCutExactly`; `OutboxRefinement`: `WsSession` implements `WsOutbox` |
| `WsServerProofs` | `ServerTypeCorrect`, `LoopsSeeTable`, `TableAccurate`, `BroadcastsInOneOrder`, `BroadcastReachesAll` |
| `RtspSessionProofs` | `RtspTypeCorrect`, `LoopNeverSleeps`, `QueueIsOneFrame`, `TimestampsCorrect`, `OnlyPlayCuts`, `StoppedIsSilent` |
| `RtspFramingProofs` | `SpecTypeOK`, `SpecAnswersMatch`, `SpecReportsArrive` |
| `MediaSessionProofs` | `SpecTypeOK`, `SpecFramesInOrder`, `SpecSendsOnOpenSocket`, `SpecLossLeavesGap`, `SpecAddressesAccounted` |
| `HttpSessionProofs` | `SpecIInv`, `SpecTypeOK`, `SpecAnswersRequests` |
| `WsWireProofs` | `HashBuffer`, `HashPaddedOnce`; `HeaderParsed`, `HeaderEncoded`, `MaskTwice`, `SpecFramesUnderstood` |
| `H264Proofs` | `SpecIInv`, `SpecTypeOK`, `SpecFindsNalUnits`, `SpecFramesCoverFile`, `SpecReceiverSeesUnits` |

The only assumptions are the named `ASSUME`s of the modules, on the constants, and in
`LimitsCutExactly` `RoomForOneRead`.

- `WsSession`: `WireInPostOrder` is not inductive. The invariant adds which frame the
  outstanding write carries, that it is the head of `send_queue_`, that closures wait
  in post order behind the queue, and what a failed write leaves. `CloseLast` and the
  absence of a lost wake-up follow from the same invariant. The two facts about time
  need how the timer, the last activity and the Ping relate, and that a due timer is
  served before the clock passes it. `ActiveSessionReads` needs nothing but itself:
  whatever leaves a session Active starts the next read.
- `WsSession`, reassembly: until the session is closed, a message under way is a run of
  the peer's frames that reaches to the one before `next` and that none of them ends, and
  `msg_payload_` is its payload (`MsgInv`); a data frame in sequence extends the run, any
  other is passed over. The payload of a run is a recursive function, of which the proof
  needs what it is for one frame, and for one frame more, in a log that may have grown.
- `WsSession`, limits: while an Active session waits for a read, the frame at the front of
  its buffer is cut and not known to be too big (`Partial`). So the buffer is full only
  of a frame that is longer than any legal one, provided that it has room for one legal
  frame less a byte, and one read. The proviso is `RoomForOneRead`; the default options
  (messages of 1 MB, a buffer of 2 MB, reads of 64 KB) meet it. That no delivered message
  is longer than the limit does not need it.
- `WsOutbox`: the initial states map to an initial state, and each step, under the
  invariant, to a step or to a stutter.
- `WsServer`: who holds the mutex, and that only its holder has a loop under way; a
  session in the table is live, and between handlers, with unique ids, a live one is
  in the table. A broadcast whose loop runs is the newest one, and its loop posts it
  once to each session, so the numbers in every queue grow: two queues cannot disagree
  on an order. Each session of its audience that is still Active has the message or is
  ahead of the loop. `TableAccurate` and `BroadcastReachesAll` assume unique ids
  (`UniqueId`); `BroadcastsInOneOrder` does not.
- `RtspSession`: the queue is a suffix of one frame that the last packet sent
  precedes (`QueueInv`), the file is behind a frame that has begun since the last PLAY
  and otherwise rewound or at its end (`SentInv`), and position and index move together
  (`IndexInv`). That a stopped session is silent needs two facts more: a channel without
  a transport does not play, and a loop runs only in READY or PLAYING. Which frame a
  PLAY cuts follows from what a running loop says of its transport: the parameter sets
  came before, and once a frame has begun, the last packet went out on it (`WireInv`).
- `RtspFraming`: messages lie one after the other, and while no request has been cut
  the buffer begins with a message and holds no whole one; at most the last request is
  unanswered, and outside READY and PLAYING no report is under way. Each read is then
  reports, perhaps followed by the one request.
- `MediaSession`: which thread holds which mutex follows from where it is. Only the
  holder of `frame_mutex_` has a frame, the newest, and no packet sent is ahead of the
  one it is at; the clients its dispatch has yet to visit are in the table and lack
  that packet. For the addresses, the session has one from the moment it starts
  multicast. The next sequence number of an entry is that of any packet it
  got plus the packets whose dispatch has passed it since, modulo `SeqSize`
  (`NumberInv`), so that a loss shows unless `SeqSize` packets are lost in a row.
- `HttpSession`: `Parser`'s fields are a function of the lines of the last request that
  have ended, and each pass of one `feed` keeps that; between requests the parser is at
  rest, and a response is the one expected of the bytes sent (`ProgressInv`).
- `WsFrame`: a header is its first two bytes, a length of zero, two or eight bytes, and a
  mask. Written and read numbers in base 256 are two recursive functions, each the
  inverse of the other. Masking twice is the identity.
- `Sha1`: what is hashed, followed by the buffer, is the beginning of the padded text,
  and what is hashed is whole blocks. While padding, either the block that holds the
  0x80 still has room for the length, or it must be filled first; so there is no more
  than one block too many.

- `H264`, scan: the code jumps from a start code to the end of its unit, the reference
  looks at every byte. From any place where the code can be, both find the same units
  in the rest of the file; by induction from the end of the file backwards (`Scans`).
- `H264`, frames: between reads, reading goes on at a slice unless it is at the
  beginning or the end (`AtSlice`), so that a frame which reaches the end of the file
  has its slice, and one that does not ends before the next. Its places lie behind
  those of the frames before it.
- `H264`, packets: what was sent is, in the order of the file, what `HandleFrame` makes of the
  units chosen so far. The places where the fragments of a unit end grow by at most
  `MaxPayload - 2` and reach the end of the unit (`FragEnd`), so that after each fragment
  a receiver holds the unit up to there, and after the last the whole of it.

What a recursive function computes is proved by induction over the set of the numbers
for which it is right (`NatSetInduction`, from the well-foundedness of the naturals):
the payload of a run, the passes of `feed`, the numbers in a header, the units of a
file, what a receiver holds. The lemma is repeated in each module that needs it.

Only model-checked: liveness, which needs fairness and ENABLED, and `KeyAccepted`, as
`AcceptKey` uses `Bitwise`.

## Plan

Done, in this order: `WsSession` with `WsOutbox`, `WsServer`, `RtspSession`,
`HttpSession`, `H264`, `RtspFraming`, `MediaSession`, `Sha1` with `AcceptKey`,
`WsFrame`; proofs for all but `AcceptKey`. What would add most next:

1. RTP-Info and the sequence numbers of a transport, in `RtspSession`.
2. `Start` after `Stop` in `WsServer`.

## Not modelled

- `Shutdown`: `RtspManager::Stop` destroys the server while its accept handler is
  outstanding, and `main` calls it from a signal handler, which may run none of that
  code. The outcome is undefined, and a model could only say that anything may happen.
  The accept loops of the RTSP and HTTP servers have no state of their own.
- An external `io_context`, `Start` after `Stop`, and `Stop` in a callback of
  `WsServer`; exceptions out of callbacks and out of `std::stoi` and `std::stoul`.
- The text of requests and responses: `ParseHttpRequest`, `IsWebSocketUpgrade`,
  `NegotiateSubProtocol`, the SDP, formatting. They are sequential functions over one
  message; the modules use their outcomes.
- The pieces in which a response is written, between which a packet may land on the
  shared socket; nothing in the code prevents it, and no property depends on it.
- The framing of the RTP senders, RTCP, SSRC and byte counters.
- The test stream generator and the asio demo, which are no part of the servers; asio,
  which appears as external actions; the wording of messages and logs.
