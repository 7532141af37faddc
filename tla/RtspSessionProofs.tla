-------------------------- MODULE RtspSessionProofs --------------------------
(***************************************************************************)
(* Theorems about RtspSession, for every video file, every interleaving of *)
(* requests and ticks, and whatever a fresh is_playing holds.              *)
(***************************************************************************)
EXTENDS RtspSession, SequenceTheorems, TLAPS

-----------------------------------------------------------------------------
(* The timer loop.                                                         *)

(* The parts of SessionTypeOK; each is inductive by itself but for the      *)
(* flags, which need what LoopHasTimer leaves out.                          *)

ConnectionInv == open \in BOOLEAN /\ crashed \in BOOLEAN /\ state \in RtspStates
TransportInv == transport \in {None, "tcp", "udp"}
CountInv == due \in Nat /\ stale \in Nat /\ nrequests \in Nat

\* A loop that runs belongs to a playing channel, and has its timer or a tick.
LoopInv ==
    /\ playing \in BOOLEAN /\ loop \in BOOLEAN /\ armed \in BOOLEAN
    /\ loop => playing
    /\ LoopHasTimer

LEMMA ConnectionKeeps == ConnectionInv /\ [Next]_vars => ConnectionInv'
  <1> SUFFICES ASSUME ConnectionInv, [Next]_vars PROVE ConnectionInv'
    OBVIOUS
  <1> USE DEF ConnectionInv, clientVars, Receive, RtspStates
  <1>1. CASE Query
    BY <1>1 DEF Query
  <1>2. CASE SetupTcp
    BY <1>2 DEF SetupTcp
  <1>3. CASE SetupUdp
    BY <1>3 DEF SetupUdp
  <1>4. CASE SetupMulticast
    BY <1>4 DEF SetupMulticast
  <1>5. CASE Play
    BY <1>5 DEF Play
  <1>6. CASE Pause
    BY <1>6 DEF Pause
  <1>7. CASE Teardown
    BY <1>7 DEF Teardown
  <1>8. CASE Disconnect
    BY <1>8 DEF Disconnect
  <1>9. CASE TimerExpires
    BY <1>9 DEF TimerExpires
  <1>10. CASE Tick
    BY <1>10 DEF Tick
  <1>11. CASE LateTick
    BY <1>11 DEF LateTick
  <1>12. CASE StaleTick
    BY <1>12 DEF StaleTick
  <1>13. CASE UNCHANGED vars
    BY <1>13 DEF vars
  <1> QED BY <1>1, <1>2, <1>3, <1>4, <1>5, <1>6, <1>7, <1>8, <1>9, <1>10, <1>11, <1>12,
         <1>13
    DEF Next, Requests, Streaming

LEMMA TransportKeeps == TransportInv /\ [Next]_vars => TransportInv'
  <1> SUFFICES ASSUME TransportInv, [Next]_vars PROVE TransportInv'
    OBVIOUS
  <1> USE DEF TransportInv
  <1>1. CASE Query
    BY <1>1 DEF Query
  <1>2. CASE SetupTcp
    BY <1>2 DEF SetupTcp, NewTransport
  <1>3. CASE SetupUdp
    BY <1>3 DEF SetupUdp, NewTransport
  <1>4. CASE SetupMulticast
    BY <1>4 DEF SetupMulticast
  <1>5. CASE Play
    BY <1>5 DEF Play
  <1>6. CASE Pause
    BY <1>6 DEF Pause
  <1>7. CASE Teardown
    BY <1>7 DEF Teardown
  <1>8. CASE Disconnect
    BY <1>8 DEF Disconnect
  <1>9. CASE TimerExpires
    BY <1>9 DEF TimerExpires
  <1>10. CASE Tick
    BY <1>10 DEF Tick
  <1>11. CASE LateTick
    BY <1>11 DEF LateTick
  <1>12. CASE StaleTick
    BY <1>12 DEF StaleTick
  <1>13. CASE UNCHANGED vars
    BY <1>13 DEF vars
  <1> QED BY <1>1, <1>2, <1>3, <1>4, <1>5, <1>6, <1>7, <1>8, <1>9, <1>10, <1>11, <1>12,
         <1>13
    DEF Next, Requests, Streaming

LEMMA CountKeeps == CountInv /\ [Next]_vars => CountInv'
  <1> SUFFICES ASSUME CountInv, [Next]_vars PROVE CountInv'
    OBVIOUS
  <1> USE DEF CountInv, clientVars, timerVars, Receive
  <1>1. CASE Query
    BY <1>1 DEF Query
  <1>2. CASE SetupTcp
    BY <1>2 DEF SetupTcp, NewTransport
  <1>3. CASE SetupUdp
    BY <1>3 DEF SetupUdp, NewTransport
  <1>4. CASE SetupMulticast
    BY <1>4 DEF SetupMulticast
  <1>5. CASE Play
    BY <1>5 DEF Play, SetPlaying
  <1>6. CASE Pause
    BY <1>6 DEF Pause, SetPlaying
  <1>7. CASE Teardown
    BY <1>7 DEF Teardown, SetPlaying
  <1>8. CASE Disconnect
    BY <1>8 DEF Disconnect
  <1>9. CASE TimerExpires
    BY <1>9 DEF TimerExpires
  <1>10. CASE Tick
    BY <1>10 DEF Tick
  <1>11. CASE LateTick
    BY <1>11 DEF LateTick
  <1>12. CASE StaleTick
    BY <1>12 DEF StaleTick
  <1>13. CASE UNCHANGED vars
    BY <1>13 DEF vars
  <1> QED BY <1>1, <1>2, <1>3, <1>4, <1>5, <1>6, <1>7, <1>8, <1>9, <1>10, <1>11, <1>12,
         <1>13
    DEF Next, Requests, Streaming

LEMMA SetPlayingKeeps ==
    ASSUME LoopInv, due \in Nat, NEW b \in BOOLEAN, SetPlaying(b)
    PROVE  LoopInv'
  BY DEF LoopInv, LoopHasTimer, SetPlaying, StartEventLoop, StopEventLoop

LEMMA LoopKeeps == CountInv /\ LoopInv /\ [Next]_vars => LoopInv'
  <1> SUFFICES ASSUME CountInv, LoopInv, [Next]_vars PROVE LoopInv'
    OBVIOUS
  <1> USE DEF CountInv, LoopInv, timerVars, LoopHasTimer
  <1>1. CASE Query
    BY <1>1 DEF Query
  <1>2. CASE SetupTcp
    BY <1>2, InitialAssumption DEF SetupTcp, NewTransport
  <1>3. CASE SetupUdp
    BY <1>3, InitialAssumption DEF SetupUdp, NewTransport
  <1>4. CASE SetupMulticast
    BY <1>4 DEF SetupMulticast
  <1>5. CASE Play
    BY <1>5, SetPlayingKeeps DEF Play
  <1>6. CASE Pause
    BY <1>6, SetPlayingKeeps DEF Pause
  <1>7. CASE Teardown
    BY <1>7, SetPlayingKeeps DEF Teardown
  <1>8. CASE Disconnect
    BY <1>8 DEF Disconnect
  <1>9. CASE TimerExpires
    <2>1. due' > 0
      BY <1>9 DEF TimerExpires
    <2>2. UNCHANGED <<playing, loop>> /\ armed' = FALSE
      BY <1>9 DEF TimerExpires
    <2> QED BY <2>1, <2>2
  <1>10. CASE Tick
    BY <1>10 DEF Tick
  <1>11. CASE LateTick
    BY <1>11 DEF LateTick
  <1>12. CASE StaleTick
    BY <1>12 DEF StaleTick
  <1>13. CASE UNCHANGED vars
    BY <1>13 DEF vars
  <1> QED BY <1>1, <1>2, <1>3, <1>4, <1>5, <1>6, <1>7, <1>8, <1>9, <1>10, <1>11, <1>12,
         <1>13
    DEF Next, Requests, Streaming

SessionInv == ConnectionInv /\ TransportInv /\ CountInv /\ LoopInv

LEMMA SessionInvHolds == Spec => []SessionInv
  <1>1. Init => ConnectionInv /\ LoopInv
    BY DEF Init, ConnectionInv, LoopInv, LoopHasTimer, RtspStates
  <1>2. Init => TransportInv /\ CountInv
    BY DEF Init, TransportInv, CountInv
  <1>3. SessionInv /\ [Next]_vars => SessionInv'
    BY ConnectionKeeps, TransportKeeps, CountKeeps, LoopKeeps DEF SessionInv
  <1> QED BY <1>1, <1>2, <1>3, PTL DEF Spec, SessionInv

\* A loop flagged as running is never left without a timer or a tick.
THEOREM LoopNeverSleeps == Spec => []LoopHasTimer
  <1>1. SessionInv => LoopHasTimer
    BY DEF SessionInv, LoopInv
  <1> QED BY <1>1, SessionInvHolds, PTL

-----------------------------------------------------------------------------
(* The stream.                                                             *)

\* What is queued is the tail of one frame, and starts where `sent' stopped.
QueueInv ==
    queue # << >> =>
        /\ sent # None
        /\ \A i \in 1..Len(queue) :
             queue[i] = [sent EXCEPT !.part = sent.part + i]
        /\ sent.part + Len(queue) = Frames[sent.frame + 1]

\* Once a frame has begun the file is behind it; before, it is rewound or at its end.
SentInv ==
    /\ begun => sent # None /\ frame = sent.frame + 1
    /\ ~begun => frame \in {0, Len(Frames)}
    /\ sent # None =>
         /\ sent.frame < Len(Frames) /\ sent.part > 0
         /\ sent.ts = sent.frame
         /\ queue = << >> => sent.part = Frames[sent.frame + 1]

\* frame_index_ counts with the position in the file, but PLAY at the end of the
\* file resets the index only.
IndexInv == index = frame \/ (index = 0 /\ frame = Len(Frames))

MediaInv == MediaTypeOK /\ QueueInv /\ SentInv /\ IndexInv

LEMMA FramesFacts ==
    /\ Len(Frames) \in Nat
    /\ \A f \in 0..Len(Frames) : f < Len(Frames) => Frames[f + 1] \in Nat \ {0}
    /\ Frames # << >> => Len(Frames) > 0
  BY FramesAssumption, EmptySeq

LEMMA PopFacts ==
    ASSUME MediaInv, queue # << >>, SendRtpPacket(Head(queue)), queue' = Tail(queue),
           UNCHANGED <<frame, index>>
    PROVE  MediaInv' /\ sent' = NextPacket /\ sent' # None
  <1>1. sent' = Head(queue) /\ wire' = sent' /\ begun' = (begun \/ sent'.part = 1)
    BY DEF SendRtpPacket
  <1>2. /\ Len(queue) \in Nat \ {0}
        /\ queue' \in Seq(Packet) /\ Len(queue') = Len(queue) - 1
        /\ \A i \in 1..Len(queue') : queue'[i] = queue[i + 1]
        /\ sent' = queue[1]
    BY <1>1, HeadTailProperties, EmptySeq DEF MediaInv, MediaTypeOK
  <1>3. sent \in Packet /\ sent' = [sent EXCEPT !.part = sent.part + 1]
    BY <1>2 DEF MediaInv, MediaTypeOK, QueueInv
  <1>4. /\ sent' \in Packet /\ sent'.part = sent.part + 1
        /\ sent'.frame = sent.frame /\ sent'.ts = sent.ts
    BY <1>3 DEF Packet
  <1>5. sent.part + Len(queue) = Frames[sent.frame + 1] /\ sent.part \in Nat
    BY <1>3 DEF MediaInv, QueueInv, Packet
  <1>6. begun \in BOOLEAN /\ begun' = begun
    <2>1. sent # None
      BY <1>3, NoneAssumption
    <2>2. sent.part > 0
      BY <2>1 DEF MediaInv, SentInv
    <2>3. ~(sent'.part = 1)
      BY <1>4, <1>5, <2>2
    <2>4. begun \in BOOLEAN
      BY DEF MediaInv, MediaTypeOK
    <2> QED BY <1>1, <2>3, <2>4, Zenon
  <1>7. MediaTypeOK'
    BY <1>1, <1>2, <1>4, <1>6 DEF MediaInv, MediaTypeOK
  <1>8. QueueInv'
    <2> SUFFICES ASSUME queue' # << >> PROVE QueueInv'
      BY DEF QueueInv
    <2>1. ASSUME NEW i \in 1..Len(queue')
          PROVE  queue'[i] = [sent' EXCEPT !.part = sent'.part + i]
      <3>1. queue'[i] = [sent EXCEPT !.part = sent.part + (i + 1)]
        BY <1>2, <2>1 DEF MediaInv, QueueInv
      <3>2. sent'.part + i = sent.part + (i + 1)
        <4>1. i \in Nat /\ sent.part \in Nat
          BY <1>2, <1>5, <2>1
        <4>2. sent'.part = sent.part + 1
          BY <1>4
        <4> QED BY <4>1, <4>2, SMTT(30)
      <3> QED BY <1>3, <3>1, <3>2 DEF Packet
    <2>2. sent'.part + Len(queue') = Frames[sent'.frame + 1]
      BY <1>2, <1>4, <1>5
    <2>3. sent' # None
      BY <1>4, NoneAssumption
    <2> QED BY <2>1, <2>2, <2>3 DEF QueueInv
  <1>9. SentInv'
    <2>1. sent # None
      BY <1>3, NoneAssumption
    <2>2. queue' = << >> => sent'.part = Frames[sent'.frame + 1]
      <3>1. Len(queue') = 0 => Len(queue) = 1
        BY <1>2
      <3> QED BY <1>4, <1>5, <3>1, EmptySeq
    <2>3. sent' # None /\ sent'.part > 0
      BY <1>4, <1>5, NoneAssumption
    <2> QED BY <1>4, <1>6, <2>1, <2>2, <2>3 DEF MediaInv, SentInv
  <1>10. IndexInv'
    BY DEF MediaInv, IndexInv
  <1>11. sent' = NextPacket
    <2>1. sent # None
      BY <1>3, NoneAssumption
    <2>2. sent.part < Frames[sent.frame + 1]
      BY <1>2, <1>5
    <2> QED BY <1>3, <2>1, <2>2 DEF NextPacket
  <1> QED BY <1>4, <1>7, <1>8, <1>9, <1>10, <1>11, NoneAssumption DEF MediaInv

LEMMA FeedFacts ==
    ASSUME MediaInv, queue = << >>, Frames # << >>, FeedNextNALFrame
    PROVE  MediaInv' /\ sent' = NextPacket /\ sent' # None
  <1> DEFINE f == Position
             n == Frames[f + 1]
             P == PacketsOf(f, f)
  <1>1. /\ f \in Nat /\ f < Len(Frames) /\ n \in Nat /\ n > 0
        /\ Len(Frames) \in Nat
    BY FramesFacts DEF Position, AtEnd, MediaInv, MediaTypeOK
  <1>2. Index = f
    BY <1>1 DEF Index, Position, AtEnd, MediaInv, IndexInv
  <1>3. /\ P \in Seq(Packet) /\ Len(P) = n /\ P # << >>
        /\ \A i \in 1..n : P[i] = [frame |-> f, part |-> i, ts |-> f]
    <2>1. P \in [1..n -> Packet]
      BY <1>1 DEF PacketsOf, Packet
    <2>2. P \in Seq(Packet)
      BY <1>1, <2>1, SeqDef
    <2>3. Len(P) = n
      BY <1>1, <2>1, <2>2, LenProperties
    <2>4. P # << >>
      BY <1>1, <2>2, <2>3, EmptySeq
    <2>5. \A i \in 1..n : P[i] = [frame |-> f, part |-> i, ts |-> f]
      BY DEF PacketsOf
    <2> QED BY <2>2, <2>3, <2>4, <2>5
  <1>4. /\ queue' = Tail(P) /\ sent' = Head(P) /\ wire' = Head(P)
        /\ begun' = (begun \/ sent'.part = 1)
    BY <1>2, <1>3, ConcatEmptySeq DEF FeedNextNALFrame, SendRtpPacket
  <1>5. frame' = f + 1 /\ index' = f + 1
    BY <1>2 DEF FeedNextNALFrame
  <1> HIDE DEF P, n, f
  <1>6. /\ queue' \in Seq(Packet) /\ Len(queue') = n - 1
        /\ \A i \in 1..Len(queue') : queue'[i] = P[i + 1]
        /\ sent' = P[1]
    BY <1>3, <1>4, HeadTailProperties
  <1>7. /\ sent' = [frame |-> f, part |-> 1, ts |-> f] /\ sent' \in Packet
        /\ sent'.frame = f /\ sent'.part = 1 /\ sent'.ts = f
    BY <1>1, <1>3, <1>6 DEF Packet
  <1>8. begun' = TRUE /\ wire' = sent'
    BY <1>4, <1>7
  <1>9. MediaTypeOK'
    BY <1>1, <1>5, <1>6, <1>7, <1>8 DEF MediaTypeOK
  <1>10. QueueInv'
    <2>1. ASSUME NEW i \in 1..Len(queue')
          PROVE  queue'[i] = [sent' EXCEPT !.part = sent'.part + i]
      <3>1. queue'[i] = [frame |-> f, part |-> i + 1, ts |-> f]
        BY <1>1, <1>3, <1>6, <2>1
      <3>2. 1 + i = i + 1
        BY <1>1, <1>6, <2>1
      <3> QED BY <1>7, <3>1, <3>2
    <2>2. sent'.part + Len(queue') = Frames[sent'.frame + 1]
      BY <1>1, <1>6, <1>7 DEF n
    <2>3. sent' # None
      BY <1>7, NoneAssumption
    <2> QED BY <2>1, <2>2, <2>3 DEF QueueInv
  <1>11. SentInv'
    <2>1. queue' = << >> => sent'.part = Frames[sent'.frame + 1]
      BY <1>1, <1>6, <1>7, EmptySeq DEF n
    <2> QED BY <1>1, <1>5, <1>7, <1>8, <2>1, NoneAssumption DEF SentInv
  <1>12. IndexInv'
    BY <1>5 DEF IndexInv
  <1>13. sent' = NextPacket
    <2>1. ~(sent # None /\ sent.part < Frames[sent.frame + 1])
      <3>1. CASE sent # None
        <4>1. sent.part = Frames[sent.frame + 1]
          BY <3>1 DEF MediaInv, SentInv
        <4>2. sent \in Packet /\ sent.part \in Nat
          BY <3>1 DEF MediaInv, MediaTypeOK, Packet
        <4> QED BY <4>1, <4>2
      <3> QED BY <3>1
    <2>2. f = IF begun /\ sent.frame + 1 < Len(Frames) THEN sent.frame + 1 ELSE 0
      <3>1. CASE begun
        <4>1. sent # None /\ frame = sent.frame + 1 /\ sent.frame < Len(Frames)
          BY <3>1 DEF MediaInv, SentInv
        <4>2. sent.frame \in Nat
          BY <4>1 DEF MediaInv, MediaTypeOK, Packet
        <4> QED BY <1>1, <3>1, <4>1, <4>2 DEF f, Position, AtEnd
      <3>2. CASE ~begun
        BY <3>2 DEF MediaInv, SentInv, f, Position, AtEnd
      <3> QED BY <3>1, <3>2
    <2> QED BY <1>7, <2>1, <2>2 DEF NextPacket
  <1> QED BY <1>7, <1>9, <1>10, <1>11, <1>12, <1>13, NoneAssumption DEF MediaInv

LEMMA PlayKeeps == MediaInv /\ Play => MediaInv'
  <1> SUFFICES ASSUME MediaInv, Play PROVE MediaInv'
    OBVIOUS
  <1>1. UNCHANGED <<queue, sent>>
    BY DEF Play
  <1>2. CASE UNCHANGED <<frame, index, wire, begun>>
    BY <1>1, <1>2 DEF MediaInv, MediaTypeOK, QueueInv, SentInv, IndexInv
  <1>3. CASE /\ frame' = (IF HasMoreData THEN 0 ELSE frame) /\ index' = 0
             /\ SendSpsPps /\ begun' = FALSE
    <2>1. frame' \in {0, Len(Frames)} /\ frame' \in 0..Len(Frames)
      BY <1>3, FramesFacts DEF MediaInv, MediaTypeOK, HasMoreData
    <2>2. wire' \in {wire, Parameters}
      BY <1>3 DEF SendSpsPps
    <2>3. MediaTypeOK'
      <3>1. wire' \in Packet \cup {None, Parameters} /\ begun' \in BOOLEAN
        BY <1>3, <2>2 DEF MediaInv, MediaTypeOK
      <3>2. index' \in 0..Len(Frames)
        BY <1>3, FramesFacts
      <3> QED BY <1>1, <2>1, <3>1, <3>2 DEF MediaInv, MediaTypeOK
    <2>4. IndexInv'
      BY <1>3, <2>1 DEF IndexInv
    <2>5. QueueInv' /\ SentInv'
      BY <1>1, <1>3, <2>1 DEF MediaInv, QueueInv, SentInv
    <2> QED BY <2>3, <2>5, <2>4 DEF MediaInv
  <1> QED BY <1>2, <1>3 DEF Play

LEMMA TickKeeps ==
    ASSUME MediaInv, Tick
    PROVE  /\ MediaInv'
           /\ \/ UNCHANGED streamVars
              \/ sent' = NextPacket /\ wire' = sent' /\ sent' # None
  <1>1. CASE queue # << >>
    BY <1>1, PopFacts DEF Tick, ProduceNextPacket, SendRtpPacket
  <1>2. CASE queue = << >> /\ Frames # << >>
    <2>1. FeedNextNALFrame
      BY <1>2 DEF Tick, ProduceNextPacket
    <2>2. wire' = sent'
      BY <2>1 DEF FeedNextNALFrame, SendRtpPacket
    <2> QED BY <1>2, <2>1, <2>2, FeedFacts
  <1>3. CASE queue = << >> /\ Frames = << >>
    BY <1>3 DEF Tick, ProduceNextPacket, mediaVars, streamVars, MediaInv, MediaTypeOK,
       QueueInv, SentInv, IndexInv
  <1> QED BY <1>1, <1>2, <1>3

\* Every other step leaves the stream alone, but for the transport of a SETUP.
LEMMA OtherSteps ==
    ASSUME [Next]_vars, ~Tick, ~Play
    PROVE  /\ UNCHANGED <<mediaVars, sent, begun>>
           /\ wire' = wire \/ (wire' = None /\ ~loop')
  <1> USE DEF streamVars
  <1>1. CASE SetupTcp \/ SetupUdp
    BY <1>1 DEF SetupTcp, SetupUdp, NewTransport
  <1>2. CASE Requests /\ ~(SetupTcp \/ SetupUdp)
    BY <1>2 DEF Requests, Query, SetupMulticast, Pause, Teardown
  <1>3. CASE Disconnect
    BY <1>3 DEF Disconnect
  <1>4. CASE Streaming
    BY <1>4 DEF Streaming, TimerExpires, LateTick, StaleTick
  <1>5. CASE UNCHANGED vars
    BY <1>5 DEF vars
  <1> QED BY <1>1, <1>2, <1>3, <1>4, <1>5 DEF Next

LEMMA MediaInvHolds == Spec => []MediaInv
  <1>1. Init => MediaInv
    <2> SUFFICES ASSUME Init PROVE MediaInv
      OBVIOUS
    <2>1. /\ queue = << >> /\ frame = 0 /\ index = 0
          /\ sent = None /\ wire = None /\ begun = FALSE
      BY DEF Init
    <2>2. MediaTypeOK
      <3>1. << >> \in Seq(Packet) /\ 0 \in 0..Len(Frames)
        BY EmptySeq, FramesFacts
      <3>2. None \in Packet \cup {None} /\ None \in Packet \cup {None, Parameters}
        OBVIOUS
      <3> QED BY <2>1, <3>1, <3>2, Zenon DEF MediaTypeOK
    <2>3. QueueInv /\ SentInv /\ IndexInv
      BY <2>1 DEF QueueInv, SentInv, IndexInv
    <2> QED BY <2>2, <2>3 DEF MediaInv
  <1>2. MediaInv /\ [Next]_vars => MediaInv'
    <2> SUFFICES ASSUME MediaInv, [Next]_vars PROVE MediaInv'
      OBVIOUS
    <2>1. CASE Tick
      BY <2>1, TickKeeps
    <2>2. CASE Play
      BY <2>2, PlayKeeps
    <2>3. CASE ~Tick /\ ~Play
      <3>1. UNCHANGED <<mediaVars, sent, begun>> /\ wire' \in {wire, None}
        BY <2>3, OtherSteps
      <3> QED BY <3>1 DEF mediaVars, MediaInv, MediaTypeOK, QueueInv, SentInv, IndexInv
    <2> QED BY <2>1, <2>2, <2>3
  <1> QED BY <1>1, <1>2, PTL DEF Spec

\* Every variable of RtspSession keeps its type.
THEOREM RtspTypeCorrect == Spec => []TypeOK
  <1>1. SessionInv /\ MediaInv => TypeOK
    BY DEF SessionInv, ConnectionInv, TransportInv, CountInv, LoopInv, MediaInv, TypeOK,
       SessionTypeOK
  <1> QED BY <1>1, SessionInvHolds, MediaInvHolds, PTL

\* packet_queue_ holds the rest of one frame at most.
THEOREM QueueIsOneFrame == Spec => []QueueHoldsOneFrame
  <1>1. MediaInv => QueueHoldsOneFrame
    <2> SUFFICES ASSUME MediaInv, NEW i \in 1..Len(queue), NEW j \in 1..Len(queue)
                 PROVE  /\ queue[i].frame = queue[j].frame
                        /\ queue[i].part - i = queue[j].part - j
      BY DEF QueueHoldsOneFrame
    <2>1. Len(queue) \in Nat /\ queue # << >>
      BY EmptySeq DEF MediaInv, MediaTypeOK
    <2>2. sent \in Packet
      BY <2>1 DEF MediaInv, MediaTypeOK, QueueInv
    <2>3. /\ queue[i] = [sent EXCEPT !.part = sent.part + i]
          /\ queue[j] = [sent EXCEPT !.part = sent.part + j]
      BY <2>1 DEF MediaInv, QueueInv
    <2>4. /\ queue[i].frame = sent.frame /\ queue[i].part = sent.part + i
          /\ queue[j].frame = sent.frame /\ queue[j].part = sent.part + j
      BY <2>2, <2>3 DEF Packet
    <2>5. sent.part \in Nat
      BY <2>2 DEF Packet
    <2> QED BY <2>1, <2>4, <2>5
  <1> QED BY <1>1, MediaInvHolds, PTL

\* A frame's packets carry the timestamp of its place in the file.
THEOREM TimestampsCorrect == Spec => []TimestampsFollowFrames
  <1>1. MediaInv => TimestampsFollowFrames
    <2> SUFFICES ASSUME MediaInv PROVE TimestampsFollowFrames
      OBVIOUS
    <2>1. ASSUME NEW i \in 1..Len(queue) PROVE queue[i].ts = queue[i].frame
      <3>1. Len(queue) \in Nat /\ queue # << >>
        BY EmptySeq DEF MediaInv, MediaTypeOK
      <3>2. sent \in Packet /\ sent.ts = sent.frame
        BY <3>1 DEF MediaInv, MediaTypeOK, QueueInv, SentInv
      <3>3. queue[i] = [sent EXCEPT !.part = sent.part + i]
        BY <3>1 DEF MediaInv, QueueInv
      <3> QED BY <3>2, <3>3 DEF Packet
    <2> QED BY <2>1 DEF TimestampsFollowFrames, MediaInv, SentInv
  <1> QED BY <1>1, MediaInvHolds, PTL

-----------------------------------------------------------------------------
(* Silence.                                                                *)

\* A channel that has no transport does not play, and no loop runs in a session
\* that has stopped.
QuietInv ==
    /\ transport = None => ~playing
    /\ loop => state \in {"READY", "PLAYING"}

LEMMA QuietKeeps == TransportInv /\ LoopInv /\ QuietInv /\ [Next]_vars => QuietInv'
  <1> SUFFICES ASSUME TransportInv, LoopInv, QuietInv, [Next]_vars PROVE QuietInv'
    OBVIOUS
  <1>1. CASE SetupTcp \/ SetupUdp
    <2>1. transport' \in {"tcp", "udp"} /\ state' = "READY"
      BY <1>1 DEF SetupTcp, SetupUdp, NewTransport
    <2>2. transport' # None
      BY <2>1, NoneAssumption
    <2> QED BY <2>1, <2>2 DEF QuietInv
  <1>2. CASE SetupMulticast \/ Play
    BY <1>2 DEF SetupMulticast, Play, SetPlaying, timerVars, QuietInv
  <1>3. CASE Pause \/ Teardown
    <2>1. SetPlaying(FALSE) /\ transport' = transport
      BY <1>3 DEF Pause, Teardown
    <2>2. CASE transport = None \/ playing = FALSE
      <3>1. ~playing /\ UNCHANGED <<playing, loop>>
        BY <2>1, <2>2 DEF SetPlaying, QuietInv
      <3> QED BY <3>1 DEF LoopInv, QuietInv
    <2>3. CASE ~(transport = None \/ playing = FALSE)
      BY <2>1, <2>3 DEF SetPlaying, StopEventLoop, QuietInv
    <2> QED BY <2>2, <2>3
  <1>4. CASE ~(SetupTcp \/ SetupUdp \/ SetupMulticast \/ Play \/ Pause \/ Teardown)
    <2>1. UNCHANGED <<state, transport, playing, loop>>
      BY <1>4 DEF Next, Requests, Streaming, Query, Disconnect, TimerExpires, Tick,
         LateTick, StaleTick, timerVars, vars
    <2> QED BY <2>1 DEF QuietInv
  <1> QED BY <1>1, <1>2, <1>3, <1>4

LEMMA QuietHolds == Spec => []QuietInv
  <1>1. Init => QuietInv
    BY DEF Init, QuietInv
  <1>2. SessionInv => TransportInv /\ LoopInv
    BY DEF SessionInv
  <1> QED BY <1>1, <1>2, QuietKeeps, SessionInvHolds, PTL DEF Spec

\* A session that was never set up, is paused or torn down sends nothing, however
\* many ticks and transports it has left behind.
THEOREM StoppedIsSilent == Spec => SilentWhenStopped
  <1>1. QuietInv /\ [Next]_vars
           => [wire' \notin {wire, None} => state \notin {"INIT", "PAUSED", "TEARDOWN"}]_vars
    <2> SUFFICES ASSUME QuietInv, [Next]_vars, wire' \notin {wire, None}
                 PROVE  state \notin {"INIT", "PAUSED", "TEARDOWN"}
      OBVIOUS
    <2>1. CASE Tick
      BY <2>1 DEF Tick, QuietInv
    <2>2. CASE Play
      BY <2>2 DEF Play
    <2> QED BY <2>1, <2>2, OtherSteps
  <1> QED BY <1>1, QuietHolds, PTL DEF Spec, SilentWhenStopped

-----------------------------------------------------------------------------
(* What each transport sends.                                              *)

\* A loop that runs has been preceded by the parameter sets on its transport, and
\* once a frame has begun the transport goes on with it.
WireInv ==
    loop => /\ wire = sent \/ ~begun
            /\ HasParameters => wire # None

LEMMA WireKeeps ==
    SessionInv /\ MediaInv /\ QuietInv /\ WireInv /\ [Next]_vars => WireInv'
  <1> SUFFICES ASSUME SessionInv, MediaInv, QuietInv, WireInv, [Next]_vars PROVE WireInv'
    OBVIOUS
  <1>1. CASE Tick
    <2>1. loop' = loop /\ loop
      BY <1>1 DEF Tick
    <2>2. CASE UNCHANGED streamVars
      BY <2>1, <2>2 DEF streamVars, WireInv
    <2>3. CASE wire' = sent' /\ sent' # None
      BY <2>3 DEF WireInv
    <2> QED BY <1>1, <2>2, <2>3, TickKeeps
  <1>2. CASE Play /\ transport = None
    BY <1>2 DEF Play, SetPlaying, SessionInv, LoopInv, QuietInv, WireInv
  <1>3. CASE Play /\ transport # None
    <2>1. begun' = FALSE /\ (HasParameters => wire' = Parameters)
      BY <1>3 DEF Play, SendSpsPps
    <2> QED BY <2>1, NoneAssumption DEF WireInv
  <1>4. CASE ~Tick /\ ~Play
    <2>1. UNCHANGED <<sent, begun>> /\ (wire' = wire \/ ~loop')
      BY <1>4, OtherSteps
    <2>2. loop' => loop
      BY <1>4 DEF Next, Requests, Streaming, Query, SetupTcp, SetupUdp, SetupMulticast,
         NewTransport, Pause, Teardown, SetPlaying, StopEventLoop, Disconnect,
         TimerExpires, LateTick, StaleTick, timerVars, vars
    <2> QED BY <2>1, <2>2 DEF WireInv
  <1> QED BY <1>1, <1>2, <1>3, <1>4

\* For any video file and any order of PLAY, PAUSE, SETUP, TEARDOWN and ticks, no
\* packet is lost or sent twice, and only the frame that a PLAY finds under way is
\* cut.
THEOREM OnlyPlayCuts == Spec => CutOnlyByPlay
  <1> DEFINE Whole == sent' # sent => /\ sent' = NextPacket
                                      /\ sent'.part > 1 /\ begun => wire = sent
                                      /\ HasParameters => wire # None
  <1>1. Init => WireInv
    BY DEF Init, WireInv
  <1>2. Spec => []WireInv
    BY <1>1, WireKeeps, SessionInvHolds, MediaInvHolds, QuietHolds, PTL DEF Spec
  <1>3. MediaInv /\ WireInv /\ [Next]_vars => [Whole]_vars
    <2> SUFFICES ASSUME MediaInv, WireInv, [Next]_vars, sent' # sent PROVE Whole
      OBVIOUS
    <2>1. CASE Tick
      <3>1. sent' = NextPacket
        BY <2>1, TickKeeps DEF streamVars
      <3>2. loop
        BY <2>1 DEF Tick
      <3> QED BY <3>1, <3>2 DEF WireInv
    <2>2. CASE ~Tick
      BY <2>2, OtherSteps DEF Play
    <2> QED BY <2>1, <2>2
  <1> QED BY <1>2, <1>3, MediaInvHolds, PTL DEF Spec, CutOnlyByPlay
=============================================================================
