--------------------------- MODULE WsSessionProofs ---------------------------
(***************************************************************************)
(* Theorems about WsSession, for every value of its constants; the last is *)
(* that it implements WsOutbox.                                            *)
(***************************************************************************)
EXTENDS WsSession, SequenceTheorems, WellFoundedInduction, TLAPS

\* A set that has 0 and the successor of each of its numbers has them all.
LEMMA NatSetInduction ==
    ASSUME NEW T, 0 \in T, \A n \in Nat : n \in T => n + 1 \in T
    PROVE  Nat \subseteq T
  <1> DEFINE R == {ss \in Nat \X Nat : ss[1] < ss[2]}
  <1>1. IsWellFoundedOn(R, Nat)
    BY NatLessThanWellFounded DEF OpToRel
  <1>2. ASSUME NEW x \in Nat \ T PROVE \E y \in Nat \ T : <<y, x>> \in R
    <2>1. x # 0 /\ x - 1 \in Nat /\ x - 1 < x /\ (x - 1) + 1 = x
      OBVIOUS
    <2>2. x - 1 \notin T
      BY <2>1
    <2> QED BY <2>1, <2>2
  <1> HIDE DEF R
  <1>3. Nat \ T = {}
    BY <1>1, <1>2, WFMin
  <1> QED BY <1>3

FrameSpecs == {"Text", "Ping", "Pong", "Close"} \X Nat

LEMMA EnqueueFrameFacts ==
    ASSUME NEW fr \in Seq(FrameSpecs),
           strand \in Seq(ItemSet), nposts \in Nat, EnqueueFrame(fr)
    PROVE  /\ strand' \in Seq(ItemSet)
           /\ nposts' \in Nat
           /\ nposts' = nposts + Len(fr)
           /\ Len(strand') = Len(strand) + Len(fr)
           /\ \A i \in 1..Len(strand) : strand'[i] = strand[i]
           /\ \A i \in 1..Len(fr) :
                 /\ strand'[Len(strand) + i].id = nposts + i
                 /\ strand'[Len(strand) + i].kind = fr[i][1]
                 /\ strand'[Len(strand) + i].code = fr[i][2]
  <1> DEFINE new == [i \in 1..Len(fr) |-> Item(fr[i][1], fr[i][2], nposts + i)]
  <1>1. \A i \in 1..Len(fr) : Item(fr[i][1], fr[i][2], nposts + i) \in ItemSet
    <2> TAKE i \in 1..Len(fr)
    <2>1. fr[i] \in FrameSpecs
      OBVIOUS
    <2> QED BY <2>1 DEF FrameSpecs, Item, ItemSet
  <1>2. new \in Seq(ItemSet) /\ Len(new) = Len(fr)
    <2>1. Len(fr) \in Nat
      OBVIOUS
    <2>2. new \in [1..Len(fr) -> ItemSet]
      BY <1>1
    <2> HIDE DEF new
    <2> QED BY <2>1, <2>2, SeqDef
  <1>3. \A i \in 1..Len(fr) :
           new[i].id = nposts + i /\ new[i].kind = fr[i][1] /\ new[i].code = fr[i][2]
    BY DEF Item
  <1>4. strand' = strand \o new /\ nposts' = nposts + Len(fr)
    BY DEF EnqueueFrame
  <1> HIDE DEF new
  <1>5. /\ strand \o new \in Seq(ItemSet)
        /\ Len(strand \o new) = Len(strand) + Len(new)
        /\ \A i \in 1..(Len(strand) + Len(new)) : (strand \o new)[i] =
              IF i <= Len(strand) THEN strand[i] ELSE new[i - Len(strand)]
    BY <1>2, ConcatProperties
  <1>6. Len(strand) \in Nat /\ Len(fr) \in Nat
    OBVIOUS
  <1>7. \A i \in 1..Len(fr) : (strand \o new)[Len(strand) + i] = new[i]
    BY <1>2, <1>5, <1>6
  <1> QED BY <1>2, <1>3, <1>4, <1>5, <1>6, <1>7

LEMMA FrameSpecFacts ==
    /\ \A code \in Nat : << <<"Close", code>> >> \in Seq(FrameSpecs)
    /\ << <<"Text", 0>> >> \in Seq(FrameSpecs)
    /\ << <<"Ping", 0>> >> \in Seq(FrameSpecs)
    /\ << <<"Pong", 0>> >> \in Seq(FrameSpecs)
  BY DEF FrameSpecs

LEMMA CallbackFacts ==
    ASSUME NEW reply, NEW st \in States
    PROVE  /\ CallbackFrames(reply, st) \in Seq(FrameSpecs)
           /\ CallbackState(reply, st) \in States
  BY DEF CallbackFrames, CallbackState, FrameSpecs, States, NormalClosure

-----------------------------------------------------------------------------
(* The inductive invariant of the write side.                              *)

\* Frames popped from send_queue_ so far.
Popped == nposts - Len(strand) - Len(queue)
\* A completed write whose handler has not run: on the wire and not yet popped.
Unpopped == IF wr = "ok" THEN 1 ELSE 0

QueueInv ==
    /\ Popped \in Nat
    /\ \A i \in 1..Len(queue) : queue[i].id = Popped + i
    /\ \A i \in 1..Len(strand) : strand[i].id = Popped + Len(queue) + i
    /\ \A i \in 1..Len(wire) : wire[i].id = i
    /\ Len(wire) <= Popped + Unpopped
    /\ open \/ wr = "ok" => Len(wire) = Popped + Unpopped
    /\ wr = "inflight" => open
    /\ wr # "none" => queue # << >>
    /\ writing <=> wr # "none"
    /\ open /\ wr = "none" => queue = << >>
    /\ wr = "ok" => wire[Len(wire)].kind = queue[1].kind
    /\ \A i \in 1..Len(wire) :
         wire[i].kind = "Close" => i = Len(wire) /\ (open => wr = "ok")

IInv == TypeOK /\ peerLog # << >> /\ QueueInv

LEMMA NoTimerFacts == NoTimer \in Int /\ NoTimer < 0 /\ NoTimer # 0
  BY DEF NoTimer

LEMMA InitIInv == Init => IInv
  <1> SUFFICES ASSUME Init PROVE IInv
    OBVIOUS
  <1>1. PICK r \in Requests : peerLog = <<r>> /\ unread = FrameTotalSize(r)
    BY DEF Init
  <1>2. r \in FrameSet /\ FrameTotalSize(r) \in Nat
    BY FramesAssumption DEF FrameSet, FrameTotalSize, HeaderLen
  <1>3. peerLog \in Seq(FrameSet) /\ peerLog # << >> /\ unread \in Nat
    BY <1>1, <1>2
  <1>4. \A S : << >> \in Seq(S) /\ Len(<< >>) = 0
    BY EmptySeq
  <1>5. PeerTypeOK /\ ReadTypeOK
    BY <1>3 DEF Init, PeerTypeOK, ReadTypeOK
  <1>6. MsgTypeOK /\ PostTypeOK /\ QueueTypeOK /\ ConnTypeOK
    BY <1>4 DEF Init, MsgTypeOK, PostTypeOK, QueueTypeOK, ConnTypeOK, States,
                DataOps
  <1>7. BeatTypeOK /\ AppTypeOK
    <2>1. AppTypeOK
      BY DEF Init, AppTypeOK
    <2>2. BeatTypeOK
      <3>1. timer = NoTimer
        BY DEF Init
      <3>2. idle \in Nat /\ awaiting \in BOOLEAN /\ sincePing \in Nat
        BY DEF Init
      <3> QED BY <3>1, <3>2, NoTimerFacts DEF BeatTypeOK
    <2> QED BY <2>1, <2>2
  <1>8. QueueInv
    <2>1. strand = << >> /\ queue = << >> /\ wire = << >>
      BY DEF Init
    <2>2. nposts = 0 /\ wr = "none" /\ ~writing
      BY DEF Init
    <2>3. Len(strand) = 0 /\ Len(queue) = 0 /\ Len(wire) = 0
      BY <2>1
    <2>4. Popped = 0 /\ Unpopped = 0
      BY <2>2, <2>3 DEF Popped, Unpopped
    <2> QED BY <2>1, <2>2, <2>3, <2>4 DEF QueueInv
  <1> QED BY <1>3, <1>5, <1>6, <1>7, <1>8 DEF IInv, TypeOK

LEMMA FrameFacts ==
    ASSUME NEW f \in FrameSet
    PROVE  f.len \in Nat /\ f.code \in Nat /\ FrameTotalSize(f) \in Nat
  BY DEF FrameSet, FrameTotalSize, HeaderLen

LEMMA CurFacts ==
    ASSUME TypeOK, AtFrame
    PROVE  Cur \in FrameSet /\ Cur.len \in Nat /\ Cur.code \in Nat
           /\ FrameTotalSize(Cur) \in Nat
  <1>1. peerLog \in Seq(FrameSet) /\ next \in 1..Len(peerLog)
    BY DEF TypeOK, PeerTypeOK, ReadTypeOK, AtFrame
  <1>2. Cur \in FrameSet
    BY <1>1, ElementOfSeq DEF Cur
  <1> QED BY <1>2, FrameFacts

LEMMA CodeFacts ==
    /\ NormalClosure \in Nat /\ ProtocolError \in Nat /\ NoStatusReceived \in Nat
    /\ AbnormalClosure \in Nat /\ MessageTooBig \in Nat
  BY DEF NormalClosure, ProtocolError, NoStatusReceived, AbnormalClosure,
         MessageTooBig

ReadKinds  == {"none", "pending", "done", "fail"}
WriteKinds == {"none", "inflight", "ok", "err"}

LEMMA DoCloseType ==
    ASSUME TypeOK, NEW code \in Nat, NEW r \in ReadKinds, NEW w \in WriteKinds,
           NEW t, DoClose(code, r, w, t)
    PROVE  /\ ConnTypeOK'
           /\ rd' \in ReadKinds
           /\ wr' \in WriteKinds
           /\ timer' \in Int /\ timer' >= NoTimer
  <1>1. closeCalls' \in Seq(Nat)
    BY DEF DoClose, TypeOK, ConnTypeOK
  <1>2. state' \in States /\ open' \in BOOLEAN
    BY DEF DoClose, States
  <1>3. timer' \in Int /\ timer' >= NoTimer
    BY NoTimerFacts DEF DoClose
  <1>4. rd' \in ReadKinds /\ wr' \in WriteKinds
    BY DEF DoClose, ReadKinds, WriteKinds
  <1> QED BY <1>1, <1>2, <1>3, <1>4 DEF ConnTypeOK

LEMMA CloseType ==
    ASSUME TypeOK, NEW code \in Nat, Close(code)
    PROVE  state' \in States /\ PostTypeOK'
  <1>1. CASE state = "Active"
    <2>1. EnqueueFrame(<< <<"Close", code>> >>) /\ state' = "Closing"
      BY <1>1 DEF Close
    <2>2. << <<"Close", code>> >> \in Seq(FrameSpecs)
      BY DEF FrameSpecs
    <2>3. PostTypeOK'
      BY <2>1, <2>2, EnqueueFrameFacts DEF TypeOK, PostTypeOK
    <2> QED BY <2>1, <2>3 DEF States
  <1>2. CASE state # "Active"
    BY <1>2 DEF Close, TypeOK, ConnTypeOK, PostTypeOK, postVars
  <1> QED BY <1>1, <1>2

LEMMA HandshakeFailsType ==
    ASSUME TypeOK, NEW code \in Nat, HandshakeFails(code)
    PROVE  TypeOK'
  BY DoCloseType DEF HandshakeFails, ReadKinds, WriteKinds, TypeOK, PeerTypeOK,
     ReadTypeOK, MsgTypeOK, PostTypeOK, QueueTypeOK, ConnTypeOK, BeatTypeOK,
     AppTypeOK, peerVars, readVars, parseVars, msgVars, postVars, queueVars,
     beatVars

LEMMA ConsumeType ==
    ASSUME TypeOK, AtFrame, WholeFrame(Cur), Consume
    PROVE  buffered' \in Nat /\ next' \in Nat \ {0}
  BY CurFacts DEF Consume, WholeFrame, TypeOK, ReadTypeOK

LEMMA AfterControlType ==
    ASSUME TypeOK, AtFrame, WholeFrame(Cur), AfterControl
    PROVE  buffered' \in Nat /\ next' \in Nat \ {0} /\ io' \in {"idle", "loop"}
  <1>1. CASE state' = "Closed"
    BY <1>1 DEF AfterControl, Return, TypeOK, ReadTypeOK
  <1>2. CASE state' # "Closed"
    BY <1>2, ConsumeType DEF AfterControl, TypeOK, ReadTypeOK
  <1> QED BY <1>1, <1>2

LEMMA MessageType ==
    ASSUME TypeOK, AtFrame, Cur.op \in DataOps
    PROVE  MessageOp(next) \in DataOps /\ MessageData(next) \in Seq(Nat)
  <1>1. Cur.len \in Nat /\ next \in Nat
    BY CurFacts DEF TypeOK, ReadTypeOK
  <1>2. Payload(next) \in Seq(Nat)
    <2> DEFINE pl == Payload(next)
    <2>1. pl \in [1..Cur.len -> Nat]
      BY <1>1 DEF Payload, Cur
    <2> HIDE DEF pl
    <2>2. pl \in Seq(Nat)
      BY <1>1, <2>1, SeqDef
    <2> QED BY <2>2 DEF pl
  <1>3. msgPayload \in Seq(Nat) /\ msgOp \in DataOps
    BY DEF TypeOK, MsgTypeOK
  <1>4. msgPayload \o Payload(next) \in Seq(Nat)
    BY <1>2, <1>3, ConcatProperties
  <1> QED BY <1>2, <1>3, <1>4 DEF MessageOp, MessageData, Cur

LEMMA TypeStep == IInv /\ [Next]_vars => TypeOK'
  <1> SUFFICES ASSUME IInv, [Next]_vars PROVE TypeOK'
    OBVIOUS
  <1>0. TypeOK /\ peerLog # << >> /\ QueueInv
    BY DEF IInv
  <1> USE DEF TypeOK, PeerTypeOK, ReadTypeOK, MsgTypeOK, PostTypeOK,
              QueueTypeOK, ConnTypeOK, BeatTypeOK, AppTypeOK,
              peerVars, readVars, parseVars, msgVars, postVars, queueVars,
              connVars, beatVars
  <1>1. CASE PeerSend
    <2>1. PICK f \in Frames : /\ peerLog' = Append(peerLog, f)
                              /\ unread' = unread + FrameTotalSize(f)
      BY <1>1 DEF PeerSend
    <2>2. f \in FrameSet
      BY FramesAssumption
    <2>3. PeerTypeOK'
      BY <1>0, <2>1, <2>2, FrameFacts
    <2> QED BY <1>0, <1>1, <2>3 DEF PeerSend
  <1>2. CASE ReadSome
    BY <1>0, <1>2, SizesAssumption DEF ReadSome
  <1>3. CASE ReadFails
    BY <1>0, <1>3 DEF ReadFails
  <1>4. CASE WriteCompletes
    <2>1. queue # << >> /\ Head(queue) \in ItemSet
      BY <1>0, <1>4, HeadTailProperties DEF WriteCompletes, QueueInv
    <2>2. wire' \in {wire, Append(wire, Head(queue))} /\ wr' \in {"ok", "err"}
      BY <1>4 DEF WriteCompletes
    <2>3. wire' \in Seq(ItemSet)
      <3>1. wire \in Seq(ItemSet)
        BY <1>0
      <3>2. Append(wire, Head(queue)) \in Seq(ItemSet)
        BY <2>1, <3>1, AppendProperties
      <3> QED BY <2>2, <3>1, <3>2
    <2> QED BY <1>0, <1>4, <2>2, <2>3 DEF WriteCompletes
  <1>5. CASE Tick
    BY <1>0, <1>5, NoTimerFacts DEF Tick
  <1>6. CASE HandshakeReadError
    BY <1>0, <1>6, HandshakeFailsType, CodeFacts DEF HandshakeReadError
  <1>7. CASE HandshakeTooLarge
    BY <1>0, <1>7, HandshakeFailsType, CodeFacts DEF HandshakeTooLarge
  <1>8. CASE HandshakeIncomplete
    BY <1>0, <1>8 DEF HandshakeIncomplete
  <1>9. CASE HandshakeRejected
    BY <1>0, <1>9, HandshakeFailsType, CodeFacts DEF HandshakeRejected
  <1>10. CASE HandshakeReplyFails
    BY <1>0, <1>10, HandshakeFailsType, CodeFacts DEF HandshakeReplyFails
  <1>11. CASE HandshakeSucceeds
    <2>1. PICK reply \in Replies :
             /\ EnqueueFrame(CallbackFrames(reply, "Active"))
             /\ state' = CallbackState(reply, "Active")
      BY <1>11 DEF HandshakeSucceeds
    <2>2. state' \in States /\ PostTypeOK'
      BY <1>0, <2>1, CallbackFacts, EnqueueFrameFacts DEF States
    <2>3. peerLog[1] \in FrameSet
      BY <1>0, ElementOfSeq, EmptySeq
    <2>4. ReadTypeOK'
      <3> DEFINE size == FrameTotalSize(peerLog[1])
      <3>1. size \in Nat
        BY <2>3, FrameFacts
      <3>2. buffered + rdn >= size /\ buffered' = buffered + rdn - size
        BY <1>11 DEF HandshakeSucceeds, RequestComplete
      <3>3. next' = 2 /\ rdn' = 0 /\ rd' \in {"none", "pending"} /\ io' \in {io, "loop"}
        BY <1>11 DEF HandshakeSucceeds
      <3> HIDE DEF size
      <3>4. buffered' \in Nat
        BY <1>0, <3>1, <3>2
      <3> QED BY <1>0, <3>3, <3>4
    <2>5. BeatTypeOK'
      <3>1. timer' = Interval
        BY <1>11 DEF HandshakeSucceeds
      <3>2. idle' = 0 /\ awaiting' = FALSE /\ sincePing' = 0
        BY <1>11 DEF HandshakeSucceeds, RefreshHeartbeat
      <3>3. timer' \in Int /\ timer' >= NoTimer
        BY <3>1, HeartbeatAssumption, NoTimerFacts
      <3> QED BY <3>2, <3>3
    <2> QED BY <1>0, <1>11, <2>2, <2>4, <2>5 DEF HandshakeSucceeds
  <1>12. CASE FrameReadError
    BY <1>0, <1>12, DoCloseType, CodeFacts
       DEF FrameReadError, ReadKinds, WriteKinds
  <1>13. CASE OnFrameData
    <2>1. state' \in States /\ PostTypeOK'
      BY <1>0, <1>13, CloseType, CodeFacts DEF OnFrameData
    <2>2. ReadTypeOK'
      BY <1>0, <1>13 DEF OnFrameData
    <2> QED BY <1>0, <1>13, <2>1, <2>2 DEF OnFrameData
  <1>14. CASE FrameProtocolError
    <2>1. DoClose(ProtocolError, rd, wr, timer) /\ Return
      BY <1>14 DEF FrameProtocolError
    <2>2. idle' \in Nat /\ awaiting' \in BOOLEAN /\ sincePing' \in Nat
      <3>1. UNCHANGED beatVars \/ RefreshHeartbeat
        BY <1>14 DEF FrameProtocolError
      <3>2. CASE UNCHANGED beatVars
        BY <1>0, <3>2
      <3>3. CASE RefreshHeartbeat
        BY <3>3 DEF RefreshHeartbeat
      <3> QED BY <3>1, <3>2, <3>3
    <2>3. /\ ConnTypeOK' /\ rd' \in ReadKinds /\ wr' \in WriteKinds
          /\ timer' \in Int /\ timer' >= NoTimer
      BY <1>0, <2>1, DoCloseType, CodeFacts DEF ReadKinds, WriteKinds
    <2> QED BY <1>0, <1>14, <2>1, <2>2, <2>3
            DEF FrameProtocolError, Return, ReadKinds, WriteKinds
  <1>15. CASE FrameTooBig
    BY <1>0, <1>15, CloseType, CodeFacts DEF FrameTooBig, Return
  <1>16. CASE LoopEnds
    BY <1>0, <1>16 DEF LoopEnds, Return
  <1>17. CASE HandleClose
    <2>1. AtFrame /\ WholeFrame(Cur) /\ AfterControl /\ Close(EchoedCode(Cur))
      BY <1>17 DEF HandleClose
    <2>2. EchoedCode(Cur) \in Nat
      BY <1>0, <2>1, CurFacts, CodeFacts DEF EchoedCode
    <2>3. state' \in States /\ PostTypeOK'
      BY <1>0, <2>1, <2>2, CloseType
    <2>4. buffered' \in Nat /\ next' \in Nat \ {0} /\ io' \in {"idle", "loop"}
      BY <1>0, <2>1, AfterControlType
    <2> QED BY <1>0, <1>17, <2>3, <2>4 DEF HandleClose, RefreshHeartbeat
  <1>18. CASE HandlePing
    <2>1. AtFrame /\ WholeFrame(Cur) /\ AfterControl
      BY <1>18 DEF HandlePing
    <2>2. PICK reply \in Replies :
             /\ EnqueueFrame(CallbackFrames(reply, state) \o << <<"Pong", 0>> >>)
             /\ state' = CallbackState(reply, state)
      BY <1>18 DEF HandlePing
    <2>3. CallbackFrames(reply, state) \in Seq(FrameSpecs)
      BY <1>0, CallbackFacts
    <2>4. CallbackFrames(reply, state) \o << <<"Pong", 0>> >> \in Seq(FrameSpecs)
      BY <2>3, ConcatProperties DEF FrameSpecs
    <2>5. state' \in States /\ PostTypeOK'
      BY <1>0, <2>2, <2>4, CallbackFacts, EnqueueFrameFacts
    <2>6. buffered' \in Nat /\ next' \in Nat \ {0} /\ io' \in {"idle", "loop"}
      BY <1>0, <2>1, AfterControlType
    <2> QED BY <1>0, <1>18, <2>5, <2>6 DEF HandlePing, RefreshHeartbeat
  <1>19. CASE HandlePong
    <2>1. buffered' \in Nat /\ next' \in Nat \ {0} /\ io' \in {"idle", "loop"}
      BY <1>0, <1>19, AfterControlType DEF HandlePong
    <2> QED BY <1>0, <1>19, <2>1 DEF HandlePong, RefreshHeartbeat
  <1>20. CASE HandleDataFrameError
    <2>1. buffered' \in Nat /\ next' \in Nat \ {0}
      BY <1>0, <1>20, ConsumeType DEF HandleDataFrameError
    <2>2. /\ ConnTypeOK' /\ rd' \in ReadKinds /\ wr' \in WriteKinds
          /\ timer' \in Int /\ timer' >= NoTimer
      BY <1>0, <1>20, DoCloseType, CodeFacts
         DEF HandleDataFrameError, ReadKinds, WriteKinds
    <2> QED BY <1>0, <1>20, <2>1, <2>2
            DEF HandleDataFrameError, RefreshHeartbeat, ReadKinds, WriteKinds
  <1>21. CASE HandleDataFrame
    <2>1. AtFrame /\ WholeFrame(Cur) /\ Cur.op \in DataOps /\ Consume
      BY <1>21 DEF HandleDataFrame
    <2>2. buffered' \in Nat /\ next' \in Nat \ {0}
      BY <1>0, <2>1, ConsumeType
    <2>3. MessageOp(next) \in DataOps /\ MessageData(next) \in Seq(Nat)
      BY <1>0, <2>1, MessageType
    <2>4. [op |-> MessageOp(next), payload |-> MessageData(next)]
             \in [op : DataOps, payload : Seq(Nat)]
      BY <2>3
    <2>5. MsgTypeOK'
      <3>1. msgOp' \in DataOps /\ msgStarted' \in BOOLEAN
        BY <1>21, <2>3 DEF HandleDataFrame
      <3>2. msgPayload' \in Seq(Nat)
        BY <1>21, <2>3, EmptySeq DEF HandleDataFrame
      <3>3. \/ delivered' = delivered
            \/ delivered' = Append(delivered, [op |-> MessageOp(next),
                                              payload |-> MessageData(next)])
        BY <1>21 DEF HandleDataFrame
      <3>4. delivered' \in Seq([op : DataOps, payload : Seq(Nat)])
        <4>1. delivered \in Seq([op : DataOps, payload : Seq(Nat)])
          BY <1>0
        <4>2. Append(delivered, [op |-> MessageOp(next),
                                 payload |-> MessageData(next)])
                 \in Seq([op : DataOps, payload : Seq(Nat)])
          BY <2>4, <4>1, AppendProperties
        <4> QED BY <3>3, <4>1, <4>2
      <3> QED BY <3>1, <3>2, <3>4
    <2>6. state' \in States /\ PostTypeOK'
      BY <1>0, <1>21, CallbackFacts, EnqueueFrameFacts DEF HandleDataFrame
    <2> QED BY <1>0, <1>21, <2>2, <2>5, <2>6 DEF HandleDataFrame, RefreshHeartbeat
  <1>22. CASE RunPosted
    <2>1. Head(strand) \in ItemSet /\ Tail(strand) \in Seq(ItemSet)
      BY <1>0, <1>22, HeadTailProperties DEF RunPosted
    <2>2. queue' \in Seq(ItemSet) /\ PostTypeOK'
      BY <1>0, <1>22, <2>1 DEF RunPosted
    <2>3. writing' \in BOOLEAN
      BY <1>0, <1>22 DEF RunPosted
    <2>4. wr' \in {"none", "inflight", "ok", "err"}
      BY <1>0, <1>22 DEF RunPosted, DoWrite
    <2> QED BY <1>0, <1>22, <2>2, <2>3, <2>4 DEF RunPosted
  <1>23. CASE WriteError
    <2>1. queue # << >> /\ Tail(queue) \in Seq(ItemSet)
      BY <1>0, <1>23, HeadTailProperties DEF WriteError, QueueInv
    <2> QED BY <1>0, <1>23, <2>1, DoCloseType, CodeFacts
            DEF WriteError, ReadKinds, WriteKinds
  <1>24. CASE CloseFrameWritten
    <2>1. queue # << >> /\ Tail(queue) \in Seq(ItemSet)
      BY <1>0, <1>24, HeadTailProperties DEF CloseFrameWritten, QueueInv
    <2> QED BY <1>0, <1>24, <2>1, DoCloseType, CodeFacts
            DEF CloseFrameWritten, ReadKinds, WriteKinds
  <1>25. CASE FrameWritten
    <2>1. queue # << >> /\ Tail(queue) \in Seq(ItemSet)
      BY <1>0, <1>25, HeadTailProperties DEF FrameWritten, QueueInv
    <2>2. QueueTypeOK'
      BY <1>0, <1>25, <2>1 DEF FrameWritten, WriteNext, DoWrite
    <2> QED BY <1>0, <1>25, <2>2 DEF FrameWritten, WriteNext
  <1>26. CASE TimerStops
    BY <1>0, <1>26, NoTimerFacts DEF TimerStops
  <1>27. CASE HeartbeatExpires
    BY <1>0, <1>27, DoCloseType, CodeFacts
       DEF HeartbeatExpires, ReadKinds, WriteKinds
  <1>28. CASE HeartbeatPing
    <2>1. << <<"Ping", 0>> >> \in Seq(FrameSpecs)
      BY DEF FrameSpecs
    <2>2. PostTypeOK'
      BY <1>0, <1>28, <2>1, EnqueueFrameFacts DEF HeartbeatPing
    <2> QED BY <1>0, <1>28, <2>2, HeartbeatAssumption, NoTimerFacts
            DEF HeartbeatPing
  <1>29. CASE HeartbeatRearms
    BY <1>0, <1>29, HeartbeatAssumption, NoTimerFacts DEF HeartbeatRearms
  <1>30. ASSUME NEW t \in Threads, App(t) PROVE TypeOK'
    <2>1. CASE AppSend(t)
      <3>1. << <<"Text", 0>> >> \in Seq(FrameSpecs)
        BY DEF FrameSpecs
      <3>2. PostTypeOK'
        BY <1>0, <2>1, <3>1, EnqueueFrameFacts DEF AppSend
      <3> QED BY <1>0, <2>1, <3>2 DEF AppSend
    <2>2. CASE AppCloseChecks(t)
      BY <1>0, <2>2 DEF AppCloseChecks
    <2>3. CASE AppCloseStores(t)
      BY <1>0, <2>3 DEF AppCloseStores, States
    <2>4. CASE AppClosePosts(t)
      <3>1. << <<"Close", NormalClosure>> >> \in Seq(FrameSpecs)
        BY CodeFacts DEF FrameSpecs
      <3>2. PostTypeOK'
        BY <1>0, <2>4, <3>1, EnqueueFrameFacts DEF AppClosePosts
      <3> QED BY <1>0, <2>4, <3>2 DEF AppClosePosts
    <2> QED BY <1>30, <2>1, <2>2, <2>3, <2>4 DEF App
  <1>31. CASE UNCHANGED vars
    BY <1>0, <1>31 DEF vars
  <1> QED BY <1>1, <1>2, <1>3, <1>4, <1>5, <1>6, <1>7, <1>8, <1>9, <1>10, <1>11,
             <1>12, <1>13, <1>14, <1>15, <1>16, <1>17, <1>18, <1>19, <1>20,
             <1>21, <1>22, <1>23, <1>24, <1>25, <1>26, <1>27, <1>28, <1>29,
             <1>30, <1>31
          DEF Next, Network, Handshake, FrameLoop, Writer, Heartbeat

-----------------------------------------------------------------------------
(* The write side: what the handlers that leave the queue alone preserve.  *)

LEMMA QueueUnchanged ==
    ASSUME QueueInv, UNCHANGED <<postVars, queueVars, wr, wire, open>>
    PROVE  QueueInv'
  BY DEF QueueInv, Popped, Unpopped, postVars, queueVars

LEMMA QueueEnqueue ==
    ASSUME TypeOK, QueueInv, NEW fr \in Seq(FrameSpecs), EnqueueFrame(fr),
           UNCHANGED <<queueVars, wr, wire, open>>
    PROVE  QueueInv'
  <1>1. /\ strand \in Seq(ItemSet) /\ nposts \in Nat /\ queue \in Seq(ItemSet)
        /\ Len(strand) \in Nat /\ Len(queue) \in Nat /\ Len(fr) \in Nat
    BY DEF TypeOK, PostTypeOK, QueueTypeOK
  <1>2. /\ nposts' = nposts + Len(fr)
        /\ Len(strand') = Len(strand) + Len(fr)
        /\ \A i \in 1..Len(strand) : strand'[i] = strand[i]
        /\ \A i \in 1..Len(fr) : strand'[Len(strand) + i].id = nposts + i
    BY <1>1, EnqueueFrameFacts
  <1>3. Popped' = Popped /\ Unpopped' = Unpopped
    BY <1>1, <1>2 DEF Popped, Unpopped, queueVars
  <1>4. ASSUME NEW i \in 1..Len(strand')
        PROVE  strand'[i].id = Popped + Len(queue) + i
    <2>1. CASE i <= Len(strand)
      <3>1. i \in 1..Len(strand)
        BY <1>1, <1>2, <2>1
      <3>2. strand'[i] = strand[i]
        BY <1>2, <3>1
      <3> QED BY <3>1, <3>2 DEF QueueInv
    <2>2. CASE i > Len(strand)
      <3>1. i - Len(strand) \in 1..Len(fr) /\ Len(strand) + (i - Len(strand)) = i
        BY <1>1, <1>2, <2>2
      <3>2. strand'[i].id = nposts + (i - Len(strand))
        BY <1>2, <3>1
      <3> QED BY <1>1, <3>2 DEF Popped
    <2> QED BY <1>1, <1>2, <2>1, <2>2
  <1> QED BY <1>3, <1>4 DEF QueueInv, queueVars

LEMMA QueueDoClose ==
    ASSUME TypeOK, QueueInv, NEW code, NEW r, NEW t, DoClose(code, r, wr, t),
           UNCHANGED <<postVars, queueVars, wire>>
    PROVE  QueueInv'
  <1>1. wr' = (IF wr = "inflight" THEN "err" ELSE wr) /\ ~open'
    BY DEF DoClose
  <1>2. Popped' = Popped /\ Unpopped' = Unpopped
    BY <1>1 DEF Popped, Unpopped, postVars, queueVars
  <1> QED BY <1>1, <1>2 DEF QueueInv, postVars, queueVars

LEMMA QueueSessionClose ==
    ASSUME TypeOK, QueueInv, NEW code \in Nat, Close(code),
           UNCHANGED <<queueVars, wr, wire, open>>
    PROVE  QueueInv'
  <1>1. CASE state = "Active"
    <2>1. << <<"Close", code>> >> \in Seq(FrameSpecs)
      BY DEF FrameSpecs
    <2> QED BY <1>1, <2>1, QueueEnqueue DEF Close
  <1>2. CASE state # "Active"
    BY <1>2, QueueUnchanged DEF Close
  <1> QED BY <1>1, <1>2

LEMMA QueueLengths ==
    ASSUME TypeOK, QueueInv
    PROVE  /\ Len(strand) \in Nat /\ Len(queue) \in Nat /\ Len(wire) \in Nat
           /\ strand \in Seq(ItemSet) /\ queue \in Seq(ItemSet)
           /\ wire \in Seq(ItemSet) /\ nposts \in Nat /\ Popped \in Nat
           /\ wr # "none" => Len(queue) > 0
  <1>1. /\ strand \in Seq(ItemSet) /\ queue \in Seq(ItemSet)
        /\ wire \in Seq(ItemSet) /\ nposts \in Nat
    BY DEF TypeOK, PostTypeOK, QueueTypeOK
  <1>2. Popped \in Nat /\ (wr # "none" => queue # << >>)
    BY DEF QueueInv
  <1>3. queue # << >> => Len(queue) \in Nat \ {0}
    BY <1>1, EmptySeq
  <1> QED BY <1>1, <1>2, <1>3

\* Popping the front of the queue moves every index by one.
LEMMA QueuePop ==
    ASSUME TypeOK, QueueInv, wr \in {"ok", "err"}, queue' = Tail(queue),
           UNCHANGED <<postVars, wire>>
    PROVE  /\ Popped' = Popped + 1
           /\ Len(queue') = Len(queue) - 1 /\ Len(queue') \in Nat
           /\ \A i \in 1..Len(queue') : queue'[i].id = Popped' + i
           /\ \A i \in 1..Len(strand') :
                strand'[i].id = Popped' + Len(queue') + i
  <1>1. /\ Len(strand) \in Nat /\ Len(queue) \in Nat \ {0} /\ nposts \in Nat
        /\ Popped \in Nat /\ queue \in Seq(ItemSet) /\ queue # << >>
    BY QueueLengths
  <1>2. /\ Len(queue') = Len(queue) - 1
        /\ \A i \in 1..Len(queue') : queue'[i] = queue[i + 1]
    BY <1>1, HeadTailProperties
  <1>3. Popped' = Popped + 1
    BY <1>1, <1>2 DEF Popped, postVars
  <1>4. ASSUME NEW i \in 1..Len(queue') PROVE queue'[i].id = Popped' + i
    <2>1. i + 1 \in 1..Len(queue)
      BY <1>1, <1>2
    <2>2. queue[i + 1].id = Popped + (i + 1)
      BY <2>1 DEF QueueInv
    <2> QED BY <1>1, <1>2, <1>3, <2>2
  <1>5. ASSUME NEW i \in 1..Len(strand')
        PROVE  strand'[i].id = Popped' + Len(queue') + i
    <2>1. strand[i].id = Popped + Len(queue) + i
      BY DEF QueueInv, postVars
    <2> QED BY <1>1, <1>2, <1>3, <2>1 DEF postVars
  <1> QED BY <1>1, <1>2, <1>3, <1>4, <1>5

LEMMA QueueWriteCompletes ==
    ASSUME TypeOK, QueueInv, WriteCompletes PROVE QueueInv'
  <1>1. /\ Len(wire) \in Nat /\ wire \in Seq(ItemSet) /\ queue \in Seq(ItemSet)
        /\ Popped \in Nat /\ Len(queue) \in Nat \ {0} /\ queue # << >>
    BY QueueLengths DEF WriteCompletes
  <1>2. wr = "inflight" /\ open /\ Unpopped = 0 /\ Len(wire) = Popped
    BY <1>1 DEF WriteCompletes, QueueInv, Unpopped
  <1>3. /\ UNCHANGED <<postVars, queueVars, open>>
        /\ Popped' = Popped
    BY DEF WriteCompletes, Popped, postVars, queueVars
  <1>4. CASE wr' = "ok" /\ wire' = Append(wire, Head(queue))
    <2>1. Head(queue) = queue[1] /\ Head(queue) \in ItemSet
      BY <1>1, HeadTailProperties
    <2>2. queue[1].id = Popped + 1
      BY <1>1 DEF QueueInv
    <2>3. /\ Len(wire') = Len(wire) + 1
          /\ \A i \in 1..Len(wire) : wire'[i] = wire[i]
          /\ wire'[Len(wire) + 1] = queue[1]
      BY <1>1, <1>4, <2>1, AppendProperties
    <2>4. \A i \in 1..Len(wire') : wire'[i].id = i
      BY <1>1, <1>2, <2>2, <2>3 DEF QueueInv
    <2>5. Unpopped' = 1 /\ Len(wire') = Popped' + Unpopped'
      BY <1>1, <1>2, <1>3, <1>4, <2>3 DEF Unpopped
    <2>6. ASSUME NEW i \in 1..Len(wire'), wire'[i].kind = "Close"
          PROVE  i = Len(wire')
      <3>1. CASE i \in 1..Len(wire)
        <4>1. wire[i].kind = "Close"
          BY <2>3, <2>6, <3>1
        <4> QED BY <1>2, <3>1, <4>1 DEF QueueInv
      <3> QED BY <1>1, <2>3, <3>1
    <2>7. wire'[Len(wire')].kind = queue'[1].kind
      BY <1>3, <2>3 DEF queueVars
    <2> QED BY <1>1, <1>2, <1>3, <1>4, <2>4, <2>5, <2>6, <2>7
            DEF QueueInv, queueVars, postVars
  <1>5. CASE wr' = "err" /\ wire' = wire
    <2>1. Unpopped' = 0
      BY <1>5 DEF Unpopped
    <2> QED BY <1>1, <1>2, <1>3, <1>5, <2>1 DEF QueueInv, queueVars, postVars
  <1> QED BY <1>4, <1>5 DEF WriteCompletes

LEMMA QueueRunPosted ==
    ASSUME TypeOK, QueueInv, RunPosted PROVE QueueInv'
  <1>1. /\ Len(strand) \in Nat /\ Len(queue) \in Nat /\ Len(wire) \in Nat
        /\ strand \in Seq(ItemSet) /\ queue \in Seq(ItemSet)
        /\ nposts \in Nat /\ Popped \in Nat
    BY QueueLengths
  <1>2. /\ strand # << >> /\ strand' = Tail(strand) /\ nposts' = nposts
        /\ queue' = Append(queue, Head(strand)) /\ UNCHANGED <<wire, open>>
    BY DEF RunPosted
  <1>3. /\ Len(strand) > 0 /\ Head(strand) = strand[1] /\ Head(strand) \in ItemSet
        /\ Len(strand') = Len(strand) - 1
        /\ \A i \in 1..Len(strand') : strand'[i] = strand[i + 1]
    BY <1>1, <1>2, HeadTailProperties, EmptySeq
  <1>4. /\ Len(queue') = Len(queue) + 1 /\ queue' # << >>
        /\ \A i \in 1..Len(queue) : queue'[i] = queue[i]
        /\ queue'[Len(queue) + 1] = strand[1]
    BY <1>1, <1>2, <1>3, AppendProperties
  <1>5. Popped' = Popped
    BY <1>1, <1>2, <1>3, <1>4 DEF Popped
  <1>6. \A i \in 1..Len(queue') : queue'[i].id = Popped' + i
    <2>1. strand[1].id = Popped + Len(queue) + 1
      BY <1>1, <1>3 DEF QueueInv
    <2>2. \A i \in 1..Len(queue) : queue[i].id = Popped + i
      BY DEF QueueInv
    <2>3. ASSUME NEW i \in 1..Len(queue') PROVE queue'[i].id = Popped + i
      <3>1. CASE i \in 1..Len(queue)
        BY <1>4, <2>2, <3>1
      <3>2. CASE i = Len(queue) + 1
        BY <1>1, <1>4, <2>1, <3>2
      <3> QED BY <1>1, <1>4, <3>1, <3>2
    <2> QED BY <1>5, <2>3
  <1>7. ASSUME NEW i \in 1..Len(strand')
        PROVE  strand'[i].id = Popped' + Len(queue') + i
    <2>1. i + 1 \in 1..Len(strand)
      BY <1>1, <1>3
    <2>2. strand[i + 1].id = Popped + Len(queue) + (i + 1)
      BY <2>1 DEF QueueInv
    <2> QED BY <1>1, <1>3, <1>4, <1>5, <2>2
  <1>8. CASE queue = << >> /\ ~writing
    <2>1. wr = "none" /\ writing' /\ wr' = IF open THEN "inflight" ELSE "err"
      BY <1>8 DEF RunPosted, DoWrite, QueueInv
    <2>2. Unpopped' = 0 /\ Unpopped = 0
      BY <2>1 DEF Unpopped
    <2> QED BY <1>2, <1>4, <1>5, <1>6, <1>7, <2>1, <2>2 DEF QueueInv
  <1>9. CASE ~(queue = << >> /\ ~writing)
    <2>1. UNCHANGED <<writing, wr>>
      BY <1>9 DEF RunPosted
    <2>2. Unpopped' = Unpopped
      BY <2>1 DEF Unpopped
    <2>3. open => wr # "none"
      BY <1>9 DEF QueueInv
    <2>4. wr = "ok" => queue'[1] = queue[1]
      <3>1. wr # "none" => Len(queue) > 0
        BY QueueLengths
      <3> QED BY <1>1, <1>4, <3>1
    <2> QED BY <1>2, <1>4, <1>5, <1>6, <1>7, <2>1, <2>2, <2>3, <2>4 DEF QueueInv
  <1> QED BY <1>8, <1>9

\* DoClose after the completion handler has popped its frame.
LEMMA QueuePopAndClose ==
    ASSUME TypeOK, QueueInv, wr \in {"ok", "err"}, queue' = Tail(queue),
           UNCHANGED <<postVars, wire>>, ~writing', wr' = "none", ~open'
    PROVE  QueueInv'
  <1>1. /\ Popped' = Popped + 1
        /\ Len(queue') = Len(queue) - 1 /\ Len(queue') \in Nat
        /\ \A i \in 1..Len(queue') : queue'[i].id = Popped' + i
        /\ \A i \in 1..Len(strand') :
             strand'[i].id = Popped' + Len(queue') + i
    BY QueuePop
  <1>2. Popped \in Nat /\ Len(wire) \in Nat
    BY QueueLengths
  <1>3. Unpopped' = 0 /\ Unpopped \in {0, 1}
    BY DEF Unpopped
  <1>4. Len(wire) <= Popped + Unpopped
    BY DEF QueueInv
  <1>5. Popped' \in Nat /\ Len(wire') <= Popped' + Unpopped'
    BY <1>1, <1>2, <1>3, <1>4
  <1> QED BY <1>1, <1>5 DEF QueueInv

LEMMA QueueFrameWritten ==
    ASSUME TypeOK, QueueInv, FrameWritten PROVE QueueInv'
  <1>1. /\ wr = "ok" /\ queue' = Tail(queue) /\ Head(queue).kind # "Close"
        /\ UNCHANGED <<postVars, wire, open>>
    BY DEF FrameWritten, WriteNext
  <1>2. /\ Popped' = Popped + 1
        /\ Len(queue') = Len(queue) - 1 /\ Len(queue') \in Nat
        /\ \A i \in 1..Len(queue') : queue'[i].id = Popped' + i
        /\ \A i \in 1..Len(strand') :
             strand'[i].id = Popped' + Len(queue') + i
    BY <1>1, QueuePop
  <1>3. /\ Popped \in Nat /\ Len(wire) \in Nat /\ queue \in Seq(ItemSet)
        /\ queue # << >>
    BY <1>1, QueueLengths DEF QueueInv
  <1>4. Unpopped = 1 /\ Len(wire) = Popped + 1
    BY <1>1, <1>3 DEF Unpopped, QueueInv
  <1>5. wr' # "ok" /\ Unpopped' = 0
    BY DEF FrameWritten, WriteNext, DoWrite, Unpopped
  <1>6. \A i \in 1..Len(wire) : wire[i].kind # "Close"
    <2>1. Head(queue) = queue[1]
      BY <1>3, HeadTailProperties
    <2>2. wire[Len(wire)].kind # "Close"
      BY <1>1, <2>1 DEF QueueInv
    <2> QED BY <2>2 DEF QueueInv
  <1>7. Popped' \in Nat /\ Len(wire') = Popped' + Unpopped'
    BY <1>1, <1>2, <1>3, <1>4, <1>5
  <1>8. /\ wr' = "inflight" => open'
        /\ wr' # "none" => queue' # << >>
        /\ writing' <=> wr' # "none"
        /\ wr' = "none" => queue' = << >>
    <2>1. CASE Tail(queue) # << >>
      BY <1>1, <2>1 DEF FrameWritten, WriteNext, DoWrite
    <2>2. CASE Tail(queue) = << >>
      BY <1>1, <2>2 DEF FrameWritten, WriteNext
    <2> QED BY <2>1, <2>2
  <1> QED BY <1>1, <1>2, <1>3, <1>5, <1>6, <1>7, <1>8 DEF QueueInv

LEMMA QueueStep == IInv /\ [Next]_vars => QueueInv'
  <1> SUFFICES ASSUME IInv, [Next]_vars PROVE QueueInv'
    OBVIOUS
  <1>0. TypeOK /\ QueueInv
    BY DEF IInv
  <1>1. CASE PeerSend \/ ReadSome \/ ReadFails \/ Tick
    <2>1. UNCHANGED <<postVars, queueVars, wr, wire, open>>
      BY <1>1 DEF PeerSend, ReadSome, ReadFails, Tick
    <2> QED BY <1>0, <2>1, QueueUnchanged
  <1>2. CASE WriteCompletes
    BY <1>0, <1>2, QueueWriteCompletes
  <1>3. CASE HandshakeReadError \/ HandshakeTooLarge \/ HandshakeRejected
             \/ HandshakeReplyFails
    <2>1. \E code : HandshakeFails(code)
      BY <1>3 DEF HandshakeReadError, HandshakeTooLarge, HandshakeRejected,
                  HandshakeReplyFails
    <2>2. PICK code : HandshakeFails(code)
      BY <2>1
    <2> QED BY <1>0, <2>2, QueueDoClose DEF HandshakeFails
  <1>4. CASE HandshakeIncomplete \/ LoopEnds \/ HandlePong \/ TimerStops
             \/ HeartbeatRearms
    <2>1. UNCHANGED <<postVars, queueVars, wr, wire, open>>
      BY <1>4 DEF HandshakeIncomplete, LoopEnds, HandlePong, TimerStops,
                  HeartbeatRearms
    <2> QED BY <1>0, <2>1, QueueUnchanged
  <1>5. CASE HandshakeSucceeds
    <2>1. PICK reply \in Replies : EnqueueFrame(CallbackFrames(reply, "Active"))
      BY <1>5 DEF HandshakeSucceeds
    <2>2. CallbackFrames(reply, "Active") \in Seq(FrameSpecs)
      BY CallbackFacts DEF States
    <2>3. UNCHANGED <<queueVars, wr, wire, open>>
      BY <1>5 DEF HandshakeSucceeds
    <2> QED BY <1>0, <2>1, <2>2, <2>3, QueueEnqueue
  <1>6. CASE FrameReadError \/ FrameProtocolError \/ HandleDataFrameError
             \/ HeartbeatExpires
    <2>1. /\ \E code, r, t : DoClose(code, r, wr, t)
          /\ UNCHANGED <<postVars, queueVars, wire>>
      BY <1>6 DEF FrameReadError, FrameProtocolError, HandleDataFrameError,
                  HeartbeatExpires
    <2>2. PICK code, r, t : DoClose(code, r, wr, t)
      BY <2>1
    <2> QED BY <1>0, <2>1, <2>2, QueueDoClose
  <1>7. CASE OnFrameData
    <2>1. UNCHANGED <<queueVars, wr, wire, open>>
      BY <1>7 DEF OnFrameData
    <2>2. Close(MessageTooBig) \/ UNCHANGED postVars
      BY <1>7 DEF OnFrameData
    <2>3. CASE Close(MessageTooBig)
      BY <1>0, <2>1, <2>3, QueueSessionClose, CodeFacts
    <2>4. CASE UNCHANGED postVars
      BY <1>0, <2>1, <2>4, QueueUnchanged
    <2> QED BY <2>2, <2>3, <2>4
  <1>8. CASE FrameTooBig
    BY <1>0, <1>8, QueueSessionClose, CodeFacts DEF FrameTooBig
  <1>9. CASE HandleClose
    <2>1. EchoedCode(Cur) \in Nat
      BY <1>0, <1>9, CurFacts, CodeFacts DEF EchoedCode, HandleClose
    <2> QED BY <1>0, <1>9, <2>1, QueueSessionClose DEF HandleClose
  <1>10. CASE HandlePing
    <2>1. PICK reply \in Replies :
             EnqueueFrame(CallbackFrames(reply, state) \o << <<"Pong", 0>> >>)
      BY <1>10 DEF HandlePing
    <2>2. CallbackFrames(reply, state) \in Seq(FrameSpecs)
      BY <1>0, CallbackFacts DEF TypeOK, ConnTypeOK
    <2>3. CallbackFrames(reply, state) \o << <<"Pong", 0>> >> \in Seq(FrameSpecs)
      BY <2>2, ConcatProperties DEF FrameSpecs
    <2>4. UNCHANGED <<queueVars, wr, wire, open>>
      BY <1>10 DEF HandlePing
    <2> QED BY <1>0, <2>1, <2>3, <2>4, QueueEnqueue
  <1>11. CASE HandleDataFrame
    <2>1. UNCHANGED <<queueVars, wr, wire, open>>
      BY <1>11 DEF HandleDataFrame
    <2>2. \/ UNCHANGED postVars
          \/ \E reply \in Replies : EnqueueFrame(CallbackFrames(reply, state))
      BY <1>11 DEF HandleDataFrame
    <2>3. CASE UNCHANGED postVars
      BY <1>0, <2>1, <2>3, QueueUnchanged
    <2>4. ASSUME NEW reply, EnqueueFrame(CallbackFrames(reply, state))
          PROVE  QueueInv'
      <3>1. CallbackFrames(reply, state) \in Seq(FrameSpecs)
        BY <1>0, CallbackFacts DEF TypeOK, ConnTypeOK
      <3> QED BY <1>0, <2>1, <2>4, <3>1, QueueEnqueue
    <2> QED BY <2>2, <2>3, <2>4
  <1>12. CASE RunPosted
    BY <1>0, <1>12, QueueRunPosted
  <1>13. CASE WriteError
    BY <1>0, <1>13, QueuePopAndClose DEF WriteError, DoClose
  <1>14. CASE CloseFrameWritten
    BY <1>0, <1>14, QueuePopAndClose DEF CloseFrameWritten, DoClose
  <1>15. CASE FrameWritten
    BY <1>0, <1>15, QueueFrameWritten
  <1>16. CASE HeartbeatPing
    <2>1. << <<"Ping", 0>> >> \in Seq(FrameSpecs)
      BY DEF FrameSpecs
    <2>2. UNCHANGED <<queueVars, wr, wire, open>>
      BY <1>16 DEF HeartbeatPing
    <2> QED BY <1>0, <1>16, <2>1, <2>2, QueueEnqueue DEF HeartbeatPing
  <1>17. ASSUME NEW t \in Threads, App(t) PROVE QueueInv'
    <2>1. UNCHANGED <<queueVars, wr, wire, open>>
      BY <1>17 DEF App, AppSend, AppCloseChecks, AppCloseStores, AppClosePosts
    <2>2. << <<"Text", 0>> >> \in Seq(FrameSpecs)
          /\ << <<"Close", NormalClosure>> >> \in Seq(FrameSpecs)
      BY CodeFacts DEF FrameSpecs
    <2>3. CASE AppSend(t)
      BY <1>0, <2>1, <2>2, <2>3, QueueEnqueue DEF AppSend
    <2>4. CASE AppClosePosts(t)
      BY <1>0, <2>1, <2>2, <2>4, QueueEnqueue DEF AppClosePosts
    <2>5. CASE AppCloseChecks(t) \/ AppCloseStores(t)
      BY <1>0, <2>1, <2>5, QueueUnchanged DEF AppCloseChecks, AppCloseStores
    <2> QED BY <1>17, <2>3, <2>4, <2>5 DEF App
  <1>18. CASE UNCHANGED vars
    BY <1>0, <1>18, QueueUnchanged DEF vars, connVars
  <1> QED BY <1>1, <1>2, <1>3, <1>4, <1>5, <1>6, <1>7, <1>8, <1>9, <1>10, <1>11,
             <1>12, <1>13, <1>14, <1>15, <1>16, <1>17, <1>18
          DEF Next, Network, Handshake, FrameLoop, Writer, Heartbeat

LEMMA PeerLogStep == IInv /\ [Next]_vars => (peerLog # << >>)'
  <1> SUFFICES ASSUME IInv, [Next]_vars PROVE peerLog' # << >>
    OBVIOUS
  <1>1. peerLog \in Seq(FrameSet) /\ peerLog # << >>
    BY DEF IInv, TypeOK, PeerTypeOK
  <1>2. CASE PeerSend
    <2>1. PICK f \in Frames : peerLog' = Append(peerLog, f)
      BY <1>2 DEF PeerSend
    <2>2. f \in FrameSet
      BY FramesAssumption
    <2> QED BY <1>1, <2>1, <2>2, AppendProperties
  <1>3. CASE ~PeerSend
    <2>1. peerLog' = peerLog
      BY <1>3 DEF Next, Network, Handshake, FrameLoop, Writer, Heartbeat, App,
         vars, peerVars, ReadSome, ReadFails, WriteCompletes, Tick,
         HandshakeReadError, HandshakeTooLarge, HandshakeIncomplete,
         HandshakeRejected, HandshakeReplyFails, HandshakeSucceeds,
         HandshakeFails, FrameReadError, OnFrameData, FrameProtocolError,
         FrameTooBig, LoopEnds, HandleClose, HandlePing, HandlePong,
         HandleDataFrameError, HandleDataFrame, RunPosted, WriteError,
         CloseFrameWritten, FrameWritten, WriteNext, TimerStops,
         HeartbeatExpires, HeartbeatPing, HeartbeatRearms, AppSend,
         AppCloseChecks, AppCloseStores, AppClosePosts
    <2> QED BY <1>1, <2>1
  <1> QED BY <1>2, <1>3

-----------------------------------------------------------------------------
(* The theorems about the write side.                                      *)

LEMMA InvariantHolds == Spec => []IInv
  <1>1. IInv /\ [Next]_vars => IInv'
    BY TypeStep, QueueStep, PeerLogStep DEF IInv
  <1> QED BY <1>1, InitIInv, PTL DEF Spec

\* Every state of every behaviour has the types of ws_session.hpp; in particular
\* no handler reads the front of an empty queue or erases bytes it has not read.
THEOREM TypeCorrect == Spec => []TypeOK
  <1>1. IInv => TypeOK
    BY DEF IInv
  <1> QED BY <1>1, InvariantHolds, PTL

\* EnqueueFrame and DoWrite keep the order of the calls, without a gap.
THEOREM WireOrder == Spec => []WireInPostOrder
  <1>1. IInv => WireInPostOrder
    BY DEF IInv, QueueInv, WireInPostOrder
  <1> QED BY <1>1, InvariantHolds, PTL

\* Nothing follows a Close frame on the wire.
THEOREM CloseLast == Spec => []CloseFrameIsLast
  <1>1. IInv => CloseFrameIsLast
    BY DEF IInv, QueueInv, CloseFrameIsLast
  <1> QED BY <1>1, InvariantHolds, PTL

\* No wakeup of the writer is lost while the socket is open.
THEOREM NoLostWakeup == Spec => []QueuedFrameHasWriter
  <1>1. IInv => QueuedFrameHasWriter
    BY DEF IInv, QueueInv, QueuedFrameHasWriter
  <1> QED BY <1>1, InvariantHolds, PTL

-----------------------------------------------------------------------------
(* The heartbeat.  idle + timer is the idle time the next OnHeartbeatTimer *)
(* will see; it does not change when time passes.                          *)

BeatInv ==
    state = "Active" =>
        /\ timer \in 0..Interval
        /\ ~awaiting => idle + timer < 2 * Interval
        /\ awaiting => idle + timer < IdleBound /\ sincePing + timer >= Interval

LEMMA IdleBoundFacts ==
    /\ IdleBound \in Nat /\ 2 * Interval \in Nat
    /\ IdleBound >= Timeout + Interval /\ IdleBound >= 3 * Interval
  BY HeartbeatAssumption DEF IdleBound

\* Steps that leave the heartbeat alone, and steps that refresh it, keep BeatInv
\* when they do not make the session Active.
LEMMA BeatUnchanged ==
    ASSUME BeatInv, UNCHANGED <<timer, beatVars>>,
           state' = "Active" => state = "Active"
    PROVE  BeatInv'
  BY DEF BeatInv, beatVars

LEMMA BeatRefresh ==
    ASSUME BeatInv, RefreshHeartbeat, timer' = timer,
           state' = "Active" => state = "Active"
    PROVE  BeatInv'
  <1>1. idle' = 0 /\ ~awaiting'
    BY DEF RefreshHeartbeat
  <1> QED BY <1>1, HeartbeatAssumption DEF BeatInv

LEMMA BeatStep == IInv /\ BeatInv /\ [Next]_vars => BeatInv'
  <1> SUFFICES ASSUME IInv, BeatInv, [Next]_vars PROVE BeatInv'
    OBVIOUS
  <1>0. /\ timer \in Int /\ idle \in Nat /\ awaiting \in BOOLEAN
        /\ sincePing \in Nat
    BY DEF IInv, TypeOK, BeatTypeOK
  <1>1. CASE PeerSend \/ ReadSome \/ ReadFails \/ WriteCompletes
             \/ HandshakeIncomplete \/ LoopEnds \/ RunPosted \/ FrameWritten
    <2>1. UNCHANGED <<timer, beatVars, state>>
      BY <1>1 DEF PeerSend, ReadSome, ReadFails, WriteCompletes,
         HandshakeIncomplete, LoopEnds, RunPosted, FrameWritten, WriteNext
    <2> QED BY <2>1, BeatUnchanged
  <1>2. CASE OnFrameData \/ FrameTooBig
    <2>1. UNCHANGED <<timer, beatVars>> /\ (state' = "Active" => state = "Active")
      BY <1>2 DEF OnFrameData, FrameTooBig, Close
    <2> QED BY <2>1, BeatUnchanged
  <1>3. CASE HandshakeReadError \/ HandshakeTooLarge \/ HandshakeRejected
             \/ HandshakeReplyFails
    BY <1>3 DEF HandshakeReadError, HandshakeTooLarge, HandshakeRejected,
       HandshakeReplyFails, HandshakeFails, DoClose, BeatInv
  <1>4. CASE FrameReadError \/ FrameProtocolError \/ HandleDataFrameError
             \/ WriteError \/ CloseFrameWritten \/ HeartbeatExpires
    BY <1>4 DEF FrameReadError, FrameProtocolError, HandleDataFrameError,
       WriteError, CloseFrameWritten, HeartbeatExpires, DoClose, BeatInv
  <1>5. CASE HandshakeSucceeds
    <2>1. timer' = Interval /\ idle' = 0 /\ ~awaiting'
      BY <1>5 DEF HandshakeSucceeds, RefreshHeartbeat
    <2> QED BY <2>1, HeartbeatAssumption DEF BeatInv
  <1>6. CASE HandleClose \/ HandlePing \/ HandlePong \/ HandleDataFrame
    <2>1. /\ RefreshHeartbeat /\ timer' = timer
          /\ state' = "Active" => state = "Active"
      BY <1>6 DEF HandleClose, HandlePing, HandlePong, HandleDataFrame, Close,
         CallbackState
    <2> QED BY <2>1, BeatRefresh
  <1>7. CASE Tick
    <2>1. /\ timer > 0 /\ timer' = timer - 1 /\ idle' = idle + 1
          /\ UNCHANGED <<state, awaiting>>
          /\ awaiting => sincePing' = sincePing + 1
      BY <1>7 DEF Tick
    <2>2. CASE awaiting
      BY <1>0, <2>1, <2>2, HeartbeatAssumption DEF BeatInv
    <2>3. CASE ~awaiting
      BY <1>0, <2>1, <2>3, HeartbeatAssumption DEF BeatInv
    <2> QED BY <2>2, <2>3
  <1>8. CASE TimerStops
    BY <1>8 DEF TimerStops, BeatInv
  <1>9. CASE HeartbeatPing
    <2>1. /\ timer = 0 /\ state = "Active" /\ ~awaiting /\ awaiting'
          /\ timer' = Interval /\ idle' = idle /\ sincePing' = 0
      BY <1>9 DEF HeartbeatPing, TimerDue
    <2>2. idle < 2 * Interval
      BY <1>0, <2>1 DEF BeatInv
    <2>3. idle + Interval < IdleBound
      BY <1>0, <2>2, IdleBoundFacts, HeartbeatAssumption
    <2> QED BY <1>0, <2>1, <2>3, HeartbeatAssumption DEF BeatInv
  <1>10. CASE HeartbeatRearms
    <2>1. /\ timer = 0 /\ state = "Active" /\ timer' = Interval
          /\ UNCHANGED <<idle, awaiting, sincePing>>
          /\ awaiting => idle < Timeout
          /\ ~awaiting => idle < Interval
      BY <1>10 DEF HeartbeatRearms, TimerDue, beatVars
    <2>2. CASE awaiting
      <3>1. sincePing >= Interval
        BY <1>0, <2>1, <2>2 DEF BeatInv
      <3>2. idle + Interval < IdleBound
        BY <1>0, <2>1, <2>2, IdleBoundFacts, HeartbeatAssumption
      <3> QED BY <1>0, <2>1, <2>2, <3>1, <3>2, HeartbeatAssumption DEF BeatInv
    <2>3. CASE ~awaiting
      BY <1>0, <2>1, <2>3, HeartbeatAssumption DEF BeatInv
    <2> QED BY <2>2, <2>3
  <1>11. ASSUME NEW t \in Threads, App(t) PROVE BeatInv'
    <2>1. UNCHANGED <<timer, beatVars>> /\ (state' = "Active" => state = "Active")
      BY <1>11 DEF App, AppSend, AppCloseChecks, AppCloseStores, AppClosePosts
    <2> QED BY <2>1, BeatUnchanged
  <1>12. CASE UNCHANGED vars
    BY <1>12, BeatUnchanged DEF vars, connVars
  <1> QED BY <1>1, <1>2, <1>3, <1>4, <1>5, <1>6, <1>7, <1>8, <1>9, <1>10, <1>11,
             <1>12
          DEF Next, Network, Handshake, FrameLoop, Writer, Heartbeat

LEMMA BeatInvHolds == Spec => []BeatInv
  <1>1. Init => BeatInv
    BY DEF Init, BeatInv
  <1> QED BY <1>1, BeatStep, InvariantHolds, PTL DEF Spec

\* OnHeartbeatTimer drops a silent peer within IdleBound of its last frame, for
\* every interval and timeout SetSessionOptions can produce.
THEOREM SilentPeer == Spec => []SilentPeerIsDropped
  <1>1. IInv /\ BeatInv => SilentPeerIsDropped
    <2> SUFFICES ASSUME IInv, BeatInv, state = "Active" PROVE idle < IdleBound
      BY DEF SilentPeerIsDropped
    <2>1. timer \in Nat /\ idle \in Nat /\ awaiting \in BOOLEAN
      BY DEF IInv, TypeOK, BeatTypeOK, BeatInv
    <2>2. CASE awaiting
      BY <2>1, <2>2, IdleBoundFacts DEF BeatInv
    <2>3. CASE ~awaiting
      BY <2>1, <2>3, IdleBoundFacts, HeartbeatAssumption DEF BeatInv
    <2> QED BY <2>2, <2>3
  <1> QED BY <1>1, InvariantHolds, BeatInvHolds, PTL

\* OnHeartbeatTimer never drops a peer that was not pinged an interval before.
THEOREM PongInTime == Spec => PongWithinIntervalSuffices
  <1>1. IInv /\ BeatInv /\ [Next]_vars
           => [HeartbeatExpires => (awaiting /\ sincePing >= Interval)]_vars
    BY DEF IInv, TypeOK, BeatTypeOK, BeatInv, HeartbeatExpires, TimerDue
  <1> QED BY <1>1, InvariantHolds, BeatInvHolds, PTL
          DEF Spec, PongWithinIntervalSuffices

-----------------------------------------------------------------------------
(* The handshake: until it ends nothing else of the session is alive.      *)

HandshakeInv ==
    /\ io = "loop" => next # 1
    /\ next = 1 /\ rd # "none" => state = "Handshaking"
    /\ state = "Handshaking" =>
         /\ next = 1 /\ wr = "none" /\ strand = << >> /\ timer = NoTimer
         /\ \A t \in Threads : app[t] = "idle"

\* What a step does to rd, next and io once the handshake is over.
LEMMA HandshakeOver ==
    ASSUME HandshakeInv, state # "Handshaking", state' # "Handshaking",
           next = 1 => next' = 1 /\ io' = io,
           next # 1 => next' # 1,
           rd = "none" /\ next = 1 => rd' = "none"
    PROVE  HandshakeInv'
  BY DEF HandshakeInv

LEMMA HandshakeStep == IInv /\ HandshakeInv /\ [Next]_vars => HandshakeInv'
  <1> SUFFICES ASSUME IInv, HandshakeInv, [Next]_vars PROVE HandshakeInv'
    OBVIOUS
  <1>0. /\ next \in Nat \ {0} /\ state \in States
        /\ app \in [Threads -> {"idle", "checked", "stored"}]
    BY DEF IInv, TypeOK, ReadTypeOK, ConnTypeOK, AppTypeOK
  <1>1. CASE PeerSend \/ ReadSome \/ ReadFails
    BY <1>1 DEF PeerSend, ReadSome, ReadFails, HandshakeInv, readVars, parseVars,
                postVars
  <1>2. CASE WriteCompletes
    <2>1. state # "Handshaking" /\ UNCHANGED <<state, next, io, rd>>
      BY <1>2 DEF WriteCompletes, HandshakeInv, readVars, parseVars
    <2> QED BY <2>1, HandshakeOver
  <1>3. CASE Tick
    <2>1. state # "Handshaking" /\ UNCHANGED <<state, next, io, rd>>
      BY <1>3, NoTimerFacts DEF Tick, HandshakeInv, readVars, parseVars
    <2> QED BY <2>1, HandshakeOver
  <1>4. CASE HandshakeReadError \/ HandshakeTooLarge \/ HandshakeRejected
             \/ HandshakeReplyFails
    <2>1. /\ next = 1 /\ rd # "none" /\ state' = "Closed" /\ rd' = "none"
          /\ UNCHANGED <<next, io>>
      BY <1>4 DEF HandshakeReadError, HandshakeTooLarge, HandshakeRejected,
         HandshakeReplyFails, RequestComplete, HandshakeRead, HandshakeFails,
         DoClose
    <2> QED BY <2>1 DEF HandshakeInv
  <1>5. CASE HandshakeIncomplete
    BY <1>5 DEF HandshakeIncomplete, HandshakeRead, HandshakeInv, postVars
  <1>6. CASE HandshakeSucceeds
    <2>1. next' = 2 /\ state' # "Handshaking"
      BY <1>6 DEF HandshakeSucceeds, CallbackState
    <2> QED BY <2>1 DEF HandshakeInv
  <1>7. CASE FrameReadError \/ OnFrameData
    <2>1. next > 1 /\ next' = next
      BY <1>7 DEF FrameReadError, OnFrameData, parseVars
    <2>2. state # "Handshaking"
      BY <1>0, <2>1 DEF HandshakeInv
    <2>3. state' # "Handshaking"
      BY <1>7, <2>2 DEF FrameReadError, OnFrameData, DoClose, Close
    <2> QED BY <1>0, <2>1, <2>2, <2>3, HandshakeOver
  <1>8. CASE FrameProtocolError \/ FrameTooBig \/ LoopEnds \/ HandleClose
             \/ HandlePing \/ HandlePong \/ HandleDataFrameError
             \/ HandleDataFrame
    <2>1. io = "loop"
      BY <1>8 DEF FrameProtocolError, FrameTooBig, LoopEnds, HandleClose,
         HandlePing, HandlePong, HandleDataFrameError, HandleDataFrame, AtFrame
    <2>2. next # 1 /\ state # "Handshaking"
      BY <2>1 DEF HandshakeInv
    <2>3. next' \in {next, next + 1}
      BY <1>8 DEF FrameProtocolError, FrameTooBig, LoopEnds, HandleClose,
         HandlePing, HandlePong, HandleDataFrameError, HandleDataFrame, Return,
         AfterControl, Consume
    <2>4. next' # 1
      BY <1>0, <2>2, <2>3
    <2>5. state' # "Handshaking"
      BY <1>8, <2>2 DEF FrameProtocolError, FrameTooBig, LoopEnds, HandleClose,
         HandlePing, HandlePong, HandleDataFrameError, HandleDataFrame, DoClose,
         Close, CallbackState
    <2> QED BY <2>2, <2>4, <2>5, HandshakeOver
  <1>9. CASE RunPosted \/ FrameWritten
    <2>1. state # "Handshaking" /\ UNCHANGED <<state, next, io, rd>>
      BY <1>9 DEF RunPosted, FrameWritten, WriteNext, HandshakeInv, readVars,
         parseVars
    <2> QED BY <2>1, HandshakeOver
  <1>10. CASE WriteError \/ CloseFrameWritten \/ HeartbeatExpires
    <2>1. state # "Handshaking"
      BY <1>10, NoTimerFacts DEF WriteError, CloseFrameWritten,
         HeartbeatExpires, HandshakeInv
    <2>2. /\ state' = "Closed" /\ UNCHANGED <<next, io>>
          /\ rd = "none" => rd' = "none"
      BY <1>10 DEF WriteError, CloseFrameWritten, HeartbeatExpires, DoClose,
         parseVars
    <2> QED BY <2>1, <2>2, HandshakeOver
  <1>11. CASE TimerStops \/ HeartbeatPing \/ HeartbeatRearms
    <2>1. timer = 0 /\ UNCHANGED <<state, next, io, rd>>
      BY <1>11 DEF TimerStops, HeartbeatPing, HeartbeatRearms, TimerDue,
         readVars, parseVars
    <2>2. state # "Handshaking"
      BY <2>1, NoTimerFacts DEF HandshakeInv
    <2> QED BY <2>1, <2>2, HandshakeOver
  <1>12. ASSUME NEW t \in Threads, App(t) PROVE HandshakeInv'
    <2>1. state # "Handshaking"
      BY <1>12 DEF App, AppSend, AppCloseChecks, AppCloseStores, AppClosePosts,
         HandshakeInv
    <2>2. state' # "Handshaking" /\ UNCHANGED <<next, io, rd>>
      BY <1>12, <2>1 DEF App, AppSend, AppCloseChecks, AppCloseStores,
         AppClosePosts, readVars, parseVars
    <2> QED BY <2>1, <2>2, HandshakeOver
  <1>13. CASE UNCHANGED vars
    BY <1>13 DEF vars, readVars, parseVars, postVars, connVars, HandshakeInv
  <1> QED BY <1>1, <1>2, <1>3, <1>4, <1>5, <1>6, <1>7, <1>8, <1>9, <1>10, <1>11,
             <1>12, <1>13
          DEF Next, Network, Handshake, FrameLoop, Writer, Heartbeat

LEMMA HandshakeInvHolds == Spec => []HandshakeInv
  <1>1. Init => HandshakeInv
    BY DEF Init, HandshakeInv
  <1> QED BY <1>1, HandshakeStep, InvariantHolds, PTL DEF Spec

\* A session that is closing or closed never becomes Active: the store to state_
\* in DoReadHandshake cannot follow a Close or a DoClose of any thread.
THEOREM NoReopen == Spec => NeverReopens
  <1>1. HandshakeInv /\ [Next]_vars
           => [(state \in {"Closing", "Closed"}) => (state' # "Active")]_vars
    <2> SUFFICES ASSUME HandshakeInv, Next, state \in {"Closing", "Closed"}
                 PROVE  state' # "Active"
      OBVIOUS
    <2>1. ~HandshakeSucceeds
      BY DEF HandshakeSucceeds, RequestComplete, HandshakeRead, HandshakeInv
    <2>2. CASE Network \/ Writer \/ Heartbeat \/ \E t \in Threads : App(t)
      BY <2>2 DEF Network, Writer, Heartbeat, App, PeerSend, ReadSome, ReadFails,
         WriteCompletes, Tick, RunPosted, WriteError, CloseFrameWritten,
         FrameWritten, WriteNext, TimerStops, HeartbeatExpires, HeartbeatPing,
         HeartbeatRearms, AppSend, AppCloseChecks, AppCloseStores,
         AppClosePosts, DoClose
    <2>3. CASE Handshake
      BY <2>1, <2>3 DEF Handshake, HandshakeReadError, HandshakeTooLarge,
         HandshakeIncomplete, HandshakeRejected, HandshakeReplyFails,
         HandshakeFails, DoClose
    <2>4. CASE FrameLoop
      BY <2>4 DEF FrameLoop, FrameReadError, OnFrameData, FrameProtocolError,
         FrameTooBig, LoopEnds, HandleClose, HandlePing, HandlePong,
         HandleDataFrameError, HandleDataFrame, DoClose, Close, CallbackState
    <2> QED BY <2>2, <2>3, <2>4 DEF Next
  <1> QED BY <1>1, HandshakeInvHolds, PTL DEF Spec, NeverReopens

-----------------------------------------------------------------------------
(* Reading.                                                                *)

LEMMA ReadsKeeps == ActiveSessionReads /\ [Next]_vars => ActiveSessionReads'
  <1> SUFFICES ASSUME ActiveSessionReads, [Next]_vars, state' = "Active", io' = "idle"
               PROVE  rd' # "none"
    BY DEF ActiveSessionReads
  <1>1. CASE Network
    BY <1>1 DEF Network, PeerSend, ReadSome, ReadFails, WriteCompletes, Tick, readVars,
       parseVars, ActiveSessionReads
  <1>2. CASE Handshake
    BY <1>2 DEF Handshake, HandshakeReadError, HandshakeTooLarge, HandshakeIncomplete,
       HandshakeRejected, HandshakeReplyFails, HandshakeSucceeds, HandshakeFails, DoClose
  <1>3. CASE FrameReadError \/ OnFrameData
    BY <1>3 DEF FrameReadError, OnFrameData, DoClose, Close
  <1>4. CASE LoopEnds
    BY <1>4 DEF LoopEnds
  <1>5. CASE FrameProtocolError \/ FrameTooBig \/ HandleClose \/ HandlePing \/ HandlePong
             \/ HandleDataFrameError \/ HandleDataFrame
    <2>1. io = "loop"
      BY <1>5 DEF FrameProtocolError, FrameTooBig, HandleClose, HandlePing, HandlePong,
         HandleDataFrameError, HandleDataFrame, AtFrame
    <2>2. io' = io \/ state' # "Active"
      BY <1>5 DEF FrameProtocolError, FrameTooBig, HandleClose, HandlePing, HandlePong,
         HandleDataFrameError, HandleDataFrame, AfterControl, DoClose, Close
    <2> QED BY <2>1, <2>2
  <1>6. CASE RunPosted \/ FrameWritten \/ TimerStops \/ HeartbeatPing \/ HeartbeatRearms
    BY <1>6 DEF RunPosted, FrameWritten, WriteNext, TimerStops, HeartbeatPing,
       HeartbeatRearms, readVars, parseVars, ActiveSessionReads
  <1>7. CASE WriteError \/ CloseFrameWritten \/ HeartbeatExpires
    BY <1>7 DEF WriteError, CloseFrameWritten, HeartbeatExpires, DoClose
  <1>8. ASSUME NEW t \in Threads, App(t) PROVE rd' # "none"
    BY <1>8 DEF App, AppSend, AppCloseChecks, AppCloseStores, AppClosePosts, readVars,
       parseVars, ActiveSessionReads
  <1>9. CASE UNCHANGED vars
    BY <1>9 DEF vars, readVars, parseVars, connVars, ActiveSessionReads
  <1> QED BY <1>1, <1>2, <1>3, <1>4, <1>5, <1>6, <1>7, <1>8, <1>9
    DEF Next, FrameLoop, Writer, Heartbeat

\* Between two handlers an Active session listens: no way out of ProcessFrameBuffer,
\* and no call of another thread, leaves it without a read.
THEOREM ActiveListens == Spec => []ActiveSessionReads
  <1>1. Init => ActiveSessionReads
    BY DEF Init, ActiveSessionReads
  <1> QED BY <1>1, ReadsKeeps, PTL DEF Spec

-----------------------------------------------------------------------------
(* Reassembly: the payload of a run of frames.                             *)

\* What frame i adds to the payload p of the frames before it.
NextJoin(p, log, i) == IF IsData(log[i]) THEN p \o Units(log, i) ELSE p
\* What the recursion in RunPayload asks of a function.
JoinSteps(g, log, s, e) ==
    g = [i \in s..e |-> IF i = s THEN Units(log, i) ELSE NextJoin(g[i - 1], log, i)]

\* The recursion has a solution for as many frames as one likes.
LEMMA JoinExists ==
    ASSUME NEW log, NEW s \in Nat
    PROVE  \A d \in Nat : \E g : JoinSteps(g, log, s, s + d)
  <1> DEFINE T == {d \in Nat : \E g : JoinSteps(g, log, s, s + d)}
  <1>1. 0 \in T
    <2> DEFINE g == [i \in s..(s + 0) |-> Units(log, i)]
    <2>1. JoinSteps(g, log, s, s + 0)
      BY DEF JoinSteps
    <2> QED BY <2>1
  <1>2. ASSUME NEW d \in Nat, d \in T PROVE d + 1 \in T
    <2>1. PICK e \in Nat : e = s + d
      OBVIOUS
    <2>2. PICK g : JoinSteps(g, log, s, e)
      BY <1>2, <2>1
    <2> DEFINE f == [i \in s..(e + 1) |-> IF i = e + 1 THEN NextJoin(g[e], log, i) ELSE g[i]]
    <2>3. ASSUME NEW i \in s..(e + 1)
          PROVE  f[i] = IF i = s THEN Units(log, i) ELSE NextJoin(f[i - 1], log, i)
      <3>1. CASE i = e + 1
        <4>1. i # s /\ i - 1 = e /\ f[i - 1] = g[e]
          BY <2>1, <3>1
        <4> QED BY <3>1, <4>1
      <3>2. CASE i # e + 1
        <4>1. i \in s..e /\ f[i] = g[i]
          BY <2>1, <3>2
        <4>2. g[i] = IF i = s THEN Units(log, i) ELSE NextJoin(g[i - 1], log, i)
          BY <2>2, <4>1 DEF JoinSteps
        <4>3. i # s => f[i - 1] = g[i - 1]
          BY <2>1, <4>1
        <4> QED BY <4>1, <4>2, <4>3
      <3> QED BY <3>1, <3>2
    <2>4. JoinSteps(f, log, s, e + 1)
      <3>1. f = [i \in s..(e + 1) |-> f[i]]
        OBVIOUS
      <3> HIDE DEF f
      <3> QED BY <2>3, <3>1 DEF JoinSteps
    <2>5. s + (d + 1) = e + 1
      BY <2>1
    <2> QED BY <2>4, <2>5
  <1>3. Nat \subseteq T
    <2> HIDE DEF T
    <2> QED BY <1>1, <1>2, NatSetInduction
  <1> QED BY <1>3

Agree(f, g, s, n) == \A i \in s..n : f[i] = g[i]

\* Two solutions agree as far as both go and the logs agree.
LEMMA JoinUnique ==
    ASSUME NEW log1, NEW log2, NEW s \in Nat, NEW e1 \in Nat, NEW e2 \in Nat, NEW n \in Nat,
           n <= e1, n <= e2, Agree(log1, log2, s, n),
           NEW g, JoinSteps(g, log1, s, e1), NEW h, JoinSteps(h, log2, s, e2)
    PROVE  Agree(g, h, s, n)
  <1> DEFINE T == {d \in Nat : s + d <= n => g[s + d] = h[s + d]}
  <1>1. \A i \in s..n : Units(log1, i) = Units(log2, i)
    BY DEF Agree, Units
  <1>2. 0 \in T
    <2> SUFFICES ASSUME s <= n PROVE g[s] = h[s]
      OBVIOUS
    <2>1. s \in s..e1 /\ s \in s..e2 /\ s \in s..n
      OBVIOUS
    <2>2. g[s] = Units(log1, s) /\ h[s] = Units(log2, s)
      BY <2>1 DEF JoinSteps
    <2> QED BY <1>1, <2>1, <2>2
  <1>3. ASSUME NEW d \in Nat, d \in T PROVE d + 1 \in T
    <2> SUFFICES ASSUME s + (d + 1) <= n PROVE g[s + (d + 1)] = h[s + (d + 1)]
      OBVIOUS
    <2>1. PICK i \in Nat : i = s + (d + 1)
      OBVIOUS
    <2>2. /\ i \in s..e1 /\ i \in s..e2 /\ i \in s..n /\ i # s
          /\ i - 1 = s + d /\ s + d <= n
      BY <2>1
    <2>3. g[i - 1] = h[i - 1]
      BY <1>3, <2>2
    <2>4. g[i] = NextJoin(g[i - 1], log1, i)
      BY <2>2 DEF JoinSteps
    <2>5. h[i] = NextJoin(h[i - 1], log2, i)
      BY <2>2 DEF JoinSteps
    <2>6. log1[i] = log2[i] /\ Units(log1, i) = Units(log2, i)
      BY <1>1, <2>2 DEF Agree
    <2> QED BY <2>1, <2>3, <2>4, <2>5, <2>6 DEF NextJoin
  <1>4. Nat \subseteq T
    <2> HIDE DEF T
    <2> QED BY <1>2, <1>3, NatSetInduction
  <1>5. ASSUME NEW i \in s..n PROVE g[i] = h[i]
    <2>1. i - s \in Nat /\ s + (i - s) = i
      OBVIOUS
    <2>2. i - s \in T
      BY <1>4, <2>1
    <2> QED BY <2>1, <2>2
  <1> QED BY <1>5 DEF Agree

\* RunPayload is what a solution has at its end.
LEMMA RunPayloadJoins ==
    ASSUME NEW log, NEW s \in Nat, NEW e \in Nat, s <= e
    PROVE  \E g : JoinSteps(g, log, s, e) /\ RunPayload(log, s, e) = g[e]
  <1>1. PICK d \in Nat : e = s + d
    <2>1. e - s \in Nat /\ e = s + (e - s)
      OBVIOUS
    <2> QED BY <2>1
  <1>2. PICK f : JoinSteps(f, log, s, e)
    BY <1>1, JoinExists
  <1> DEFINE g == CHOOSE g : g = [i \in s..e |->
                       IF i = s THEN Units(log, i)
                       ELSE IF IsData(log[i]) THEN g[i - 1] \o Units(log, i) ELSE g[i - 1]]
  <1>3. g = [i \in s..e |-> IF i = s THEN Units(log, i)
                            ELSE IF IsData(log[i]) THEN g[i - 1] \o Units(log, i) ELSE g[i - 1]]
    <2>1. f = [i \in s..e |-> IF i = s THEN Units(log, i)
                              ELSE IF IsData(log[i]) THEN f[i - 1] \o Units(log, i)
                                   ELSE f[i - 1]]
      BY <1>2 DEF JoinSteps, NextJoin
    <2> QED BY <2>1
  <1>4. RunPayload(log, s, e) = g[e]
    BY DEF RunPayload
  <1> HIDE DEF g
  <1>5. JoinSteps(g, log, s, e)
    BY <1>3 DEF JoinSteps, NextJoin
  <1> QED BY <1>4, <1>5

\* A run that begins; one that a frame is added to; one in a log that has grown.
LEMMA RunBegins ==
    ASSUME NEW log, NEW s \in Nat
    PROVE  RunPayload(log, s, s) = Units(log, s)
  <1>1. PICK g : JoinSteps(g, log, s, s) /\ RunPayload(log, s, s) = g[s]
    BY RunPayloadJoins
  <1> QED BY <1>1 DEF JoinSteps

LEMMA RunGrows ==
    ASSUME NEW log, NEW s \in Nat, NEW e \in Nat, s <= e
    PROVE  RunPayload(log, s, e + 1) = NextJoin(RunPayload(log, s, e), log, e + 1)
  <1>1. PICK n \in Nat : n = e + 1
    OBVIOUS
  <1>2. PICK g : JoinSteps(g, log, s, e) /\ RunPayload(log, s, e) = g[e]
    BY RunPayloadJoins
  <1>3. s <= n
    BY <1>1
  <1>4. PICK h : JoinSteps(h, log, s, n) /\ RunPayload(log, s, n) = h[n]
    BY <1>3, RunPayloadJoins
  <1>5. e <= e /\ e <= n /\ Agree(log, log, s, e)
    BY <1>1 DEF Agree
  <1>6. Agree(g, h, s, e)
    BY <1>2, <1>4, <1>5, JoinUnique
  <1>7. n \in s..n /\ n # s /\ n - 1 = e /\ e \in s..e
    BY <1>1
  <1>8. h[n] = NextJoin(h[n - 1], log, n)
    BY <1>4, <1>7 DEF JoinSteps
  <1> QED BY <1>1, <1>2, <1>4, <1>6, <1>7, <1>8 DEF Agree

LEMMA RunStays ==
    ASSUME NEW log, NEW log2, NEW s \in Nat, NEW e \in Nat, s <= e,
           Agree(log, log2, s, e)
    PROVE  RunPayload(log, s, e) = RunPayload(log2, s, e)
  <1>1. PICK g : JoinSteps(g, log, s, e) /\ RunPayload(log, s, e) = g[e]
    BY RunPayloadJoins
  <1>2. PICK h : JoinSteps(h, log2, s, e) /\ RunPayload(log2, s, e) = h[e]
    BY RunPayloadJoins
  <1>3. e <= e
    OBVIOUS
  <1>4. Agree(g, h, s, e)
    BY <1>1, <1>2, <1>3, JoinUnique
  <1>5. e \in s..e
    OBVIOUS
  <1> QED BY <1>1, <1>2, <1>4, <1>5 DEF Agree

-----------------------------------------------------------------------------
(* Reassembly: what the session has made of the frames before next.        *)

\* A message that starts at s and that no frame up to n ends.
OpenRun(log, s, n) ==
    /\ IsData(log[s]) /\ log[s].op # "Continuation"
    /\ \A i \in (s + 1)..n : IsData(log[i]) => log[i].op = "Continuation"
    /\ \A i \in s..n : IsData(log[i]) => ~log[i].fin

MsgInv ==
    /\ ~msgStarted => msgPayload = << >>
    /\ closeCalls = << >> =>
         /\ next <= Len(peerLog) + 1
         /\ msgStarted =>
              \E s \in 2..(next - 1) :
                 /\ OpenRun(peerLog, s, next - 1) /\ msgOp = peerLog[s].op
                 /\ msgPayload = RunPayload(peerLog, s, next - 1)
         /\ \E ends \in [1..Len(delivered) -> 2..(next - 1)] : MessagesEnd(ends)

LEMMA MsgUnchanged ==
    ASSUME MsgInv, UNCHANGED <<msgStarted, msgOp, msgPayload, delivered>>,
           \/ closeCalls' # << >>
           \/ UNCHANGED <<peerLog, next, closeCalls>>
    PROVE  MsgInv'
  <1>1. CASE closeCalls' # << >>
    BY <1>1 DEF MsgInv
  <1>2. CASE UNCHANGED <<peerLog, next, closeCalls>>
    BY <1>2 DEF MsgInv, MessagesEnd
  <1> QED BY <1>1, <1>2

\* What was a run stays one in a log that agrees with the old one.
LEMMA RunsStay ==
    ASSUME NEW log, NEW log2, NEW n \in Nat, Agree(log, log2, 2, n),
           NEW s \in 2..n, NEW e \in s..n
    PROVE  /\ log[s] = log2[s] /\ log[e] = log2[e]
           /\ IsRun(log, s, e) => IsRun(log2, s, e)
           /\ OpenRun(log, s, e) => OpenRun(log2, s, e)
           /\ RunPayload(log, s, e) = RunPayload(log2, s, e)
  <1>1. \A i \in s..e : log[i] = log2[i]
    BY DEF Agree
  <1>2. log[s] = log2[s] /\ log[e] = log2[e]
    BY <1>1
  <1>3. IsRun(log, s, e) => IsRun(log2, s, e)
    BY <1>1, <1>2 DEF IsRun
  <1>4. OpenRun(log, s, e) => OpenRun(log2, s, e)
    BY <1>1, <1>2 DEF OpenRun
  <1>5. RunPayload(log, s, e) = RunPayload(log2, s, e)
    <2>1. Agree(log, log2, s, e) /\ s \in Nat /\ e \in Nat /\ s <= e
      BY <1>1 DEF Agree
    <2> QED BY <2>1, RunStays
  <1> QED BY <1>2, <1>3, <1>4, <1>5

LEMMA MsgPeerSends ==
    ASSUME TypeOK, MsgInv, NEW f \in FrameSet, peerLog' = Append(peerLog, f),
           UNCHANGED <<msgStarted, msgOp, msgPayload, delivered, next, closeCalls>>
    PROVE  MsgInv'
  <1> SUFFICES ASSUME closeCalls = << >> PROVE MsgInv'
    BY DEF MsgInv
  <1>1. peerLog \in Seq(FrameSet) /\ next \in Nat /\ next >= 1
    BY DEF TypeOK, PeerTypeOK, ReadTypeOK, MsgTypeOK
  <1>2. PICK n \in Nat : n = next - 1
    BY DEF TypeOK, ReadTypeOK
  <1>3. /\ Len(peerLog') = Len(peerLog) + 1 /\ Len(peerLog) \in Nat
        /\ \A i \in 1..Len(peerLog) : peerLog'[i] = peerLog[i]
    BY DEF TypeOK, PeerTypeOK
  <1>4. n <= Len(peerLog)
    BY <1>2, <1>3 DEF MsgInv, TypeOK, ReadTypeOK
  <1>5. Agree(peerLog, peerLog', 2, n)
    BY <1>3, <1>4 DEF Agree
  <1>6. next' <= Len(peerLog') + 1
    <2>1. next' = next
      OBVIOUS
    <2> QED BY <1>1, <1>2, <1>3, <1>4, <2>1
  <1>7. ASSUME msgStarted
        PROVE  \E s \in 2..(next' - 1) :
                  /\ OpenRun(peerLog', s, next' - 1) /\ msgOp' = peerLog'[s].op
                  /\ msgPayload' = RunPayload(peerLog', s, next' - 1)
    <2>1. PICK s \in 2..n : /\ OpenRun(peerLog, s, n) /\ msgOp = peerLog[s].op
                            /\ msgPayload = RunPayload(peerLog, s, n)
      BY <1>2, <1>7 DEF MsgInv
    <2>2. n \in s..n
      OBVIOUS
    <2>3. /\ peerLog[s] = peerLog'[s] /\ OpenRun(peerLog', s, n)
          /\ RunPayload(peerLog, s, n) = RunPayload(peerLog', s, n)
      BY <1>5, <2>1, <2>2, RunsStay, ZenonT(40)
    <2> QED BY <1>2, <2>1, <2>3
  <1>8. \E ends \in [1..Len(delivered') -> 2..(next' - 1)] : MessagesEnd(ends)'
    <2>1. PICK ends \in [1..Len(delivered) -> 2..n] : MessagesEnd(ends)
      BY <1>2 DEF MsgInv
    <2>2. \A e \in 2..n : peerLog'[e] = peerLog[e]
      BY <1>5 DEF Agree
    <2>3. {e \in 2..(next - 1) : IsData(peerLog[e]) /\ peerLog[e].fin}
            = {e \in 2..(next' - 1) : IsData(peerLog'[e]) /\ peerLog'[e].fin}
      BY <1>2, <2>2
    <2>4. ASSUME NEW k \in 1..Len(delivered)
          PROVE  \E s \in 2..ends[k] :
                    /\ IsRun(peerLog', s, ends[k])
                    /\ delivered[k] = [op |-> peerLog'[s].op,
                                       payload |-> RunPayload(peerLog', s, ends[k])]
      <3>1. PICK s \in 2..ends[k] :
                /\ IsRun(peerLog, s, ends[k])
                /\ delivered[k] = [op |-> peerLog[s].op,
                                   payload |-> RunPayload(peerLog, s, ends[k])]
        BY <2>1 DEF MessagesEnd
      <3>2. PICK e \in 2..n : e = ends[k]
        BY <2>1
      <3>3. n \in Nat /\ Agree(peerLog, peerLog', 2, n) /\ s \in 2..n /\ e \in s..n
        BY <1>5, <2>1, <3>1, <3>2
      <3>4. /\ peerLog[s] = peerLog'[s] /\ IsRun(peerLog', s, e)
            /\ RunPayload(peerLog, s, e) = RunPayload(peerLog', s, e)
        <4>1. IsRun(peerLog, s, e)
          BY <3>1, <3>2
        <4>2. IsRun(peerLog, s, e) => IsRun(peerLog', s, e)
          BY <3>3, RunsStay
        <4>3. peerLog[s] = peerLog'[s]
          BY <3>3 DEF Agree
        <4>4. RunPayload(peerLog, s, e) = RunPayload(peerLog', s, e)
          BY <3>3, RunsStay
        <4> QED BY <4>1, <4>2, <4>3, <4>4
      <3> QED BY <3>1, <3>2, <3>4
    <2>5. MessagesEnd(ends)'
      BY <2>1, <2>3, <2>4 DEF MessagesEnd
    <2> QED BY <1>2, <2>1, <2>5
  <1> QED BY <1>6, <1>7, <1>8 DEF MsgInv

\* A data frame in sequence ends a run that its session has reassembled.
LEMMA DataFrameRun ==
    ASSUME TypeOK, MsgInv, closeCalls = << >>, next \in 2..Len(peerLog),
           IsData(peerLog[next]), ~OutOfSequence(peerLog[next])
    PROVE  \E s \in 2..next :
              /\ IsRun(peerLog, s, next)
              /\ MessageOp(next) = peerLog[s].op
              /\ MessageData(next) = RunPayload(peerLog, s, next)
  <1>1. PICK n \in Nat : n = next - 1 /\ next = n + 1
    BY DEF TypeOK, ReadTypeOK
  <1>2. Payload(next) = Units(peerLog, next)
    BY DEF Payload, Units
  <1>3. CASE peerLog[next].op # "Continuation"
    <2>1. next \in Nat /\ next \in 2..next
      BY DEF TypeOK, ReadTypeOK
    <2>2. RunPayload(peerLog, next, next) = Units(peerLog, next)
      BY <2>1, RunBegins
    <2>3. IsRun(peerLog, next, next)
      BY <1>3, <2>1 DEF IsRun
    <2> QED BY <1>2, <1>3, <2>1, <2>2, <2>3 DEF MessageOp, MessageData
  <1>4. CASE peerLog[next].op = "Continuation"
    <2>1. msgStarted
      BY <1>4 DEF OutOfSequence, TypeOK, MsgTypeOK
    <2>2. PICK s \in 2..n : /\ OpenRun(peerLog, s, n) /\ msgOp = peerLog[s].op
                            /\ msgPayload = RunPayload(peerLog, s, n)
      BY <1>1, <2>1 DEF MsgInv
    <2>3. IsRun(peerLog, s, n + 1)
      BY <1>1, <1>4, <2>2 DEF IsRun, OpenRun
    <2>4. RunPayload(peerLog, s, n + 1) = RunPayload(peerLog, s, n) \o Units(peerLog, n + 1)
      <3>1. s \in Nat /\ s <= n /\ IsData(peerLog[n + 1])
        BY <1>1
      <3> QED BY <3>1, RunGrows DEF NextJoin
    <2>5. s \in 2..next
      BY <1>1
    <2> QED BY <1>1, <1>2, <1>4, <2>2, <2>3, <2>4, <2>5 DEF MessageOp, MessageData
  <1> QED BY <1>3, <1>4

\* What a step leaves of the frames that ended a message when the next is passed over.
LEMMA EndsStay ==
    ASSUME TypeOK, MsgInv, closeCalls = << >>, next \in Nat, next <= Len(peerLog),
           next = 1 \/ ~IsData(peerLog[next]) \/ ~peerLog[next].fin,
           next' = next + 1, UNCHANGED <<delivered, peerLog>>
    PROVE  \E ends \in [1..Len(delivered') -> 2..(next' - 1)] : MessagesEnd(ends)'
  <1>1. PICK n \in Nat : n = next - 1 /\ next = n + 1 /\ next' = n + 2
    BY DEF TypeOK, ReadTypeOK
  <1>2. PICK ends \in [1..Len(delivered) -> 2..n] : MessagesEnd(ends)
    BY <1>1 DEF MsgInv
  <1>3. next' - 1 = n + 1 /\ next - 1 = n
    BY <1>1
  <1>4. {e \in 2..n : IsData(peerLog[e]) /\ peerLog[e].fin}
          = {e \in 2..(n + 1) : IsData(peerLog[e]) /\ peerLog[e].fin}
    BY <1>1
  <1>5. {ends[k] : k \in 1..Len(delivered')}
          = {e \in 2..(next' - 1) : IsData(peerLog'[e]) /\ peerLog'[e].fin}
    <2>1. {ends[k] : k \in 1..Len(delivered)}
            = {e \in 2..n : IsData(peerLog[e]) /\ peerLog[e].fin}
      BY <1>2, <1>3 DEF MessagesEnd
    <2> QED BY <1>3, <1>4, <2>1
  <1>6. MessagesEnd(ends)'
    BY <1>2, <1>5 DEF MessagesEnd
  <1>7. ends \in [1..Len(delivered') -> 2..(next' - 1)]
    <2>1. ends \in [1..Len(delivered) -> 2..(n + 1)]
      OBVIOUS
    <2> QED BY <1>3, <2>1
  <1> QED BY <1>6, <1>7

\* A frame that is no data frame is passed over.
LEMMA MsgPassesOver ==
    ASSUME TypeOK, MsgInv, next' = next + 1, next <= Len(peerLog),
           next = 1 \/ ~IsData(peerLog[next]),
           UNCHANGED <<msgStarted, msgOp, msgPayload, delivered, peerLog, closeCalls>>
    PROVE  MsgInv'
  <1> SUFFICES ASSUME closeCalls = << >> PROVE MsgInv'
    BY DEF MsgInv
  <1>1. PICK n \in Nat : n = next - 1 /\ next = n + 1 /\ next' = n + 2
    BY DEF TypeOK, ReadTypeOK
  <1>2. next' <= Len(peerLog') + 1
    BY <1>1 DEF TypeOK, PeerTypeOK
  <1>3. ASSUME msgStarted
        PROVE  \E s \in 2..(n + 1) :
                  /\ OpenRun(peerLog, s, n + 1) /\ msgOp = peerLog[s].op
                  /\ msgPayload = RunPayload(peerLog, s, n + 1)
    <2>1. PICK s \in 2..n : /\ OpenRun(peerLog, s, n) /\ msgOp = peerLog[s].op
                            /\ msgPayload = RunPayload(peerLog, s, n)
      BY <1>1, <1>3 DEF MsgInv
    <2>2. ~IsData(peerLog[n + 1])
      BY <1>1, <2>1
    <2>3. OpenRun(peerLog, s, n + 1)
      BY <2>1, <2>2 DEF OpenRun
    <2>4. RunPayload(peerLog, s, n + 1) = RunPayload(peerLog, s, n)
      <3>1. s \in Nat /\ s <= n
        OBVIOUS
      <3> QED BY <2>2, <3>1, RunGrows DEF NextJoin
    <2>5. s \in 2..(n + 1)
      OBVIOUS
    <2> QED BY <2>1, <2>3, <2>4, <2>5
  <1>4. \E ends \in [1..Len(delivered') -> 2..(next' - 1)] : MessagesEnd(ends)'
    <2>1. next \in Nat
      BY DEF TypeOK, ReadTypeOK
    <2> QED BY <2>1, EndsStay
  <1> QED BY <1>1, <1>2, <1>3, <1>4 DEF MsgInv

\* The frame that ends a message becomes the last of those that ended one.
LEMMA EndsGrow ==
    ASSUME TypeOK, MsgInv, closeCalls = << >>, next \in 2..Len(peerLog),
           IsData(peerLog[next]), peerLog[next].fin,
           NEW s \in 2..next, IsRun(peerLog, s, next), NEW m,
           m = [op |-> peerLog[s].op, payload |-> RunPayload(peerLog, s, next)],
           delivered' = Append(delivered, m),
           next' = next + 1, UNCHANGED peerLog
    PROVE  \E ends \in [1..Len(delivered') -> 2..(next' - 1)] : MessagesEnd(ends)'
  <1>1. PICK n \in Nat : n = next - 1 /\ next = n + 1 /\ next' = n + 2 /\ n >= 1
    BY DEF TypeOK, ReadTypeOK
  <1>2. PICK old \in [1..Len(delivered) -> 2..n] : MessagesEnd(old)
    BY <1>1 DEF MsgInv
  <1>3. PICK d \in Nat : d = Len(delivered)
    BY DEF TypeOK, MsgTypeOK
  <1>4. /\ Len(delivered') = d + 1 /\ delivered'[d + 1] = m
        /\ \A k \in 1..d : delivered'[k] = delivered[k]
    BY <1>3 DEF TypeOK, MsgTypeOK
  <1>5. next' - 1 = n + 1 /\ next - 1 = n /\ peerLog' = peerLog
    BY <1>1
  <1> DEFINE ends == [k \in 1..(d + 1) |-> IF k = d + 1 THEN n + 1 ELSE old[k]]
  <1>6. ends \in [1..(d + 1) -> 2..(n + 1)]
    BY <1>1, <1>2, <1>3
  <1>7. ends[d + 1] = n + 1 /\ \A k \in 1..d : ends[k] = old[k] /\ old[k] \in 2..n
    <2>1. d + 1 \in 1..(d + 1)
      BY <1>3
    <2>2. ASSUME NEW k \in 1..d PROVE ends[k] = old[k] /\ old[k] \in 2..n
      <3>1. k \in 1..(d + 1) /\ k # d + 1
        BY <1>3
      <3>2. old[k] \in 2..n
        BY <1>2, <1>3
      <3> QED BY <3>1, <3>2
    <2> QED BY <2>1, <2>2
  <1> HIDE DEF ends
  <1>8. \A j, k \in 1..(d + 1) : j < k => ends[j] < ends[k]
    <2> SUFFICES ASSUME NEW j \in 1..(d + 1), NEW k \in 1..(d + 1), j < k
                 PROVE  ends[j] < ends[k]
      OBVIOUS
    <2>1. CASE k = d + 1
      BY <1>7, <2>1
    <2>2. CASE k # d + 1
      <3>1. j \in 1..d /\ k \in 1..d
        BY <2>2
      <3>2. old[j] < old[k]
        BY <1>2, <1>3, <3>1 DEF MessagesEnd
      <3> QED BY <1>7, <3>1, <3>2
    <2> QED BY <2>1, <2>2
  <1>9. {ends[k] : k \in 1..(d + 1)}
          = {e \in 2..(n + 1) : IsData(peerLog[e]) /\ peerLog[e].fin}
    <2>1. {ends[k] : k \in 1..(d + 1)} = {old[k] : k \in 1..d} \cup {n + 1}
      <3>1. /\ \A k \in 1..(d + 1) : k \in 1..d \/ k = d + 1
            /\ \A k \in 1..d : k \in 1..(d + 1)
            /\ d + 1 \in 1..(d + 1)
        BY <1>3
      <3> QED BY <1>7, <3>1
    <2>2. {old[k] : k \in 1..d} = {e \in 2..n : IsData(peerLog[e]) /\ peerLog[e].fin}
      BY <1>2, <1>3, <1>5 DEF MessagesEnd
    <2>3. IsData(peerLog[n + 1]) /\ peerLog[n + 1].fin
      BY <1>1
    <2>4. 2..(n + 1) = 2..n \cup {n + 1}
      BY <1>1
    <2> QED BY <2>1, <2>2, <2>3, <2>4
  <1>10. ASSUME NEW k \in 1..(d + 1)
         PROVE  \E r \in 2..ends[k] :
                   /\ IsRun(peerLog, r, ends[k])
                   /\ delivered'[k] = [op |-> peerLog[r].op,
                                       payload |-> RunPayload(peerLog, r, ends[k])]
    <2>1. CASE k = d + 1
      BY <1>1, <1>4, <1>7, <2>1, SMTT(30)
    <2>2. CASE k # d + 1
      <3>1. k \in 1..d
        BY <2>2
      <3>2. \E r \in 2..old[k] :
                   /\ IsRun(peerLog, r, old[k])
                   /\ delivered[k] = [op |-> peerLog[r].op,
                                      payload |-> RunPayload(peerLog, r, old[k])]
        BY <1>2, <1>3, <3>1 DEF MessagesEnd
      <3>3. ends[k] = old[k] /\ delivered'[k] = delivered[k]
        BY <1>4, <1>7, <3>1
      <3> QED BY <3>2, <3>3
    <2> QED BY <2>1, <2>2
  <1>11. MessagesEnd(ends)'
    <2>1. \A j, k \in 1..Len(delivered') : j < k => ends[j] < ends[k]
      BY <1>4, <1>8
    <2>2. {ends[k] : k \in 1..Len(delivered')}
            = {e \in 2..(next' - 1) : IsData(peerLog'[e]) /\ peerLog'[e].fin}
      BY <1>4, <1>5, <1>9
    <2>3. \A k \in 1..Len(delivered') : \E r \in 2..ends[k] :
             /\ IsRun(peerLog', r, ends[k])
             /\ delivered'[k] = [op |-> peerLog'[r].op,
                                 payload |-> RunPayload(peerLog', r, ends[k])]
      BY <1>4, <1>5, <1>10, SMTT(30)
    <2> QED BY <2>1, <2>2, <2>3 DEF MessagesEnd
  <1>12. ends \in [1..Len(delivered') -> 2..(next' - 1)]
    BY <1>4, <1>5, <1>6
  <1> QED BY <1>11, <1>12

LEMMA MsgHandlesData ==
    ASSUME TypeOK, MsgInv, HandshakeInv, HandleDataFrame
    PROVE  MsgInv'
  <1> SUFFICES ASSUME closeCalls = << >> PROVE MsgInv'
    BY MsgUnchanged DEF HandleDataFrame, MsgInv
  <1>1. /\ next \in 2..Len(peerLog) /\ IsData(peerLog[next])
        /\ ~OutOfSequence(peerLog[next]) /\ peerLog' = peerLog /\ closeCalls' = closeCalls
    BY DEF HandleDataFrame, AtFrame, HandshakeInv, TypeOK, PeerTypeOK, ReadTypeOK, Cur, IsData,
       peerVars
  <1>2. PICK s \in 2..next : /\ IsRun(peerLog, s, next)
                             /\ MessageOp(next) = peerLog[s].op
                             /\ MessageData(next) = RunPayload(peerLog, s, next)
    BY <1>1, DataFrameRun
  <1>3. PICK n \in Nat : n = next /\ next' = n + 1 /\ next' - 1 = n
    <2>1. next' = next + 1
      BY DEF HandleDataFrame, Consume
    <2> QED BY <2>1 DEF TypeOK, ReadTypeOK
  <1>4. next' <= Len(peerLog') + 1
    BY <1>1, <1>3
  <1>5. CASE ~peerLog[next].fin
    <2>1. /\ msgStarted' = TRUE /\ msgPayload' = MessageData(next)
          /\ msgOp' = MessageOp(next) /\ delivered' = delivered
      BY <1>5 DEF HandleDataFrame, Cur
    <2>2. OpenRun(peerLog, s, n)
      BY <1>2, <1>3, <1>5 DEF IsRun, OpenRun
    <2>3. \E r \in 2..(next' - 1) :
             /\ OpenRun(peerLog', r, next' - 1) /\ msgOp' = peerLog'[r].op
             /\ msgPayload' = RunPayload(peerLog', r, next' - 1)
      BY <1>1, <1>2, <1>3, <2>1, <2>2
    <2>4. \E ends \in [1..Len(delivered') -> 2..(next' - 1)] : MessagesEnd(ends)'
      <3>1. next \in Nat /\ next <= Len(peerLog) /\ next' = next + 1
        BY <1>1, <1>3
      <3> QED BY <1>1, <1>5, <2>1, <3>1, EndsStay
    <2> QED BY <1>4, <2>1, <2>3, <2>4 DEF MsgInv
  <1>6. CASE peerLog[next].fin
    <2>1. PICK m : m = [op |-> MessageOp(next), payload |-> MessageData(next)]
      OBVIOUS
    <2>2. /\ msgStarted' = FALSE /\ msgPayload' = << >>
          /\ delivered' = Append(delivered, m)
      BY <1>6, <2>1 DEF HandleDataFrame, Cur
    <2>3. m = [op |-> peerLog[s].op, payload |-> RunPayload(peerLog, s, next)]
      BY <1>2, <2>1
    <2>4. \E ends \in [1..Len(delivered') -> 2..(next' - 1)] : MessagesEnd(ends)'
      <3>1. next' = next + 1
        BY <1>3
      <3> QED BY <1>1, <1>2, <1>6, <2>2, <2>3, <3>1, EndsGrow
    <2> QED BY <1>4, <2>2, <2>4 DEF MsgInv
  <1> QED BY <1>5, <1>6

LEMMA MsgStep == IInv /\ HandshakeInv /\ MsgInv /\ [Next]_vars => MsgInv'
  <1> SUFFICES ASSUME IInv, HandshakeInv, MsgInv, [Next]_vars PROVE MsgInv'
    OBVIOUS
  <1>0. TypeOK /\ peerLog # << >> /\ closeCalls \in Seq(Nat)
    BY DEF IInv, TypeOK, ConnTypeOK
  <1>1. CASE \/ HandshakeReadError \/ HandshakeTooLarge \/ HandshakeRejected
             \/ HandshakeReplyFails \/ FrameReadError \/ FrameProtocolError
             \/ HandleDataFrameError \/ WriteError \/ CloseFrameWritten \/ HeartbeatExpires
    <2>1. UNCHANGED msgVars /\ \E code, r, w, t : DoClose(code, r, w, t)
      BY <1>1 DEF HandshakeReadError, HandshakeTooLarge, HandshakeRejected,
         HandshakeReplyFails, HandshakeFails, FrameReadError, FrameProtocolError,
         HandleDataFrameError, WriteError, CloseFrameWritten, HeartbeatExpires
    <2>2. closeCalls' # << >>
      BY <1>0, <2>1 DEF DoClose
    <2> QED BY <2>1, <2>2, MsgUnchanged DEF msgVars
  <1>2. CASE \/ ReadSome \/ ReadFails \/ WriteCompletes \/ Tick \/ HandshakeIncomplete
             \/ OnFrameData \/ FrameTooBig \/ LoopEnds \/ RunPosted \/ FrameWritten
             \/ TimerStops \/ HeartbeatPing \/ HeartbeatRearms \/ (\E t \in Threads : App(t))
             \/ UNCHANGED vars
    <2>1. UNCHANGED <<msgVars, peerLog, next, closeCalls>>
      BY <1>2 DEF ReadSome, ReadFails, WriteCompletes, Tick, HandshakeIncomplete,
         OnFrameData, FrameTooBig, LoopEnds, RunPosted, FrameWritten, WriteNext, TimerStops,
         HeartbeatPing, HeartbeatRearms, App, AppSend, AppCloseChecks, AppCloseStores,
         AppClosePosts, Return, vars, peerVars, parseVars, connVars
    <2> QED BY <2>1, MsgUnchanged DEF msgVars
  <1>3. CASE PeerSend
    <2>1. PICK f \in Frames : peerLog' = Append(peerLog, f)
      BY <1>3 DEF PeerSend
    <2>2. f \in FrameSet
      BY <2>1, FramesAssumption
    <2>3. UNCHANGED <<msgStarted, msgOp, msgPayload, delivered, next, closeCalls>>
      BY <1>3 DEF PeerSend, msgVars, parseVars
    <2> QED BY <1>0, <2>1, <2>2, <2>3, MsgPeerSends
  <1>4. CASE HandshakeSucceeds
    <2>1. /\ next = 1 /\ next' = next + 1
          /\ UNCHANGED <<msgStarted, msgOp, msgPayload, delivered, peerLog, closeCalls>>
      BY <1>4 DEF HandshakeSucceeds, RequestComplete, HandshakeRead, msgVars, peerVars
    <2>2. next <= Len(peerLog)
      BY <1>0, <2>1 DEF TypeOK, PeerTypeOK
    <2> QED BY <1>0, <2>1, <2>2, MsgPassesOver
  <1>5. CASE HandleClose \/ HandlePing \/ HandlePong
    <2>1. /\ AtFrame /\ Cur.op \in {"Close", "Ping", "Pong"} /\ AfterControl
          /\ UNCHANGED <<msgStarted, msgOp, msgPayload, delivered, peerLog, closeCalls>>
      BY <1>5 DEF HandleClose, HandlePing, HandlePong, msgVars, peerVars
    <2>2. CASE state' = "Closed"
      <3>1. UNCHANGED next
        BY <2>1, <2>2 DEF AfterControl, Return
      <3> QED BY <2>1, <3>1, MsgUnchanged
    <2>3. CASE state' # "Closed"
      <3>1. next' = next + 1 /\ next <= Len(peerLog) /\ ~IsData(peerLog[next])
        BY <2>1, <2>3 DEF AfterControl, Consume, AtFrame, Cur, IsData, DataOps
      <3> QED BY <1>0, <2>1, <3>1, MsgPassesOver
    <2> QED BY <2>2, <2>3
  <1>6. CASE HandleDataFrame
    BY <1>0, <1>6, MsgHandlesData
  <1> QED BY <1>1, <1>2, <1>3, <1>4, <1>5, <1>6
    DEF Next, Network, Handshake, FrameLoop, Writer, Heartbeat

LEMMA MsgInvHolds == Spec => []MsgInv
  <1>1. Init => MsgInv
    <2> SUFFICES ASSUME Init PROVE MsgInv
      OBVIOUS
    <2>1. PICK r \in Requests : peerLog = <<r>>
      BY DEF Init
    <2>2. /\ next = 1 /\ next <= Len(peerLog) + 1 /\ ~msgStarted /\ msgPayload = << >>
          /\ delivered = << >>
      BY <2>1 DEF Init
    <2>3. \E ends \in [1..Len(delivered) -> 2..(next - 1)] : MessagesEnd(ends)
      <3> DEFINE none == [k \in 1..0 |-> 2]
      <3>1. 1..0 = {} /\ 2..(next - 1) = {} /\ Len(delivered) = 0
        BY <2>2
      <3>2. none \in [1..Len(delivered) -> 2..(next - 1)]
        BY <3>1
      <3>3. MessagesEnd(none)
        BY <3>1 DEF MessagesEnd
      <3> QED BY <3>2, <3>3
    <2> QED BY <2>2, <2>3 DEF MsgInv
  <1> QED BY <1>1, MsgStep, InvariantHolds, HandshakeInvHolds, PTL DEF Spec

\* Until the session is closed message_handler_ has received the messages that the
\* frames processed so far make up, no more and no fewer, each with the type of its first
\* fragment and the units of all its fragments in order: whatever the peer sends, however
\* TCP cuts it, and whatever the callbacks and the other threads do in between.
THEOREM MessagesIntact == Spec => []DeliversWhatWasSent
  <1>1. MsgInv => DeliversWhatWasSent
    BY DEF MsgInv, DeliversWhatWasSent
  <1> QED BY <1>1, MsgInvHolds, PTL

-----------------------------------------------------------------------------
(* The limits: what the buffer holds while the session waits for a read.   *)

\* The frame at the front of the buffer is cut, and not known to be too big.
Partial ==
    \/ buffered = 0
    \/ /\ next <= Len(peerLog)
       /\ \/ buffered <= 1
          \/ /\ IsData(Cur) => Cur.len <= MaxMessage
             /\ buffered < FrameTotalSize(Cur)

ReadInv ==
    /\ rdn <= ReadBuf
    /\ \A i \in 2..Len(peerLog) : peerLog[i] \in Frames
    /\ state \in {"Handshaking", "Active"} => closeCalls = << >>
    /\ state = "Active" /\ io = "idle" => Partial

LEMMA ReadUnchanged ==
    ASSUME ReadInv, UNCHANGED <<peerLog, next, buffered>>,
           rdn' = rdn \/ rdn' \in 0..ReadBuf,
           state' \in {"Handshaking", "Active"} => state' = state /\ closeCalls' = closeCalls,
           state' = "Active" /\ io' = "idle" => io = "idle"
    PROVE  ReadInv'
  <1>1. Partial => Partial'
    BY DEF Partial, Cur
  <1> QED BY <1>1, SizesAssumption DEF ReadInv

LEMMA ReadStep == IInv /\ HandshakeInv /\ ReadInv /\ [Next]_vars => ReadInv'
  <1> SUFFICES ASSUME IInv, HandshakeInv, ReadInv, [Next]_vars PROVE ReadInv'
    OBVIOUS
  <1>0. /\ TypeOK /\ peerLog \in Seq(FrameSet) /\ next \in Nat /\ buffered \in Nat
        /\ rdn \in Nat /\ ReadBuf \in Nat /\ 0 \in 0..ReadBuf
    BY SizesAssumption DEF IInv, TypeOK, PeerTypeOK, ReadTypeOK
  <1>1. CASE \/ FrameReadError \/ FrameProtocolError \/ WriteError \/ CloseFrameWritten
             \/ HeartbeatExpires
    <2>1. UNCHANGED <<peerLog, next, buffered, rdn>> /\ state' = "Closed"
      BY <1>1 DEF FrameReadError, FrameProtocolError, WriteError, CloseFrameWritten,
         HeartbeatExpires, DoClose, peerVars, parseVars, Return
    <2> QED BY <2>1, ReadUnchanged
  <1>2. CASE \/ HandshakeReadError \/ HandshakeTooLarge \/ HandshakeRejected
             \/ HandshakeReplyFails \/ HandleDataFrameError
    <2>1. UNCHANGED peerLog /\ state' = "Closed" /\ (rdn' = 0 \/ rdn' = rdn)
      BY <1>2 DEF HandshakeReadError, HandshakeTooLarge, HandshakeRejected,
         HandshakeReplyFails, HandshakeFails, HandleDataFrameError, DoClose, peerVars
    <2> QED BY <1>0, <2>1 DEF ReadInv
  <1>3. CASE \/ ReadFails \/ WriteCompletes \/ Tick \/ RunPosted \/ FrameWritten
             \/ TimerStops \/ HeartbeatPing \/ HeartbeatRearms
             \/ (\E t \in Threads : AppSend(t) \/ AppCloseChecks(t) \/ AppClosePosts(t))
             \/ UNCHANGED vars
    <2>1. UNCHANGED <<peerLog, next, buffered, rdn, io, state, closeCalls>>
      BY <1>3 DEF ReadFails, WriteCompletes, Tick, RunPosted, FrameWritten, WriteNext,
         TimerStops, HeartbeatPing, HeartbeatRearms, AppSend, AppCloseChecks, AppClosePosts,
         vars, peerVars, readVars, parseVars, connVars
    <2> QED BY <2>1, ReadUnchanged
  <1>4. CASE ReadSome
    <2>1. PICK n \in 1..ReadBuf : rdn' = n
      BY <1>4 DEF ReadSome
    <2>2. UNCHANGED <<peerLog, next, buffered, io, state, closeCalls>>
      BY <1>4 DEF ReadSome, parseVars
    <2> QED BY <2>1, <2>2, ReadUnchanged
  <1>5. ASSUME NEW t \in Threads, AppCloseStores(t) PROVE ReadInv'
    <2>1. UNCHANGED <<peerLog, next, buffered, rdn>> /\ state' = "Closing"
      BY <1>5 DEF AppCloseStores, peerVars, parseVars, readVars
    <2> QED BY <2>1, ReadUnchanged
  <1>6. CASE PeerSend
    <2>1. PICK f \in Frames : peerLog' = Append(peerLog, f)
      BY <1>6 DEF PeerSend
    <2>2. UNCHANGED <<next, buffered, rdn, io, state, closeCalls>>
      BY <1>6 DEF PeerSend, parseVars, readVars
    <2>3. /\ Len(peerLog') = Len(peerLog) + 1 /\ peerLog'[Len(peerLog) + 1] = f
          /\ \A i \in 1..Len(peerLog) : peerLog'[i] = peerLog[i]
      BY <1>0, <2>1, FramesAssumption
    <2>4. \A i \in 2..Len(peerLog') : peerLog'[i] \in Frames
      <3>1. ASSUME NEW i \in 2..Len(peerLog') PROVE peerLog'[i] \in Frames
        <4>1. i = Len(peerLog) + 1 \/ i \in 2..Len(peerLog)
          BY <1>0, <2>3
        <4> QED BY <1>0, <2>1, <2>3, <4>1 DEF ReadInv
      <3> QED BY <3>1
    <2>5. Partial => Partial'
      <3>1. next >= 1
        BY <1>0 DEF TypeOK, ReadTypeOK
      <3>2. next <= Len(peerLog) => next <= Len(peerLog') /\ Cur' = Cur
        BY <1>0, <2>2, <2>3, <3>1 DEF Cur
      <3> QED BY <2>2, <3>2 DEF Partial
    <2> QED BY <2>2, <2>4, <2>5 DEF ReadInv
  <1>7. CASE HandshakeIncomplete \/ HandshakeSucceeds
    <2>1. state = "Handshaking" /\ closeCalls = << >>
      BY <1>7 DEF HandshakeIncomplete, HandshakeSucceeds, RequestComplete, HandshakeRead,
         HandshakeInv, ReadInv
    <2>2. UNCHANGED <<peerLog, closeCalls>> /\ rdn' = 0
      BY <1>7 DEF HandshakeIncomplete, HandshakeSucceeds, peerVars
    <2>3. state' = "Active" /\ io' = "idle" => buffered' = 0
      <3>1. CASE HandshakeIncomplete
        BY <2>1, <3>1 DEF HandshakeIncomplete
      <3>2. CASE HandshakeSucceeds
        <4>1. peerLog[1] \in FrameSet
          BY <1>0 DEF IInv
        <4>2. FrameTotalSize(peerLog[1]) \in Nat
          BY <4>1, FrameFacts
        <4>3. /\ buffered' = buffered + rdn - FrameTotalSize(peerLog[1])
              /\ buffered + rdn >= FrameTotalSize(peerLog[1])
              /\ buffered' > 0 => io' = "loop"
          BY <3>2 DEF HandshakeSucceeds, RequestComplete
        <4> QED BY <1>0, <4>2, <4>3
      <3> QED BY <1>7, <3>1, <3>2
    <2> QED BY <1>0, <2>1, <2>2, <2>3 DEF ReadInv, Partial
  <1>8. CASE OnFrameData \/ FrameTooBig
    <2>1. /\ UNCHANGED <<peerLog, closeCalls>> /\ (rdn' = 0 \/ rdn' = rdn)
          /\ state' = state \/ state' = "Closing"
          /\ state' = "Active" => io' = "loop"
      BY <1>8 DEF OnFrameData, FrameTooBig, Close, Return, peerVars, readVars
    <2> QED BY <1>0, <2>1 DEF ReadInv
  <1>9. CASE LoopEnds
    <2>1. UNCHANGED <<peerLog, next, buffered, rdn, state, closeCalls>>
      BY <1>9 DEF LoopEnds, Return, peerVars
    <2>2. Partial
      <3>1. CASE buffered = 0
        BY <3>1 DEF Partial
      <3>2. CASE AtFrame /\ ParseHeader(Cur, buffered) = "incomplete"
        BY <1>0, <3>2 DEF ParseHeader, HeaderLen, AtFrame, Partial
      <3>3. CASE AtFrame /\ HeaderOk(Cur) /\ ~TooBig(Cur) /\ buffered < FrameTotalSize(Cur)
        <4>1. Cur.len \in Nat /\ Accumulated(Cur) \in Nat
          BY <1>0, <3>3, CurFacts DEF Accumulated, TypeOK, MsgTypeOK
        <4>2. IsData(Cur) => ~IsControlFrame(Cur)
          BY DEF IsData, IsControlFrame, DataOps, ControlOps
        <4>3. IsData(Cur) => Cur.len <= MaxMessage
          BY <3>3, <4>1, <4>2, SizesAssumption DEF TooBig
        <4> QED BY <3>3, <4>3 DEF Partial, AtFrame
      <3> QED BY <1>9, <3>1, <3>2, <3>3 DEF LoopEnds
    <2>3. Partial'
      BY <2>1, <2>2 DEF Partial, Cur
    <2> QED BY <2>1, <2>3 DEF ReadInv
  <1>10. CASE HandleClose \/ HandlePing \/ HandlePong \/ HandleDataFrame
    <2>1. /\ UNCHANGED <<peerLog, rdn, closeCalls>>
          /\ state' = state \/ state' \in {"Closing", "Closed"}
          /\ state' = "Active" => io' = "loop"
      BY <1>10 DEF HandleClose, HandlePing, HandlePong, HandleDataFrame, AfterControl,
         AtFrame, Close, CallbackState, peerVars, readVars
    <2> QED BY <2>1 DEF ReadInv
  <1> QED BY <1>1, <1>2, <1>3, <1>4, <1>5, <1>6, <1>7, <1>8, <1>9, <1>10
    DEF Next, Network, Handshake, FrameLoop, Writer, Heartbeat, App

LEMMA ReadInvHolds == Spec => []ReadInv
  <1>1. Init => ReadInv
    BY SizesAssumption DEF Init, ReadInv
  <1> QED BY <1>1, ReadStep, InvariantHolds, HandshakeInvHolds, PTL DEF Spec

-----------------------------------------------------------------------------
(* The limits: no message is too long.                                     *)

MessagesFit == \A k \in 1..Len(delivered) : Len(delivered[k].payload) <= MaxMessage

LEMMA MessageDataLength ==
    ASSUME TypeOK, AtFrame, Cur.op \in DataOps
    PROVE  Len(MessageData(next)) = Accumulated(Cur) + Cur.len
  <1>1. Cur.len \in Nat /\ next \in Nat /\ msgPayload \in Seq(Nat)
    BY CurFacts DEF TypeOK, ReadTypeOK, MsgTypeOK
  <1>2. PICK pl : pl = Payload(next)
    OBVIOUS
  <1>3. pl \in Seq(Nat) /\ Len(pl) = Cur.len
    <2>1. PICK n \in Nat : n = Cur.len
      BY <1>1
    <2>2. pl \in [1..n -> Nat]
      BY <1>1, <1>2, <2>1 DEF Payload, Cur
    <2>3. pl \in Seq(Nat)
      BY <2>2, SeqDef
    <2>4. Len(pl) = n
      BY <2>2, <2>3
    <2> QED BY <2>1, <2>3, <2>4
  <1>4. Len(msgPayload \o pl) = Len(msgPayload) + Len(pl)
    BY <1>1, <1>3, ConcatProperties
  <1> QED BY <1>2, <1>3, <1>4 DEF MessageData, Accumulated, Cur

LEMMA MessagesFitStep == IInv /\ MessagesFit /\ [Next]_vars => MessagesFit'
  <1> SUFFICES ASSUME IInv, MessagesFit, [Next]_vars PROVE MessagesFit'
    OBVIOUS
  <1>1. CASE UNCHANGED delivered
    BY <1>1 DEF MessagesFit
  <1>2. CASE HandleDataFrame /\ Cur.fin
    <2>1. TypeOK /\ AtFrame /\ Cur.op \in DataOps /\ ~TooBig(Cur)
      BY <1>2 DEF IInv, HandleDataFrame, WholeFrame
    <2>2. PICK m : /\ m = [op |-> MessageOp(next), payload |-> MessageData(next)]
                   /\ delivered' = Append(delivered, m)
      BY <1>2 DEF HandleDataFrame
    <2>3. Len(m.payload) <= MaxMessage
      <3>1. Accumulated(Cur) + Cur.len <= MaxMessage
        <4>1. Cur.len \in Nat /\ Accumulated(Cur) \in Nat /\ MaxMessage \in Nat
          BY <2>1, CurFacts, SizesAssumption DEF Accumulated, TypeOK, MsgTypeOK
        <4>2. ~IsControlFrame(Cur)
          BY <2>1 DEF IsControlFrame, DataOps, ControlOps
        <4> QED BY <2>1, <4>1, <4>2 DEF TooBig
      <3> QED BY <2>1, <2>2, <3>1, MessageDataLength
    <2>4. /\ Len(delivered') = Len(delivered) + 1 /\ delivered'[Len(delivered) + 1] = m
          /\ \A k \in 1..Len(delivered) : delivered'[k] = delivered[k]
          /\ Len(delivered) \in Nat
      BY <2>1, <2>2 DEF TypeOK, MsgTypeOK
    <2>5. ASSUME NEW k \in 1..Len(delivered') PROVE Len(delivered'[k].payload) <= MaxMessage
      <3>1. k = Len(delivered) + 1 \/ k \in 1..Len(delivered)
        BY <2>4
      <3> QED BY <2>3, <2>4, <3>1 DEF MessagesFit
    <2> QED BY <2>5 DEF MessagesFit
  <1>3. UNCHANGED delivered \/ (HandleDataFrame /\ Cur.fin)
    <2>1. CASE HandleDataFrame
      BY <2>1 DEF HandleDataFrame
    <2>2. CASE ~HandleDataFrame
      BY <2>2 DEF Next, Network, Handshake, FrameLoop, Writer, Heartbeat, App, PeerSend,
         ReadSome, ReadFails, WriteCompletes, Tick, HandshakeReadError, HandshakeTooLarge,
         HandshakeIncomplete, HandshakeRejected, HandshakeReplyFails, HandshakeSucceeds,
         HandshakeFails, FrameReadError, OnFrameData, FrameProtocolError, FrameTooBig,
         LoopEnds, HandleClose, HandlePing, HandlePong, HandleDataFrameError, RunPosted,
         WriteError, CloseFrameWritten, FrameWritten, WriteNext, TimerStops,
         HeartbeatExpires, HeartbeatPing, HeartbeatRearms, AppSend, AppCloseChecks,
         AppCloseStores, AppClosePosts, msgVars, vars
    <2> QED BY <2>1, <2>2
  <1> QED BY <1>1, <1>2, <1>3

LEMMA MessagesFitHolds == Spec => []MessagesFit
  <1>1. Init => MessagesFit
    BY DEF Init, MessagesFit
  <1> QED BY <1>1, MessagesFitStep, InvariantHolds, PTL DEF Spec

-----------------------------------------------------------------------------
(* The limits: who is refused.                                             *)

Refuses(items) == \E i \in 1..Len(items) : Refusal(items[i])
Excess(log) == \E e \in 2..Len(log) : ExceedsLimits(log, e) \/ SaysTooBig(log[e])
RefusedInv == Refused => Excess(peerLog)

LEMMA RefusedWhere == Refused <=> Refuses(strand) \/ Refuses(queue) \/ Refuses(wire)
  BY DEF Refused, Refuses

\* More frames do not undo an excess.
LEMMA ExcessStays ==
    ASSUME NEW log \in Seq(FrameSet), NEW f \in FrameSet, Excess(log)
    PROVE  Excess(Append(log, f))
  <1>1. PICK log2 : log2 = Append(log, f)
    OBVIOUS
  <1>2. PICK n \in Nat : n = Len(log)
    OBVIOUS
  <1>3. Len(log2) = n + 1 /\ \A i \in 1..n : log2[i] = log[i]
    BY <1>1, <1>2
  <1>4. PICK e \in 2..n : ExceedsLimits(log, e) \/ SaysTooBig(log[e])
    BY <1>2 DEF Excess
  <1>5. log2[e] = log[e] /\ e \in 2..Len(log2)
    BY <1>3
  <1>6. Agree(log, log2, 2, n)
    BY <1>3 DEF Agree
  <1>7. ASSUME NEW s \in 2..e, IsRun(log, s, e), Len(RunPayload(log, s, e)) > MaxMessage
        PROVE  IsRun(log2, s, e) /\ Len(RunPayload(log2, s, e)) > MaxMessage
    <2>1. s \in 2..n /\ e \in s..n
      OBVIOUS
    <2>2. IsRun(log, s, e) => IsRun(log2, s, e)
      BY <1>6, <2>1, RunsStay
    <2>3. RunPayload(log, s, e) = RunPayload(log2, s, e)
      BY <1>6, <2>1, RunsStay
    <2> QED BY <1>7, <2>2, <2>3
  <1>8. ExceedsLimits(log2, e) \/ SaysTooBig(log2[e])
    BY <1>4, <1>5, <1>7 DEF ExceedsLimits
  <1> QED BY <1>1, <1>5, <1>8 DEF Excess

\* A refusal that was not there was posted by this step.
LEMMA RefusalPosted ==
    ASSUME TypeOK, NEW fr \in Seq(FrameSpecs), EnqueueFrame(fr),
           UNCHANGED <<queue, wire>>, Refused', ~Refused
    PROVE  \E i \in 1..Len(fr) : fr[i][1] = "Close" /\ fr[i][2] = MessageTooBig
  <1>1. strand \in Seq(ItemSet) /\ nposts \in Nat
    BY DEF TypeOK, PostTypeOK
  <1>2. /\ Len(strand') = Len(strand) + Len(fr)
        /\ \A i \in 1..Len(strand) : strand'[i] = strand[i]
        /\ \A i \in 1..Len(fr) : /\ strand'[Len(strand) + i].kind = fr[i][1]
                                 /\ strand'[Len(strand) + i].code = fr[i][2]
    BY <1>1, EnqueueFrameFacts
  <1>3. Refused' <=> Refuses(strand') \/ Refuses(queue') \/ Refuses(wire')
    BY DEF Refused, Refuses
  <1>4. Refuses(strand') /\ ~Refuses(strand)
    BY <1>3, RefusedWhere
  <1>5. PICK k \in 1..Len(strand') : Refusal(strand'[k])
    BY <1>4 DEF Refuses
  <1>6. Len(strand) \in Nat /\ Len(fr) \in Nat
    BY <1>1
  <1>7. k \notin 1..Len(strand)
    BY <1>2, <1>4, <1>5 DEF Refuses
  <1>8. PICK i \in 1..Len(fr) : k = Len(strand) + i
    <2>1. k - Len(strand) \in 1..Len(fr) /\ k = Len(strand) + (k - Len(strand))
      BY <1>2, <1>6, <1>7
    <2> QED BY <2>1
  <1> QED BY <1>2, <1>5, <1>8 DEF Refusal

\* A frame FrameTooBig stops at is too big, alone or with the fragments before it.
LEMMA TooBigExceeds ==
    ASSUME TypeOK, MsgInv, HandshakeInv, ReadInv, closeCalls = << >>, AtFrame, TooBig(Cur)
    PROVE  Excess(peerLog)
  <1>1. /\ next \in 2..Len(peerLog) /\ Cur \in Frames /\ Cur = peerLog[next]
        /\ Cur.len \in Nat /\ FrameTotalSize(Cur) \in Nat
    <2>1. next \in 2..Len(peerLog)
      BY DEF AtFrame, HandshakeInv, TypeOK, PeerTypeOK, ReadTypeOK
    <2> QED BY <2>1, CurFacts DEF ReadInv, Cur
  <1>2. SUFFICES ExceedsLimits(peerLog, next)
    BY <1>1 DEF Excess
  <1>3. CASE FrameTotalSize(Cur) > MaxFrameBuf
    BY <1>1, <1>3 DEF ExceedsLimits
  <1>4. CASE ~IsControlFrame(Cur) /\ Accumulated(Cur) + Cur.len > MaxMessage
    <2>1. IsData(Cur)
      BY <1>1, <1>4, FramesAssumption DEF IsControlFrame, IsData
    <2>2. CASE ~OutOfSequence(Cur)
      <3>1. PICK s \in 2..next : /\ IsRun(peerLog, s, next)
                                 /\ MessageData(next) = RunPayload(peerLog, s, next)
        BY <1>1, <2>1, <2>2, DataFrameRun
      <3>2. Len(MessageData(next)) = Accumulated(Cur) + Cur.len
        BY <2>1, MessageDataLength DEF IsData
      <3> QED BY <1>4, <3>1, <3>2 DEF ExceedsLimits
    <2>3. CASE OutOfSequence(Cur)
      <3>1. Accumulated(Cur) = 0
        BY <2>3 DEF Accumulated, OutOfSequence, MsgInv, TypeOK, MsgTypeOK
      <3> QED BY <1>1, <1>4, <2>1, <3>1, SizesAssumption DEF ExceedsLimits
    <2> QED BY <2>2, <2>3
  <1> QED BY <1>3, <1>4 DEF TooBig

\* With room for one read, a buffer that is full is full of a frame that is too big.
LEMMA FullExceeds ==
    ASSUME RoomForOneRead, TypeOK, HandshakeInv, ReadInv, state = "Active", io = "idle",
           next > 1, buffered + rdn > MaxFrameBuf
    PROVE  Excess(peerLog)
  <1>1. /\ buffered \in Nat /\ rdn \in Nat /\ rdn <= ReadBuf /\ next \in Nat
        /\ MaxMessage \in Nat /\ MaxControl \in Nat /\ MaxFrameBuf \in Nat /\ ReadBuf \in Nat
    BY SizesAssumption DEF TypeOK, ReadTypeOK, ReadInv
  <1>2. buffered > 1 + MaxMessage /\ buffered > 1 + MaxControl
    BY <1>1 DEF RoomForOneRead
  <1>3. /\ next \in 2..Len(peerLog) /\ buffered < FrameTotalSize(Cur)
        /\ IsData(Cur) => Cur.len <= MaxMessage
    <2>1. Partial
      BY DEF ReadInv
    <2>2. Len(peerLog) \in Nat
      BY DEF TypeOK, PeerTypeOK
    <2> QED BY <1>1, <1>2, <2>1, <2>2 DEF Partial
  <1>4. Cur \in Frames /\ Cur = peerLog[next]
    BY <1>3 DEF ReadInv, Cur
  <1>5. /\ Cur.len \in Nat /\ FrameTotalSize(Cur) <= 2 + Cur.len
        /\ FrameTotalSize(Cur) \in Nat
    BY <1>4, FramesAssumption DEF FrameSet, FrameTotalSize, HeaderLen, DataOps, ControlOps
  <1>6. ~IsData(Cur) /\ Cur.len > MaxControl
    <2>1. Cur.len > MaxMessage /\ Cur.len > MaxControl
      <3>1. PICK s \in Nat : s = FrameTotalSize(Cur)
        BY <1>5
      <3>2. buffered < s /\ s <= 2 + Cur.len
        BY <1>3, <1>5, <3>1
      <3> QED BY <1>1, <1>2, <1>5, <3>2
    <2> QED BY <1>1, <1>3, <1>5, <2>1
  <1>7. IsControlFrame(Cur)
    BY <1>4, <1>6, FramesAssumption DEF IsControlFrame, IsData
  <1>8. ExceedsLimits(peerLog, next)
    BY <1>4, <1>6, <1>7 DEF ExceedsLimits
  <1> QED BY <1>3, <1>8 DEF Excess

\* What a callback posts refuses nothing.
LEMMA CallbackRefusesNothing ==
    ASSUME NEW reply, NEW st, NEW i \in 1..Len(CallbackFrames(reply, st))
    PROVE  CallbackFrames(reply, st)[i][2] # MessageTooBig
  BY DEF CallbackFrames, NormalClosure, MessageTooBig

LEMMA CloseRefuses ==
    ASSUME TypeOK, NEW code \in Nat, Close(code), UNCHANGED <<queue, wire>>,
           Refused', ~Refused
    PROVE  state = "Active" /\ code = MessageTooBig
  <1>1. CASE state = "Active"
    <2>1. PICK fr \in Seq(FrameSpecs) : fr = << <<"Close", code>> >>
      BY FrameSpecFacts
    <2>2. EnqueueFrame(fr)
      BY <1>1, <2>1 DEF Close
    <2>3. \E i \in 1..Len(fr) : fr[i][1] = "Close" /\ fr[i][2] = MessageTooBig
      BY <2>2, RefusalPosted
    <2> QED BY <1>1, <2>1, <2>3
  <1>2. CASE state # "Active"
    BY <1>2 DEF Close, Refused, postVars
  <1> QED BY <1>1, <1>2

LEMMA RefusedStep ==
    ASSUME RoomForOneRead
    PROVE  IInv /\ HandshakeInv /\ MsgInv /\ ReadInv /\ RefusedInv /\ [Next]_vars
             => RefusedInv'
  <1> SUFFICES ASSUME IInv, HandshakeInv, MsgInv, ReadInv, RefusedInv, [Next]_vars, Refused'
               PROVE  Excess(peerLog')
    BY DEF RefusedInv
  <1>0. TypeOK /\ QueueInv
    BY DEF IInv
  <1>1. SUFFICES ASSUME ~Refused PROVE Excess(peerLog)
    <2>1. Excess(peerLog)
      BY <1>1 DEF RefusedInv
    <2>2. CASE UNCHANGED peerLog
      BY <2>1, <2>2
    <2>3. CASE PeerSend
      <3>1. PICK f \in Frames : peerLog' = Append(peerLog, f)
        BY <2>3 DEF PeerSend
      <3>2. f \in FrameSet /\ peerLog \in Seq(FrameSet)
        BY <1>0, FramesAssumption DEF TypeOK, PeerTypeOK
      <3> QED BY <2>1, <3>1, <3>2, ExcessStays
    <2>4. UNCHANGED peerLog \/ PeerSend
      BY DEF Next, Network, Handshake, FrameLoop, Writer, Heartbeat, App, ReadSome, ReadFails,
         WriteCompletes, Tick, HandshakeReadError, HandshakeTooLarge, HandshakeIncomplete,
         HandshakeRejected, HandshakeReplyFails, HandshakeSucceeds, HandshakeFails,
         FrameReadError, OnFrameData, FrameProtocolError, FrameTooBig, LoopEnds, HandleClose,
         HandlePing, HandlePong, HandleDataFrameError, HandleDataFrame, RunPosted, WriteError,
         CloseFrameWritten, FrameWritten, WriteNext, TimerStops, HeartbeatExpires,
         HeartbeatPing, HeartbeatRearms, AppSend, AppCloseChecks, AppCloseStores,
         AppClosePosts, peerVars, vars
    <2> QED BY <2>2, <2>3, <2>4
  <1>2. ~(UNCHANGED <<strand, queue, wire>>)
    BY <1>1 DEF Refused
  <1>3. CASE WriteCompletes
    <2>1. wire' = Append(wire, Head(queue)) /\ UNCHANGED <<strand, queue>>
      BY <1>2, <1>3 DEF WriteCompletes, postVars, queueVars
    <2>2. queue # << >> /\ queue \in Seq(ItemSet) /\ wire \in Seq(ItemSet)
      BY <1>0, <1>3 DEF WriteCompletes, QueueInv, TypeOK, QueueTypeOK
    <2>3. Refuses(wire') => Refuses(wire) \/ Refuses(queue)
      BY <2>1, <2>2 DEF Refuses
    <2> QED BY <1>1, <2>1, <2>3 DEF Refused, Refuses
  <1>4. CASE RunPosted
    <2>1. /\ queue' = Append(queue, Head(strand)) /\ strand' = Tail(strand)
          /\ UNCHANGED wire /\ strand # << >>
      BY <1>4 DEF RunPosted
    <2>2. queue \in Seq(ItemSet) /\ strand \in Seq(ItemSet)
      BY <1>0 DEF TypeOK, QueueTypeOK, PostTypeOK
    <2>3. Refuses(strand') => Refuses(strand)
      BY <2>1, <2>2 DEF Refuses
    <2>4. Refuses(queue') => Refuses(strand) \/ Refuses(queue)
      BY <2>1, <2>2 DEF Refuses
    <2> QED BY <1>1, <2>1, <2>3, <2>4 DEF Refused, Refuses
  <1>5. CASE WriteError \/ CloseFrameWritten \/ FrameWritten
    <2>1. queue' = Tail(queue) /\ UNCHANGED <<strand, wire>>
      BY <1>5 DEF WriteError, CloseFrameWritten, FrameWritten, WriteNext, postVars
    <2>2. queue # << >> /\ queue \in Seq(ItemSet)
      BY <1>0, <1>5 DEF WriteError, CloseFrameWritten, FrameWritten, QueueInv, TypeOK,
         QueueTypeOK
    <2>3. Refuses(queue') => Refuses(queue)
      BY <2>1, <2>2 DEF Refuses
    <2> QED BY <1>1, <2>1, <2>3 DEF Refused, Refuses
  <1>6. CASE HandshakeSucceeds \/ HandleDataFrame
    <2>1. /\ \E reply : \E st \in States : EnqueueFrame(CallbackFrames(reply, st))
          /\ UNCHANGED <<queue, wire>>
      <3>1. "Active" \in States /\ state \in States
        BY <1>0 DEF States, TypeOK, ConnTypeOK
      <3>2. CASE HandshakeSucceeds
        BY <3>1, <3>2 DEF HandshakeSucceeds, queueVars
      <3>3. CASE HandleDataFrame
        <4>1. UNCHANGED <<queue, wire>>
          BY <3>3 DEF HandleDataFrame, queueVars
        <4>2. strand' # strand
          BY <1>2, <4>1
        <4>3. \E reply : EnqueueFrame(CallbackFrames(reply, state))
          BY <3>3, <4>2 DEF HandleDataFrame, postVars
        <4> QED BY <3>1, <4>1, <4>3
      <3> QED BY <1>6, <3>2, <3>3
    <2>2. PICK reply : \E s \in States : EnqueueFrame(CallbackFrames(reply, s))
      BY <2>1
    <2>3. PICK st \in States : EnqueueFrame(CallbackFrames(reply, st))
      BY <2>2
    <2>4. CallbackFrames(reply, st) \in Seq(FrameSpecs)
      BY CallbackFacts
    <2> QED BY <1>0, <1>1, <2>1, <2>3, <2>4, RefusalPosted, CallbackRefusesNothing
  <1>7. CASE HandlePing
    <2>1. PICK reply : EnqueueFrame(CallbackFrames(reply, state) \o << <<"Pong", 0>> >>)
      BY <1>7 DEF HandlePing
    <2>2. PICK fr \in Seq(FrameSpecs) : fr = CallbackFrames(reply, state)
      BY <1>0, CallbackFacts DEF TypeOK, ConnTypeOK
    <2>3. PICK pong \in Seq(FrameSpecs) : pong = << <<"Pong", 0>> >>
      BY FrameSpecFacts
    <2>4. /\ fr \o pong \in Seq(FrameSpecs)
          /\ Len(fr \o pong) = Len(fr) + 1
          /\ \A i \in 1..(Len(fr) + 1) :
                (fr \o pong)[i] = IF i <= Len(fr) THEN fr[i] ELSE pong[i - Len(fr)]
      BY <2>3, ConcatProperties
    <2>5. UNCHANGED <<queue, wire>>
      BY <1>7 DEF HandlePing, queueVars
    <2>6. PICK i \in 1..Len(fr \o pong) :
              (fr \o pong)[i][1] = "Close" /\ (fr \o pong)[i][2] = MessageTooBig
      BY <1>0, <1>1, <2>1, <2>2, <2>3, <2>4, <2>5, RefusalPosted
    <2>7. CASE i <= Len(fr)
      <3>1. i \in 1..Len(fr) /\ fr[i][2] = MessageTooBig
        BY <2>4, <2>6, <2>7
      <3> QED BY <2>2, <3>1, CallbackRefusesNothing
    <2>8. CASE ~(i <= Len(fr))
      <3>1. i - Len(fr) = 1
        BY <2>4, <2>8
      <3> QED BY <2>3, <2>4, <2>6, <2>8, <3>1
    <2> QED BY <2>7, <2>8
  <1>8. CASE HandleClose
    <2>1. /\ AtFrame /\ Cur.op = "Close" /\ Close(EchoedCode(Cur))
          /\ UNCHANGED <<queue, wire>>
      BY <1>8 DEF HandleClose, queueVars
    <2>2. EchoedCode(Cur) \in Nat
      BY <1>0, <2>1, CurFacts, CodeFacts DEF EchoedCode
    <2>3. EchoedCode(Cur) = MessageTooBig
      BY <1>0, <1>1, <2>1, <2>2, CloseRefuses
    <2>4. SaysTooBig(peerLog[next])
      BY <2>1, <2>3 DEF EchoedCode, NoStatusReceived, MessageTooBig, SaysTooBig, Cur
    <2>5. next \in 2..Len(peerLog)
      BY <1>0, <2>1 DEF AtFrame, HandshakeInv, TypeOK, PeerTypeOK, ReadTypeOK
    <2> QED BY <2>4, <2>5 DEF Excess
  <1>9. CASE FrameTooBig
    <2>1. AtFrame /\ TooBig(Cur) /\ Close(MessageTooBig) /\ UNCHANGED <<queue, wire>>
      BY <1>9 DEF FrameTooBig, queueVars
    <2>2. state = "Active"
      BY <1>0, <1>1, <2>1, CodeFacts, CloseRefuses
    <2>3. closeCalls = << >>
      BY <2>2 DEF ReadInv
    <2> QED BY <1>0, <2>1, <2>3, TooBigExceeds
  <1>10. CASE OnFrameData
    <2>1. /\ Close(MessageTooBig) /\ buffered + rdn > MaxFrameBuf
          /\ io = "idle" /\ next > 1 /\ UNCHANGED <<queue, wire>>
      BY <1>2, <1>10 DEF OnFrameData, FrameBufFull, queueVars, postVars
    <2>2. state = "Active"
      BY <1>0, <1>1, <2>1, CodeFacts, CloseRefuses
    <2> QED BY <1>0, <2>1, <2>2, RoomForOneRead, FullExceeds
  <1>11. CASE HeartbeatPing \/ \E t \in Threads : AppSend(t) \/ AppClosePosts(t)
    <2>1. /\ \E fr \in {<< <<"Ping", 0>> >>, << <<"Text", 0>> >>,
                        << <<"Close", NormalClosure>> >>} : EnqueueFrame(fr)
          /\ UNCHANGED <<queue, wire>>
      BY <1>11 DEF HeartbeatPing, AppSend, AppClosePosts, queueVars
    <2>2. PICK fr \in {<< <<"Ping", 0>> >>, << <<"Text", 0>> >>,
                       << <<"Close", NormalClosure>> >>} : EnqueueFrame(fr)
      BY <2>1
    <2>3. fr \in Seq(FrameSpecs)
      BY FrameSpecFacts, CodeFacts
    <2>4. \E i \in 1..Len(fr) : fr[i][1] = "Close" /\ fr[i][2] = MessageTooBig
      BY <1>0, <1>1, <2>1, <2>2, <2>3, RefusalPosted
    <2> QED BY <2>4 DEF NormalClosure, MessageTooBig
  <1>12. CASE \/ PeerSend \/ ReadSome \/ ReadFails \/ Tick \/ HandshakeReadError
              \/ HandshakeTooLarge \/ HandshakeIncomplete \/ HandshakeRejected
              \/ HandshakeReplyFails \/ FrameReadError \/ FrameProtocolError \/ LoopEnds
              \/ HandlePong \/ HandleDataFrameError \/ TimerStops \/ HeartbeatExpires
              \/ HeartbeatRearms
              \/ (\E t \in Threads : AppCloseChecks(t) \/ AppCloseStores(t))
              \/ UNCHANGED vars
    BY <1>2, <1>12 DEF PeerSend, ReadSome, ReadFails, Tick, HandshakeReadError,
       HandshakeTooLarge, HandshakeIncomplete, HandshakeRejected, HandshakeReplyFails,
       HandshakeFails, FrameReadError, FrameProtocolError, LoopEnds, HandlePong,
       HandleDataFrameError, TimerStops, HeartbeatExpires, HeartbeatRearms, AppCloseChecks,
       AppCloseStores, postVars, queueVars, vars
  <1> QED BY <1>3, <1>4, <1>5, <1>6, <1>7, <1>8, <1>9, <1>10, <1>11, <1>12
    DEF Next, Network, Handshake, FrameLoop, Writer, Heartbeat, App

\* The limits cut where they should.  No message that message_handler_ gets exceeds
\* max_message_bytes, however it is fragmented; and when frame_buf_ has room for one read
\* on top of the longest legal frame, a peer is refused with 1009 only after a frame of its
\* own that is too big, alone or with the fragments before it, or that says 1009.
THEOREM LimitsCutExactly == ASSUME RoomForOneRead PROVE Spec => []LimitsExact
  <1>1. Init => RefusedInv
    BY DEF Init, RefusedInv, Refused
  <1>2. IInv /\ HandshakeInv /\ MsgInv /\ ReadInv /\ RefusedInv /\ [Next]_vars => RefusedInv'
    BY RefusedStep
  <1>3. MessagesFit /\ RefusedInv => LimitsExact
    BY DEF MessagesFit, RefusedInv, Excess, LimitsExact
  <1> QED BY <1>1, <1>2, <1>3, InvariantHolds, HandshakeInvHolds, MsgInvHolds, ReadInvHolds,
             MessagesFitHolds, PTL DEF Spec

-----------------------------------------------------------------------------
(* What a step does to the write side: nothing, post frames, close the     *)
(* socket, or one of the five steps of the writer.                         *)

Quiet == UNCHANGED <<strand, queue, wr, wire, open>>
Posts ==
    /\ \E fr \in Seq(FrameSpecs) : EnqueueFrame(fr)
    /\ UNCHANGED <<queue, wr, wire, open>>
Closes ==
    /\ \E code, r, t : DoClose(code, r, wr, t)
    /\ UNCHANGED <<strand, queue, wire>>
WriterSteps ==
    \/ WriteCompletes \/ RunPosted \/ WriteError \/ CloseFrameWritten
    \/ FrameWritten

LEMMA SessionCloseEffect ==
    ASSUME NEW code \in Nat, Close(code), UNCHANGED <<queueVars, wr, wire, open>>
    PROVE  Quiet \/ Posts
  <1>1. CASE state = "Active"
    <2>1. EnqueueFrame(<< <<"Close", code>> >>)
      BY <1>1 DEF Close
    <2> QED BY <2>1, FrameSpecFacts DEF Posts, queueVars
  <1>2. CASE state # "Active"
    BY <1>2 DEF Close, Quiet, queueVars, postVars
  <1> QED BY <1>1, <1>2

LEMMA WriteSideEffect ==
    ASSUME IInv, [Next]_vars
    PROVE  Quiet \/ Posts \/ Closes \/ WriterSteps
  <1>0. TypeOK
    BY DEF IInv
  <1>1. CASE \/ PeerSend \/ ReadSome \/ ReadFails \/ Tick \/ HandshakeIncomplete
             \/ LoopEnds \/ HandlePong \/ TimerStops \/ HeartbeatRearms
             \/ UNCHANGED vars
    <2>1. UNCHANGED <<postVars, queueVars, wr, wire, open>>
      BY <1>1 DEF PeerSend, ReadSome, ReadFails, Tick, HandshakeIncomplete,
                  LoopEnds, HandlePong, TimerStops, HeartbeatRearms, vars,
                  connVars
    <2> QED BY <2>1 DEF Quiet, postVars, queueVars
  <1>2. CASE HandshakeReadError \/ HandshakeTooLarge \/ HandshakeRejected
             \/ HandshakeReplyFails
    <2>1. PICK code : HandshakeFails(code)
      BY <1>2 DEF HandshakeReadError, HandshakeTooLarge, HandshakeRejected,
                  HandshakeReplyFails
    <2> QED BY <2>1 DEF HandshakeFails, Closes, postVars, queueVars
  <1>3. CASE HandshakeSucceeds
    <2>1. PICK reply \in Replies : EnqueueFrame(CallbackFrames(reply, "Active"))
      BY <1>3 DEF HandshakeSucceeds
    <2>2. CallbackFrames(reply, "Active") \in Seq(FrameSpecs)
      BY CallbackFacts DEF States
    <2>3. UNCHANGED <<queueVars, wr, wire, open>>
      BY <1>3 DEF HandshakeSucceeds
    <2> QED BY <2>1, <2>2, <2>3 DEF Posts, queueVars
  <1>4. CASE FrameReadError \/ FrameProtocolError \/ HandleDataFrameError
             \/ HeartbeatExpires
    <2>1. /\ \E code, r, t : DoClose(code, r, wr, t)
          /\ UNCHANGED <<postVars, queueVars, wire>>
      BY <1>4 DEF FrameReadError, FrameProtocolError, HandleDataFrameError,
                  HeartbeatExpires
    <2> QED BY <2>1 DEF Closes, postVars, queueVars
  <1>5. CASE OnFrameData
    <2>1. UNCHANGED <<queueVars, wr, wire, open>>
      BY <1>5 DEF OnFrameData
    <2>2. Close(MessageTooBig) \/ UNCHANGED postVars
      BY <1>5 DEF OnFrameData
    <2>3. CASE UNCHANGED postVars
      BY <2>1, <2>3 DEF Quiet, postVars, queueVars
    <2> QED BY <2>1, <2>2, <2>3, SessionCloseEffect, CodeFacts
  <1>6. CASE FrameTooBig
    BY <1>6, SessionCloseEffect, CodeFacts DEF FrameTooBig
  <1>7. CASE HandleClose
    <2>1. EchoedCode(Cur) \in Nat
      BY <1>0, <1>7, CurFacts, CodeFacts DEF EchoedCode, HandleClose
    <2> QED BY <1>7, <2>1, SessionCloseEffect DEF HandleClose
  <1>8. CASE HandlePing
    <2>1. PICK reply \in Replies :
             EnqueueFrame(CallbackFrames(reply, state) \o << <<"Pong", 0>> >>)
      BY <1>8 DEF HandlePing
    <2>2. CallbackFrames(reply, state) \in Seq(FrameSpecs)
      BY <1>0, CallbackFacts DEF TypeOK, ConnTypeOK
    <2>3. CallbackFrames(reply, state) \o << <<"Pong", 0>> >> \in Seq(FrameSpecs)
      BY <2>2, FrameSpecFacts, ConcatProperties
    <2>4. UNCHANGED <<queueVars, wr, wire, open>>
      BY <1>8 DEF HandlePing
    <2> QED BY <2>1, <2>3, <2>4 DEF Posts, queueVars
  <1>9. CASE HandleDataFrame
    <2>1. UNCHANGED <<queueVars, wr, wire, open>>
      BY <1>9 DEF HandleDataFrame
    <2>2. \/ UNCHANGED postVars
          \/ \E reply \in Replies : EnqueueFrame(CallbackFrames(reply, state))
      BY <1>9 DEF HandleDataFrame
    <2>3. CASE UNCHANGED postVars
      BY <2>1, <2>3 DEF Quiet, postVars, queueVars
    <2>4. ASSUME NEW reply, EnqueueFrame(CallbackFrames(reply, state)) PROVE Posts
      <3>1. CallbackFrames(reply, state) \in Seq(FrameSpecs)
        BY <1>0, CallbackFacts DEF TypeOK, ConnTypeOK
      <3> QED BY <2>1, <2>4, <3>1 DEF Posts, queueVars
    <2> QED BY <2>2, <2>3, <2>4
  <1>10. CASE HeartbeatPing
    BY <1>10, FrameSpecFacts DEF HeartbeatPing, Posts, queueVars
  <1>11. ASSUME NEW t \in Threads, App(t) PROVE Quiet \/ Posts
    <2>1. UNCHANGED <<queueVars, wr, wire, open>>
      BY <1>11 DEF App, AppSend, AppCloseChecks, AppCloseStores, AppClosePosts
    <2>2. CASE AppSend(t)
      BY <2>1, <2>2, FrameSpecFacts DEF AppSend, Posts, queueVars
    <2>3. CASE AppClosePosts(t)
      BY <2>1, <2>3, FrameSpecFacts, CodeFacts DEF AppClosePosts, Posts, queueVars
    <2>4. CASE AppCloseChecks(t) \/ AppCloseStores(t)
      BY <2>1, <2>4 DEF AppCloseChecks, AppCloseStores, Quiet, queueVars, postVars
    <2> QED BY <1>11, <2>2, <2>3, <2>4 DEF App
  <1> QED BY <1>1, <1>2, <1>3, <1>4, <1>5, <1>6, <1>7, <1>8, <1>9, <1>10, <1>11
          DEF Next, Network, Handshake, FrameLoop, Writer, Heartbeat, WriterSteps

-----------------------------------------------------------------------------
(* Each of these is a step of the outbox, or a stutter.                    *)

OutboxStep == [Outbox!Next]_Outbox!vars

LEMMA UnsentType == ASSUME TypeOK, QueueInv PROVE Unsent \in Seq(ItemSet)
  <1>1. /\ strand \in Seq(ItemSet) /\ queue \in Seq(ItemSet)
        /\ (wr = "ok" => queue # << >>)
    BY DEF TypeOK, PostTypeOK, QueueTypeOK, QueueInv
  <1>2. wr = "ok" => Tail(queue) \in Seq(ItemSet)
    BY <1>1, HeadTailProperties
  <1> QED BY <1>1, <1>2, ConcatProperties DEF Unsent

LEMMA StutterStep ==
    ASSUME Unsent' = Unsent, UNCHANGED <<wire, open>> PROVE OutboxStep
  <1>1. (~open \/ CloseFrameSent)' = (~open \/ CloseFrameSent)
    BY DEF CloseFrameSent
  <1> QED BY <1>1 DEF OutboxStep, Outbox!vars

LEMMA QuietStep == ASSUME Quiet PROVE OutboxStep
  BY StutterStep DEF Quiet, Unsent

\* The socket is closed, and at most the front of the queue is lost.
LEMMA ShutStep ==
    ASSUME open' = FALSE, wire' = wire,
           Unsent' = Unsent \/ (Unsent # << >> /\ Unsent' = Tail(Unsent))
    PROVE  OutboxStep
  BY DEF OutboxStep, Outbox!Next, Outbox!Shut

LEMMA ClosesStep == ASSUME Closes PROVE OutboxStep
  <1>1. open' = FALSE /\ wire' = wire
    BY DEF Closes, DoClose
  <1>2. (wr' = "ok") <=> (wr = "ok")
    BY DEF Closes, DoClose
  <1>3. Unsent' = Unsent
    BY <1>2 DEF Closes, Unsent
  <1> QED BY <1>1, <1>3, ShutStep

-----------------------------------------------------------------------------
(* Sequences.                                                              *)

LEMMA TailOfConcat ==
    ASSUME NEW S, NEW q \in Seq(S), q # << >>, NEW s \in Seq(S)
    PROVE  /\ q \o s # << >> /\ Head(q \o s) = Head(q)
           /\ Tail(q \o s) = Tail(q) \o s
  <1>1. Len(q) \in Nat \ {0} /\ Len(s) \in Nat
    BY EmptySeq
  <1>2. /\ q \o s \in Seq(S) /\ Len(q \o s) = Len(q) + Len(s)
        /\ \A i \in 1..(Len(q) + Len(s)) :
             (q \o s)[i] = IF i <= Len(q) THEN q[i] ELSE s[i - Len(q)]
    BY ConcatProperties
  <1>3. q \o s # << >>
    BY <1>1, <1>2, EmptySeq
  <1>4. Head(q \o s) = Head(q)
    BY <1>1, <1>2, <1>3
  <1>5. /\ Tail(q) \in Seq(S) /\ Len(Tail(q)) = Len(q) - 1
        /\ \A i \in 1..Len(Tail(q)) : Tail(q)[i] = q[i + 1]
    BY HeadTailProperties
  <1>6. /\ Tail(q \o s) \in Seq(S) /\ Len(Tail(q \o s)) = Len(q) + Len(s) - 1
        /\ \A i \in 1..(Len(q) + Len(s) - 1) : Tail(q \o s)[i] = (q \o s)[i + 1]
    BY <1>2, <1>3, HeadTailProperties
  <1>7. /\ Tail(q) \o s \in Seq(S) /\ Len(Tail(q) \o s) = Len(q) + Len(s) - 1
        /\ \A i \in 1..(Len(q) + Len(s) - 1) :
             (Tail(q) \o s)[i] =
                IF i <= Len(q) - 1 THEN Tail(q)[i] ELSE s[i - (Len(q) - 1)]
    BY <1>1, <1>5, ConcatProperties
  <1>8. ASSUME NEW i \in 1..(Len(q) + Len(s) - 1)
        PROVE  Tail(q \o s)[i] = (Tail(q) \o s)[i]
    BY <1>1, <1>2, <1>5, <1>6, <1>7
  <1>9. Tail(q \o s) = Tail(q) \o s
    BY <1>6, <1>7, <1>8, SeqEqual
  <1> QED BY <1>3, <1>4, <1>9

LEMMA PostedIsConcat ==
    ASSUME NEW S, NEW q \in Seq(S), NEW x \in S
    PROVE  Append(q, x) = q \o <<x>>
  OBVIOUS

LEMMA MoveHead ==
    ASSUME NEW S, NEW q \in Seq(S), NEW s \in Seq(S), s # << >>
    PROVE  Append(q, Head(s)) \o Tail(s) = q \o s
  <1>1. Head(s) \in S /\ Tail(s) \in Seq(S) /\ <<Head(s)>> \in Seq(S)
    BY HeadTailProperties
  <1>2. s = <<Head(s)>> \o Tail(s)
    OBVIOUS
  <1>3. (q \o <<Head(s)>>) \o Tail(s) = q \o (<<Head(s)>> \o Tail(s))
    BY <1>1, ConcatAssociative
  <1> QED BY <1>1, <1>2, <1>3, PostedIsConcat

LEMMA PrefixProperties ==
    ASSUME NEW S, NEW u, NEW n \in Nat, \A i \in 1..n : u[i] \in S
    PROVE  /\ SubSeq(u, 1, n) \in Seq(S) /\ Len(SubSeq(u, 1, n)) = n
           /\ \A i \in 1..n : SubSeq(u, 1, n)[i] = u[i]
  <1>1. PICK m \in Int : m = 1
    OBVIOUS
  <1>2. n \in Int /\ \A i \in m..n : u[i] \in S
    BY <1>1
  <1>3. /\ SubSeq(u, m, n) \in Seq(S)
        /\ Len(SubSeq(u, m, n)) = IF m <= n THEN n - m + 1 ELSE 0
        /\ \A i \in 1..(n - m + 1) : SubSeq(u, m, n)[i] = u[m + i - 1]
    BY <1>2, SubSeqProperties
  <1>4. Len(SubSeq(u, m, n)) = n
    BY <1>1, <1>3
  <1>5. \A i \in 1..n : SubSeq(u, m, n)[i] = u[i]
    BY <1>1, <1>3
  <1> QED BY <1>1, <1>3, <1>4, <1>5

LEMMA PrefixOfConcat ==
    ASSUME NEW S, NEW q \in Seq(S), NEW s \in Seq(S), NEW t \in Seq(S),
           Len(t) >= Len(s), \A i \in 1..Len(s) : t[i] = s[i]
    PROVE  /\ Len(q \o t) >= Len(q \o s)
           /\ SubSeq(q \o t, 1, Len(q \o s)) = q \o s
  <1>1. Len(q) \in Nat /\ Len(s) \in Nat /\ Len(t) \in Nat
    BY LenProperties
  <1>2. /\ q \o s \in Seq(S) /\ Len(q \o s) = Len(q) + Len(s)
        /\ \A i \in 1..(Len(q) + Len(s)) :
             (q \o s)[i] = IF i <= Len(q) THEN q[i] ELSE s[i - Len(q)]
    BY ConcatProperties
  <1>3. /\ q \o t \in Seq(S) /\ Len(q \o t) = Len(q) + Len(t)
        /\ \A i \in 1..(Len(q) + Len(t)) :
             (q \o t)[i] = IF i <= Len(q) THEN q[i] ELSE t[i - Len(q)]
    BY ConcatProperties
  <1>4. \A i \in 1..(Len(q) + Len(s)) : (q \o t)[i] = (q \o s)[i]
    BY <1>1, <1>2, <1>3
  <1> DEFINE n == Len(q) + Len(s)
  <1>5. \A i \in 1..n : (q \o t)[i] \in S
    BY <1>2, <1>4, ElementOfSeq
  <1>6. /\ SubSeq(q \o t, 1, n) \in Seq(S)
        /\ Len(SubSeq(q \o t, 1, n)) = n
        /\ \A i \in 1..n : SubSeq(q \o t, 1, n)[i] = (q \o t)[i]
    <2>1. n \in Nat
      BY <1>1
    <2> QED BY <1>5, <2>1, PrefixProperties
  <1>7. SubSeq(q \o t, 1, n) = q \o s
    BY <1>2, <1>4, <1>6, SeqEqual
  <1> QED BY <1>1, <1>2, <1>3, <1>7

-----------------------------------------------------------------------------
(* The steps that move frames.                                             *)

LEMMA PostsStep == ASSUME TypeOK, QueueInv, Posts PROVE OutboxStep
  <1>1. /\ strand \in Seq(ItemSet) /\ queue \in Seq(ItemSet) /\ nposts \in Nat
        /\ (wr = "ok" => queue # << >>)
    BY DEF TypeOK, PostTypeOK, QueueTypeOK, QueueInv
  <1>2. PICK fr \in Seq(FrameSpecs) : EnqueueFrame(fr)
    BY DEF Posts
  <1>3. Len(fr) \in Nat /\ Len(strand) \in Nat
    BY <1>1, LenProperties
  <1>4. /\ strand' \in Seq(ItemSet) /\ Len(strand') >= Len(strand)
        /\ \A i \in 1..Len(strand) : strand'[i] = strand[i]
    BY <1>1, <1>2, <1>3, EnqueueFrameFacts
  <1>5. PICK q \in Seq(ItemSet) : Unsent = q \o strand /\ Unsent' = q \o strand'
    <2>1. wr = "ok" => Tail(queue) \in Seq(ItemSet)
      BY <1>1, HeadTailProperties
    <2> QED BY <1>1, <2>1 DEF Unsent, Posts
  <1>6. /\ Unsent' \in Seq(ItemSet) /\ Len(Unsent') >= Len(Unsent)
        /\ SubSeq(Unsent', 1, Len(Unsent)) = Unsent
    BY <1>1, <1>4, <1>5, PrefixOfConcat, ConcatProperties
  <1>7. UNCHANGED <<wire, ~open \/ CloseFrameSent>>
    BY DEF Posts, CloseFrameSent
  <1> QED BY <1>6, <1>7 DEF OutboxStep, Outbox!Next, Outbox!Post

LEMMA WriteCompletesStep ==
    ASSUME TypeOK, QueueInv, WriteCompletes PROVE OutboxStep
  <1>1. /\ strand \in Seq(ItemSet) /\ queue \in Seq(ItemSet) /\ queue # << >>
        /\ wire \in Seq(ItemSet) /\ wr = "inflight" /\ open
        /\ UNCHANGED <<strand, queue, open>>
    BY DEF TypeOK, PostTypeOK, QueueTypeOK, QueueInv, WriteCompletes, postVars,
           queueVars
  <1>2. CASE wr' = "err" /\ wire' = wire
    BY <1>1, <1>2, StutterStep DEF Unsent
  <1>3. CASE wr' = "ok" /\ wire' = Append(wire, Head(queue))
    <2>1. /\ Unsent = queue \o strand /\ Unsent' = Tail(queue) \o strand
      BY <1>1, <1>3 DEF Unsent
    <2>2. /\ Unsent # << >> /\ Head(Unsent) = Head(queue)
          /\ Unsent' = Tail(Unsent)
      BY <1>1, <2>1, TailOfConcat
    <2>3. Head(queue) \in ItemSet
      BY <1>1, HeadTailProperties
    <2>4. ~CloseFrameSent
      BY <1>1 DEF QueueInv, CloseFrameSent
    <2>5. /\ Len(wire) \in Nat /\ Len(wire') = Len(wire) + 1
          /\ \A i \in 1..Len(wire) : wire'[i] = wire[i]
          /\ wire'[Len(wire) + 1] = Head(queue)
      BY <1>1, <1>3, <2>3, AppendProperties
    <2>6. CloseFrameSent' <=> Head(queue).kind = "Close"
      <3>1. CloseFrameSent' <=> \E i \in 1..Len(wire') : wire'[i].kind = "Close"
        BY DEF CloseFrameSent
      <3>2. \A i \in 1..Len(wire) : wire'[i].kind # "Close"
        BY <2>4, <2>5 DEF CloseFrameSent
      <3>3. \A i \in 1..Len(wire') : i \in 1..Len(wire) \/ i = Len(wire) + 1
        BY <2>5
      <3>4. Len(wire) + 1 \in 1..Len(wire')
        BY <2>5
      <3> QED BY <2>5, <3>1, <3>2, <3>3, <3>4
    <2>7. (~open \/ CloseFrameSent)' <=> Head(Unsent) \in CloseItems
      BY <1>1, <2>2, <2>3, <2>6 DEF CloseItems
    <2>8. (~open \/ CloseFrameSent)' = (Head(Unsent) \in CloseItems)
      BY <2>7 DEF CloseFrameSent
    <2> QED BY <1>1, <1>3, <2>2, <2>4, <2>8 DEF OutboxStep, Outbox!Next, Outbox!Send
  <1> QED BY <1>2, <1>3 DEF WriteCompletes

LEMMA RunPostedStep == ASSUME TypeOK, QueueInv, RunPosted PROVE OutboxStep
  <1>1. /\ strand \in Seq(ItemSet) /\ queue \in Seq(ItemSet) /\ strand # << >>
        /\ strand' = Tail(strand) /\ queue' = Append(queue, Head(strand))
        /\ UNCHANGED <<wire, open>>
    BY DEF TypeOK, PostTypeOK, QueueTypeOK, RunPosted
  <1>2. CASE wr = "ok"
    <2>1. queue # << >> /\ wr' = wr
      BY <1>2 DEF QueueInv, RunPosted
    <2>2. Head(strand) \in ItemSet /\ <<Head(strand)>> \in Seq(ItemSet)
      BY <1>1, HeadTailProperties
    <2>3. Tail(queue) \in Seq(ItemSet)
      BY <1>1, <2>1, HeadTailProperties
    <2>4. Tail(queue \o <<Head(strand)>>) = Tail(queue) \o <<Head(strand)>>
      BY <1>1, <2>1, <2>2, TailOfConcat
    <2>5. Tail(queue') = Append(Tail(queue), Head(strand))
      BY <1>1, <2>2, <2>3, <2>4, PostedIsConcat
    <2>6. Unsent' = Unsent
      BY <1>1, <1>2, <2>1, <2>3, <2>5, MoveHead DEF Unsent
    <2> QED BY <1>1, <2>6, StutterStep
  <1>3. CASE wr # "ok"
    <2>1. wr' # "ok"
      BY <1>3 DEF RunPosted, DoWrite
    <2>2. Unsent' = Unsent
      BY <1>1, <1>3, <2>1, MoveHead DEF Unsent
    <2> QED BY <1>1, <2>2, StutterStep
  <1> QED BY <1>2, <1>3

LEMMA WriterSideTypes ==
    ASSUME TypeOK, QueueInv, wr \in {"ok", "err"}
    PROVE  /\ strand \in Seq(ItemSet) /\ queue \in Seq(ItemSet)
           /\ queue # << >> /\ wire \in Seq(ItemSet)
  BY DEF TypeOK, PostTypeOK, QueueTypeOK, QueueInv

LEMMA WriteErrorStep == ASSUME TypeOK, QueueInv, WriteError PROVE OutboxStep
  <1>1. /\ wr = "err" /\ wr' = "none" /\ open' = FALSE
        /\ queue' = Tail(queue) /\ UNCHANGED <<strand, wire>>
    BY DEF WriteError, DoClose, postVars
  <1>2. Unsent # << >> /\ Unsent' = Tail(Unsent)
    BY <1>1, WriterSideTypes, TailOfConcat DEF Unsent
  <1> QED BY <1>1, <1>2, ShutStep

LEMMA CloseFrameWrittenStep ==
    ASSUME TypeOK, QueueInv, CloseFrameWritten PROVE OutboxStep
  <1>1. /\ wr = "ok" /\ wr' = "none" /\ open' = FALSE
        /\ queue' = Tail(queue) /\ UNCHANGED <<strand, wire>>
    BY DEF CloseFrameWritten, DoClose, postVars
  <1>2. Unsent' = Unsent
    BY <1>1 DEF Unsent
  <1> QED BY <1>1, <1>2, ShutStep

LEMMA FrameWrittenStep == ASSUME TypeOK, QueueInv, FrameWritten PROVE OutboxStep
  <1>1. /\ wr = "ok" /\ wr' # "ok" /\ queue' = Tail(queue)
        /\ UNCHANGED <<strand, wire, open>>
    BY DEF FrameWritten, WriteNext, DoWrite, postVars
  <1>2. Unsent' = Unsent
    BY <1>1 DEF Unsent
  <1> QED BY <1>1, <1>2, StutterStep

LEMMA OutboxInit == Init => Outbox!Init
  <1> SUFFICES ASSUME Init PROVE Outbox!Init
    OBVIOUS
  <1>1. strand = << >> /\ queue = << >> /\ wire = << >> /\ open = TRUE /\ wr = "none"
    BY DEF Init
  <1>2. Unsent = << >>
    BY <1>1, ConcatEmptySeq DEF Unsent
  <1>3. ~CloseFrameSent
    BY <1>1 DEF CloseFrameSent
  <1> QED BY <1>1, <1>2, <1>3 DEF Outbox!Init

LEMMA OutboxNext == IInv /\ [Next]_vars => OutboxStep
  <1> SUFFICES ASSUME IInv, [Next]_vars PROVE OutboxStep
    OBVIOUS
  <1>0. TypeOK /\ QueueInv
    BY DEF IInv
  <1>1. CASE Quiet \/ Posts \/ Closes
    BY <1>0, <1>1, QuietStep, PostsStep, ClosesStep
  <1>2. CASE WriterSteps
    BY <1>0, <1>2, WriteCompletesStep, RunPostedStep, WriteErrorStep,
       CloseFrameWrittenStep, FrameWrittenStep DEF WriterSteps
  <1> QED BY <1>1, <1>2, WriteSideEffect

\* The send path of WsSession (EnqueueFrame, DoWrite, DoClose) implements the
\* outbox: whatever threads post, frames leave in the order of posting and none
\* leaves after a Close frame or after the socket is closed.
THEOREM OutboxRefinement == Spec => ImplementsOutbox
  <1>1. IInv /\ [Next]_vars => [Outbox!Next]_Outbox!vars
    BY OutboxNext DEF OutboxStep
  <1> QED BY <1>1, OutboxInit, InvariantHolds, PTL
          DEF Spec, ImplementsOutbox, Outbox!Spec
=============================================================================
