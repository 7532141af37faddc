------------------------- MODULE MediaSessionProofs -------------------------
(***************************************************************************)
(* Proofs about MediaSession: type correctness, the order of the packets on*)
(* each client's wire, that nothing is sent on a closed socket, and the    *)
(* account of the multicast addresses.                                     *)
(***************************************************************************)
EXTENDS MediaSession, TLAPS

-----------------------------------------------------------------------------
(* Facts about sequences.                                                  *)

\* An appended sequence keeps its elements and ends in the new one.
LEMMA AppendElements ==
    ASSUME NEW S, NEW s \in Seq(S), NEW e \in S
    PROVE  /\ Append(s, e) \in Seq(S)
           /\ Len(Append(s, e)) = Len(s) + 1
           /\ \A i \in 1..Len(s) : Append(s, e)[i] = s[i]
           /\ Append(s, e)[Len(s) + 1] = e
  OBVIOUS

\* An element of a sequence.
LEMMA ElementType ==
    ASSUME NEW S, NEW s \in Seq(S), NEW i \in 1..Len(s) PROVE s[i] \in S
  OBVIOUS

\* The empty sequence is a sequence over any set.
LEMMA EmptyElements == ASSUME NEW S PROVE << >> \in Seq(S) /\ Len(<< >>) = 0
  OBVIOUS

-----------------------------------------------------------------------------
(* Type correctness.                                                       *)

\* FillRtpHeader leaves a sequence number within its width.
LEMMA NextSeqType ==
    ASSUME NEW s \in SeqNums PROVE (s + 1) % SeqSize \in SeqNums
  BY SeqAssumption DEF SeqNums

\* What SendRtp does to the numbers and to the wire, by type.
LEMMA SendRtpType ==
    ASSUME TypeOK, NEW t \in Threads, NEW h \in Sockets, NEW c \in Channels,
           NEW ok \in BOOLEAN, SendRtp(t, h, c, ok)
    PROVE  /\ seq' \in [Sockets -> [Channels -> SeqNums]]
           /\ wire' \in [Sockets -> Seq(Packet)]
  <1>1. seq[h] \in [Channels -> SeqNums] /\ seq[h][c] \in SeqNums
    BY DEF TypeOK
  <1>2. seq' \in [Sockets -> [Channels -> SeqNums]]
    <2>1. [seq[h] EXCEPT ![c] = (seq[h][c] + 1) % SeqSize] \in [Channels -> SeqNums]
      BY <1>1, NextSeqType
    <2>2. seq' = [seq EXCEPT ![h] = [seq[h] EXCEPT ![c] = (seq[h][c] + 1) % SeqSize]]
      BY DEF SendRtp
    <2>3. QED BY <2>1, <2>2 DEF TypeOK
  <1>3. Sent(t, h, c) \in Packet
    BY <1>1 DEF Sent, Packet, TypeOK
  <1>4. wire' \in [Sockets -> Seq(Packet)]
    <2>1. wire[h] \in Seq(Packet)
      BY DEF TypeOK
    <2>2. Append(wire[h], Sent(t, h, c)) \in Seq(Packet)
      BY <1>3, <2>1, AppendElements
    <2>3. wire' = IF ok THEN [wire EXCEPT ![h] = Append(wire[h], Sent(t, h, c))] ELSE wire
      BY DEF SendRtp
    <2>4. QED BY <2>2, <2>3 DEF TypeOK
  <1>5. QED BY <1>2, <1>4

-----------------------------------------------------------------------------
(* The inductive invariant.                                                *)

InFrame(t) == pc[t] \in {"packet", "dispatch", "send"}
InTable(t) == pc[t] \in {"dispatch", "send", "connecting", "disconnecting"}

\* A mutex is held by the one thread that is where it must be held.
LocksInv ==
    \A t \in Threads :
        /\ InFrame(t) <=> frameLock = t
        /\ InTable(t) <=> clientLock = t

\* A dispatch goes round clients of the table, with the newest frame.
DispatchInv ==
    \A t \in Threads :
        /\ InFrame(t) => frame[t] = Len(frames) /\ Len(frames) > 0
        /\ pc[t] \in {"dispatch", "send"} => todo[t] \subseteq clients
        /\ pc[t] = "send" => arg[t] \in todo[t] /\ arg[t] \in active

ClientsOpen == clients \subseteq open

\* No packet is ahead of the dispatch; a client still to visit lacks this packet.
BehindDispatch(h, p) ==
    /\ p.frame <= Len(frames)
    /\ \A t \in Threads : InFrame(t) /\ p.frame = Len(frames) =>
           /\ p.part <= part[t]
           /\ pc[t] = "packet" \/ h \in todo[t] => p.part < part[t]

WireInv ==
    /\ \A h \in Sockets : \A i \in 1..Len(wire[h]) : BehindDispatch(h, wire[h][i])
    /\ FramesInOrder

\* The session has an address from the moment it starts multicast.
AddressInv ==
    /\ ip # None => multicast \/ \E t \in Threads : pc[t] = "ports"
    /\ AddressesAccounted

IInv == TypeOK /\ LocksInv /\ DispatchInv /\ ClientsOpen

-----------------------------------------------------------------------------
\* Initially.
LEMMA InitInv == Init => IInv /\ WireInv /\ AddressInv
  <1>1. ASSUME Init PROVE TypeOK
    <2>1. frames \in Seq([channel : Channels, size : Nat])
      BY <1>1 DEF Init
    <2>2. wire \in [Sockets -> Seq(Packet)]
      BY <1>1, EmptyElements DEF Init
    <2>3. seq \in [Sockets -> [Channels -> SeqNums]]
      BY <1>1, SeqAssumption DEF Init, SeqNums
    <2>4. QED BY <1>1, <2>1, <2>2, <2>3 DEF Init, TypeOK, Labels
  <1>2. Init => LocksInv /\ DispatchInv /\ ClientsOpen
    BY NoneAssumption DEF Init, LocksInv, DispatchInv, ClientsOpen, InFrame, InTable
  <1>3. Init => WireInv
    <2>1. Init => \A h \in Sockets : Len(wire[h]) = 0
      BY EmptyElements DEF Init
    <2>2. QED BY <2>1 DEF WireInv, FramesInOrder
  <1>4. Init => AddressInv
    BY NoneAssumption DEF Init, AddressInv, AddressesAccounted
  <1>5. QED BY <1>1, <1>2, <1>3, <1>4 DEF IInv

-----------------------------------------------------------------------------
(* The invariant is kept.                                                  *)

\* The frame that is being dispatched is one of those handled.
LEMMA CurrentType ==
    ASSUME TypeOK, DispatchInv, NEW t \in Threads, InFrame(t)
    PROVE  /\ frame[t] = Len(frames) /\ frame[t] \in 1..Len(frames)
           /\ Current(t).channel \in Channels /\ made[Current(t).channel] \in Nat
  <1>1. frame[t] = Len(frames) /\ frame[t] \in 1..Len(frames)
    BY DEF DispatchInv, TypeOK
  <1>2. frames \in Seq([channel : Channels, size : Nat])
    BY DEF TypeOK
  <1>3. frames[frame[t]] \in [channel : Channels, size : Nat]
    BY <1>1, <1>2, ElementType
  <1> QED BY <1>1, <1>3 DEF Current, TypeOK

\* The steps of HandleFrame.
LEMMA FrameKeeps ==
    ASSUME IInv,
           \/ \E t \in Threads, c \in Sources, n \in 1..MaxParts : HandleFrame(t, c, n)
           \/ \E t \in Threads : DispatchToClients(t)
           \/ \E t \in Threads, h \in Sockets : SkipClient(t, h)
           \/ \E t \in Threads, h \in Sockets : LockClient(t, h)
           \/ \E t \in Threads, ok \in BOOLEAN : SendRtpPacket(t, ok)
           \/ \E t \in Threads : NextPacket(t)
           \/ \E t \in Threads : FrameEnds(t)
    PROVE  IInv'
  <1> USE NoneAssumption DEF IInv, TypeOK, Labels, Goto, InFrame, InTable,
          lockVars, tableVars, threadVars, ownerVars, madeVars, streamVars, castVars
  <1>1. ASSUME NEW t \in Threads, NEW c \in Sources, NEW n \in 1..MaxParts, HandleFrame(t, c, n)
        PROVE IInv'
    <2> USE <1>1 DEF HandleFrame
    <2>1. frames' \in Seq([channel : Channels, size : Nat]) /\ Len(frames') = Len(frames) + 1
      BY SourcesAssumption, BoundsAssumption, AppendElements
    <2>2. TypeOK'
      <3>1. frame' \in [Threads -> Nat] /\ part' \in [Threads -> Nat]
        <4>1. Len(frames) + 1 \in Nat
          OBVIOUS
        <4> QED BY <4>1
      <3>2. made' \in [Channels -> Nat]
        <4>1. c \in Channels /\ made[c] + 1 \in Nat
          BY SourcesAssumption
        <4> QED BY <4>1
      <3>3. pc' \in [Threads -> Labels]
        OBVIOUS
      <3> QED BY <2>1, <3>1, <3>2, <3>3
    <2>3. LocksInv'
      BY DEF LocksInv
    <2>4. DispatchInv'
      <3>1. \A u \in Threads : InFrame(u)' => u = t
        BY DEF LocksInv
      <3>2. frame'[t] = Len(frames') /\ Len(frames') > 0
        BY <2>1
      <3>3. \A u \in Threads : pc'[u] \in {"dispatch", "send"} =>
               u # t /\ pc'[u] = pc[u] /\ todo'[u] = todo[u] /\ arg'[u] = arg[u]
        OBVIOUS
      <3> QED BY <3>1, <3>2, <3>3 DEF DispatchInv
    <2>5. ClientsOpen'
      BY DEF ClientsOpen
    <2>6. QED BY <2>2, <2>3, <2>4, <2>5
  <1>2. ASSUME NEW t \in Threads, DispatchToClients(t) PROVE IInv'
    <2> USE <1>2 DEF DispatchToClients
    <2>2. TypeOK'
      OBVIOUS
    <2>3. LocksInv'
      BY DEF LocksInv
    <2>4. DispatchInv'
      BY DEF DispatchInv, LocksInv
    <2>5. ClientsOpen'
      BY DEF ClientsOpen
    <2>6. QED BY <2>2, <2>3, <2>4, <2>5
  <1>3. ASSUME NEW t \in Threads, NEW h \in Sockets, SkipClient(t, h) PROVE IInv'
    <2> USE <1>3 DEF SkipClient
    <2>2. TypeOK'
      OBVIOUS
    <2>3. LocksInv'
      BY DEF LocksInv
    <2>4. DispatchInv'
      BY DEF DispatchInv, LocksInv
    <2>5. ClientsOpen'
      BY DEF ClientsOpen
    <2>6. QED BY <2>2, <2>3, <2>4, <2>5
  <1>4. ASSUME NEW t \in Threads, NEW h \in Sockets, LockClient(t, h) PROVE IInv'
    <2> USE <1>4 DEF LockClient, IsNext
    <2>2. TypeOK'
      OBVIOUS
    <2>3. LocksInv'
      BY DEF LocksInv
    <2>4. DispatchInv'
      BY DEF DispatchInv, LocksInv
    <2>5. ClientsOpen'
      BY DEF ClientsOpen
    <2>6. QED BY <2>2, <2>3, <2>4, <2>5
  <1>5. ASSUME NEW t \in Threads, NEW ok \in BOOLEAN, SendRtpPacket(t, ok) PROVE IInv'
    <2> USE <1>5 DEF SendRtpPacket
    <2>1. arg[t] \in Sockets /\ Current(t).channel \in Channels
      BY CurrentType DEF DispatchInv
    <2>2. TypeOK'
      <3>1. SendRtp(t, arg[t], Current(t).channel, ok)
        OBVIOUS
      <3>2. seq' \in [Sockets -> [Channels -> SeqNums]] /\ wire' \in [Sockets -> Seq(Packet)]
        BY <2>1, <3>1, SendRtpType
      <3> QED BY <3>2
    <2>3. LocksInv'
      BY DEF LocksInv
    <2>4. DispatchInv'
      BY DEF DispatchInv, LocksInv
    <2>5. ClientsOpen'
      BY DEF ClientsOpen
    <2>6. QED BY <2>2, <2>3, <2>4, <2>5
  <1>6. ASSUME NEW t \in Threads, NextPacket(t) PROVE IInv'
    <2> USE <1>6 DEF NextPacket
    <2>1. made' \in [Channels -> Nat]
      <3>1. PICK d \in Channels : d = Current(t).channel
        BY CurrentType
      <3>2. made' = [made EXCEPT ![d] = @ + 1] /\ made[d] + 1 \in Nat
        BY <3>1
      <3> QED BY <3>2, SMTT(30)
    <2>2. TypeOK'
      <3>1. part' \in [Threads -> Nat] /\ pc' \in [Threads -> Labels]
        OBVIOUS
      <3> QED BY <2>1, <3>1
    <2>3. LocksInv'
      BY DEF LocksInv
    <2>4. DispatchInv'
      BY DEF DispatchInv, LocksInv
    <2>5. ClientsOpen'
      BY DEF ClientsOpen
    <2>6. QED BY <2>2, <2>3, <2>4, <2>5
  <1>7. ASSUME NEW t \in Threads, FrameEnds(t) PROVE IInv'
    <2> USE <1>7 DEF FrameEnds
    <2>2. TypeOK'
      OBVIOUS
    <2>3. LocksInv'
      BY DEF LocksInv
    <2>4. DispatchInv'
      BY DEF DispatchInv, LocksInv
    <2>5. ClientsOpen'
      BY DEF ClientsOpen
    <2>6. QED BY <2>2, <2>3, <2>4, <2>5
  <1> HIDE DEF IInv, TypeOK, Labels, Goto, InFrame, InTable
  <1>8. QED BY <1>1, <1>2, <1>3, <1>4, <1>5, <1>6, <1>7

\* The steps of AddClient and RemoveClient.
LEMMA TableKeeps ==
    ASSUME IInv,
           \/ \E t \in Threads, h \in Sockets, b \in InitialActive : AddClient(t, h, b)
           \/ \E t \in Threads, h \in Sockets : RemoveClient(t, h)
           \/ \E t \in Threads, h \in Sockets : RemoveExpired(t, h)
           \/ \E t \in Threads : Notified(t)
    PROVE  IInv'
  <1> USE NoneAssumption DEF IInv, TypeOK, Labels, Goto, InFrame, InTable,
          lockVars, tableVars, threadVars, ownerVars, madeVars, streamVars, castVars
  <1>1. ASSUME NEW t \in Threads, NEW h \in Sockets, NEW b \in InitialActive, AddClient(t, h, b)
        PROVE IInv'
    <2> USE <1>1 DEF AddClient
    <2>1. wire' \in [Sockets -> Seq(Packet)]
      BY EmptyElements
    <2>2. TypeOK'
      BY <2>1
    <2>3. LocksInv'
      BY DEF LocksInv
    <2>4. DispatchInv'
      BY DEF DispatchInv, LocksInv
    <2>5. ClientsOpen'
      BY DEF ClientsOpen
    <2>6. QED BY <2>2, <2>3, <2>4, <2>5
  <1>2. ASSUME NEW t \in Threads, NEW h \in Sockets, RemoveClient(t, h) PROVE IInv'
    <2> USE <1>2 DEF RemoveClient
    <2>2. TypeOK'
      OBVIOUS
    <2>3. LocksInv'
      BY DEF LocksInv
    <2>4. DispatchInv'
      BY DEF DispatchInv, LocksInv
    <2>5. ClientsOpen'
      BY DEF ClientsOpen
    <2>6. QED BY <2>2, <2>3, <2>4, <2>5
  <1>3. ASSUME NEW t \in Threads, NEW h \in Sockets, RemoveExpired(t, h) PROVE IInv'
    <2> USE <1>3 DEF RemoveExpired, Erase
    <2>2. TypeOK'
      OBVIOUS
    <2>3. LocksInv'
      BY DEF LocksInv
    <2>4. DispatchInv'
      BY DEF DispatchInv, LocksInv
    <2>5. ClientsOpen'
      BY DEF ClientsOpen
    <2>6. QED BY <2>2, <2>3, <2>4, <2>5
  <1>4. ASSUME NEW t \in Threads, Notified(t) PROVE IInv'
    <2> USE <1>4 DEF Notified, Erase
    <2>2. TypeOK'
      OBVIOUS
    <2>3. LocksInv'
      BY DEF LocksInv
    <2>4. DispatchInv'
      BY DEF DispatchInv, LocksInv
    <2>5. ClientsOpen'
      BY DEF ClientsOpen
    <2>6. QED BY <2>2, <2>3, <2>4, <2>5
  <1> HIDE DEF IInv, TypeOK, Labels, Goto, InFrame, InTable
  <1>5. QED BY <1>1, <1>2, <1>3, <1>4

\* The owner, multicast, the other sessions and the destructor.
LEMMA OthersKeep ==
    ASSUME IInv,
           \/ \E t \in Threads : StartMulticast(t)
           \/ \E t \in Threads : MulticastStarts(t)
           \/ \E t \in Threads : NoAddress(t)
           \/ \E h \in Sockets, s \in InitialSeq : Connect(h, s)
           \/ \E h \in Sockets : DropTransport(h)
           \/ \E h \in Sockets : CloseSocket(h)
           \/ \E a \in Addresses : OtherTakes(a)
           \/ \E a \in Addresses : OtherReleases(a)
           \/ Destroy
    PROVE  IInv'
  <1> USE NoneAssumption DEF IInv, TypeOK, Labels, Goto, InFrame, InTable,
          lockVars, tableVars, threadVars, ownerVars, madeVars, streamVars, castVars
  <1>1. ASSUME NEW t \in Threads, StartMulticast(t) PROVE IInv'
    <2> USE <1>1 DEF StartMulticast, GetMulticastIp
    <2>2. TypeOK'
      OBVIOUS
    <2>3. LocksInv'
      BY DEF LocksInv
    <2>4. DispatchInv'
      BY DEF DispatchInv, LocksInv
    <2>5. ClientsOpen'
      BY DEF ClientsOpen
    <2>6. QED BY <2>2, <2>3, <2>4, <2>5
  <1>2. ASSUME NEW t \in Threads, MulticastStarts(t) PROVE IInv'
    <2> USE <1>2 DEF MulticastStarts
    <2>2. TypeOK'
      OBVIOUS
    <2>3. LocksInv'
      BY DEF LocksInv
    <2>4. DispatchInv'
      BY DEF DispatchInv, LocksInv
    <2>5. ClientsOpen'
      BY DEF ClientsOpen
    <2>6. QED BY <2>2, <2>3, <2>4, <2>5
  <1>3. ASSUME NEW t \in Threads, NoAddress(t) PROVE IInv'
    <2> USE <1>3 DEF NoAddress
    <2>2. TypeOK'
      OBVIOUS
    <2>3. LocksInv'
      BY DEF LocksInv
    <2>4. DispatchInv'
      BY DEF DispatchInv, LocksInv
    <2>5. ClientsOpen'
      BY DEF ClientsOpen
    <2>6. QED BY <2>2, <2>3, <2>4, <2>5
  <1>4. ASSUME NEW h \in Sockets, NEW s \in InitialSeq, Connect(h, s) PROVE IInv'
    <2> USE <1>4 DEF Connect
    <2>1. seq' \in [Sockets -> [Channels -> SeqNums]]
      BY SeqAssumption DEF SeqNums
    <2>2. TypeOK'
      BY <2>1, EmptyElements
    <2>3. LocksInv'
      BY DEF LocksInv
    <2>4. DispatchInv'
      BY DEF DispatchInv, LocksInv
    <2>5. ClientsOpen'
      BY DEF ClientsOpen
    <2>6. QED BY <2>2, <2>3, <2>4, <2>5
  <1>5. ASSUME NEW h \in Sockets, DropTransport(h) PROVE IInv'
    <2> USE <1>5 DEF DropTransport
    <2>2. TypeOK'
      OBVIOUS
    <2>3. LocksInv'
      BY DEF LocksInv
    <2>4. DispatchInv'
      BY DEF DispatchInv, LocksInv
    <2>5. ClientsOpen'
      BY DEF ClientsOpen
    <2>6. QED BY <2>2, <2>3, <2>4, <2>5
  <1>6. ASSUME NEW h \in Sockets, CloseSocket(h) PROVE IInv'
    <2> USE <1>6 DEF CloseSocket, SeqNums
    <2>1. seq' \in [Sockets -> [Channels -> SeqNums]]
      BY SeqAssumption DEF SeqNums
    <2>2. TypeOK'
      BY <2>1, EmptyElements
    <2>3. LocksInv'
      BY DEF LocksInv
    <2>4. DispatchInv'
      BY DEF DispatchInv, LocksInv
    <2>5. ClientsOpen'
      BY DEF ClientsOpen
    <2>6. QED BY <2>2, <2>3, <2>4, <2>5
  <1>7. ASSUME NEW a \in Addresses, OtherTakes(a) PROVE IInv'
    <2> USE <1>7 DEF OtherTakes
    <2>2. TypeOK'
      OBVIOUS
    <2>3. LocksInv'
      BY DEF LocksInv
    <2>4. DispatchInv'
      BY DEF DispatchInv, LocksInv
    <2>5. ClientsOpen'
      BY DEF ClientsOpen
    <2>6. QED BY <2>2, <2>3, <2>4, <2>5
  <1>8. ASSUME NEW a \in Addresses, OtherReleases(a) PROVE IInv'
    <2> USE <1>8 DEF OtherReleases
    <2>2. TypeOK'
      OBVIOUS
    <2>3. LocksInv'
      BY DEF LocksInv
    <2>4. DispatchInv'
      BY DEF DispatchInv, LocksInv
    <2>5. ClientsOpen'
      BY DEF ClientsOpen
    <2>6. QED BY <2>2, <2>3, <2>4, <2>5
  <1>9. ASSUME Destroy PROVE IInv'
    <2> USE <1>9 DEF Destroy
    <2>2. TypeOK'
      OBVIOUS
    <2>3. LocksInv'
      BY DEF LocksInv
    <2>4. DispatchInv'
      BY DEF DispatchInv, LocksInv
    <2>5. ClientsOpen'
      BY DEF ClientsOpen
    <2>6. QED BY <2>2, <2>3, <2>4, <2>5
  <1> HIDE DEF IInv, TypeOK, Labels, Goto, InFrame, InTable
  <1>10. QED BY <1>1, <1>2, <1>3, <1>4, <1>5, <1>6, <1>7, <1>8, <1>9

\* Every step.
LEMMA NextKeeps == IInv /\ [Next]_vars => IInv'
  <1>1. IInv /\ UNCHANGED vars => IInv'
    BY DEF IInv, vars, lockVars, tableVars, threadVars, ownerVars, madeVars,
           streamVars, castVars, TypeOK, LocksInv, DispatchInv, ClientsOpen, InFrame, InTable
  <1>2. IInv /\ Next => IInv'
    BY FrameKeeps, TableKeeps, OthersKeep
    DEF Next, Frame, Table, Multicast, Owner, OtherSessions
  <1>3. QED BY <1>1, <1>2

-----------------------------------------------------------------------------
(* The order of the packets.                                               *)

\* A packet stays behind the dispatch.
LEMMA BehindKeeps ==
    ASSUME IInv, NEW h \in Sockets, NEW p \in Packet, BehindDispatch(h, p), Next
    PROVE  BehindDispatch(h, p)'
  <1> USE DEF IInv, TypeOK, InFrame, InTable, BehindDispatch, Packet, Goto
  <1>0. \A t, u \in Threads : InFrame(t) /\ InFrame(u) => t = u
    BY NoneAssumption DEF LocksInv
  <1>1. ASSUME NEW t \in Threads, Frame(t) PROVE BehindDispatch(h, p)'
    <2>1. ASSUME NEW c \in Sources, NEW n \in 1..MaxParts, HandleFrame(t, c, n)
          PROVE  BehindDispatch(h, p)'
      <3>1. Len(frames') = Len(frames) + 1
        BY <2>1, SourcesAssumption, BoundsAssumption, AppendElements DEF HandleFrame
      <3>2. QED BY <3>1
    <2>2. ASSUME DispatchToClients(t) PROVE BehindDispatch(h, p)'
      BY <2>2 DEF DispatchToClients, madeVars, streamVars
    <2>3. ASSUME NEW g \in Sockets, SkipClient(t, g) PROVE BehindDispatch(h, p)'
      BY <2>3 DEF SkipClient, madeVars, streamVars
    <2>4. ASSUME NEW g \in Sockets, LockClient(t, g) PROVE BehindDispatch(h, p)'
      BY <2>4 DEF LockClient, madeVars, streamVars
    <2>5. ASSUME NEW ok \in BOOLEAN, SendRtpPacket(t, ok) PROVE BehindDispatch(h, p)'
      BY <2>5 DEF SendRtpPacket, madeVars
    <2>6. ASSUME NextPacket(t) PROVE BehindDispatch(h, p)'
      BY <2>6 DEF NextPacket, streamVars
    <2>7. ASSUME FrameEnds(t) PROVE BehindDispatch(h, p)'
      BY <2>7 DEF FrameEnds, madeVars, streamVars
    <2>8. QED BY <1>1, <2>1, <2>2, <2>3, <2>4, <2>5, <2>6, <2>7 DEF Frame
  <1>2. ASSUME NEW t \in Threads, Table(t) PROVE BehindDispatch(h, p)'
    BY <1>2 DEF Table, AddClient, RemoveClient, RemoveExpired, Notified,
           threadVars, madeVars, streamVars
  <1>3. ASSUME NEW t \in Threads, Multicast(t) PROVE BehindDispatch(h, p)'
    BY <1>3 DEF Multicast, StartMulticast, MulticastStarts, NoAddress,
           threadVars, madeVars, streamVars
  <1>4. ASSUME Owner \/ OtherSessions \/ Destroy PROVE BehindDispatch(h, p)'
    BY <1>4 DEF Owner, Connect, DropTransport, CloseSocket, OtherSessions, OtherTakes,
                OtherReleases, Destroy, threadVars, madeVars, streamVars
  <1>5. QED BY <1>1, <1>2, <1>3, <1>4 DEF Next

\* The packets on the wires are packets.
LEMMA WireType ==
    ASSUME TypeOK, NEW h \in Sockets, NEW i \in 1..Len(wire[h])
    PROVE  wire[h] \in Seq(Packet) /\ Len(wire[h]) \in Nat /\ wire[h][i] \in Packet
  <1>1. wire[h] \in Seq(Packet)
    BY DEF TypeOK
  <1>2. QED BY <1>1, ElementType

\* A step that adds nothing to the wire of a client keeps it in order.
LEMMA WireStays ==
    ASSUME IInv, WireInv, Next, NEW h \in Sockets, wire'[h] = wire[h] \/ wire'[h] = << >>
    PROVE  /\ \A i \in 1..Len(wire'[h]) : BehindDispatch(h, wire[h][i])'
           /\ \A i, j \in 1..Len(wire'[h]) : i < j => After(wire'[h][i], wire'[h][j])
  <1>1. CASE wire'[h] = << >>
    BY <1>1, EmptyElements
  <1>2. CASE wire'[h] = wire[h]
    <2>1. \A i \in 1..Len(wire[h]) : wire[h][i] \in Packet /\ BehindDispatch(h, wire[h][i])
      BY WireType DEF WireInv, IInv
    <2>2. \A q \in Packet : BehindDispatch(h, q) => BehindDispatch(h, q)'
      BY BehindKeeps
    <2>3. \A i \in 1..Len(wire'[h]) : BehindDispatch(h, wire[h][i])'
      BY <1>2, <2>1, <2>2 DEF BehindDispatch
    <2>4. QED BY <1>2, <2>3 DEF WireInv, FramesInOrder
  <1>3. QED BY <1>1, <1>2

\* The packet sent follows what the client has, and is behind the dispatch after it.
LEMMA SendKeepsOrder ==
    ASSUME IInv, WireInv, NEW t \in Threads, SendRtpPacket(t, TRUE),
           NEW h \in Sockets, arg[t] = h
    PROVE  /\ \A i \in 1..Len(wire'[h]) : BehindDispatch(h, wire[h][i])'
           /\ \A i, j \in 1..Len(wire'[h]) : i < j => After(wire'[h][i], wire'[h][j])
  <1>1. h \in todo[t] /\ frame[t] = Len(frames) /\ InFrame(t) /\ InTable(t)
    BY DEF IInv, TypeOK, DispatchInv, SendRtpPacket, InFrame, InTable
  <1>2. Next
    BY DEF Next, Frame
  <1>3. \A i \in 1..Len(wire[h]) : wire[h][i] \in Packet /\ BehindDispatch(h, wire[h][i])
    BY WireType DEF WireInv, IInv
  <1>4. \A q \in Packet : BehindDispatch(h, q) => BehindDispatch(h, q)'
    BY <1>2, BehindKeeps
  <1>5. frame[t] \in 1..Len(frames) /\ Current(t).channel \in Channels
    BY <1>1, CurrentType DEF IInv
  <1>6. PICK p : p = Sent(t, h, Current(t).channel)
    OBVIOUS
  <1>7. p \in Packet /\ p.frame = Len(frames) /\ p.part = part[t]
    BY <1>1, <1>5, <1>6 DEF Sent, Packet, IInv, TypeOK
  <1>8. wire'[h] = Append(wire[h], p) /\ wire[h] \in Seq(Packet)
    BY <1>6 DEF SendRtpPacket, SendRtp, IInv, TypeOK
  <1>9. /\ Len(wire'[h]) = Len(wire[h]) + 1 /\ Len(wire[h]) \in Nat
        /\ \A i \in 1..Len(wire[h]) : wire'[h][i] = wire[h][i]
        /\ wire'[h][Len(wire[h]) + 1] = p
    BY <1>7, <1>8, AppendElements
  <1>10. BehindDispatch(h, p)'
    <2>1. \A u \in Threads : InFrame(u) => u = t
      BY <1>1 DEF IInv, LocksInv
    <2>2. \A u \in Threads : InFrame(u)' => u = t
      BY <2>1 DEF SendRtpPacket, Goto, InFrame, IInv, TypeOK
    <2>3. frames' = frames /\ part' = part /\ h \notin todo'[t] /\ pc'[t] = "dispatch"
      BY DEF SendRtpPacket, Goto, madeVars, IInv, TypeOK
    <2>4. Len(frames) \in Nat /\ part[t] \in Nat
      BY DEF IInv, TypeOK
    <2>5. QED BY <1>7, <2>2, <2>3, <2>4 DEF BehindDispatch
  <1>11. \A i \in 1..Len(wire'[h]) : BehindDispatch(h, wire[h][i])'
    <2>1. ASSUME NEW i \in 1..Len(wire'[h]), NEW q \in Packet, q = wire'[h][i]
          PROVE  BehindDispatch(h, q)'
      <3>1. CASE i = Len(wire[h]) + 1
        BY <1>9, <1>10, <2>1, <3>1 DEF BehindDispatch
      <3>2. CASE i \in 1..Len(wire[h])
        BY <1>3, <1>4, <1>9, <2>1, <3>2 DEF BehindDispatch
      <3>3. QED BY <1>9, <3>1, <3>2
    <2>2. \A i \in 1..Len(wire'[h]) : wire'[h][i] \in Packet
      BY <1>3, <1>7, <1>9
    <2>3. QED BY <2>1, <2>2 DEF BehindDispatch
  <1>12. \A i \in 1..Len(wire[h]) : After(wire[h][i], p)
    <2>1. ASSUME NEW i \in 1..Len(wire[h]) PROVE After(wire[h][i], p)
      <3>1. PICK q \in Packet : q = wire[h][i] /\ BehindDispatch(h, q)
        BY <1>3
      <3>2. q.frame \in Nat /\ q.part \in Nat
        BY <3>1 DEF Packet
      <3>3. q.frame <= Len(frames) /\ (q.frame = Len(frames) => q.part < part[t])
        BY <1>1, <3>1 DEF BehindDispatch
      <3>4. After(q, p)
        BY <1>7, <3>2, <3>3 DEF After, IInv, TypeOK
      <3>5. QED BY <3>1, <3>4
    <2>2. QED BY <2>1
  <1>13. \A i, j \in 1..Len(wire'[h]) : i < j => After(wire'[h][i], wire'[h][j])
    <2> SUFFICES ASSUME NEW i \in 1..Len(wire'[h]), NEW j \in 1..Len(wire'[h]), i < j
                 PROVE  After(wire'[h][i], wire'[h][j])
      OBVIOUS
    <2>1. i \in 1..Len(wire[h]) /\ wire'[h][i] = wire[h][i]
      BY <1>9
    <2>2. CASE j = Len(wire[h]) + 1
      BY <1>9, <1>12, <2>1, <2>2
    <2>3. CASE j # Len(wire[h]) + 1
      <3>1. j \in 1..Len(wire[h]) /\ wire'[h][j] = wire[h][j]
        BY <1>9, <2>3
      <3>2. After(wire[h][i], wire[h][j])
        BY <2>1, <3>1 DEF WireInv, FramesInOrder
      <3> QED BY <2>1, <3>1, <3>2
    <2> QED BY <2>2, <2>3
  <1>14. QED BY <1>11, <1>13

\* A step sends a packet to a client, begins its wire anew or leaves it.
LEMMA WireEffect ==
    ASSUME IInv, Next, NEW h \in Sockets
    PROVE  \/ \E t \in Threads, ok \in BOOLEAN :
                 arg[t] = h /\ SendRtpPacket(t, ok) /\ (ok \/ wire'[h] = wire[h])
           \/ wire'[h] = << >>
           \/ wire'[h] = wire[h] /\ (h \in active' => h \in active)
              /\ ~ \E t \in Threads, ok \in BOOLEAN : arg[t] = h /\ SendRtpPacket(t, ok)
  <1> USE DEF IInv, TypeOK
  <1>1. CASE \E t \in Threads, ok \in BOOLEAN : arg[t] = h /\ SendRtpPacket(t, ok)
    BY <1>1 DEF SendRtpPacket, SendRtp
  <1>2. ASSUME ~ \E t \in Threads, ok \in BOOLEAN : arg[t] = h /\ SendRtpPacket(t, ok)
        PROVE  wire'[h] = << >> \/ (wire'[h] = wire[h] /\ (h \in active' => h \in active))
    <2>1. ASSUME NEW t \in Threads, Frame(t) PROVE wire'[h] = wire[h] /\ active' = active
      <3>1. ASSUME NEW ok \in BOOLEAN, SendRtpPacket(t, ok)
            PROVE  wire'[h] = wire[h] /\ active' = active
        BY <1>2, <3>1 DEF SendRtpPacket, SendRtp, tableVars
      <3>2. QED
        BY <2>1, <3>1 DEF Frame, HandleFrame, DispatchToClients, SkipClient, LockClient,
                          NextPacket, FrameEnds, tableVars, streamVars
    <2>2. ASSUME NEW t \in Threads, Table(t)
          PROVE  wire'[h] = << >> \/ (wire'[h] = wire[h] /\ (h \in active' => h \in active))
      <3>1. ASSUME NEW g \in Sockets, NEW b \in InitialActive, AddClient(t, g, b)
            PROVE  \/ wire'[h] = << >>
                   \/ wire'[h] = wire[h] /\ (h \in active' => h \in active)
        <4>1. wire' = [wire EXCEPT ![g] = << >>]
          BY <3>1 DEF AddClient
        <4>2. CASE g = h
          BY <4>1, <4>2
        <4>3. CASE g # h
          BY <3>1, <4>1, <4>3 DEF AddClient
        <4> QED BY <4>2, <4>3
      <3>2. ASSUME NEW g \in Sockets, RemoveClient(t, g) \/ RemoveExpired(t, g)
            PROVE  wire'[h] = wire[h] /\ active' \subseteq active
        BY <3>2 DEF RemoveClient, RemoveExpired, Erase, tableVars, streamVars
      <3>3. Notified(t) => wire'[h] = wire[h] /\ active' \subseteq active
        BY DEF Notified, Erase, tableVars, streamVars
      <3> QED BY <2>2, <3>1, <3>2, <3>3 DEF Table
    <2>3. ASSUME NEW t \in Threads, Multicast(t) PROVE wire'[h] = wire[h] /\ active' = active
      BY <2>3 DEF Multicast, StartMulticast, MulticastStarts, NoAddress, tableVars, streamVars
    <2>4. ASSUME Owner \/ OtherSessions \/ Destroy
          PROVE  wire'[h] = << >> \/ (wire'[h] = wire[h] /\ (h \in active' => h \in active))
      BY <2>4 DEF Owner, Connect, DropTransport, CloseSocket, OtherSessions, OtherTakes,
                  OtherReleases, Destroy, tableVars, streamVars
    <2>5. QED BY <2>1, <2>2, <2>3, <2>4 DEF Next
  <1>3. QED BY <1>1, <1>2

\* Every step leaves the wires in order.
LEMMA WireKeeps == IInv /\ WireInv /\ [Next]_vars => WireInv'
  <1>1. ASSUME IInv, WireInv, UNCHANGED vars PROVE WireInv'
    BY <1>1 DEF vars, threadVars, madeVars, streamVars, WireInv, FramesInOrder, BehindDispatch,
                InFrame
  <1>2. ASSUME IInv, WireInv, Next PROVE WireInv'
    <2>1. ASSUME NEW h \in Sockets
          PROVE  /\ \A i \in 1..Len(wire'[h]) : BehindDispatch(h, wire[h][i])'
                 /\ \A i, j \in 1..Len(wire'[h]) :
                        i < j => After(wire'[h][i], wire'[h][j])
      BY <1>2, <2>1, WireEffect, SendKeepsOrder, WireStays
    <2>2. QED BY <2>1 DEF WireInv, FramesInOrder
  <1>3. QED BY <1>1, <1>2

-----------------------------------------------------------------------------
(* The sequence numbers.                                                   *)

\* The dispatch under way has a packet of channel c for h still to come.
Pending(h, c) ==
    \E t \in Threads :
        /\ InFrame(t) /\ Current(t).channel = c
        /\ pc[t] = "packet" \/ h \in todo[t]

\* The packets of channel c whose dispatch has passed h.
Past(h, c) == made[c] - (IF Pending(h, c) THEN 1 ELSE 0)

\* The next number for h follows from that of p, a packet h got, and what came since.
Counted(h, p) ==
    /\ p.place <= Past(h, p.channel)
    /\ seq[h][p.channel] = (p.seq + (Past(h, p.channel) + 1 - p.place)) % SeqSize

\* The transport of h is there, if only because a dispatch has locked it.
Live(h) == h \in alive \/ \E t \in Threads : pc[t] = "send" /\ arg[t] = h

\* A client that gets the stream is counted for; without a transport it gets no more.
NumberInv ==
    /\ ~multicast => \A h \in active : Live(h) =>
                         \A i \in 1..Len(wire[h]) : Counted(h, wire[h][i])
    /\ LossLeavesGap

\* A number that is not below k * n, nor above by n, is its own rest.
LEMMA DivUnique ==
    ASSUME NEW n \in Nat \ {0}, NEW a \in Nat, NEW k \in Nat, NEW r \in 0..(n - 1),
           a = k * n + r
    PROVE  a % n = r
  OBVIOUS

\* Counting on from a rest is counting on from the number.
LEMMA ModStep ==
    ASSUME NEW n \in Nat \ {0}, NEW a \in Nat PROVE ((a % n) + 1) % n = (a + 1) % n
  <1>1. PICK k \in Nat, r \in 0..(n - 1) : a = k * n + r /\ a % n = r
    <2>1. a = (a \div n) * n + (a % n) /\ a % n \in 0..(n - 1) /\ a \div n \in Nat
      OBVIOUS
    <2> QED BY <2>1
  <1>2. PICK b \in Nat, s \in Nat : b = a + 1 /\ s = r + 1
    OBVIOUS
  <1>3. CASE s < n
    <2>1. b = k * n + s /\ s = 0 * n + s /\ s \in 0..(n - 1)
      BY <1>1, <1>2, <1>3
    <2>2. b % n = s
      BY <2>1, DivUnique
    <2>3. s % n = s
      BY <2>1, <1>3
    <2> QED BY <2>2, <2>3, <1>1, <1>2
  <1>4. CASE s = n
    <2>1. PICK j \in Nat : j = k + 1
      OBVIOUS
    <2>2. b = j * n + 0 /\ 0 \in 0..(n - 1)
      BY <1>1, <1>2, <1>4, <2>1
    <2>3. b % n = 0
      BY <2>2, DivUnique
    <2>4. s % n = 0
      BY <1>4
    <2> QED BY <2>3, <2>4, <1>1, <1>2
  <1> QED BY <1>2, <1>3, <1>4

\* The session never leaves multicast mode.
LEMMA MulticastStays == ASSUME Next, multicast PROVE multicast'
  <1>1. ASSUME NEW t \in Threads, Frame(t) PROVE multicast'
    BY <1>1 DEF Frame, HandleFrame, DispatchToClients, SkipClient, LockClient, SendRtpPacket,
                NextPacket, FrameEnds, castVars
  <1>2. ASSUME NEW t \in Threads, Table(t) \/ Multicast(t) PROVE multicast'
    BY <1>2 DEF Table, AddClient, RemoveClient, RemoveExpired, Notified, Multicast,
                StartMulticast, MulticastStarts, NoAddress, castVars
  <1>3. ASSUME Owner \/ OtherSessions \/ Destroy PROVE multicast'
    BY <1>3 DEF Owner, Connect, DropTransport, CloseSocket, OtherSessions, OtherTakes,
                OtherReleases, Destroy, castVars
  <1> QED BY <1>1, <1>2, <1>3 DEF Next

\* A client of the table whose transport is gone gets no other one.
LEMMA LiveStays ==
    ASSUME IInv, Next, NEW h \in Sockets, h \in active, Live(h)' PROVE Live(h)
  <1> USE DEF IInv, TypeOK, Goto, Live
  <1>1. ASSUME NEW t \in Threads, Frame(t) PROVE Live(h)
    <2>1. alive' = alive
      BY <1>1 DEF Frame, HandleFrame, DispatchToClients, SkipClient, LockClient, SendRtpPacket,
                  NextPacket, FrameEnds, ownerVars
    <2>2. CASE \E g \in Sockets : LockClient(t, g)
      BY <2>1, <2>2 DEF LockClient
    <2>3. CASE ~ \E g \in Sockets : LockClient(t, g)
      <3>1. \A u \in Threads : pc'[u] = "send" => pc[u] = "send" /\ arg'[u] = arg[u]
        BY <1>1, <2>3 DEF Frame, HandleFrame, DispatchToClients, SkipClient, SendRtpPacket,
                          NextPacket, FrameEnds
      <3> QED BY <2>1, <3>1
    <2> QED BY <2>2, <2>3
  <1>2. ASSUME NEW t \in Threads, Table(t) \/ Multicast(t) PROVE Live(h)
    <2>1. alive' = alive
      BY <1>2 DEF Table, AddClient, RemoveClient, RemoveExpired, Notified, Multicast,
                  StartMulticast, MulticastStarts, NoAddress, ownerVars
    <2>2. \A u \in Threads : pc'[u] = "send" => pc[u] = "send" /\ arg'[u] = arg[u]
      BY <1>2 DEF Table, AddClient, RemoveClient, RemoveExpired, Notified, Multicast,
                  StartMulticast, MulticastStarts, NoAddress, threadVars
    <2> QED BY <2>1, <2>2
  <1>3. ASSUME Owner \/ OtherSessions \/ Destroy PROVE Live(h)
    <2>1. h \in open
      BY DEF ClientsOpen
    <2> QED BY <1>3, <2>1 DEF Owner, Connect, DropTransport, CloseSocket, OtherSessions,
               OtherTakes, OtherReleases, Destroy, threadVars, ownerVars
  <1> QED BY <1>1, <1>2, <1>3 DEF Next

\* A step that sends nothing to a client, and does not begin its stream, passes it
\* with no packet and leaves its numbers.
LEMMA PastStays ==
    ASSUME IInv, Next, ~multicast', NEW h \in Sockets, NEW c \in Channels,
           h \in active, h \in active', Live(h),
           ~ \E t \in Threads, ok \in BOOLEAN : arg[t] = h /\ SendRtpPacket(t, ok)
    PROVE  Past(h, c)' = Past(h, c) /\ seq'[h][c] = seq[h][c] /\ ~multicast
  <1> USE DEF IInv, TypeOK, InFrame, Goto
  <1>0. \A t, u \in Threads : InFrame(t) /\ InFrame(u) => t = u
    BY NoneAssumption DEF LocksInv
  <1>1. ASSUME NEW t \in Threads, Frame(t)
        PROVE  Past(h, c)' = Past(h, c) /\ UNCHANGED <<seq[h][c], multicast>>
    <2>1. ASSUME NEW d \in Sources, NEW n \in 1..MaxParts, HandleFrame(t, d, n)
          PROVE  Past(h, c)' = Past(h, c) /\ UNCHANGED <<seq[h][c], multicast>>
      <3>1. ~Pending(h, c)
        BY <2>1, NoneAssumption DEF HandleFrame, Pending, LocksInv
      <3>2. Current(t)'.channel = d
        BY <2>1, SourcesAssumption, BoundsAssumption, AppendElements DEF HandleFrame, Current
      <3>3. \A u \in Threads : InFrame(u)' <=> u = t
        BY <2>1, NoneAssumption DEF HandleFrame, LocksInv
      <3>4. Pending(h, c)' <=> c = d
        BY <2>1, <3>2, <3>3 DEF Pending, HandleFrame
      <3>5. made'[c] = made[c] + (IF c = d THEN 1 ELSE 0)
        BY <2>1, SourcesAssumption DEF HandleFrame
      <3> QED BY <2>1, <3>1, <3>4, <3>5 DEF Past, HandleFrame, castVars
    <2>2. ASSUME DispatchToClients(t) PROVE Pending(h, c)' <=> Pending(h, c)
      BY <1>0, <2>2 DEF DispatchToClients, Pending, Current, streamVars, madeVars
    <2>3. ASSUME NEW g \in Sockets, SkipClient(t, g) PROVE Pending(h, c)' <=> Pending(h, c)
      <3>1. g # h
        <4>1. pc[t] = "dispatch" /\ \A u \in Threads : pc[u] # "send"
          BY <1>0, <2>3 DEF SkipClient
        <4> QED BY <2>3, <4>1 DEF SkipClient, Live
      <3> QED BY <1>0, <2>3, <3>1 DEF SkipClient, Pending, Current, streamVars, madeVars
    <2>4. ASSUME NEW g \in Sockets, LockClient(t, g) PROVE Pending(h, c)' <=> Pending(h, c)
      BY <1>0, <2>4 DEF LockClient, Pending, Current, streamVars, madeVars
    <2>5. ASSUME NEW ok \in BOOLEAN, SendRtpPacket(t, ok)
          PROVE  /\ Pending(h, c)' <=> Pending(h, c)
                 /\ seq'[h][c] = seq[h][c]
      <3>1. arg[t] # h /\ arg[t] \in Sockets
        BY <2>5 DEF DispatchInv, SendRtpPacket
      <3>2. ~multicast
        BY <2>5 DEF SendRtpPacket, castVars
      <3>3. Pending(h, c)' <=> Pending(h, c)
        BY <1>0, <2>5, <3>1, <3>2 DEF SendRtpPacket, Pending, Current, madeVars
      <3> QED BY <2>5, <3>1, <3>3 DEF SendRtpPacket, SendRtp
    <2>6. ASSUME NextPacket(t)
          PROVE  Past(h, c)' = Past(h, c) /\ UNCHANGED <<seq[h][c], multicast>>
      <3>1. ~Pending(h, c)
        BY <1>0, <2>6 DEF NextPacket, Pending
      <3>2. Current(t)' = Current(t)
        BY <2>6 DEF NextPacket, Current
      <3>3. \A u \in Threads : InFrame(u)' <=> u = t
        BY <1>0, <2>6 DEF NextPacket
      <3>4. Pending(h, c)' <=> c = Current(t).channel
        BY <2>6, <3>2, <3>3 DEF Pending, NextPacket
      <3>5. made'[c] = made[c] + (IF c = Current(t).channel THEN 1 ELSE 0)
        BY <2>6 DEF NextPacket
      <3>6. Past(h, c)' = Past(h, c)
        <4>1. CASE c = Current(t).channel
          BY <3>1, <3>4, <3>5, <4>1 DEF Past
        <4>2. CASE c # Current(t).channel
          BY <3>1, <3>4, <3>5, <4>2 DEF Past
        <4> QED BY <4>1, <4>2
      <3> QED BY <2>6, <3>6 DEF NextPacket, castVars
    <2>7. ASSUME FrameEnds(t) PROVE Pending(h, c)' <=> Pending(h, c)
      BY <1>0, <2>7 DEF FrameEnds, Pending, Current, streamVars, madeVars
    <2>8. ASSUME NEW ok \in BOOLEAN, SendRtpPacket(t, ok)
          PROVE  UNCHANGED <<made, multicast>>
      BY <2>8 DEF SendRtpPacket, madeVars, castVars
    <2>9. ASSUME \/ DispatchToClients(t) \/ FrameEnds(t)
                 \/ \E g \in Sockets : SkipClient(t, g) \/ LockClient(t, g)
          PROVE  UNCHANGED <<made, seq, multicast>>
      BY <2>9 DEF DispatchToClients, FrameEnds, SkipClient, LockClient, streamVars, madeVars,
                  castVars
    <2> QED BY <1>1, <2>1, <2>2, <2>3, <2>4, <2>5, <2>6, <2>7, <2>8, <2>9 DEF Frame, Past
  <1>2. ASSUME NEW t \in Threads, Table(t) \/ Multicast(t)
        PROVE  Past(h, c)' = Past(h, c) /\ UNCHANGED seq[h][c]
    <2>1. UNCHANGED <<frames, made, seq, todo, frame>>
      BY <1>2 DEF Table, AddClient, RemoveClient, RemoveExpired, Notified, Multicast,
         StartMulticast, MulticastStarts, NoAddress, threadVars, streamVars, madeVars
    <2>2. \A u \in Threads : /\ InFrame(u)' <=> InFrame(u)
                             /\ pc'[u] = "packet" <=> pc[u] = "packet"
      BY <1>2 DEF Table, AddClient, RemoveClient, RemoveExpired, Notified, Multicast,
         StartMulticast, MulticastStarts, NoAddress, threadVars
    <2> QED BY <2>1, <2>2 DEF Past, Pending, Current
  <1>3. ASSUME Owner \/ OtherSessions \/ Destroy
        PROVE  Past(h, c)' = Past(h, c) /\ seq'[h][c] = seq[h][c]
    <2>1. UNCHANGED <<frames, made, pc, todo, frame>>
      BY <1>3 DEF Owner, Connect, DropTransport, CloseSocket, OtherSessions, OtherTakes,
                  OtherReleases, Destroy, threadVars, streamVars, madeVars
    <2>2. h \in open /\ h \in clients
      BY DEF ClientsOpen
    <2>3. seq'[h][c] = seq[h][c]
      BY <1>3, <2>2 DEF Owner, Connect, DropTransport, CloseSocket, OtherSessions, OtherTakes,
                        OtherReleases, Destroy, streamVars
    <2> QED BY <2>1, <2>3 DEF Past, Pending, Current
  <1>4. ~multicast
    BY MulticastStays
  <1> QED BY <1>1, <1>2, <1>3, <1>4 DEF Next

\* What the dispatch that sends to h has for it.
LEMMA SendFacts ==
    ASSUME IInv, ~multicast, NEW t \in Threads, NEW ok \in BOOLEAN, SendRtpPacket(t, ok),
           NEW h \in Sockets, arg[t] = h, NEW c \in Channels
    PROVE  LET d == Current(t).channel
           IN  /\ d \in Channels /\ h \in active /\ Live(h)
               /\ Past(h, c) = made[c] - (IF c = d THEN 1 ELSE 0)
               /\ Past(h, c)' = made[c]
               /\ seq'[h][c] = IF c = d THEN (seq[h][c] + 1) % SeqSize ELSE seq[h][c]
               /\ wire'[h] = IF ok THEN Append(wire[h], Sent(t, h, d)) ELSE wire[h]
               /\ made[c] \in Nat /\ active' = active /\ ~multicast'
  <1> USE DEF IInv, TypeOK, InFrame, Goto, SendRtpPacket
  <1>1. InFrame(t) /\ h \in todo[t] /\ h \in active /\ Live(h)
    BY DEF DispatchInv, Live
  <1>2. \A u \in Threads : InFrame(u) <=> u = t
    BY <1>1, NoneAssumption DEF LocksInv
  <1>3. \A u \in Threads : InFrame(u)' <=> u = t
    BY <1>2
  <1>4. Current(t).channel \in Channels
    BY <1>1, CurrentType
  <1>5. Pending(h, c) <=> c = Current(t).channel
    BY <1>1, <1>2 DEF Pending
  <1>6. ~Pending(h, c)'
    BY <1>1, <1>3 DEF Pending
  <1>7. made[c] \in Nat /\ made' = made /\ active' = active /\ ~multicast'
    BY DEF madeVars, tableVars, castVars
  <1>8. /\ seq'[h][c] = IF c = Current(t).channel THEN (seq[h][c] + 1) % SeqSize ELSE seq[h][c]
        /\ wire'[h] = IF ok THEN Append(wire[h], Sent(t, h, Current(t).channel)) ELSE wire[h]
    BY <1>4 DEF SendRtp
  <1> HIDE DEF SendRtpPacket, InFrame, IInv, TypeOK
  <1> QED BY <1>1, <1>4, <1>5, <1>6, <1>7, <1>8 DEF Past

\* Sending to a client counts one packet more, whether it fails or not.
LEMMA SendCounts ==
    ASSUME IInv, ~multicast, NEW t \in Threads, NEW ok \in BOOLEAN, SendRtpPacket(t, ok),
           NEW h \in Sockets, arg[t] = h, NEW p \in Packet, Counted(h, p)
    PROVE  Counted(h, p)'
  <1> DEFINE c == p.channel
  <1>1. c \in Channels /\ p.place \in Nat /\ p.seq \in Nat /\ SeqSize \in Nat \ {0}
    BY SeqAssumption DEF Packet, SeqNums
  <1>2. /\ Past(h, c) = made[c] - (IF c = Current(t).channel THEN 1 ELSE 0)
        /\ Past(h, c)' = made[c] /\ made[c] \in Nat
        /\ seq'[h][c] = IF c = Current(t).channel THEN (seq[h][c] + 1) % SeqSize ELSE seq[h][c]
    BY <1>1, SendFacts
  <1>3. p.place <= Past(h, c) /\ seq[h][c] = (p.seq + (Past(h, c) + 1 - p.place)) % SeqSize
    BY DEF Counted
  <1>4. CASE c # Current(t).channel
    BY <1>1, <1>2, <1>3, <1>4 DEF Counted
  <1>5. CASE c = Current(t).channel
    <2>1. PICK a \in Nat : a = p.seq + (Past(h, c) + 1 - p.place)
      BY <1>1, <1>2, <1>3, <1>5
    <2>2. p.seq + (made[c] + 1 - p.place) = a + 1
      BY <1>1, <1>2, <1>5, <2>1
    <2>3. ((a % SeqSize) + 1) % SeqSize = (a + 1) % SeqSize
      BY <1>1, ModStep
    <2>4. seq'[h][c] = (a + 1) % SeqSize
      BY <1>2, <1>3, <1>5, <2>1, <2>3
    <2>5. p.place <= made[c]
      BY <1>1, <1>2, <1>3, <1>5
    <2> QED BY <1>2, <2>2, <2>4, <2>5 DEF Counted
  <1> QED BY <1>4, <1>5

\* A packet that client h gets, and the ones it has.
Gapped(p, q) ==
    p.channel = q.channel =>
        /\ p.place < q.place
        /\ q.seq = (p.seq + (q.place - p.place)) % SeqSize

\* The packet that is sent continues the numbers that the client has seen.
LEMMA SentContinues ==
    ASSUME IInv, NumberInv, NEW t \in Threads, SendRtpPacket(t, TRUE), ~multicast,
           NEW h \in Sockets, arg[t] = h, NEW q, q = Sent(t, h, Current(t).channel)
    PROVE  /\ q \in Packet /\ Counted(h, q)'
           /\ \A i \in 1..Len(wire[h]) : Gapped(wire[h][i], q)
  <1>0. PICK d \in Channels : d = Current(t).channel
    BY CurrentType DEF IInv, SendRtpPacket, InFrame
  <1>1. d \in Channels /\ h \in active /\ Live(h)
    BY SendFacts
  <1>2. /\ Past(h, d) = made[d] - 1 /\ Past(h, d)' = made[d] /\ made[d] \in Nat
        /\ seq'[h][d] = (seq[h][d] + 1) % SeqSize
    <2>1. PICK ok \in BOOLEAN : ok = TRUE /\ SendRtpPacket(t, ok)
      OBVIOUS
    <2>2. /\ Past(h, d) = made[d] - 1 /\ Past(h, d)' = made[d] /\ made[d] \in Nat
      BY <1>0, <2>1, SendFacts, ZenonT(40)
    <2>3. seq'[h][d] = (seq[h][d] + 1) % SeqSize
      BY <1>0, <2>1, SendFacts, ZenonT(40)
    <2> QED BY <2>2, <2>3
  <1>3. /\ q.channel = d /\ q.place = made[d] /\ q.seq = seq[h][d]
        /\ q \in Packet
    <2>1. frame[t] \in Nat /\ part[t] \in Nat /\ seq[h][d] \in SeqNums
      BY <1>1 DEF IInv, TypeOK
    <2> QED BY <1>0, <1>2, <2>1 DEF Sent, Packet
  <1>4. Counted(h, q)'
    <2>1. q.seq + (made[d] + 1 - q.place) = seq[h][d] + 1
      BY <1>2, <1>3 DEF Packet, SeqNums
    <2> QED BY <1>2, <1>3, <2>1 DEF Counted
  <1>5. ASSUME NEW i \in 1..Len(wire[h]) PROVE Gapped(wire[h][i], q)
    <2>1. PICK p \in Packet : p = wire[h][i]
      BY <1>5, WireType DEF IInv
    <2>2. Counted(h, p)
      BY <1>1, <1>5, <2>1 DEF NumberInv
    <2>3. CASE p.channel = d
      <3>1. p.place <= made[d] - 1 /\ p.place \in Nat
        BY <1>2, <2>2, <2>3 DEF Counted, Packet
      <3>2. Past(h, d) + 1 = q.place
        BY <1>2, <1>3
      <3>3. q.seq = (p.seq + (Past(h, d) + 1 - p.place)) % SeqSize
        BY <1>3, <2>2, <2>3 DEF Counted
      <3>4. q.seq = (p.seq + (q.place - p.place)) % SeqSize
        <4>1. Past(h, d) + 1 - p.place = q.place - p.place
          BY <1>2, <1>3, <3>1
        <4> QED BY <3>3, <4>1
      <3> QED BY <1>2, <1>3, <2>1, <3>1, <3>4 DEF Gapped
    <2>4. CASE p.channel # d
      BY <1>3, <2>1, <2>4 DEF Gapped
    <2> QED BY <2>3, <2>4
  <1> QED BY <1>3, <1>4, <1>5

\* What NumberInv says of one client.
NumberOf(h) ==
    ~multicast =>
        /\ h \in active /\ Live(h) => \A i \in 1..Len(wire[h]) : Counted(h, wire[h][i])
        /\ \A i, j \in 1..Len(wire[h]) : i < j => Gapped(wire[h][i], wire[h][j])

LEMMA NumberSplits ==
    /\ IInv => (NumberInv <=> \A h \in Sockets : NumberOf(h))
    /\ IInv' => (NumberInv' <=> \A h \in Sockets : NumberOf(h)')
  BY DEF NumberInv, LossLeavesGap, NumberOf, Gapped, IInv, TypeOK

\* Every step keeps the count.
LEMMA NumberKeeps == IInv /\ NumberInv /\ [Next]_vars => NumberInv'
  <1>1. ASSUME IInv, NumberInv, UNCHANGED vars PROVE NumberInv'
    BY <1>1 DEF vars, threadVars, tableVars, ownerVars, madeVars, streamVars, castVars,
       NumberInv, LossLeavesGap, Live, Counted, Past, Pending, Current, InFrame
  <1>2. ASSUME IInv, NumberInv, Next, NEW h \in Sockets PROVE NumberOf(h)'
    <2> SUFFICES ASSUME ~multicast' PROVE NumberOf(h)'
      BY DEF NumberOf
    <2>1. CASE wire'[h] = << >>
      BY <2>1, EmptyElements DEF NumberOf
    <2>2. CASE \E t \in Threads, ok \in BOOLEAN : arg[t] = h /\ SendRtpPacket(t, ok)
      <3>1. PICK t \in Threads, ok \in BOOLEAN : arg[t] = h /\ SendRtpPacket(t, ok)
        BY <2>2
      <3>2. ~multicast
        BY <3>1 DEF SendRtpPacket, castVars
      <3>3. NumberOf(h) /\ h \in active /\ Live(h) /\ Current(t).channel \in Channels
        <4>1. Current(t).channel \in Channels
          BY <1>2, <3>1, CurrentType DEF IInv, SendRtpPacket, InFrame
        <4> QED BY <1>2, <3>1, <3>2, <4>1, SendFacts, NumberSplits
      <3>4. \A i \in 1..Len(wire[h]) : wire[h][i] \in Packet /\ Counted(h, wire[h][i])
        BY <1>2, <3>2, <3>3, WireType DEF NumberOf, IInv
      <3>5. \A p \in Packet : Counted(h, p) => Counted(h, p)'
        BY <1>2, <3>1, <3>2, SendCounts
      <3>6. CASE ok = FALSE
        <4>1. wire'[h] = wire[h]
          BY <1>2, <3>1, <3>2, <3>3, <3>6, SendFacts
        <4>2. \A i \in 1..Len(wire'[h]) : Counted(h, wire[h][i])'
          BY <3>4, <3>5, <4>1 DEF Counted
        <4> QED BY <3>2, <3>3, <4>1, <4>2 DEF NumberOf, Gapped
      <3>7. CASE ok = TRUE
        <4>1. PICK q : q = Sent(t, h, Current(t).channel)
          OBVIOUS
        <4>2. /\ q \in Packet /\ Counted(h, q)'
              /\ \A i \in 1..Len(wire[h]) : Gapped(wire[h][i], q)
          BY <1>2, <3>1, <3>2, <3>7, <4>1, SentContinues
        <4>3. wire'[h] = Append(wire[h], q) /\ wire[h] \in Seq(Packet)
          BY <1>2, <3>1, <3>2, <3>3, <3>7, <4>1, SendFacts DEF IInv, TypeOK
        <4>4. /\ Len(wire'[h]) = Len(wire[h]) + 1 /\ Len(wire[h]) \in Nat
              /\ \A i \in 1..Len(wire[h]) : wire'[h][i] = wire[h][i]
              /\ wire'[h][Len(wire[h]) + 1] = q
          BY <4>2, <4>3, AppendElements
        <4>5. ASSUME NEW i \in 1..Len(wire'[h]) PROVE Counted(h, wire[h][i])'
          <5>1. CASE i = Len(wire[h]) + 1
            BY <4>2, <4>4, <5>1 DEF Counted
          <5>2. CASE i \in 1..Len(wire[h])
            BY <3>4, <3>5, <4>4, <5>2 DEF Counted
          <5> QED BY <4>4, <5>1, <5>2
        <4>6. \A i, j \in 1..Len(wire'[h]) : i < j => Gapped(wire'[h][i], wire'[h][j])
          <5> SUFFICES ASSUME NEW i \in 1..Len(wire'[h]), NEW j \in 1..Len(wire'[h]), i < j
                       PROVE  Gapped(wire'[h][i], wire'[h][j])
            OBVIOUS
          <5>1. i \in 1..Len(wire[h]) /\ wire'[h][i] = wire[h][i]
            BY <4>4
          <5>2. CASE j = Len(wire[h]) + 1
            BY <4>2, <4>4, <5>1, <5>2
          <5>3. CASE j # Len(wire[h]) + 1
            <6>1. j \in 1..Len(wire[h]) /\ wire'[h][j] = wire[h][j]
              BY <4>4, <5>3
            <6>2. Gapped(wire[h][i], wire[h][j])
              BY <3>2, <3>3, <5>1, <6>1 DEF NumberOf
            <6> QED BY <5>1, <6>1, <6>2
          <5> QED BY <5>2, <5>3
        <4> QED BY <4>5, <4>6 DEF NumberOf, Gapped
      <3> QED BY <3>6, <3>7
    <2>3. CASE /\ wire'[h] = wire[h]
               /\ h \in active' => h \in active
               /\ ~ \E t \in Threads, ok \in BOOLEAN : arg[t] = h /\ SendRtpPacket(t, ok)
      <3>1. ASSUME h \in active', Live(h)', NEW i \in 1..Len(wire'[h])
            PROVE  Counted(h, wire[h][i])'
        <4>1. PICK p \in Packet : p = wire[h][i]
          BY <1>2, <2>3, <3>1, WireType DEF IInv
        <4>2. h \in active /\ Live(h)
          BY <1>2, <2>3, <3>1, LiveStays
        <4>3. p.channel \in Channels
          BY DEF Packet
        <4>4. /\ Past(h, p.channel)' = Past(h, p.channel)
              /\ seq'[h][p.channel] = seq[h][p.channel] /\ ~multicast
          BY <1>2, <2>3, <3>1, <4>2, <4>3, PastStays
        <4>5. Counted(h, p)
          BY <1>2, <2>3, <3>1, <4>1, <4>2, <4>4 DEF NumberInv
        <4> QED BY <2>3, <4>1, <4>4, <4>5 DEF Counted
      <3>2. ~multicast
        BY <1>2, MulticastStays
      <3>3. \A i, j \in 1..Len(wire'[h]) : i < j => Gapped(wire'[h][i], wire'[h][j])
        BY <1>2, <2>3, <3>2, NumberSplits DEF NumberOf
      <3> QED BY <3>1, <3>3 DEF NumberOf, Gapped
    <2> QED BY <1>2, <2>1, <2>2, <2>3, WireEffect
  <1> QED BY <1>1, <1>2, NumberSplits, NextKeeps

-----------------------------------------------------------------------------
(* The multicast addresses.                                                *)

\* Every step accounts for the addresses.
LEMMA AddressKeeps == IInv /\ AddressInv /\ [Next]_vars => AddressInv'
  <1> USE NoneAssumption DEF IInv, TypeOK, AddressInv, AddressesAccounted, Goto
  <1>1. ASSUME IInv, AddressInv, UNCHANGED vars PROVE AddressInv'
    BY <1>1 DEF vars, threadVars, castVars
  <1>2. ASSUME IInv, AddressInv, NEW t \in Threads, Frame(t) PROVE AddressInv'
    <2>1. castVars' = castVars /\ exists' = exists
      BY <1>2 DEF Frame, HandleFrame, DispatchToClients, SkipClient, LockClient,
                  SendRtpPacket, NextPacket, FrameEnds, castVars
    <2>2. pc[t] # "ports" /\ \A u \in Threads \ {t} : pc'[u] = pc[u]
      BY <1>2 DEF Frame, HandleFrame, DispatchToClients, SkipClient, LockClient,
                  SendRtpPacket, NextPacket, FrameEnds
    <2>3. QED BY <1>2, <2>1, <2>2 DEF castVars
  <1>3. ASSUME IInv, AddressInv, NEW t \in Threads, Table(t) PROVE AddressInv'
    BY <1>3 DEF Table, AddClient, RemoveClient, RemoveExpired, Notified, threadVars, castVars
  <1>4. ASSUME IInv, AddressInv, NEW t \in Threads, Multicast(t) PROVE AddressInv'
    <2>1. CASE StartMulticast(t)
      BY <1>4, <2>1 DEF StartMulticast, GetMulticastIp
    <2>2. CASE MulticastStarts(t)
      BY <1>4, <2>2 DEF MulticastStarts
    <2>3. CASE NoAddress(t)
      BY <1>4, <2>3 DEF NoAddress, threadVars
    <2>4. QED BY <1>4, <2>1, <2>2, <2>3 DEF Multicast
  <1>5. ASSUME IInv, AddressInv, Owner PROVE AddressInv'
    BY <1>5 DEF Owner, Connect, DropTransport, CloseSocket, threadVars, castVars
  <1>6. ASSUME IInv, AddressInv, OtherSessions PROVE AddressInv'
    BY <1>6 DEF OtherSessions, OtherTakes, OtherReleases, threadVars
  <1>7. ASSUME IInv, AddressInv, Destroy PROVE AddressInv'
    BY <1>7 DEF Destroy, threadVars
  <1>8. QED BY <1>1, <1>2, <1>3, <1>4, <1>5, <1>6, <1>7 DEF Next

-----------------------------------------------------------------------------
(* The theorems.                                                           *)

\* The inductive invariants hold.
LEMMA Invariants == Spec => [](IInv /\ WireInv /\ NumberInv /\ AddressInv)
  <1>1. Init => IInv /\ WireInv /\ AddressInv
    BY InitInv
  <1>2. Init => NumberInv
    BY EmptyElements DEF Init, NumberInv, LossLeavesGap
  <1>3. IInv /\ WireInv /\ NumberInv /\ AddressInv /\ [Next]_vars
           => (IInv /\ WireInv /\ NumberInv /\ AddressInv)'
    BY NextKeeps, WireKeeps, NumberKeeps, AddressKeeps
  <1>4. QED BY <1>1, <1>2, <1>3, PTL DEF Spec

\* Every variable keeps its type, the sequence numbers their width.
THEOREM SpecTypeOK == Spec => []TypeOK
  <1>1. IInv => TypeOK
    BY DEF IInv
  <1>2. QED BY <1>1, Invariants, PTL

\* No client gets the packets of two frames mixed or out of order.
THEOREM SpecFramesInOrder == Spec => []FramesInOrder
  <1>1. WireInv => FramesInOrder
    BY DEF WireInv
  <1>2. QED BY <1>1, Invariants, PTL

\* No dispatch sends on a socket that its owner has closed.
THEOREM SpecSendsOnOpenSocket == Spec => []SendsOnOpenSocket
  <1>1. IInv => SendsOnOpenSocket
    BY DEF IInv, DispatchInv, ClientsOpen, SendsOnOpenSocket
  <1>2. QED BY <1>1, Invariants, PTL

\* The sequence numbers that a client sees on a channel count the channel's packets,
\* those it did not get included, for any number of threads, clients, channels and
\* losses and wherever the numbers wrap around.
THEOREM SpecLossLeavesGap == Spec => []LossLeavesGap
  <1>1. NumberInv => LossLeavesGap
    BY DEF NumberInv
  <1>2. QED BY <1>1, Invariants, PTL

\* No multicast address is given away twice, and none is lost.
THEOREM SpecAddressesAccounted == Spec => []AddressesAccounted
  <1>1. AddressInv => AddressesAccounted
    BY DEF AddressInv
  <1>2. QED BY <1>1, Invariants, PTL
=============================================================================
