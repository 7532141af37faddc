---------------------------- MODULE WsServerProofs ----------------------------
(***************************************************************************)
(* Theorems about WsServer, for every value of its constants.              *)
(***************************************************************************)
EXTENDS WsServer, SequenceTheorems, TLAPS

\* The accept loop carries one connection at a time.
AcceptInv ==
    /\ accept = "done" \/ io = "adding" => incoming # None
    /\ io \in {"adding", "accepting", "rearming"} => accept = "none"
    /\ io = "removing" => ioSession # None

\* A thread that is in a loop holds the mutex, alone.
LoopInv ==
    /\ \A t, u \in holders : t = u
    /\ \A t \in Threads : todo[t] # {} \/ target[t] # None => t \in holders
    /\ Stopper \in holders <=> stop \in {"closing", "posting"}
    /\ stop = "posting" => target[Stopper] # None

\* The table is filed by id; a closed session is still in it only while the io
\* thread is about to take it out.
TableInv ==
    /\ \A i \in Ids : table[i] # None => Id[table[i]] = i
    /\ \A i \in Ids : table[i] # None =>
          open[table[i]] \/ (io = "removing" /\ ioSession = table[i])
    /\ io = "removing" => ~open[ioSession]

IInv == TypeOK /\ AcceptInv /\ LoopInv /\ LoopSeesTable /\ TableInv

LEMMA InitIInv == Init => IInv
  <1> SUFFICES ASSUME Init PROVE IInv
    OBVIOUS
  <1>1. TypeOK
    BY SessionsAssumption, EmptySeq
    DEF Init, TypeOK, ServerTypeOK, LoopTypeOK, CastTypeOK, SessionTypeOK, Life
  <1>2. AcceptInv /\ LoopInv /\ LoopSeesTable /\ TableInv
    BY SessionsAssumption
    DEF Init, AcceptInv, LoopInv, LoopSeesTable, TableInv, Threads
  <1> QED BY <1>1, <1>2 DEF IInv

\* Posting a frame to a session.
LEMMA PostFacts ==
    ASSUME SessionTypeOK, NEW s \in Sessions, NEW n \in Nat,
           log' = [log EXCEPT ![s] = Append(@, n)], written' = written
    PROVE  /\ log' \in [Sessions -> Seq(Nat)]
           /\ \A r \in Sessions : written'[r] <= Len(log'[r])
  <1>1. log[s] \in Seq(Nat) /\ Len(log[s]) \in Nat
    BY DEF SessionTypeOK
  <1>2. /\ Append(log[s], n) \in Seq(Nat)
        /\ Len(Append(log[s], n)) = Len(log[s]) + 1
    BY <1>1, AppendProperties
  <1>3. log' \in [Sessions -> Seq(Nat)]
    BY <1>2 DEF SessionTypeOK
  <1>4. ASSUME NEW r \in Sessions PROVE written'[r] <= Len(log'[r])
    <2>1. CASE r = s
      BY <1>1, <1>2, <2>1 DEF SessionTypeOK
    <2>2. CASE r # s
      BY <2>2 DEF SessionTypeOK
    <2> QED BY <2>1, <2>2
  <1> QED BY <1>3, <1>4

\* The steps of the accept loop and the end of the io thread.
LEMMA AcceptingKeeps ==
    ASSUME IInv,
           AcceptError \/ OnAccept \/ AddSession \/ AcceptChecks \/
           AcceptRearms \/ RemoveSession \/ IoExits
    PROVE  IInv'
  <1> USE SessionsAssumption, ThreadsAssumption
      DEF IInv, Threads, serverVars, acceptVars, ioVars, loopVars, castVars,
          sessionVars
  <1>1. CASE AcceptError
    <2> USE <1>1 DEF AcceptError
    <2>1. TypeOK'
      BY DEF TypeOK, ServerTypeOK, LoopTypeOK, CastTypeOK, SessionTypeOK, Life
    <2>2. AcceptInv' /\ LoopInv'
      BY DEF TypeOK, ServerTypeOK, LoopTypeOK, AcceptInv, LoopInv
    <2>3. LoopSeesTable' /\ TableInv'
      BY DEF TypeOK, ServerTypeOK, LoopTypeOK, CastTypeOK, SessionTypeOK,
             AcceptInv, LoopInv, LoopSeesTable, TableInv
    <2> QED BY <2>1, <2>2, <2>3
  <1>2. CASE OnAccept
    <2> USE <1>2 DEF OnAccept
    <2>1. TypeOK'
      BY DEF TypeOK, ServerTypeOK, LoopTypeOK, CastTypeOK, SessionTypeOK, Life
    <2>2. AcceptInv' /\ LoopInv'
      BY DEF TypeOK, ServerTypeOK, LoopTypeOK, AcceptInv, LoopInv
    <2>3. LoopSeesTable' /\ TableInv'
      BY DEF TypeOK, ServerTypeOK, LoopTypeOK, CastTypeOK, SessionTypeOK,
             AcceptInv, LoopInv, LoopSeesTable, TableInv
    <2> QED BY <2>1, <2>2, <2>3
  <1>3. CASE AddSession
    <2> USE <1>3 DEF AddSession
    <2>1. TypeOK'
      BY DEF TypeOK, ServerTypeOK, LoopTypeOK, CastTypeOK, SessionTypeOK, Life
    <2>2. AcceptInv' /\ LoopInv'
      BY DEF TypeOK, ServerTypeOK, LoopTypeOK, AcceptInv, LoopInv
    <2>3. LoopSeesTable' /\ TableInv'
      BY DEF TypeOK, ServerTypeOK, LoopTypeOK, CastTypeOK, SessionTypeOK,
             AcceptInv, LoopInv, LoopSeesTable, TableInv
    <2> QED BY <2>1, <2>2, <2>3
  <1>4. CASE AcceptChecks
    <2> USE <1>4 DEF AcceptChecks
    <2>1. TypeOK'
      BY DEF TypeOK, ServerTypeOK, LoopTypeOK, CastTypeOK, SessionTypeOK, Life
    <2>2. AcceptInv' /\ LoopInv'
      BY DEF TypeOK, ServerTypeOK, LoopTypeOK, AcceptInv, LoopInv
    <2>3. LoopSeesTable' /\ TableInv'
      BY DEF TypeOK, ServerTypeOK, LoopTypeOK, CastTypeOK, SessionTypeOK,
             AcceptInv, LoopInv, LoopSeesTable, TableInv
    <2> QED BY <2>1, <2>2, <2>3
  <1>5. CASE AcceptRearms
    <2> USE <1>5 DEF AcceptRearms
    <2>1. TypeOK'
      BY DEF TypeOK, ServerTypeOK, LoopTypeOK, CastTypeOK, SessionTypeOK, Life
    <2>2. AcceptInv' /\ LoopInv'
      BY DEF TypeOK, ServerTypeOK, LoopTypeOK, AcceptInv, LoopInv
    <2>3. LoopSeesTable' /\ TableInv'
      BY DEF TypeOK, ServerTypeOK, LoopTypeOK, CastTypeOK, SessionTypeOK,
             AcceptInv, LoopInv, LoopSeesTable, TableInv
    <2> QED BY <2>1, <2>2, <2>3
  <1>6. CASE RemoveSession
    <2> USE <1>6 DEF RemoveSession
    <2>1. TypeOK'
      BY DEF TypeOK, ServerTypeOK, LoopTypeOK, CastTypeOK, SessionTypeOK, Life
    <2>2. AcceptInv' /\ LoopInv'
      BY DEF TypeOK, ServerTypeOK, LoopTypeOK, AcceptInv, LoopInv
    <2>3. LoopSeesTable' /\ TableInv'
      BY DEF TypeOK, ServerTypeOK, LoopTypeOK, CastTypeOK, SessionTypeOK,
             AcceptInv, LoopInv, LoopSeesTable, TableInv
    <2> QED BY <2>1, <2>2, <2>3
  <1>7. CASE IoExits
    <2> USE <1>7 DEF IoExits, HasWork
    <2>1. TypeOK'
      BY DEF TypeOK, ServerTypeOK, LoopTypeOK, CastTypeOK, SessionTypeOK, Life
    <2>2. AcceptInv' /\ LoopInv'
      BY DEF TypeOK, ServerTypeOK, LoopTypeOK, AcceptInv, LoopInv
    <2>3. LoopSeesTable' /\ TableInv'
      BY DEF TypeOK, ServerTypeOK, LoopTypeOK, CastTypeOK, SessionTypeOK,
             AcceptInv, LoopInv, LoopSeesTable, TableInv
    <2> QED BY <2>1, <2>2, <2>3
  <1> QED BY <1>1, <1>2, <1>3, <1>4, <1>5, <1>6, <1>7

\* The steps of the life of a session.
LEMMA SessionKeeps ==
    ASSUME NEW s \in Sessions, IInv,
           Connect(s) \/ Upgrade(s) \/ PeerCloses(s) \/ SessionFails(s) \/
           WriteFrame(s) \/ WriteOnClosed(s)
    PROVE  IInv'
  <1> USE SessionsAssumption, ThreadsAssumption
      DEF IInv, Threads, serverVars, acceptVars, ioVars, loopVars, castVars,
          sessionVars
  <1>1. CASE Connect(s)
    <2> USE <1>1 DEF Connect
    <2>1. TypeOK'
      BY DEF TypeOK, ServerTypeOK, LoopTypeOK, CastTypeOK, SessionTypeOK, Life
    <2>2. AcceptInv' /\ LoopInv'
      BY DEF TypeOK, ServerTypeOK, LoopTypeOK, AcceptInv, LoopInv
    <2>3. LoopSeesTable' /\ TableInv'
      BY DEF TypeOK, ServerTypeOK, LoopTypeOK, CastTypeOK, SessionTypeOK,
             AcceptInv, LoopInv, LoopSeesTable, TableInv
    <2> QED BY <2>1, <2>2, <2>3
  <1>2. CASE Upgrade(s)
    <2> USE <1>2 DEF Upgrade
    <2>1. TypeOK'
      BY DEF TypeOK, ServerTypeOK, LoopTypeOK, CastTypeOK, SessionTypeOK, Life
    <2>2. AcceptInv' /\ LoopInv'
      BY DEF TypeOK, ServerTypeOK, LoopTypeOK, AcceptInv, LoopInv
    <2>3. LoopSeesTable' /\ TableInv'
      BY DEF TypeOK, ServerTypeOK, LoopTypeOK, CastTypeOK, SessionTypeOK,
             AcceptInv, LoopInv, LoopSeesTable, TableInv
    <2> QED BY <2>1, <2>2, <2>3
  <1>3. CASE PeerCloses(s)
    <2> USE <1>3 DEF PeerCloses
    <2>1. TypeOK'
      <3>1. s \in Sessions /\ CloseFrame \in Nat
        BY DEF TypeOK, ServerTypeOK, LoopTypeOK, CastTypeOK, SessionTypeOK,
               CloseFrame, LoopInv
      <3>2. /\ log' \in [Sessions -> Seq(Nat)]
            /\ \A r \in Sessions : written'[r] <= Len(log'[r])
        BY <3>1, PostFacts DEF TypeOK
      <3>3. SessionTypeOK'
        BY <3>2 DEF TypeOK, SessionTypeOK, Life
      <3> QED BY <3>1, <3>3 DEF TypeOK, ServerTypeOK, LoopTypeOK, CastTypeOK
    <2>2. AcceptInv' /\ LoopInv'
      BY DEF TypeOK, ServerTypeOK, LoopTypeOK, AcceptInv, LoopInv
    <2>3. LoopSeesTable' /\ TableInv'
      BY DEF TypeOK, ServerTypeOK, LoopTypeOK, CastTypeOK, SessionTypeOK,
             AcceptInv, LoopInv, LoopSeesTable, TableInv
    <2> QED BY <2>1, <2>2, <2>3
  <1>4. CASE SessionFails(s)
    <2> USE <1>4 DEF SessionFails, DoClose
    <2>1. TypeOK'
      BY DEF TypeOK, ServerTypeOK, LoopTypeOK, CastTypeOK, SessionTypeOK, Life
    <2>2. AcceptInv' /\ LoopInv'
      BY DEF TypeOK, ServerTypeOK, LoopTypeOK, AcceptInv, LoopInv
    <2>3. LoopSeesTable' /\ TableInv'
      BY DEF TypeOK, ServerTypeOK, LoopTypeOK, CastTypeOK, SessionTypeOK,
             AcceptInv, LoopInv, LoopSeesTable, TableInv
    <2> QED BY <2>1, <2>2, <2>3
  <1>5. CASE WriteFrame(s)
    <2> USE <1>5 DEF WriteFrame, DoClose, Unwritten
    <2>1. TypeOK'
      <3>1. SessionTypeOK /\ log' = log
        BY DEF TypeOK
      <3>2. written[s] \in Nat /\ Len(log[s]) \in Nat
        BY <3>1 DEF SessionTypeOK
      <3>3. PICK n \in Nat : n <= Len(log[s]) /\ written' = [written EXCEPT ![s] = n]
        <4>1. written[s] + 1 \in Nat /\ written[s] + 1 <= Len(log[s])
          BY <3>2
        <4> QED BY <3>2, <4>1
      <3>4. /\ written' \in [Sessions -> Nat]
            /\ \A r \in Sessions : written'[r] <= Len(log[r])
        BY <3>1, <3>3 DEF SessionTypeOK
      <3>5. SessionTypeOK'
        BY <3>1, <3>4 DEF SessionTypeOK, Life
      <3> QED BY <3>5 DEF TypeOK, ServerTypeOK, LoopTypeOK, CastTypeOK
    <2>2. AcceptInv' /\ LoopInv'
      BY DEF TypeOK, ServerTypeOK, LoopTypeOK, AcceptInv, LoopInv
    <2>3. LoopSeesTable' /\ TableInv'
      BY DEF TypeOK, ServerTypeOK, LoopTypeOK, CastTypeOK, SessionTypeOK,
             AcceptInv, LoopInv, LoopSeesTable, TableInv
    <2> QED BY <2>1, <2>2, <2>3
  <1>6. CASE WriteOnClosed(s)
    <2> USE <1>6 DEF WriteOnClosed, DoClose, Unwritten
    <2>1. TypeOK'
      <3>1. SessionTypeOK /\ log' = log
        BY DEF TypeOK
      <3>2. written[s] \in Nat /\ Len(log[s]) \in Nat
        BY <3>1 DEF SessionTypeOK
      <3>3. PICK n \in Nat : n <= Len(log[s]) /\ written' = [written EXCEPT ![s] = n]
        <4>1. written[s] + 1 \in Nat /\ written[s] + 1 <= Len(log[s])
          BY <3>2
        <4> QED BY <3>2, <4>1
      <3>4. /\ written' \in [Sessions -> Nat]
            /\ \A r \in Sessions : written'[r] <= Len(log[r])
        BY <3>1, <3>3 DEF SessionTypeOK
      <3>5. SessionTypeOK'
        BY <3>1, <3>4 DEF SessionTypeOK, Life
      <3> QED BY <3>5 DEF TypeOK, ServerTypeOK, LoopTypeOK, CastTypeOK
    <2>2. AcceptInv' /\ LoopInv'
      BY DEF TypeOK, ServerTypeOK, LoopTypeOK, AcceptInv, LoopInv
    <2>3. LoopSeesTable' /\ TableInv'
      BY DEF TypeOK, ServerTypeOK, LoopTypeOK, CastTypeOK, SessionTypeOK,
             AcceptInv, LoopInv, LoopSeesTable, TableInv
    <2> QED BY <2>1, <2>2, <2>3
  <1> QED BY <1>1, <1>2, <1>3, <1>4, <1>5, <1>6

\* The steps of a broadcast.
LEMMA BroadcastKeeps ==
    ASSUME NEW t \in Broadcasters, IInv,
           BroadcastBegins(t) \/ BroadcastChecks(t) \/ BroadcastPosts(t) \/
           BroadcastEnds(t)
    PROVE  IInv'
  <1> USE SessionsAssumption, ThreadsAssumption
      DEF IInv, Threads, serverVars, acceptVars, ioVars, loopVars, castVars,
          sessionVars
  <1>1. CASE BroadcastBegins(t)
    <2> USE <1>1 DEF BroadcastBegins, Begin, Listed
    <2>1. TypeOK'
      BY DEF TypeOK, ServerTypeOK, LoopTypeOK, CastTypeOK, SessionTypeOK, Life
    <2>2. AcceptInv' /\ LoopInv'
      BY DEF TypeOK, ServerTypeOK, LoopTypeOK, AcceptInv, LoopInv
    <2>3. LoopSeesTable' /\ TableInv'
      BY DEF TypeOK, ServerTypeOK, LoopTypeOK, CastTypeOK, SessionTypeOK,
             AcceptInv, LoopInv, LoopSeesTable, TableInv
    <2> QED BY <2>1, <2>2, <2>3
  <1>2. CASE BroadcastChecks(t)
    <2> USE <1>2 DEF BroadcastChecks, Visit
    <2>1. TypeOK'
      BY DEF TypeOK, ServerTypeOK, LoopTypeOK, CastTypeOK, SessionTypeOK, Life
    <2>2. AcceptInv' /\ LoopInv'
      BY DEF TypeOK, ServerTypeOK, LoopTypeOK, AcceptInv, LoopInv
    <2>3. LoopSeesTable' /\ TableInv'
      BY DEF TypeOK, ServerTypeOK, LoopTypeOK, CastTypeOK, SessionTypeOK,
             AcceptInv, LoopInv, LoopSeesTable, TableInv
    <2> QED BY <2>1, <2>2, <2>3
  <1>3. CASE BroadcastPosts(t)
    <2> USE <1>3 DEF BroadcastPosts
    <2>1. TypeOK'
      <3>1. target[t] \in Sessions /\ message[t] \in Nat
        BY DEF TypeOK, ServerTypeOK, LoopTypeOK, CastTypeOK, SessionTypeOK,
               CloseFrame, LoopInv
      <3>2. /\ log' \in [Sessions -> Seq(Nat)]
            /\ \A r \in Sessions : written'[r] <= Len(log'[r])
        BY <3>1, PostFacts DEF TypeOK
      <3>3. SessionTypeOK'
        BY <3>2 DEF TypeOK, SessionTypeOK, Life
      <3> QED BY <3>1, <3>3 DEF TypeOK, ServerTypeOK, LoopTypeOK, CastTypeOK
    <2>2. AcceptInv' /\ LoopInv'
      BY DEF TypeOK, ServerTypeOK, LoopTypeOK, AcceptInv, LoopInv
    <2>3. LoopSeesTable' /\ TableInv'
      BY DEF TypeOK, ServerTypeOK, LoopTypeOK, CastTypeOK, SessionTypeOK,
             AcceptInv, LoopInv, LoopSeesTable, TableInv
    <2> QED BY <2>1, <2>2, <2>3
  <1>4. CASE BroadcastEnds(t)
    <2> USE <1>4 DEF BroadcastEnds
    <2>1. TypeOK'
      BY DEF TypeOK, ServerTypeOK, LoopTypeOK, CastTypeOK, SessionTypeOK, Life
    <2>2. AcceptInv' /\ LoopInv'
      BY DEF TypeOK, ServerTypeOK, LoopTypeOK, AcceptInv, LoopInv
    <2>3. LoopSeesTable' /\ TableInv'
      BY DEF TypeOK, ServerTypeOK, LoopTypeOK, CastTypeOK, SessionTypeOK,
             AcceptInv, LoopInv, LoopSeesTable, TableInv
    <2> QED BY <2>1, <2>2, <2>3
  <1> QED BY <1>1, <1>2, <1>3, <1>4

\* The steps of Stop.
LEMMA StopKeeps ==
    ASSUME IInv,
           StopBegins \/ StopListening \/ StopLocks \/ StopVisits \/
           StopStores \/ StopPosts \/ StopClears \/ StopReleases \/ StopJoins
    PROVE  IInv'
  <1> USE SessionsAssumption, ThreadsAssumption
      DEF IInv, Threads, serverVars, acceptVars, ioVars, loopVars, castVars,
          sessionVars
  <1>1. CASE StopBegins
    <2> USE <1>1 DEF StopBegins
    <2>1. TypeOK'
      BY DEF TypeOK, ServerTypeOK, LoopTypeOK, CastTypeOK, SessionTypeOK, Life
    <2>2. AcceptInv' /\ LoopInv'
      BY DEF TypeOK, ServerTypeOK, LoopTypeOK, AcceptInv, LoopInv
    <2>3. LoopSeesTable' /\ TableInv'
      BY DEF TypeOK, ServerTypeOK, LoopTypeOK, CastTypeOK, SessionTypeOK,
             AcceptInv, LoopInv, LoopSeesTable, TableInv
    <2> QED BY <2>1, <2>2, <2>3
  <1>2. CASE StopListening
    <2> USE <1>2 DEF StopListening
    <2>1. TypeOK'
      BY DEF TypeOK, ServerTypeOK, LoopTypeOK, CastTypeOK, SessionTypeOK, Life
    <2>2. AcceptInv' /\ LoopInv'
      BY DEF TypeOK, ServerTypeOK, LoopTypeOK, AcceptInv, LoopInv
    <2>3. LoopSeesTable' /\ TableInv'
      BY DEF TypeOK, ServerTypeOK, LoopTypeOK, CastTypeOK, SessionTypeOK,
             AcceptInv, LoopInv, LoopSeesTable, TableInv
    <2> QED BY <2>1, <2>2, <2>3
  <1>3. CASE StopLocks
    <2> USE <1>3 DEF StopLocks, Listed
    <2>1. TypeOK'
      BY DEF TypeOK, ServerTypeOK, LoopTypeOK, CastTypeOK, SessionTypeOK, Life
    <2>2. AcceptInv' /\ LoopInv'
      BY DEF TypeOK, ServerTypeOK, LoopTypeOK, AcceptInv, LoopInv
    <2>3. LoopSeesTable' /\ TableInv'
      BY DEF TypeOK, ServerTypeOK, LoopTypeOK, CastTypeOK, SessionTypeOK,
             AcceptInv, LoopInv, LoopSeesTable, TableInv
    <2> QED BY <2>1, <2>2, <2>3
  <1>4. CASE StopVisits
    <2> USE <1>4 DEF StopVisits, Visit
    <2>1. TypeOK'
      BY DEF TypeOK, ServerTypeOK, LoopTypeOK, CastTypeOK, SessionTypeOK, Life
    <2>2. AcceptInv' /\ LoopInv'
      BY DEF TypeOK, ServerTypeOK, LoopTypeOK, AcceptInv, LoopInv
    <2>3. LoopSeesTable' /\ TableInv'
      BY DEF TypeOK, ServerTypeOK, LoopTypeOK, CastTypeOK, SessionTypeOK,
             AcceptInv, LoopInv, LoopSeesTable, TableInv
    <2> QED BY <2>1, <2>2, <2>3
  <1>5. CASE StopStores
    <2> USE <1>5 DEF StopStores
    <2>1. TypeOK'
      BY DEF TypeOK, ServerTypeOK, LoopTypeOK, CastTypeOK, SessionTypeOK, Life
    <2>2. AcceptInv' /\ LoopInv'
      BY DEF TypeOK, ServerTypeOK, LoopTypeOK, AcceptInv, LoopInv
    <2>3. LoopSeesTable' /\ TableInv'
      BY DEF TypeOK, ServerTypeOK, LoopTypeOK, CastTypeOK, SessionTypeOK,
             AcceptInv, LoopInv, LoopSeesTable, TableInv
    <2> QED BY <2>1, <2>2, <2>3
  <1>6. CASE StopPosts
    <2> USE <1>6 DEF StopPosts
    <2>1. TypeOK'
      <3>1. target[Stopper] \in Sessions /\ CloseFrame \in Nat
        BY DEF TypeOK, ServerTypeOK, LoopTypeOK, CastTypeOK, SessionTypeOK,
               CloseFrame, LoopInv
      <3>2. /\ log' \in [Sessions -> Seq(Nat)]
            /\ \A r \in Sessions : written'[r] <= Len(log'[r])
        BY <3>1, PostFacts DEF TypeOK
      <3>3. SessionTypeOK'
        BY <3>2 DEF TypeOK, SessionTypeOK, Life
      <3> QED BY <3>1, <3>3 DEF TypeOK, ServerTypeOK, LoopTypeOK, CastTypeOK
    <2>2. AcceptInv' /\ LoopInv'
      BY DEF TypeOK, ServerTypeOK, LoopTypeOK, AcceptInv, LoopInv
    <2>3. LoopSeesTable' /\ TableInv'
      BY DEF TypeOK, ServerTypeOK, LoopTypeOK, CastTypeOK, SessionTypeOK,
             AcceptInv, LoopInv, LoopSeesTable, TableInv
    <2> QED BY <2>1, <2>2, <2>3
  <1>7. CASE StopClears
    <2> USE <1>7 DEF StopClears
    <2>1. TypeOK'
      BY DEF TypeOK, ServerTypeOK, LoopTypeOK, CastTypeOK, SessionTypeOK, Life
    <2>2. \A t \in Threads : todo[t] = {} /\ target[t] = None
      BY DEF LoopInv
    <2>3. AcceptInv' /\ LoopInv'
      BY <2>2 DEF AcceptInv, LoopInv
    <2>4. LoopSeesTable' /\ TableInv'
      BY <2>2 DEF TypeOK, LoopTypeOK, LoopSeesTable, TableInv
    <2> QED BY <2>1, <2>3, <2>4
  <1>8. CASE StopReleases
    <2> USE <1>8 DEF StopReleases
    <2>1. TypeOK'
      BY DEF TypeOK, ServerTypeOK, LoopTypeOK, CastTypeOK, SessionTypeOK, Life
    <2>2. AcceptInv' /\ LoopInv'
      BY DEF TypeOK, ServerTypeOK, LoopTypeOK, AcceptInv, LoopInv
    <2>3. LoopSeesTable' /\ TableInv'
      BY DEF TypeOK, ServerTypeOK, LoopTypeOK, CastTypeOK, SessionTypeOK,
             AcceptInv, LoopInv, LoopSeesTable, TableInv
    <2> QED BY <2>1, <2>2, <2>3
  <1>9. CASE StopJoins
    <2> USE <1>9 DEF StopJoins
    <2>1. TypeOK'
      BY DEF TypeOK, ServerTypeOK, LoopTypeOK, CastTypeOK, SessionTypeOK, Life
    <2>2. AcceptInv' /\ LoopInv'
      BY DEF TypeOK, ServerTypeOK, LoopTypeOK, AcceptInv, LoopInv
    <2>3. LoopSeesTable' /\ TableInv'
      BY DEF TypeOK, ServerTypeOK, LoopTypeOK, CastTypeOK, SessionTypeOK,
             AcceptInv, LoopInv, LoopSeesTable, TableInv
    <2> QED BY <2>1, <2>2, <2>3
  <1> QED BY <1>1, <1>2, <1>3, <1>4, <1>5, <1>6, <1>7, <1>8, <1>9

LEMMA NextKeeps == IInv /\ [Next]_vars => IInv'
  <1> SUFFICES ASSUME IInv, [Next]_vars PROVE IInv'
    OBVIOUS
  <1>1. CASE Peers \/ Handlers
    BY <1>1, AcceptingKeeps, SessionKeeps DEF Peers, Handlers
  <1>2. CASE \E s \in Sessions : Writes(s)
    BY <1>2, SessionKeeps DEF Writes
  <1>3. CASE \E t \in Broadcasters : BroadcastBegins(t) \/ BroadcastSteps(t)
    BY <1>3, BroadcastKeeps DEF BroadcastSteps
  <1>4. CASE StopBegins \/ StopSteps
    BY <1>4, StopKeeps DEF StopSteps
  <1>5. CASE UNCHANGED vars
    BY <1>5 DEF vars, serverVars, acceptVars, ioVars, loopVars, castVars,
       sessionVars, IInv, TypeOK, ServerTypeOK, LoopTypeOK, CastTypeOK,
       SessionTypeOK, AcceptInv, LoopInv, LoopSeesTable, TableInv
  <1> QED BY <1>1, <1>2, <1>3, <1>4, <1>5 DEF Next

LEMMA Inductive == Spec => []IInv
  BY InitIInv, NextKeeps, PTL DEF Spec

-----------------------------------------------------------------------------
(* What follows from the inductive invariant.                              *)

\* Every variable of WsServer keeps its type; in particular no completion
\* handler takes a frame out of an empty send queue.
THEOREM ServerTypeCorrect == Spec => []TypeOK
  <1>1. IInv => TypeOK
    BY DEF IInv
  <1> QED BY Inductive, <1>1, PTL

\* The loops of BroadcastText, BroadcastBinary and Stop only meet sessions that
\* are in sessions_, for any number of threads and connections.
THEOREM LoopsSeeTable == Spec => []LoopSeesTable
  <1>1. IInv => LoopSeesTable
    BY DEF IInv
  <1> QED BY Inductive, <1>1, PTL

-----------------------------------------------------------------------------
(* The table, when ids are unique.                                         *)

UniqueId == \A r, s \in Sessions : Id[r] = Id[s] => r = s

\* Until Stop clears the table, every live session is in it.
LiveListed == BeforeClear => \A s \in Sessions : open[s] => table[Id[s]] = s

LEMMA LiveListedKeeps ==
    ASSUME UniqueId, IInv, LiveListed, [Next]_vars
    PROVE  LiveListed'
  <1> USE SessionsAssumption
      DEF LiveListed, BeforeClear, serverVars, acceptVars, ioVars, loopVars,
          castVars, sessionVars
  <1>1. CASE Peers \/ IoExits \/ OnAccept \/ AcceptChecks \/ AcceptRearms
    BY <1>1 DEF Peers, AcceptError, Connect, Upgrade, PeerCloses, SessionFails,
       DoClose, IoExits, OnAccept, AcceptChecks, AcceptRearms, IInv, TypeOK,
       SessionTypeOK
  <1>2. CASE AddSession
    <2>1. incoming \in Sessions /\ Id[incoming] \in Ids
      BY <1>2 DEF AddSession, IInv, AcceptInv, TypeOK, ServerTypeOK, Ids
    <2>2. ASSUME NEW s \in Sessions, BeforeClear, open'[s]
          PROVE  table'[Id[s]] = s
      BY <1>2, <2>1, <2>2 DEF AddSession, UniqueId, IInv, TypeOK, LoopTypeOK,
         SessionTypeOK, Ids
    <2> QED BY <1>2, <2>2 DEF AddSession
  <1>3. CASE RemoveSession
    <2>1. ioSession \in Sessions /\ ~open[ioSession]
      BY <1>3 DEF RemoveSession, IInv, AcceptInv, TableInv, TypeOK, ServerTypeOK
    <2>2. ASSUME NEW s \in Sessions, BeforeClear, open[s]
          PROVE  table'[Id[s]] = s
      BY <1>3, <2>1, <2>2 DEF RemoveSession, UniqueId, IInv, TypeOK, LoopTypeOK, Ids
    <2> QED BY <1>3, <2>2 DEF RemoveSession
  <1>4. CASE \E s \in Sessions : Writes(s)
    BY <1>4 DEF Writes, WriteFrame, WriteOnClosed, DoClose, IInv, TypeOK,
       SessionTypeOK
  <1>5. CASE \E t \in Broadcasters : BroadcastBegins(t) \/ BroadcastSteps(t)
    BY <1>5 DEF BroadcastBegins, Begin, BroadcastSteps, BroadcastChecks,
       BroadcastPosts, BroadcastEnds
  <1>6. CASE StopBegins \/ StopSteps
    BY <1>6 DEF StopBegins, StopSteps, StopListening, StopLocks, StopVisits,
       StopStores, StopPosts, StopClears, StopReleases, StopJoins
  <1>7. CASE UNCHANGED vars
    BY <1>7 DEF vars
  <1> QED BY <1>1, <1>2, <1>3, <1>4, <1>5, <1>6, <1>7 DEF Next, Handlers

\* If GenerateId never returns the same id twice, then whenever the io thread
\* is between two handlers sessions_ holds no session whose DoClose has run and,
\* until Stop clears it, every one that is alive.
THEOREM TableAccurate ==
    ASSUME UniqueId
    PROVE  Spec => []TableIsAccurate
  <1>1. Init => LiveListed
    BY DEF Init, LiveListed
  <1>2. IInv /\ LiveListed /\ [Next]_vars => LiveListed'
    BY LiveListedKeeps
  <1>3. IInv /\ LiveListed => TableIsAccurate
    BY DEF IInv, TableInv, LiveListed, TableIsAccurate, Listed
  <1> QED BY Inductive, <1>1, <1>2, <1>3, PTL DEF Spec

-----------------------------------------------------------------------------
(* What broadcasts post.                                                   *)

Indices(s) == 1..Len(log[s])

\* The numbers of the broadcasts a session gets grow.
LogsGrow ==
    \A s \in Sessions :
        /\ \A i \in Indices(s) : log[s][i] <= casts
        /\ \A i, j \in Indices(s) :
              i < j /\ log[s][i] # CloseFrame /\ log[s][j] # CloseFrame
                  => log[s][i] < log[s][j]

\* The broadcast of t has yet to come to s.
Ahead(t, s) == target[t] = s \/ (Id[s] \in todo[t] /\ table[Id[s]] = s)

\* A broadcast that holds the mutex is the newest, and is posted once.
NewestCast ==
    \A t \in Broadcasters \cap holders :
        /\ message[t] = casts /\ casts # 0
        /\ target[t] # None => Id[target[t]] \notin todo[t]
        /\ \A s \in Sessions : Ahead(t, s) => \A i \in Indices(s) : log[s][i] < casts

CastInv == LogsGrow /\ NewestCast

LEMMA CastInit == Init => CastInv
  <1> SUFFICES ASSUME Init PROVE CastInv
    OBVIOUS
  <1>1. \A s \in Sessions : Indices(s) = {}
    <2>1. Len(<< >>) = 0 /\ 1..0 = {}
      BY EmptySeq
    <2> QED BY <2>1 DEF Init, Indices
  <1> QED BY <1>1 DEF Init, CastInv, LogsGrow, NewestCast

\* Posting a Close frame, or a broadcast that is newer than all there are.
LEMMA LogsGrowOn ==
    ASSUME SessionTypeOK, casts \in Nat, LogsGrow, NEW s \in Sessions, NEW n \in 0..casts,
           log' = [log EXCEPT ![s] = Append(@, n)], casts' = casts,
           n = CloseFrame \/ \A i \in Indices(s) : log[s][i] < n
    PROVE  /\ LogsGrow'
           /\ Indices(s)' = Indices(s) \cup {Len(log[s]) + 1}
           /\ log'[s][Len(log[s]) + 1] = n
           /\ \A i \in Indices(s) : log'[s][i] = log[s][i]
           /\ \A r \in Sessions \ {s} : log'[r] = log[r]
  <1>1. log \in [Sessions -> Seq(Nat)] /\ log[s] \in Seq(Nat) /\ Len(log[s]) \in Nat
    BY DEF SessionTypeOK
  <1>2. /\ log'[s] = Append(log[s], n)
        /\ \A r \in Sessions \ {s} : log'[r] = log[r]
    BY <1>1
  <1>3. /\ Len(log'[s]) = Len(log[s]) + 1
        /\ log'[s][Len(log[s]) + 1] = n
        /\ \A i \in Indices(s) : log'[s][i] = log[s][i]
    BY <1>1, <1>2, AppendProperties DEF Indices
  <1>4. Indices(s)' = Indices(s) \cup {Len(log[s]) + 1}
    BY <1>1, <1>3 DEF Indices
  <1>5. ASSUME NEW i \in Indices(s)' PROVE log'[s][i] <= casts
    <2>1. CASE i \in Indices(s)
      BY <1>3, <2>1 DEF LogsGrow
    <2>2. CASE i = Len(log[s]) + 1
      BY <1>3, <2>2
    <2> QED BY <1>4, <2>1, <2>2
  <1>6. ASSUME NEW i \in Indices(s)', NEW j \in Indices(s)', i < j,
               log'[s][i] # CloseFrame, log'[s][j] # CloseFrame
        PROVE  log'[s][i] < log'[s][j]
    <2>1. i \in Indices(s)
      BY <1>1, <1>4, <1>6 DEF Indices
    <2>2. CASE j \in Indices(s)
      BY <1>3, <1>6, <2>1, <2>2 DEF LogsGrow
    <2>3. CASE j = Len(log[s]) + 1
      BY <1>3, <1>6, <2>1, <2>3
    <2> QED BY <1>4, <2>2, <2>3
  <1>7. LogsGrow'
    <2>1. ASSUME NEW r \in Sessions, r # s
          PROVE  /\ \A i \in Indices(r)' : log'[r][i] <= casts
                 /\ \A i, j \in Indices(r)' :
                       i < j /\ log'[r][i] # CloseFrame /\ log'[r][j] # CloseFrame
                           => log'[r][i] < log'[r][j]
      BY <1>2, <2>1 DEF LogsGrow, Indices
    <2> QED BY <1>5, <1>6, <2>1 DEF LogsGrow
  <1> QED BY <1>2, <1>3, <1>4, <1>7

\* A step that posts nothing and, while a broadcast is under way, leaves it alone.
LEMMA CastUnchanged ==
    ASSUME CastInv, UNCHANGED <<log, casts, message, todo, target>>,
           holders' \subseteq holders \cup {Stopper},
           Broadcasters \cap holders # {} => UNCHANGED table
    PROVE  CastInv'
  <1>1. Broadcasters \cap holders' \subseteq Broadcasters \cap holders
    BY ThreadsAssumption
  <1>2. LogsGrow'
    BY DEF CastInv, LogsGrow, Indices
  <1>3. ASSUME NEW t \in Broadcasters \cap holders'
        PROVE  /\ message'[t] = casts' /\ casts' # 0
               /\ target'[t] # None => Id[target'[t]] \notin todo'[t]
               /\ \A s \in Sessions :
                     Ahead(t, s)' => \A i \in Indices(s)' : log'[s][i] < casts'
    BY <1>1, <1>3 DEF CastInv, NewestCast, Ahead, Indices
  <1> QED BY <1>2, <1>3 DEF CastInv, NewestCast

\* A Close frame is posted.
LEMMA CastCloses ==
    ASSUME IInv, CastInv, NEW s \in Sessions,
           log' = [log EXCEPT ![s] = Append(@, CloseFrame)],
           UNCHANGED <<casts, message, holders, table>>,
           \A t \in Broadcasters \cap holders : todo'[t] = todo[t] /\ target'[t] = target[t]
    PROVE  CastInv'
  <1>1. SessionTypeOK /\ casts \in Nat /\ CloseFrame \in 0..casts
    BY DEF IInv, TypeOK, CastTypeOK, CloseFrame
  <1>2. /\ LogsGrow'
        /\ Indices(s)' = Indices(s) \cup {Len(log[s]) + 1}
        /\ log'[s][Len(log[s]) + 1] = CloseFrame
        /\ \A i \in Indices(s) : log'[s][i] = log[s][i]
        /\ \A r \in Sessions \ {s} : log'[r] = log[r]
    BY <1>1, LogsGrowOn DEF CastInv
  <1>3. ASSUME NEW t \in Broadcasters \cap holders, NEW r \in Sessions, Ahead(t, r)',
               NEW i \in Indices(r)'
        PROVE  log'[r][i] < casts
    <2>1. Ahead(t, r) /\ casts # 0
      BY <1>3 DEF Ahead, CastInv, NewestCast
    <2>2. CASE r = s
      <3>1. CASE i \in Indices(s)
        BY <1>2, <2>1, <2>2, <3>1 DEF CastInv, NewestCast
      <3>2. CASE i = Len(log[s]) + 1
        BY <1>1, <1>2, <2>1, <2>2, <3>2 DEF CloseFrame
      <3> QED BY <1>2, <1>3, <2>2, <3>1, <3>2
    <2>3. CASE r # s
      BY <1>2, <1>3, <2>1, <2>3 DEF CastInv, NewestCast, Indices
    <2> QED BY <2>2, <2>3
  <1>4. NewestCast'
    BY <1>3 DEF CastInv, NewestCast
  <1> QED BY <1>2, <1>4 DEF CastInv

LEMMA BroadcastCasts ==
    ASSUME IInv, CastInv, NEW t \in Broadcasters,
           BroadcastBegins(t) \/ BroadcastSteps(t)
    PROVE  CastInv'
  <1>1. /\ casts \in Nat /\ SessionTypeOK /\ t \in Threads
        /\ todo \in [Threads -> SUBSET Ids] /\ target \in [Threads -> Sessions \cup {None}]
        /\ message \in [Broadcasters -> Nat]
    BY DEF IInv, TypeOK, CastTypeOK, LoopTypeOK, Threads
  <1>2. t \in holders => holders = {t}
    BY DEF IInv, LoopInv
  <1>3. CASE BroadcastBegins(t)
    <2>1. /\ holders = {} /\ holders' = {t} /\ casts' = casts + 1 /\ message'[t] = casts'
          /\ UNCHANGED <<log, table, target>>
      BY <1>1, <1>3 DEF BroadcastBegins, Begin, sessionVars
    <2>2. target'[t] = None
      BY <1>1, <2>1 DEF IInv, LoopInv
    <2>3. ASSUME NEW s \in Sessions, NEW i \in Indices(s)
          PROVE  log'[s][i] < casts' /\ log'[s][i] <= casts' /\ log[s][i] \in Nat
      <3>1. log[s] \in Seq(Nat) /\ log[s][i] \in Nat
        BY <1>1, <2>3 DEF SessionTypeOK, Indices
      <3>2. log[s][i] <= casts
        BY <2>3 DEF CastInv, LogsGrow
      <3> QED BY <1>1, <2>1, <3>1, <3>2
    <2>4. LogsGrow'
      BY <2>1, <2>3 DEF CastInv, LogsGrow, Indices
    <2>5. NewestCast'
      BY <1>1, <2>1, <2>2, <2>3 DEF NewestCast, Indices
    <2> QED BY <2>4, <2>5 DEF CastInv
  <1>4. CASE BroadcastChecks(t)
    <2>1. PICK k \in todo[t] :
             /\ todo' = [todo EXCEPT ![t] = @ \ {k}]
             /\ target' = [target EXCEPT ![t] = IF state[table[k]] = "Active"
                                                 THEN table[k] ELSE None]
      BY <1>4 DEF BroadcastChecks, Visit
    <2>2. /\ t \in holders /\ target[t] = None
          /\ UNCHANGED <<log, casts, message, holders, table>>
      BY <1>4 DEF BroadcastChecks, Visit, castVars, sessionVars
    <2>3. /\ k \in Ids /\ table[k] # None /\ Id[table[k]] = k /\ todo'[t] = todo[t] \ {k}
          /\ target'[t] \in {table[k], None}
      BY <1>1, <2>1 DEF IInv, LoopSeesTable, TableInv
    <2>4. \A s \in Sessions : Ahead(t, s)' => Ahead(t, s)
      BY <2>2, <2>3, SessionsAssumption DEF Ahead
    <2>5. NewestCast'
      BY <1>2, <2>2, <2>3, <2>4 DEF CastInv, NewestCast, Indices
    <2> QED BY <2>2, <2>5 DEF CastInv, LogsGrow, Indices
  <1>5. CASE BroadcastPosts(t)
    <2> DEFINE s == target[t]
    <2>1. /\ s \in Sessions /\ t \in holders /\ target'[t] = None
          /\ log' = [log EXCEPT ![s] = Append(@, message[t])]
          /\ UNCHANGED <<casts, message, holders, table, todo>>
      BY <1>1, <1>5, SessionsAssumption DEF BroadcastPosts, IInv, LoopInv, castVars
    <2>2. /\ message[t] = casts /\ casts \in 0..casts /\ Id[s] \notin todo[t]
          /\ \A i \in Indices(s) : log[s][i] < casts
      BY <1>1, <2>1, SessionsAssumption DEF CastInv, NewestCast, Ahead
    <2> HIDE DEF s
    <2>3. /\ LogsGrow'
          /\ \A r \in Sessions \ {s} : log'[r] = log[r]
      BY <1>1, <2>1, <2>2, LogsGrowOn DEF CastInv
    <2>4. ASSUME NEW r \in Sessions, Ahead(t, r)'
          PROVE  r # s /\ Ahead(t, r)
      BY <2>1, <2>2, <2>4, SessionsAssumption DEF Ahead
    <2>5. NewestCast'
      BY <1>2, <2>1, <2>3, <2>4 DEF CastInv, NewestCast, Indices
    <2> QED BY <2>3, <2>5 DEF CastInv
  <1>6. CASE BroadcastEnds(t)
    BY <1>6, CastUnchanged DEF BroadcastEnds, castVars, loopVars, sessionVars
  <1> QED BY <1>3, <1>4, <1>5, <1>6 DEF BroadcastSteps

LEMMA CastInvKeeps == IInv /\ CastInv /\ [Next]_vars => CastInv'
  <1> SUFFICES ASSUME IInv, CastInv, [Next]_vars PROVE CastInv'
    OBVIOUS
  <1> USE DEF serverVars, acceptVars, ioVars, loopVars, castVars, sessionVars
  <1>1. CASE \E t \in Broadcasters : BroadcastBegins(t) \/ BroadcastSteps(t)
    BY <1>1, BroadcastCasts
  <1>2. CASE \E s \in Sessions : PeerCloses(s)
    BY <1>2, CastCloses DEF PeerCloses
  <1>3. CASE StopPosts
    <2>1. target[Stopper] \in Sessions
      BY <1>3, SessionsAssumption DEF StopPosts, IInv, LoopInv, TypeOK, LoopTypeOK, Threads
    <2>2. \A t \in Broadcasters : target'[t] = target[t] /\ todo'[t] = todo[t]
      BY <1>3, ThreadsAssumption DEF StopPosts, IInv, TypeOK, LoopTypeOK, Threads
    <2> QED BY <1>3, <2>1, <2>2, CastCloses DEF StopPosts
  <1>4. CASE StopLocks \/ StopVisits
    <2>1. Broadcasters \cap holders = {}
      BY <1>4, ThreadsAssumption DEF StopLocks, StopVisits, Visit, IInv, LoopInv
    <2>2. Broadcasters \cap holders' = {} /\ UNCHANGED <<log, casts>>
      BY <1>4, <2>1, ThreadsAssumption DEF StopLocks, StopVisits
    <2> QED BY <2>2 DEF CastInv, LogsGrow, NewestCast, Indices
  <1>5. CASE StopClears
    <2>1. Broadcasters \cap holders = {}
      BY <1>5, ThreadsAssumption DEF StopClears, IInv, LoopInv
    <2> QED BY <1>5, <2>1, CastUnchanged DEF StopClears
  <1>6. CASE AddSession \/ RemoveSession
    BY <1>6, CastUnchanged DEF AddSession, RemoveSession
  <1>7. CASE AcceptError \/ OnAccept \/ AcceptChecks \/ AcceptRearms \/ IoExits
    BY <1>7, CastUnchanged DEF AcceptError, OnAccept, AcceptChecks, AcceptRearms, IoExits
  <1>8. ASSUME NEW s \in Sessions, Connect(s) \/ Upgrade(s) \/ SessionFails(s) \/ Writes(s)
        PROVE  CastInv'
    BY <1>8, CastUnchanged DEF Connect, Upgrade, SessionFails, Writes, WriteFrame,
       WriteOnClosed
  <1>9. CASE StopBegins \/ StopListening \/ StopStores \/ StopReleases \/ StopJoins
    BY <1>9, CastUnchanged DEF StopBegins, StopListening, StopStores, StopReleases,
       StopJoins
  <1>10. CASE UNCHANGED vars
    BY <1>10, CastUnchanged DEF vars
  <1> QED BY <1>1, <1>2, <1>3, <1>4, <1>5, <1>6, <1>7, <1>8, <1>9, <1>10
    DEF Next, Peers, Handlers, StopSteps

LEMMA CastInvHolds == Spec => []CastInv
  BY CastInit, CastInvKeeps, Inductive, PTL DEF Spec

\* In a log that grows, a broadcast stands in one place, and after the earlier ones.
LEMMA LogOrder ==
    ASSUME TypeOK, LogsGrow, NEW s \in Sessions, NEW j \in Got(s), NEW k \in Got(s)
    PROVE  Pos(s, j) < Pos(s, k) <=> j < k
  <1>1. /\ log[s] \in Seq(Nat) /\ Len(log[s]) \in Nat
        /\ \A i \in Indices(s) : log[s][i] \in Nat
    BY DEF TypeOK, SessionTypeOK, Indices
  <1>2. \A n \in Got(s) : n # CloseFrame /\ n \in Nat /\ \E i \in Indices(s) : log[s][i] = n
    BY <1>1 DEF Got, Indices
  <1>3. \A n \in Got(s) : Pos(s, n) \in Indices(s) /\ log[s][Pos(s, n)] = n
    BY <1>2 DEF Pos, Indices
  <1>4. ASSUME NEW m \in Got(s), NEW n \in Got(s), Pos(s, m) < Pos(s, n)
        PROVE  m < n
    BY <1>2, <1>3, <1>4 DEF LogsGrow
  <1>5. Pos(s, j) \in Int /\ Pos(s, k) \in Int /\ j \in Nat /\ k \in Nat
    BY <1>1, <1>2, <1>3 DEF Indices
  <1>6. Pos(s, j) = Pos(s, k) => j = k
    BY <1>3
  <1> QED BY <1>4, <1>5, <1>6

\* Any two sessions get the broadcasts that both get in the same order, for any number
\* of threads that call BroadcastText and BroadcastBinary.
THEOREM BroadcastsInOneOrder == Spec => []BroadcastsAgree
  <1>1. TypeOK /\ CastInv => BroadcastsAgree
    <2> SUFFICES ASSUME TypeOK, LogsGrow, NEW r \in Sessions, NEW s \in Sessions,
                        NEW j \in Got(r) \cap Got(s), NEW k \in Got(r) \cap Got(s)
                 PROVE  Pos(r, j) < Pos(r, k) <=> Pos(s, j) < Pos(s, k)
      BY DEF BroadcastsAgree, CastInv
    <2> QED BY LogOrder
  <1> QED BY <1>1, ServerTypeCorrect, CastInvHolds, PTL

-----------------------------------------------------------------------------
(* Whom broadcasts reach, when ids are unique.                             *)

LiveOpen == \A s \in Sessions : state[s] \in {"Handshaking", "Active"} => open[s]

\* A session that was Active when t began, and still is, has its message or is ahead.
AudienceServed ==
    \A t \in Broadcasters \cap holders : \A s \in audience[t] :
        /\ state[s] \notin {"none", "Handshaking"}
        /\ state[s] = "Active" /\ BeforeClear =>
              Ahead(t, s) \/ \E i \in Indices(s) : log[s][i] = casts

ReachInv == LiveOpen /\ AudienceServed

\* A step outside the broadcasts: sessions come and go, and may get a Close frame.
LEMMA OthersReach ==
    ASSUME IInv, ReachInv, UNCHANGED <<casts, audience>>,
           \A t \in Broadcasters \cap holders' :
               /\ t \in holders /\ todo'[t] = todo[t] /\ target'[t] = target[t]
               /\ UNCHANGED table
               /\ \A s \in Sessions : state'[s] = state[s] \/ state'[s] \in {"Closing", "Closed"}
                                      \/ (state'[s] = "Active" /\ state[s] = "Handshaking"),
           \A s \in Sessions : \A i \in Indices(s) : i \in Indices(s)' /\ log'[s][i] = log[s][i],
           BeforeClear' => BeforeClear
    PROVE  AudienceServed'
  <1> SUFFICES ASSUME NEW t \in Broadcasters \cap holders', NEW s \in audience[t]
               PROVE  /\ state'[s] \notin {"none", "Handshaking"}
                      /\ state'[s] = "Active" /\ BeforeClear' =>
                            Ahead(t, s)' \/ \E i \in Indices(s)' : log'[s][i] = casts
    BY DEF AudienceServed
  <1>1. t \in holders /\ s \in Sessions
    BY DEF IInv, TypeOK, CastTypeOK
  <1>2. state[s] \notin {"none", "Handshaking"}
    BY <1>1 DEF ReachInv, AudienceServed
  <1>3. /\ state'[s] \notin {"none", "Handshaking"}
        /\ state'[s] = "Active" => state[s] = "Active"
    BY <1>1, <1>2
  <1>4. Ahead(t, s)' = Ahead(t, s)
    BY <1>1 DEF Ahead
  <1> QED BY <1>1, <1>3, <1>4 DEF ReachInv, AudienceServed

LEMMA LiveOpenKeeps == IInv /\ LiveOpen /\ [Next]_vars => LiveOpen'
  <1> SUFFICES ASSUME IInv, LiveOpen, [Next]_vars PROVE LiveOpen'
    OBVIOUS
  <1> USE DEF LiveOpen, IInv, TypeOK, SessionTypeOK, serverVars, acceptVars, ioVars,
          loopVars, castVars, sessionVars
  <1>1. CASE Peers
    BY <1>1 DEF Peers, AcceptError, Connect, Upgrade, PeerCloses, SessionFails, DoClose
  <1>2. CASE Handlers
    BY <1>2 DEF Handlers, OnAccept, AddSession, AcceptChecks, AcceptRearms,
       RemoveSession, IoExits
  <1>3. CASE \E s \in Sessions : Writes(s)
    BY <1>3 DEF Writes, WriteFrame, WriteOnClosed, DoClose
  <1>4. CASE \E t \in Broadcasters : BroadcastBegins(t) \/ BroadcastSteps(t)
    BY <1>4 DEF BroadcastBegins, Begin, BroadcastSteps, BroadcastChecks,
       BroadcastPosts, BroadcastEnds
  <1>5. CASE StopBegins \/ StopSteps
    BY <1>5 DEF StopBegins, StopSteps, StopListening, StopLocks, StopVisits,
       StopStores, StopPosts, StopClears, StopReleases, StopJoins
  <1>6. CASE UNCHANGED vars
    BY <1>6 DEF vars
  <1> QED BY <1>1, <1>2, <1>3, <1>4, <1>5, <1>6 DEF Next

LEMMA BroadcastReach ==
    ASSUME UniqueId, IInv, LiveListed, CastInv, ReachInv, NEW t \in Broadcasters,
           BroadcastBegins(t) \/ BroadcastSteps(t)
    PROVE  AudienceServed'
  <1>1. /\ t \in Threads /\ todo \in [Threads -> SUBSET Ids]
        /\ target \in [Threads -> Sessions \cup {None}] /\ log \in [Sessions -> Seq(Nat)]
        /\ audience \in [Broadcasters -> SUBSET Sessions]
        /\ message \in [Broadcasters -> Nat]
    BY DEF IInv, TypeOK, CastTypeOK, LoopTypeOK, SessionTypeOK, Threads
  <1>2. t \in holders => holders = {t}
    BY DEF IInv, LoopInv
  <1>3. CASE BroadcastBegins(t)
    <2>1. /\ holders' = {t} /\ todo'[t] = Listed
          /\ audience'[t] = {s \in Sessions : state[s] = "Active"}
          /\ UNCHANGED <<table, state, log, stop>>
      BY <1>1, <1>3 DEF BroadcastBegins, Begin, sessionVars
    <2>2. ASSUME NEW s \in audience'[t], BeforeClear
          PROVE  Ahead(t, s)'
      <3>1. s \in Sessions /\ open[s] /\ table[Id[s]] = s
        BY <2>1, <2>2 DEF ReachInv, LiveOpen, LiveListed
      <3>2. Id[s] \in Listed
        BY <3>1, SessionsAssumption DEF Listed, Ids
      <3> QED BY <2>1, <3>1, <3>2 DEF Ahead
    <2>3. ASSUME NEW u \in Broadcasters \cap holders', NEW s \in audience'[u]
          PROVE  /\ state'[s] \notin {"none", "Handshaking"}
                 /\ state'[s] = "Active" /\ BeforeClear' =>
                       Ahead(u, s)' \/ \E i \in Indices(s)' : log'[s][i] = casts'
      BY <2>1, <2>2, <2>3 DEF BeforeClear
    <2> QED BY <2>3 DEF AudienceServed
  <1>4. CASE BroadcastChecks(t)
    <2>1. PICK k \in todo[t] :
             /\ todo' = [todo EXCEPT ![t] = @ \ {k}]
             /\ target' = [target EXCEPT ![t] = IF state[table[k]] = "Active"
                                                 THEN table[k] ELSE None]
      BY <1>4 DEF BroadcastChecks, Visit
    <2>2. /\ t \in holders /\ target[t] = None
          /\ UNCHANGED <<log, casts, audience, state, holders, table, stop>>
      BY <1>4 DEF BroadcastChecks, Visit, castVars, sessionVars
    <2>3. ASSUME NEW s \in Sessions, state[s] = "Active", Ahead(t, s)
          PROVE  Ahead(t, s)'
      <3>1. Id[s] \in todo[t] /\ table[Id[s]] = s
        BY <2>2, <2>3, SessionsAssumption DEF Ahead
      <3> QED BY <1>1, <2>1, <2>2, <2>3, <3>1 DEF Ahead
    <2>4. ASSUME NEW s \in audience[t]
          PROVE  /\ state'[s] \notin {"none", "Handshaking"}
                 /\ state'[s] = "Active" /\ BeforeClear' =>
                       Ahead(t, s)' \/ \E i \in Indices(s)' : log'[s][i] = casts'
      <3>1. s \in Sessions /\ Indices(s)' = Indices(s) /\ BeforeClear' = BeforeClear
        BY <1>1, <2>2 DEF Indices, BeforeClear
      <3> QED BY <2>2, <2>3, <3>1 DEF ReachInv, AudienceServed
    <2> QED BY <1>2, <2>2, <2>4 DEF AudienceServed
  <1>5. CASE BroadcastPosts(t)
    <2>0. PICK r \in Sessions : r = target[t]
      BY <1>1, <1>5, SessionsAssumption DEF BroadcastPosts
    <2>1. /\ t \in holders
          /\ log' = [log EXCEPT ![r] = Append(@, message[t])]
          /\ UNCHANGED <<casts, holders, table, todo, state, audience, stop>>
      BY <1>1, <1>5, <2>0, SessionsAssumption DEF BroadcastPosts, IInv, LoopInv, castVars
    <2>2. message[t] = casts /\ casts \in 0..casts /\ \A i \in Indices(r) : log[r][i] < casts
      BY <1>1, <2>0, <2>1, SessionsAssumption DEF CastInv, NewestCast, Ahead, IInv, TypeOK,
         CastTypeOK
    <2>3. /\ Indices(r)' = Indices(r) \cup {Len(log[r]) + 1}
          /\ log'[r][Len(log[r]) + 1] = casts
          /\ \A s \in Sessions \ {r} : log'[s] = log[s]
      <3>1. SessionTypeOK /\ casts \in Nat /\ LogsGrow
        BY DEF CastInv, IInv, TypeOK, CastTypeOK
      <3>2. log' = [log EXCEPT ![r] = Append(@, casts)]
        BY <2>1, <2>2
      <3> QED BY <2>1, <2>2, <3>1, <3>2, LogsGrowOn
    <2>4. ASSUME NEW s \in audience[t]
          PROVE  /\ state'[s] \notin {"none", "Handshaking"}
                 /\ state'[s] = "Active" /\ BeforeClear' =>
                       Ahead(t, s)' \/ \E i \in Indices(s)' : log'[s][i] = casts'
      <3>1. s \in Sessions /\ BeforeClear' = BeforeClear
        BY <1>1, <2>1 DEF BeforeClear
      <3>2. CASE s = r
        <4>1. \E i \in Indices(s)' : log'[s][i] = casts'
          BY <2>1, <2>3, <3>2
        <4>2. state'[s] \notin {"none", "Handshaking"}
          BY <2>1, <2>4 DEF ReachInv, AudienceServed
        <4> QED BY <4>1, <4>2
      <3>3. CASE s # r
        <4>1. Ahead(t, s) => Ahead(t, s)'
          BY <2>0, <2>1, <3>3 DEF Ahead
        <4>2. Indices(s)' = Indices(s) /\ log'[s] = log[s]
          BY <2>3, <3>1, <3>3 DEF Indices
        <4> QED BY <2>1, <2>4, <3>1, <4>1, <4>2 DEF ReachInv, AudienceServed
      <3> QED BY <3>2, <3>3
    <2> QED BY <1>2, <2>1, <2>4 DEF AudienceServed
  <1>6. CASE BroadcastEnds(t)
    <2>1. holders' = {}
      BY <1>2, <1>6 DEF BroadcastEnds
    <2> QED BY <2>1 DEF AudienceServed
  <1> QED BY <1>3, <1>4, <1>5, <1>6 DEF BroadcastSteps

\* A frame is posted: what was in the log stays where it was.
LEMMA PostKeepsLog ==
    ASSUME TypeOK, NEW r \in Sessions, NEW n \in Nat, log' = [log EXCEPT ![r] = Append(@, n)]
    PROVE  \A s \in Sessions : \A i \in Indices(s) : i \in Indices(s)' /\ log'[s][i] = log[s][i]
  <1>1. log \in [Sessions -> Seq(Nat)] /\ log[r] \in Seq(Nat) /\ Len(log[r]) \in Nat
    BY DEF TypeOK, SessionTypeOK
  <1>2. /\ Len(log'[r]) = Len(log[r]) + 1
        /\ \A i \in Indices(r) : log'[r][i] = log[r][i]
    BY <1>1, AppendProperties DEF Indices
  <1> SUFFICES ASSUME NEW s \in Sessions, NEW i \in Indices(s)
               PROVE  i \in Indices(s)' /\ log'[s][i] = log[s][i]
    OBVIOUS
  <1>3. CASE s = r
    BY <1>1, <1>2, <1>3 DEF Indices
  <1>4. CASE s # r
    BY <1>1, <1>4 DEF Indices
  <1> QED BY <1>3, <1>4

LEMMA AudienceKept ==
    ASSUME UniqueId, IInv, LiveListed, CastInv, ReachInv, [Next]_vars
    PROVE  AudienceServed'
  <1> USE DEF serverVars, acceptVars, ioVars, loopVars, castVars, sessionVars
  <1>0. /\ state \in [Sessions -> Life]
        /\ todo \in [Threads -> SUBSET Ids] /\ target \in [Threads -> Sessions \cup {None}]
        /\ Broadcasters \subseteq Threads /\ Stopper \in Threads /\ Stopper \notin Broadcasters
    BY ThreadsAssumption DEF IInv, TypeOK, LoopTypeOK, SessionTypeOK, Threads
  <1>1. CASE \E t \in Broadcasters : BroadcastBegins(t) \/ BroadcastSteps(t)
    BY <1>1, BroadcastReach
  <1>2. CASE \E s \in Sessions : PeerCloses(s)
    <2>1. PICK s \in Sessions : PeerCloses(s)
      BY <1>2
    <2>2. /\ UNCHANGED <<casts, audience, holders, todo, target, table, stop>>
          /\ \A r \in Sessions : state'[r] = state[r] \/ state'[r] = "Closing"
      BY <1>0, <2>1 DEF PeerCloses
    <2>3. \A r \in Sessions : \A i \in Indices(r) : i \in Indices(r)' /\ log'[r][i] = log[r][i]
      BY <2>1, PostKeepsLog DEF PeerCloses, CloseFrame, IInv
    <2> QED BY <2>2, <2>3, OthersReach DEF BeforeClear
  <1>3. CASE StopPosts
    <2>1. target[Stopper] \in Sessions /\ stop' = "closing" /\ stop = "posting"
      BY <1>0, <1>3, SessionsAssumption DEF StopPosts, IInv, LoopInv
    <2>2. /\ UNCHANGED <<casts, audience, holders, table, todo, state>>
          /\ \A t \in Broadcasters : target'[t] = target[t]
      BY <1>0, <1>3 DEF StopPosts
    <2>3. \A r \in Sessions : \A i \in Indices(r) : i \in Indices(r)' /\ log'[r][i] = log[r][i]
      BY <1>3, <2>1, PostKeepsLog DEF StopPosts, CloseFrame, IInv
    <2> QED BY <2>1, <2>2, <2>3, OthersReach DEF BeforeClear
  <1>4. CASE StopLocks \/ StopVisits \/ StopClears
    <2>1. Broadcasters \cap holders = {}
      BY <1>0, <1>4 DEF StopLocks, StopVisits, Visit, StopClears, IInv, LoopInv
    <2>2. Broadcasters \cap holders' = {}
      BY <1>0, <1>4, <2>1 DEF StopLocks, StopVisits, StopClears
    <2> QED BY <2>2 DEF AudienceServed
  <1>5. CASE AddSession \/ RemoveSession
    <2>1. holders' = {}
      BY <1>5 DEF AddSession, RemoveSession
    <2> QED BY <2>1 DEF AudienceServed
  <1>6. CASE AcceptError \/ OnAccept \/ AcceptChecks \/ AcceptRearms \/ IoExits
             \/ (\E s \in Sessions : Connect(s) \/ Upgrade(s) \/ SessionFails(s) \/ Writes(s))
    <2>1. /\ UNCHANGED <<casts, audience, holders, todo, target, table, stop, log>>
          /\ \A r \in Sessions : \/ state'[r] = state[r] \/ state'[r] = "Closed"
                                 \/ state'[r] = "Active" /\ state[r] = "Handshaking"
      BY <1>0, <1>6 DEF AcceptError, OnAccept, AcceptChecks, AcceptRearms, IoExits,
         Connect, Upgrade, SessionFails, Writes, WriteFrame, WriteOnClosed, DoClose
    <2> QED BY <2>1, OthersReach DEF BeforeClear, Indices
  <1>7. CASE StopBegins \/ StopListening \/ StopStores \/ StopReleases \/ StopJoins
    <2>1. /\ UNCHANGED <<casts, audience, holders, todo, target, table, log>>
          /\ BeforeClear' => BeforeClear
          /\ \A r \in Sessions : state'[r] = state[r] \/ state'[r] = "Closing"
      BY <1>0, <1>7 DEF StopBegins, StopListening, StopStores, StopReleases, StopJoins,
         BeforeClear
    <2> QED BY <2>1, OthersReach DEF Indices
  <1>8. CASE UNCHANGED vars
    BY <1>8, OthersReach DEF vars, BeforeClear, Indices
  <1> QED BY <1>1, <1>2, <1>3, <1>4, <1>5, <1>6, <1>7, <1>8
    DEF Next, Peers, Handlers, StopSteps

\* If GenerateId never returns the same id twice, a session that is Active from the
\* beginning to the end of a broadcast has it in its queue, once.
THEOREM BroadcastReachesAll ==
    ASSUME UniqueId
    PROVE  Spec => BroadcastReaches
  <1>1. Init => LiveListed /\ ReachInv
    BY DEF Init, LiveListed, ReachInv, LiveOpen, AudienceServed
  <1>2. IInv /\ CastInv /\ LiveListed /\ ReachInv /\ [Next]_vars => LiveListed' /\ ReachInv'
    BY LiveListedKeeps, LiveOpenKeeps, AudienceKept DEF ReachInv
  <1>3. IInv /\ CastInv /\ ReachInv =>
           [\A t \in Broadcasters : BroadcastEnds(t) /\ BeforeClear =>
              \A s \in audience[t] : state[s] = "Active" =>
                 \E i \in 1..Len(log[s]) :
                     \A j \in 1..Len(log[s]) : log[s][j] = message[t] <=> j = i]_vars
    <2> SUFFICES ASSUME IInv, CastInv, ReachInv, NEW t \in Broadcasters, BroadcastEnds(t),
                        BeforeClear, NEW s \in audience[t], state[s] = "Active"
                 PROVE  \E i \in Indices(s) :
                            \A j \in Indices(s) : log[s][j] = message[t] <=> j = i
      BY DEF Indices
    <2>1. t \in holders /\ target[t] = None /\ todo[t] = {}
      BY DEF BroadcastEnds
    <2>2. s \in Sessions /\ message[t] = casts /\ casts # CloseFrame /\ casts \in Nat
      BY <2>1 DEF CastInv, NewestCast, IInv, TypeOK, CastTypeOK, CloseFrame
    <2>3. ~Ahead(t, s)
      BY <2>1, <2>2, SessionsAssumption DEF Ahead
    <2>4. PICK i \in Indices(s) : log[s][i] = casts
      BY <2>1, <2>3 DEF ReachInv, AudienceServed
    <2>5. ASSUME NEW j \in Indices(s), log[s][j] = casts PROVE j = i
      <3>1. i \in Int /\ j \in Int
        BY <2>2 DEF IInv, TypeOK, SessionTypeOK, Indices
      <3>2. ~(i < j) /\ ~(j < i)
        BY <2>2, <2>4, <2>5 DEF CastInv, LogsGrow
      <3> QED BY <3>1, <3>2
    <2> QED BY <2>2, <2>4, <2>5
  <1> QED BY Inductive, CastInvHolds, <1>1, <1>2, <1>3, PTL DEF Spec, BroadcastReaches
=============================================================================
