------------------------------- MODULE WsServer -------------------------------
(***************************************************************************)
(* WsServer with its own io thread: the accept loop, the session table and *)
(* its mutex, broadcasts from several threads, and Stop.                   *)
(*                                                                         *)
(* A session is reduced to its life (Handshaking, Active, Closing, Closed),*)
(* its socket and the frames posted to it; WsSession models the rest.  A   *)
(* frame is the number of the broadcast it carries, or CloseFrame.         *)
(*                                                                         *)
(* The io thread runs one handler at a time; what a handler does around    *)
(* the mutex is a step of its own, and so is each turn of the loops that   *)
(* BroadcastText and Stop run under the mutex.                             *)
(*                                                                         *)
(* A definition X_y just before X is a faulty variant of X; no             *)
(* specification uses it.                                                  *)
(***************************************************************************)
EXTENDS Naturals, Sequences

CONSTANTS
    Sessions,       \* connections that may arrive
    Broadcasters,   \* application threads that broadcast
    None,
    Id,             \* Id[s]: what GenerateId returns for session s
    MaxBroadcasts   \* bound: number of broadcasts

Stopper == "stop"   \* the thread that calls Stop
Threads == Broadcasters \cup {Stopper}

ASSUME SessionsAssumption == None \notin Sessions
ASSUME ThreadsAssumption == Stopper \notin Broadcasters
ASSUME IdAssumption == DOMAIN Id = Sessions
ASSUME BoundAssumption == MaxBroadcasts \in Nat

Ids == {Id[s] : s \in Sessions}
CloseFrame == 0

VARIABLES
    running,        \* running_
    listening,      \* acceptor_ is open
    accept,         \* outstanding async_accept
    incoming,       \* the connection it returned
    guard,          \* work_guard_ is held
    io, ioSession,  \* the io thread: where it is, and for which session
    table,          \* sessions_
    holders,        \* threads that hold sessions_mutex_
    todo,           \* per thread: ids its loop has still to visit
    target,         \* per thread: session found Active and not yet served
    stop,           \* where the thread in Stop is
    casts,          \* number of broadcasts so far
    message,        \* per broadcaster: the number of its broadcast
    audience,       \* per broadcaster: the sessions Active when it began
    state, open,    \* of each session
    log, written    \* frames posted to each session; how many are dealt with

serverVars == <<running, listening, guard>>
acceptVars == <<accept, incoming>>
ioVars == <<io, ioSession>>
loopVars == <<todo, target>>
castVars == <<casts, message, audience>>
sessionVars == <<state, open, log, written>>
vars == <<serverVars, acceptVars, ioVars, table, holders, loopVars, stop,
          castVars, sessionVars>>

Life == {"none", "Handshaking", "Active", "Closing", "Closed"}

\* After Start: the io thread runs, with one accept outstanding.
Init ==
    /\ running = TRUE /\ listening = TRUE /\ guard = TRUE
    /\ accept = "pending" /\ incoming = None
    /\ io = "idle" /\ ioSession = None
    /\ table = [i \in Ids |-> None]
    /\ holders = {}
    /\ todo = [t \in Threads |-> {}] /\ target = [t \in Threads |-> None]
    /\ stop = "no"
    /\ casts = 0
    /\ message = [t \in Broadcasters |-> 0]
    /\ audience = [t \in Broadcasters |-> {}]
    /\ state = [s \in Sessions |-> "none"]
    /\ open = [s \in Sessions |-> FALSE]
    /\ log = [s \in Sessions |-> << >>]
    /\ written = [s \in Sessions |-> 0]

Listed == {i \in Ids : table[i] # None}

-----------------------------------------------------------------------------
(* Accepting (DoAccept and its completion handler).                        *)

Connect(s) ==
    /\ accept = "pending" /\ state[s] = "none" /\ incoming # s
    /\ accept' = "done" /\ incoming' = s
    /\ UNCHANGED <<serverVars, ioVars, table, holders, loopVars, stop, castVars,
                   sessionVars>>

AcceptError ==
    /\ accept = "pending"
    /\ accept' = "fail"
    /\ UNCHANGED <<serverVars, incoming, ioVars, table, holders, loopVars, stop,
                   castVars, sessionVars>>

\* The handler looks at the error only, not at running_.
OnAccept ==
    /\ io = "idle" /\ accept \in {"done", "fail"}
    /\ accept' = "none"
    /\ io' = IF accept = "done" THEN "adding" ELSE "accepting"
    /\ UNCHANGED <<serverVars, incoming, ioSession, table, holders, loopVars, stop,
                   castVars, sessionVars>>

\* AddSession and session->Start.
AddSession ==
    /\ io = "adding" /\ holders = {}
    /\ table' = [table EXCEPT ![Id[incoming]] = incoming]
    /\ state' = [state EXCEPT ![incoming] = "Handshaking"]
    /\ open' = [open EXCEPT ![incoming] = TRUE]
    /\ incoming' = None
    /\ io' = "accepting"
    /\ UNCHANGED <<serverVars, accept, ioSession, holders, loopVars, stop, castVars,
                   log, written>>

\* "if (running_) DoAccept()", then async_accept, which fails on a closed
\* acceptor.
AcceptChecks ==
    /\ io = "accepting"
    /\ io' = IF running THEN "rearming" ELSE "idle"
    /\ UNCHANGED <<serverVars, acceptVars, ioSession, table, holders, loopVars, stop,
                   castVars, sessionVars>>

AcceptRearms ==
    /\ io = "rearming"
    /\ accept' = IF listening THEN "pending" ELSE "fail"
    /\ io' = "idle"
    /\ UNCHANGED <<serverVars, incoming, ioSession, table, holders, loopVars, stop,
                   castVars, sessionVars>>

-----------------------------------------------------------------------------
(* The life of a session on the io thread.                                 *)

\* DoClose up to RemoveSession.
DoClose(s) ==
    /\ state' = [state EXCEPT ![s] = "Closed"]
    /\ open' = [open EXCEPT ![s] = FALSE]
    /\ io' = "removing" /\ ioSession' = s

RemoveSession_unlocked ==
    /\ io = "removing"
    /\ table' = [table EXCEPT ![Id[ioSession]] = None]
    /\ io' = "idle" /\ ioSession' = None
    /\ UNCHANGED <<serverVars, acceptVars, holders, loopVars, stop, castVars,
                   sessionVars>>
RemoveSession_tryLock ==
    /\ io = "removing"
    /\ table' = IF holders = {} THEN [table EXCEPT ![Id[ioSession]] = None] ELSE table
    /\ io' = "idle" /\ ioSession' = None
    /\ UNCHANGED <<serverVars, acceptVars, holders, loopVars, stop, castVars,
                   sessionVars>>
RemoveSession ==
    /\ io = "removing" /\ holders = {}
    /\ table' = [table EXCEPT ![Id[ioSession]] = None]
    /\ io' = "idle" /\ ioSession' = None
    /\ UNCHANGED <<serverVars, acceptVars, holders, loopVars, stop, castVars,
                   sessionVars>>

Upgrade(s) ==
    /\ io = "idle" /\ state[s] = "Handshaking"
    /\ state' = [state EXCEPT ![s] = "Active"]
    /\ UNCHANGED <<serverVars, acceptVars, ioVars, table, holders, loopVars, stop,
                   castVars, open, log, written>>

\* A Close frame of the peer, or Close() in a callback.
PeerCloses(s) ==
    /\ io = "idle" /\ state[s] = "Active"
    /\ state' = [state EXCEPT ![s] = "Closing"]
    /\ log' = [log EXCEPT ![s] = Append(@, CloseFrame)]
    /\ UNCHANGED <<serverVars, acceptVars, ioVars, table, holders, loopVars, stop,
                   castVars, open, written>>

\* A read error, a refused handshake, a protocol error, a heartbeat timeout.
SessionFails(s) ==
    /\ io = "idle" /\ open[s]
    /\ DoClose(s)
    /\ UNCHANGED <<serverVars, acceptVars, table, holders, loopVars, stop, castVars,
                   log, written>>

Unwritten(s) == written[s] < Len(log[s])

\* The next frame is written, or its write fails.
WriteFrame(s) ==
    /\ io = "idle" /\ open[s] /\ Unwritten(s)
    /\ written' = [written EXCEPT ![s] = @ + 1]
    /\ \/ log[s][written[s] + 1] # CloseFrame /\ UNCHANGED <<state, open, ioVars>>
       \/ DoClose(s)
    /\ UNCHANGED <<serverVars, acceptVars, table, holders, loopVars, stop, castVars,
                   log>>

\* Frames posted to a closed socket stay in the queue, or one is tried and its
\* write error closes the session once more.
WriteOnClosed_popsEmpty(s) ==
    /\ io = "idle" /\ state[s] # "none" /\ ~open[s]
    /\ written' = [written EXCEPT ![s] = @ + 1] /\ DoClose(s)
    /\ UNCHANGED <<serverVars, acceptVars, table, holders, loopVars, stop, castVars,
                   log>>
WriteOnClosed(s) ==
    /\ io = "idle" /\ state[s] # "none" /\ ~open[s] /\ Unwritten(s)
    /\ \/ written' = [written EXCEPT ![s] = @ + 1] /\ DoClose(s)
       \/ written' = [written EXCEPT ![s] = Len(log[s])]
          /\ UNCHANGED <<state, open, ioVars>>
    /\ UNCHANGED <<serverVars, acceptVars, table, holders, loopVars, stop, castVars,
                   log>>

HasWork(s) == open[s] \/ Unwritten(s)

\* io_context::run returns when nothing is outstanding.
IoExits ==
    /\ io = "idle" /\ ~guard /\ accept = "none"
    /\ \A s \in Sessions : ~HasWork(s)
    /\ io' = "exited"
    /\ UNCHANGED <<serverVars, acceptVars, ioSession, table, holders, loopVars, stop,
                   castVars, sessionVars>>

-----------------------------------------------------------------------------
(* BroadcastText and BroadcastBinary.                                      *)

Begin(t) ==
    /\ casts < MaxBroadcasts
    /\ todo' = [todo EXCEPT ![t] = Listed]
    /\ casts' = casts + 1
    /\ message' = [message EXCEPT ![t] = casts + 1]
    /\ audience' = [audience EXCEPT ![t] = {s \in Sessions : state[s] = "Active"}]
    /\ UNCHANGED <<serverVars, acceptVars, ioVars, table, target, stop,
                   sessionVars>>

BroadcastBegins_shared(t) ==
    /\ Stopper \notin holders /\ t \notin holders
    /\ holders' = holders \cup {t}
    /\ Begin(t)
BroadcastBegins(t) ==
    /\ holders = {}
    /\ holders' = {t}
    /\ Begin(t)

\* One turn of the loop: the next session, which counts if it is Active.
Visit(t) ==
    /\ t \in holders /\ target[t] = None
    /\ \E i \in todo[t] :
          /\ todo' = [todo EXCEPT ![t] = @ \ {i}]
          /\ target' = [target EXCEPT ![t] = IF state[table[i]] = "Active"
                                              THEN table[i] ELSE None]

\* IsOpen() of the next session.
BroadcastChecks_stopsAtClosed(t) ==
    /\ t \in holders /\ target[t] = None
    /\ \E i \in todo[t] :
          IF state[table[i]] = "Active"
          THEN /\ target' = [target EXCEPT ![t] = table[i]]
               /\ todo' = [todo EXCEPT ![t] = @ \ {i}]
          ELSE todo' = [todo EXCEPT ![t] = {}] /\ UNCHANGED target
    /\ UNCHANGED <<serverVars, acceptVars, ioVars, table, holders, stop, castVars,
                   sessionVars>>
BroadcastChecks(t) ==
    /\ Visit(t)
    /\ UNCHANGED <<serverVars, acceptVars, ioVars, table, holders, stop, castVars,
                   sessionVars>>

\* SendText of that session, which looks at no state.
BroadcastPosts(t) ==
    /\ target[t] # None
    /\ log' = [log EXCEPT ![target[t]] = Append(@, message[t])]
    /\ target' = [target EXCEPT ![t] = None]
    /\ UNCHANGED <<serverVars, acceptVars, ioVars, table, holders, todo, stop,
                   castVars, state, open, written>>

BroadcastEnds(t) ==
    /\ t \in holders /\ target[t] = None /\ todo[t] = {}
    /\ holders' = holders \ {t}
    /\ UNCHANGED <<serverVars, acceptVars, ioVars, table, loopVars, stop, castVars,
                   sessionVars>>

-----------------------------------------------------------------------------
(* Stop, on an application thread.                                         *)

StopBegins ==
    /\ stop = "no"
    /\ running' = FALSE
    /\ stop' = "called"
    /\ UNCHANGED <<listening, guard, acceptVars, ioVars, table, holders, loopVars,
                   castVars, sessionVars>>

\* acceptor_.close aborts an outstanding accept, not one that has completed.
StopListening ==
    /\ stop = "called"
    /\ listening' = FALSE
    /\ accept' = IF accept = "pending" THEN "fail" ELSE accept
    /\ stop' = "locking"
    /\ UNCHANGED <<running, guard, incoming, ioVars, table, holders, loopVars,
                   castVars, sessionVars>>

StopLocks ==
    /\ stop = "locking" /\ holders = {}
    /\ holders' = {Stopper}
    /\ todo' = [todo EXCEPT ![Stopper] = Listed]
    /\ stop' = "closing"
    /\ UNCHANGED <<serverVars, acceptVars, ioVars, table, target, castVars,
                   sessionVars>>

\* Close(GoingAway) of the next session: the check of state_, ...
StopVisits ==
    /\ stop = "closing"
    /\ Visit(Stopper)
    /\ UNCHANGED <<serverVars, acceptVars, ioVars, table, holders, stop, castVars,
                   sessionVars>>

\* ... the store, ...
StopStores ==
    /\ stop = "closing" /\ target[Stopper] # None
    /\ state' = [state EXCEPT ![target[Stopper]] = "Closing"]
    /\ stop' = "posting"
    /\ UNCHANGED <<serverVars, acceptVars, ioVars, table, holders, loopVars, castVars,
                   open, log, written>>

\* ... and EnqueueFrame.
StopPosts ==
    /\ stop = "posting"
    /\ log' = [log EXCEPT ![target[Stopper]] = Append(@, CloseFrame)]
    /\ target' = [target EXCEPT ![Stopper] = None]
    /\ stop' = "closing"
    /\ UNCHANGED <<serverVars, acceptVars, ioVars, table, holders, todo, castVars,
                   state, open, written>>

StopClears ==
    /\ stop = "closing" /\ target[Stopper] = None /\ todo[Stopper] = {}
    /\ table' = [i \in Ids |-> None]
    /\ holders' = {}
    /\ stop' = "cleared"
    /\ UNCHANGED <<serverVars, acceptVars, ioVars, loopVars, castVars, sessionVars>>

StopReleases_keepsGuard ==
    /\ stop = "cleared"
    /\ stop' = "joining"
    /\ UNCHANGED <<serverVars, acceptVars, ioVars, table, holders, loopVars, castVars,
                   sessionVars>>
StopReleases ==
    /\ stop = "cleared"
    /\ guard' = FALSE
    /\ stop' = "joining"
    /\ UNCHANGED <<running, listening, acceptVars, ioVars, table, holders, loopVars,
                   castVars, sessionVars>>

StopJoins ==
    /\ stop = "joining" /\ io = "exited"
    /\ stop' = "done"
    /\ UNCHANGED <<serverVars, acceptVars, ioVars, table, holders, loopVars, castVars,
                   sessionVars>>

-----------------------------------------------------------------------------
Peers ==
    \/ AcceptError
    \/ \E s \in Sessions :
          Connect(s) \/ Upgrade(s) \/ PeerCloses(s) \/ SessionFails(s)

Handlers ==
    \/ OnAccept \/ AddSession \/ AcceptChecks \/ AcceptRearms \/ RemoveSession
    \/ IoExits

Writes(s) == WriteFrame(s) \/ WriteOnClosed(s)

BroadcastSteps(t) == BroadcastChecks(t) \/ BroadcastPosts(t) \/ BroadcastEnds(t)

StopSteps ==
    \/ StopListening \/ StopLocks \/ StopVisits \/ StopStores \/ StopPosts
    \/ StopClears \/ StopReleases \/ StopJoins

Next ==
    \/ Peers \/ Handlers
    \/ \E s \in Sessions : Writes(s)
    \/ \E t \in Broadcasters : BroadcastBegins(t) \/ BroadcastSteps(t)
    \/ StopBegins \/ StopSteps

Spec == Init /\ [][Next]_vars

\* Threads finish what they have begun, the io thread serves what is ready, and
\* a write ends; peers do as they please.
FairSpec ==
    /\ Spec
    /\ WF_vars(Handlers) /\ WF_vars(StopSteps)
    /\ \A s \in Sessions : WF_vars(Writes(s))
    /\ \A t \in Broadcasters : WF_vars(BroadcastSteps(t))

-----------------------------------------------------------------------------
(* Properties.                                                             *)

ServerTypeOK ==
    /\ running \in BOOLEAN /\ listening \in BOOLEAN /\ guard \in BOOLEAN
    /\ accept \in {"none", "pending", "done", "fail"}
    /\ incoming \in Sessions \cup {None}
    /\ io \in {"idle", "adding", "accepting", "rearming", "removing", "exited"}
    /\ ioSession \in Sessions \cup {None}
    /\ stop \in {"no", "called", "locking", "closing", "posting", "cleared",
                 "joining", "done"}

LoopTypeOK ==
    /\ table \in [Ids -> Sessions \cup {None}]
    /\ holders \subseteq Threads
    /\ todo \in [Threads -> SUBSET Ids]
    /\ target \in [Threads -> Sessions \cup {None}]

CastTypeOK ==
    /\ casts \in Nat
    /\ message \in [Broadcasters -> Nat]
    /\ audience \in [Broadcasters -> SUBSET Sessions]

SessionTypeOK ==
    /\ state \in [Sessions -> Life] /\ open \in [Sessions -> BOOLEAN]
    /\ log \in [Sessions -> Seq(Nat)]
    /\ written \in [Sessions -> Nat]
    /\ \A s \in Sessions : written[s] <= Len(log[s])

TypeOK == ServerTypeOK /\ LoopTypeOK /\ CastTypeOK /\ SessionTypeOK

\* The loop under the mutex only meets sessions that are in the table: no
\* handler takes one out while BroadcastText or Stop looks at it.
LoopSeesTable == \A t \in Threads : \A i \in todo[t] : table[i] # None

\* Between two handlers, the table lists every live session until Stop clears
\* it, and no session whose DoClose has run.
BeforeClear == stop \in {"no", "called", "locking", "closing", "posting"}

TableIsAccurate ==
    io = "idle" =>
        /\ \A i \in Listed : open[table[i]]
        /\ BeforeClear => \A s \in Sessions : open[s] => table[Id[s]] = s

Pos(s, k) == CHOOSE i \in 1..Len(log[s]) : log[s][i] = k
Got(s) == {log[s][i] : i \in 1..Len(log[s])} \ {CloseFrame}

\* All sessions see the broadcasts they get in the same order, whichever threads
\* broadcast at the same time.
BroadcastsAgree ==
    \A r, s \in Sessions : \A j, k \in Got(r) \cap Got(s) :
        Pos(r, j) < Pos(r, k) <=> Pos(s, j) < Pos(s, k)

\* A session that is Active while BroadcastText runs gets the message exactly
\* once, until Stop clears the table.
BroadcastReaches ==
    [][\A t \in Broadcasters : BroadcastEnds(t) /\ BeforeClear =>
         \A s \in audience[t] : state[s] = "Active" =>
            \E i \in 1..Len(log[s]) :
                \A j \in 1..Len(log[s]) : log[s][j] = message[t] <=> j = i]_vars

\* A session Stop has not asked to close, because its handshake was not over or
\* because it was accepted too late.
Overlooked(s) == open[s] /\ state[s] \in {"Handshaking", "Active"}

\* Stop returns unless it has overlooked a session.
StopReturns ==
    stop = "joining" ~> stop = "done" \/ \E s \in Sessions : Overlooked(s)
=============================================================================
