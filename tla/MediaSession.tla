---------------------------- MODULE MediaSession ----------------------------
(***************************************************************************)
(* One AsioMediaSession: the table of clients that its frames go to, the   *)
(* RTP transport of each client, and the multicast address the session     *)
(* takes from the pool that all sessions share.                            *)
(*                                                                         *)
(* Any thread may call the session.  HandleFrame holds frame_mutex_ while  *)
(* the source cuts the frame into packets, and client_mutex_ while one     *)
(* packet goes round the clients; AddClient and RemoveClient hold          *)
(* client_mutex_ while they notify.  A call that waits for a mutex has done*)
(* nothing yet, so a call begins when it gets its first one.  A client is  *)
(* known by the handle of its socket.  Its owner, outside the session,     *)
(* passes a transport that exists, may drop it at any time, and removes the*)
(* client before it closes the socket; no two threads are in               *)
(* StartMulticast at once.                                                 *)
(*                                                                         *)
(* A packet is the number of its frame, its place in the frame and among   *)
(* all packets of its channel, and the sequence number FillRtpHeader gives *)
(* it.  Ports, SDP and has_new_client_, which nothing reads, are left out. *)
(*                                                                         *)
(* A definition X_y just before X is a faulty variant of X; no             *)
(* specification uses it.                                                  *)
(***************************************************************************)
EXTENDS Naturals, Sequences

CONSTANTS
    Threads,        \* threads that call the session
    Sockets,        \* handles of the clients' sockets
    Channels,       \* media channels
    Sources,        \* those that AddSource has given a source
    Addresses,      \* multicast addresses
    SeqSize,        \* sequence numbers are counted modulo SeqSize
    InitialSeq,     \* what a fresh MediaChannelInfo may hold in rtp_header.seq
    InitialActive,  \* what a fresh ClientInfo may hold in is_active
    None,
    MaxFrames,      \* bound: frames handled
    MaxParts        \* bound: packets of a frame

SeqNums == 0..(SeqSize - 1)

ASSUME SocketsAssumption == Sockets \subseteq Nat
ASSUME SourcesAssumption == Sources \subseteq Channels
ASSUME SeqAssumption == SeqSize \in Nat \ {0} /\ InitialSeq \subseteq SeqNums
ASSUME ActiveAssumption == InitialActive \subseteq BOOLEAN
ASSUME BoundsAssumption == MaxFrames \in Nat /\ MaxParts \in Nat
ASSUME NoneAssumption == None \notin Threads \cup Sockets \cup Addresses

Packet == [channel : Channels, frame : Nat, part : Nat, place : Nat, seq : SeqNums]

VARIABLES
    exists,      \* the session is not yet destroyed
    frameLock,   \* holder of frame_mutex_
    clientLock,  \* holder of client_mutex_
    clients,     \* handles in clients_
    active,      \* those of them with is_active
    pc,          \* where each thread is in its call
    arg,         \* the client that it notifies of, or whose transport it has locked
    frame,       \* the number of the frame that HandleFrame has
    part,        \* the packet of that frame that it is at
    todo,        \* the clients its dispatch has yet to visit
    frames,      \* history: channel and size of every frame handled
    made,        \* history: how many packets the sources have made for each channel
    open,        \* sockets that are open
    alive,       \* sockets whose transport the owner holds
    seq,         \* rtp_header.seq of each transport and channel
    wire,        \* history: packets sent to a client since it was added
    multicast,   \* is_multicast_started_
    ip,          \* multicast_ip_
    addrs,       \* addrs_ of MulticastAddress
    others       \* those of them that other sessions hold

lockVars == <<frameLock, clientLock>>
tableVars == <<clients, active>>
threadVars == <<pc, arg, frame, part, todo>>
ownerVars == <<open, alive>>
madeVars == <<frames, made>>
streamVars == <<madeVars, seq, wire>>
castVars == <<multicast, ip, addrs, others>>
vars == <<exists, lockVars, tableVars, threadVars, ownerVars, streamVars, castVars>>

Init ==
    /\ exists = TRUE
    /\ frameLock = None /\ clientLock = None
    /\ clients = {} /\ active = {}
    /\ pc = [t \in Threads |-> "idle"] /\ arg = [t \in Threads |-> None]
    /\ frame = [t \in Threads |-> 0] /\ part = [t \in Threads |-> 0]
    /\ todo = [t \in Threads |-> {}]
    /\ frames = << >> /\ made = [c \in Channels |-> 0]
    /\ open = {} /\ alive = {}
    /\ seq = [h \in Sockets |-> [c \in Channels |-> 0]]
    /\ wire = [h \in Sockets |-> << >>]
    /\ multicast = FALSE /\ ip = None /\ addrs = {} /\ others = {}

Goto(t, l) == pc' = [pc EXCEPT ![t] = l]

-----------------------------------------------------------------------------
(* HandleFrame and DispatchToClients.  On a channel without a source       *)
(* HandleFrame returns and has changed nothing.                            *)

\* The source gets a frame of channel c and will make n packets of it.
HandleFrame_unlocked(t, c, n) ==
    /\ exists /\ pc[t] = "idle" /\ Len(frames) < MaxFrames
    /\ frameLock' = t
    /\ Goto(t, "packet")
    /\ frame' = [frame EXCEPT ![t] = Len(frames) + 1]
    /\ part' = [part EXCEPT ![t] = 1]
    /\ frames' = Append(frames, [channel |-> c, size |-> n])
    /\ made' = [made EXCEPT ![c] = @ + 1]
    /\ UNCHANGED <<exists, clientLock, tableVars, arg, todo, ownerVars,
                   seq, wire, castVars>>
HandleFrame(t, c, n) ==
    /\ exists /\ pc[t] = "idle" /\ Len(frames) < MaxFrames
    /\ frameLock = None /\ frameLock' = t
    /\ Goto(t, "packet")
    /\ frame' = [frame EXCEPT ![t] = Len(frames) + 1]
    /\ part' = [part EXCEPT ![t] = 1]
    /\ frames' = Append(frames, [channel |-> c, size |-> n])
    /\ made' = [made EXCEPT ![c] = @ + 1]
    /\ UNCHANGED <<exists, clientLock, tableVars, arg, todo, ownerVars,
                   seq, wire, castVars>>

DispatchToClients(t) ==
    /\ pc[t] = "packet"
    /\ clientLock = None /\ clientLock' = t
    /\ Goto(t, "dispatch")
    /\ todo' = [todo EXCEPT ![t] = clients]
    /\ UNCHANGED <<exists, frameLock, tableVars, arg, frame, part, ownerVars,
                   streamVars, castVars>>

\* The next client in the order of the map.
IsNext(h, t) == h \in todo[t] /\ \A g \in todo[t] : h <= g

SkipClient(t, h) ==
    /\ pc[t] = "dispatch" /\ IsNext(h, t)
    /\ h \notin active \/ h \notin alive
    /\ todo' = [todo EXCEPT ![t] = @ \ {h}]
    /\ UNCHANGED <<exists, lockVars, tableVars, pc, arg, frame, part, ownerVars,
                   streamVars, castVars>>

\* client.lock(): the transport stays while it is used, its socket may not.
LockClient(t, h) ==
    /\ pc[t] = "dispatch" /\ IsNext(h, t)
    /\ h \in active /\ h \in alive
    /\ arg' = [arg EXCEPT ![t] = h]
    /\ Goto(t, "send")
    /\ UNCHANGED <<exists, lockVars, tableVars, frame, part, todo, ownerVars,
                   streamVars, castVars>>

\* FillRtpHeader numbers the packet, then the sender sends it or fails.
Sent(t, h, c) == [channel |-> c, frame |-> frame[t], part |-> part[t],
                  place |-> made[c], seq |-> seq[h][c]]

SendRtp_countsOnSuccess(t, h, c, ok) ==
    /\ seq' = IF ok THEN [seq EXCEPT ![h][c] = (@ + 1) % SeqSize] ELSE seq
    /\ wire' = IF ok THEN [wire EXCEPT ![h] = Append(@, Sent(t, h, c))] ELSE wire
SendRtp(t, h, c, ok) ==
    /\ seq' = [seq EXCEPT ![h][c] = (@ + 1) % SeqSize]
    /\ wire' = IF ok THEN [wire EXCEPT ![h] = Append(@, Sent(t, h, c))] ELSE wire

Current(t) == frames[frame[t]]

\* In multicast mode the first packet sent is the only one.
SendRtpPacket(t, ok) ==
    /\ pc[t] = "send"
    /\ SendRtp(t, arg[t], Current(t).channel, ok)
    /\ todo' = [todo EXCEPT ![t] = IF multicast THEN {} ELSE @ \ {arg[t]}]
    /\ arg' = [arg EXCEPT ![t] = None]
    /\ Goto(t, "dispatch")
    /\ UNCHANGED <<exists, lockVars, tableVars, frame, part, ownerVars, madeVars, castVars>>

\* The packet has gone round; the source goes on with the next one.
NextPacket(t) ==
    /\ pc[t] = "dispatch" /\ todo[t] = {} /\ part[t] < Current(t).size
    /\ clientLock' = None
    /\ part' = [part EXCEPT ![t] = @ + 1]
    /\ made' = [made EXCEPT ![Current(t).channel] = @ + 1]
    /\ Goto(t, "packet")
    /\ UNCHANGED <<exists, frameLock, tableVars, arg, frame, todo, ownerVars,
                   frames, seq, wire, castVars>>

FrameEnds(t) ==
    /\ pc[t] = "dispatch" /\ todo[t] = {} /\ part[t] >= Current(t).size
    /\ clientLock' = None /\ frameLock' = None
    /\ frame' = [frame EXCEPT ![t] = 0] /\ part' = [part EXCEPT ![t] = 0]
    /\ Goto(t, "idle")
    /\ UNCHANGED <<exists, tableVars, arg, todo, ownerVars, streamVars, castVars>>

-----------------------------------------------------------------------------
(* AddClient and RemoveClient.  The one finds an entry with the handle and *)
(* returns false, the other finds none: nothing changes.                   *)

\* The entry is made, and the connect callbacks begin.
AddClient(t, h, isActive) ==
    /\ exists /\ pc[t] = "idle"
    /\ h \in open /\ h \in alive /\ h \notin clients
    /\ clientLock = None /\ clientLock' = t
    /\ clients' = clients \cup {h}
    /\ active' = IF isActive THEN active \cup {h} ELSE active
    /\ wire' = [wire EXCEPT ![h] = << >>]
    /\ arg' = [arg EXCEPT ![t] = h]
    /\ Goto(t, "connecting")
    /\ UNCHANGED <<exists, frameLock, frame, part, todo, ownerVars, madeVars, seq,
                   castVars>>

\* The disconnect callbacks begin: the entry is still there.
RemoveClient(t, h) ==
    /\ exists /\ pc[t] = "idle"
    /\ h \in clients /\ h \in alive
    /\ clientLock = None /\ clientLock' = t
    /\ arg' = [arg EXCEPT ![t] = h]
    /\ Goto(t, "disconnecting")
    /\ UNCHANGED <<exists, frameLock, tableVars, frame, part, todo, ownerVars,
                   streamVars, castVars>>

Erase(h) == clients' = clients \ {h} /\ active' = active \ {h}

\* Without a transport nobody is notified, and the entry goes at once.
RemoveExpired_unlocked(t, h) ==
    /\ exists /\ pc[t] = "idle"
    /\ h \in clients /\ h \notin alive
    /\ Erase(h)
    /\ UNCHANGED <<exists, lockVars, threadVars, ownerVars, streamVars, castVars>>
RemoveExpired(t, h) ==
    /\ exists /\ pc[t] = "idle"
    /\ h \in clients /\ h \notin alive
    /\ clientLock = None
    /\ Erase(h)
    /\ UNCHANGED <<exists, lockVars, threadVars, ownerVars, streamVars, castVars>>

Notified(t) ==
    /\ pc[t] \in {"connecting", "disconnecting"}
    /\ IF pc[t] = "connecting" THEN UNCHANGED tableVars ELSE Erase(arg[t])
    /\ clientLock' = None
    /\ arg' = [arg EXCEPT ![t] = None]
    /\ Goto(t, "idle")
    /\ UNCHANGED <<exists, frameLock, frame, part, todo, ownerVars, streamVars, castVars>>

-----------------------------------------------------------------------------
(* The owner of the connections, while the session exists.                 *)

\* A new transport does not initialise its sequence numbers.
Connect(h, s) ==
    /\ exists /\ h \notin open
    /\ open' = open \cup {h} /\ alive' = alive \cup {h}
    /\ seq' = [seq EXCEPT ![h] = [c \in Channels |-> s]]
    /\ UNCHANGED <<exists, lockVars, tableVars, threadVars, madeVars, wire, castVars>>

DropTransport(h) ==
    /\ exists /\ h \in alive
    /\ alive' = alive \ {h}
    /\ UNCHANGED <<exists, lockVars, tableVars, threadVars, open, streamVars, castVars>>

\* The owner has removed the client.
CloseSocket(h) ==
    /\ exists /\ h \in open /\ h \notin clients
    /\ open' = open \ {h} /\ alive' = alive \ {h}
    /\ seq' = [seq EXCEPT ![h] = [c \in Channels |-> 0]]
    /\ wire' = [wire EXCEPT ![h] = << >>]
    /\ UNCHANGED <<exists, lockVars, tableVars, threadVars, madeVars, castVars>>

-----------------------------------------------------------------------------
(* StartMulticast, the pool of addresses, the destructor.                  *)

GetMulticastIp(a) ==
    /\ a \notin addrs
    /\ addrs' = addrs \cup {a}
    /\ ip' = a

StartMulticast(t) ==
    /\ exists /\ pc[t] = "idle" /\ ~multicast
    /\ \A u \in Threads : pc[u] # "ports"
    /\ \E a \in Addresses : GetMulticastIp(a)
    /\ Goto(t, "ports")
    /\ UNCHANGED <<exists, lockVars, tableVars, arg, frame, part, todo, ownerVars,
                   streamVars, multicast, others>>

MulticastStarts(t) ==
    /\ pc[t] = "ports"
    /\ multicast' = TRUE
    /\ Goto(t, "idle")
    /\ UNCHANGED <<exists, lockVars, tableVars, arg, frame, part, todo, ownerVars,
                   streamVars, ip, addrs, others>>

\* StartMulticast drew ten addresses that were all taken.
NoAddress(t) ==
    /\ exists /\ pc[t] = "idle" /\ ~multicast
    /\ \A u \in Threads : pc[u] # "ports"
    /\ addrs # {}
    /\ ip' = None
    /\ UNCHANGED <<exists, lockVars, tableVars, threadVars, ownerVars,
                   streamVars, multicast, addrs, others>>

\* Another session starts multicast, or is destroyed.
OtherTakes(a) ==
    /\ a \notin addrs
    /\ addrs' = addrs \cup {a} /\ others' = others \cup {a}
    /\ UNCHANGED <<exists, lockVars, tableVars, threadVars, ownerVars,
                   streamVars, multicast, ip>>

OtherReleases(a) ==
    /\ a \in others
    /\ addrs' = addrs \ {a} /\ others' = others \ {a}
    /\ UNCHANGED <<exists, lockVars, tableVars, threadVars, ownerVars,
                   streamVars, multicast, ip>>

\* The last shared_ptr goes; no call is under way.
Destroy_keepsAddress ==
    /\ exists /\ \A t \in Threads : pc[t] = "idle"
    /\ exists' = FALSE
    /\ clients' = {} /\ active' = {}
    /\ UNCHANGED <<lockVars, threadVars, ownerVars, streamVars, castVars>>
Destroy ==
    /\ exists /\ \A t \in Threads : pc[t] = "idle"
    /\ exists' = FALSE
    /\ clients' = {} /\ active' = {}
    /\ addrs' = addrs \ {ip}
    /\ UNCHANGED <<lockVars, threadVars, ownerVars, streamVars, multicast, ip, others>>

-----------------------------------------------------------------------------
Frame(t) ==
    \/ \E c \in Sources, n \in 1..MaxParts : HandleFrame(t, c, n)
    \/ DispatchToClients(t)
    \/ \E h \in Sockets : SkipClient(t, h) \/ LockClient(t, h)
    \/ \E ok \in BOOLEAN : SendRtpPacket(t, ok)
    \/ NextPacket(t) \/ FrameEnds(t)

Table(t) ==
    \/ \E h \in Sockets :
          \/ \E b \in InitialActive : AddClient(t, h, b)
          \/ RemoveClient(t, h) \/ RemoveExpired(t, h)
    \/ Notified(t)

Multicast(t) == StartMulticast(t) \/ MulticastStarts(t) \/ NoAddress(t)

Owner ==
    \E h \in Sockets :
        \/ \E s \in InitialSeq : Connect(h, s)
        \/ DropTransport(h) \/ CloseSocket(h)

OtherSessions == \E a \in Addresses : OtherTakes(a) \/ OtherReleases(a)

Next ==
    \/ \E t \in Threads : Frame(t) \/ Table(t) \/ Multicast(t)
    \/ Owner \/ OtherSessions \/ Destroy

Spec == Init /\ [][Next]_vars

-----------------------------------------------------------------------------
(* Properties.                                                             *)

Labels == {"idle", "packet", "dispatch", "send", "connecting", "disconnecting", "ports"}

\* The type invariant: in particular a sequence number has its width, is_active
\* belongs to an entry, and a transport to an open socket.
TypeOK ==
    /\ exists \in BOOLEAN /\ multicast \in BOOLEAN
    /\ frameLock \in Threads \cup {None} /\ clientLock \in Threads \cup {None}
    /\ clients \subseteq Sockets /\ active \subseteq clients
    /\ pc \in [Threads -> Labels] /\ arg \in [Threads -> Sockets \cup {None}]
    /\ frame \in [Threads -> Nat] /\ part \in [Threads -> Nat]
    /\ todo \in [Threads -> SUBSET Sockets]
    /\ frames \in Seq([channel : Channels, size : Nat]) /\ made \in [Channels -> Nat]
    /\ open \subseteq Sockets /\ alive \subseteq open
    /\ seq \in [Sockets -> [Channels -> SeqNums]]
    /\ wire \in [Sockets -> Seq(Packet)]
    /\ ip \in Addresses \cup {None}
    /\ addrs \subseteq Addresses /\ others \subseteq Addresses

\* The packet q comes after the packet p in the stream of the session.
After(p, q) == p.frame < q.frame \/ (p.frame = q.frame /\ p.part < q.part)

\* However many threads feed the session, no client gets the packets of two frames
\* mixed, nor two clients the frames in different orders.
FramesInOrder ==
    \A h \in Sockets : \A i, j \in 1..Len(wire[h]) :
        i < j => After(wire[h][i], wire[h][j])

\* A dispatch sends only on a socket that its owner has not closed, although it
\* keeps nothing but the transport: RemoveClient returns after the dispatch.
SendsOnOpenSocket == \A t \in Threads : pc[t] = "send" => arg[t] \in open

\* Whatever senders fail to send, the numbers that a client sees on a channel count
\* the packets of the channel, also those it did not get: from the gap a receiver
\* knows how many packets are missing, up to a multiple of SeqSize, and hence that
\* its frame is incomplete.  Multicast is exempt, where another client's transport may
\* have sent what this one did not.
LossLeavesGap ==
    ~multicast =>
        \A h \in Sockets : \A i, j \in 1..Len(wire[h]) :
            LET p == wire[h][i]
                q == wire[h][j]
            IN  i < j /\ p.channel = q.channel =>
                    /\ p.place < q.place
                    /\ q.seq = (p.seq + (q.place - p.place)) % SeqSize

\* The pool holds the addresses in use, each for one session: none is given away
\* twice, and none is lost when StartMulticast fails or the session goes.
AddressesAccounted ==
    /\ addrs = others \cup (IF exists /\ ip # None THEN {ip} ELSE {})
    /\ exists => ip \notin others
=============================================================================
