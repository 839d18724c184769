------------------------------ MODULE Gateway ------------------------------
(***************************************************************************)
(* The client gateway of connsvr: three transports (lib/net/*_server with  *)
(* lib/net/net_mgr/*_impl.go) that share one SessionHub, its Admission-    *)
(* Controller and the SessionTracker, the packet handler of src/connsvr,   *)
(* and the Quiesce / Drain / Stop of gatewayComponent.                     *)
(*                                                                         *)
(* A connection has a reader goroutine, which runs OnConn (in the listener,*)
(* before it starts), every packet and at last OnClose, and a writer       *)
(* goroutine, which closes the connection when it takes a nil buffer.  Bus *)
(* goroutines send downstream packets, kick and broadcast.  The hub's lock *)
(* covers each map access; counters, writes and closes are outside it, and *)
(* a step below ends where the lock or an atomic counter is let go.        *)
(***************************************************************************)
EXTENDS Integers, FiniteSets

CONSTANTS
    Conns,             \* the connections that clients open, each of them once
    Uids,
    Transport,         \* connection -> "tcp", "ws" or "kcp"
    Logins,            \* <<connection, uid>>: the uids in a connection's packets
    SendTargets,       \* the uids that downstream packets are for
    KickTargets,       \* the connections that a KickOut request may name
    Broadcasts,        \* whether Broadcast requests come
    OverloadMode,      \* "off", "shadow" or "enforce"
    MaxConnections,    \* 0 for no limit
    RateLimited,       \* whether connection_rate and login_rate are set
    Slow,              \* the connections whose chanWrite may stay full for the
                       \* three seconds that sendToWriteChan waits
    NoConn, NoUid

Transports == {"tcp", "ws", "kcp"}
Used == {Transport[c] : c \in Conns}    \* the others have nothing to accept or close

ASSUME GatewayAssumption ==
    /\ IsFiniteSet(Conns) /\ IsFiniteSet(Uids)
    /\ NoConn \notin Conns /\ NoUid \notin Uids
    /\ Transport \in [Conns -> Transports]
    /\ Logins \subseteq Conns \X Uids
    /\ SendTargets \subseteq Uids /\ KickTargets \subseteq Conns /\ Broadcasts \in BOOLEAN
    /\ OverloadMode \in {"off", "shadow", "enforce"}
    /\ MaxConnections \in Nat
    /\ RateLimited \in BOOLEAN
    /\ Slow \subseteq Conns

VARIABLES
    link,          \* connection -> its socket: "absent", "open" or "shut"
    pc,            \* connection -> what its reader goroutine does next
    packetUid,     \* connection -> the uid of the packet its reader handles
    victim,        \* connection -> the connection it must kick
    connInfo,      \* the connections in their transport's mapOfConnInfo
    nilQueued,     \* the connections whose writer will take a nil
    uidConn,       \* uid -> the connection in uidConnMap, or NoConn
    connUid,       \* connection -> the uid in connUidMap, or NoUid
    kickMark,      \* connections whose address is in remoteAddrKickMap
    leases,        \* the three connLease sets
    reserved,      \* reservedConns
    connections, sessions,             \* the counts of SessionTracker
    accepting,     \* the hub's
    listening,     \* transports whose listener accepts
    stage,         \* the caller of Quiesce, Drain and Stop
    running,       \* transports that Stop has not reached
    down,          \* downstream packet: <<uid, transport to try next>>
    kicking,       \* KickByRemoteAddr: the connection it has looked up
    targets        \* BroadcastByZone: connections still to be written to

hubVars   == <<uidConn, connUid, kickMark, accepting>>
countVars == <<leases, reserved, connections, sessions>>
readVars  == <<pc, packetUid, victim>>
busVars   == <<down, kicking, targets>>
drainVars == <<listening, stage, running>>
sockVars  == <<link, connInfo, nilQueued>>
vars == <<sockVars, readVars, hubVars, countVars, busVars, drainVars>>

Starting == {"admitting", "counting"}       \* the reader has not started
Pcs == {"none", "idle", "binding", "inc", "kicking",
        "uncount", "release", "remove", "dec", "destroy", "done"} \cup Starting
Stages == {"serving", "quiescing", "draining", "drained", "expired", "stopped"}
NoDown == <<NoUid, "tcp">>
Bound == {u \in Uids : uidConn[u] # NoConn}
Minus1Unclamped(n) == n - 1                 \* mutant: the CAS loop does not stop at zero
Minus1(n) == IF n > 0 THEN n - 1 ELSE n     \* decCAS and ReleaseConnection

Init ==
    /\ link = [c \in Conns |-> "absent"]
    /\ pc = [c \in Conns |-> "none"]
    /\ packetUid = [c \in Conns |-> NoUid]
    /\ victim = [c \in Conns |-> NoConn]
    /\ connInfo = {} /\ nilQueued = {}
    /\ uidConn = [u \in Uids |-> NoConn]
    /\ connUid = [c \in Conns |-> NoUid]
    /\ kickMark = {}
    /\ leases = {} /\ reserved = 0 /\ connections = 0 /\ sessions = 0
    /\ accepting = TRUE
    /\ listening = Used /\ stage = "serving" /\ running = Used
    /\ down = NoDown /\ kicking = NoConn /\ targets = {}
-----------------------------------------------------------------------------
(* OnConn, in the listener goroutine. *)

\* TryAcquireConnection; the limit counts only under shadow and enforce.
Enabled   == OverloadMode # "off"
HasRoomForOneMore == MaxConnections = 0 \/ reserved <= MaxConnections    \* mutant
HasRoom   == MaxConnections = 0 \/ reserved < MaxConnections
Within(overRate) == accepting /\ ~overRate /\ HasRoom
TakesSlot == Enabled /\ MaxConnections > 0

Accept(c) ==
    /\ link[c] = "absent"
    /\ Transport[c] \in listening
    /\ connInfo' = connInfo \cup {c}
    /\ \E overRate \in {FALSE, RateLimited} :
        \/ /\ Within(overRate) \/ OverloadMode # "enforce"
           /\ reserved' = IF Within(overRate) /\ TakesSlot THEN reserved + 1 ELSE reserved
           /\ link' = [link EXCEPT ![c] = "open"]
           /\ pc' = [pc EXCEPT ![c] = "admitting"]
        \/ /\ ~Within(overRate) /\ OverloadMode = "enforce"
           /\ link' = [link EXCEPT ![c] = "shut"]
           /\ pc' = [pc EXCEPT ![c] = "idle"]
           /\ UNCHANGED reserved
    /\ UNCHANGED <<nilQueued, packetUid, victim, leases, connections, sessions,
                   hubVars, busVars, drainVars>>

MarkAdmitted(c) ==
    /\ pc[c] = "admitting"
    /\ leases' = leases \cup {c}
    /\ pc' = [pc EXCEPT ![c] = "counting"]
    /\ UNCHANGED <<sockVars, packetUid, victim, reserved, connections, sessions, hubVars,
                   busVars, drainVars>>

\* Then the reader and the writer start.
IncConnection(c) ==
    /\ pc[c] = "counting"
    /\ connections' = connections + 1
    /\ pc' = [pc EXCEPT ![c] = "idle"]
    /\ UNCHANGED <<sockVars, packetUid, victim, leases, reserved, sessions, hubVars,
                   busVars, drainVars>>
-----------------------------------------------------------------------------
(* handleClientPacket, in the reader goroutine. *)

\* GetClientByUid and, for a first login, TryAdmitLogin.  A packet of the
\* bound connection is only forwarded to the router, and one whose login is
\* rejected is dropped: neither changes anything here.
LoginRejected(u) ==
    /\ OverloadMode = "enforce"
    /\ uidConn[u] = NoConn
    /\ ~accepting

\* What was read before the socket was shut is still handled; a connection that
\* OnConn rejected is shut before its reader reads.
ClientPacket(c, u) ==
    /\ <<c, u>> \in Logins
    /\ pc[c] = "idle" /\ c \in leases
    /\ uidConn[u] # c
    /\ ~LoginRejected(u)
    /\ pc' = [pc EXCEPT ![c] = "binding"]
    /\ packetUid' = [packetUid EXCEPT ![c] = u]
    /\ UNCHANGED <<sockVars, victim, hubVars, countVars, busVars, drainVars>>

\* BindClient up to Unlock.
BindClient(c) ==
    /\ pc[c] = "binding"
    /\ LET u == packetUid[c] IN
       IF accepting
       THEN /\ uidConn' = [uidConn EXCEPT ![u] = c]
            /\ connUid' = [connUid EXCEPT ![c] = u]
            /\ victim' = [victim EXCEPT ![c] = uidConn[u]]
            /\ pc' = [pc EXCEPT ![c] = IF uidConn[u] = NoConn THEN "inc" ELSE "kicking"]
       ELSE /\ pc' = [pc EXCEPT ![c] = "idle"]
            /\ UNCHANGED <<uidConn, connUid, victim>>
    /\ packetUid' = [packetUid EXCEPT ![c] = NoUid]
    /\ UNCHANGED <<sockVars, kickMark, accepting, countVars, busVars, drainVars>>

IncSession(c) ==
    /\ pc[c] = "inc"
    /\ sessions' = sessions + 1
    /\ pc' = [pc EXCEPT ![c] = "idle"]
    /\ UNCHANGED <<sockVars, packetUid, victim, hubVars, leases, reserved, connections,
                   busVars, drainVars>>

\* WriteData and Close of transport t know only t's own connections.
Writable(t, c) == c \in connInfo /\ Transport[c] = t

\* Mutant: Close looks the connection up through its uid.
CloseByUid(t, c) ==
    nilQueued' = nilQueued \cup {d \in {c} : Writable(t, c) /\ c \in {uidConn[u] : u \in Uids}}

\* Close: a nil for the writer, which is lost if the channel stays full.
CloseBy(t, c) ==
    \/ Writable(t, c) /\ nilQueued' = nilQueued \cup {c}
    \/ (~Writable(t, c) \/ c \in Slow) /\ UNCHANGED nilQueued

\* UpdateClientByUid kicks the replaced connection through its own transport.
KickReplaced(c) ==
    /\ pc[c] = "kicking"
    /\ CloseBy(Transport[c], victim[c])
    /\ victim' = [victim EXCEPT ![c] = NoConn]
    /\ pc' = [pc EXCEPT ![c] = "idle"]
    /\ UNCHANGED <<link, connInfo, packetUid, hubVars, countVars, busVars, drainVars>>
-----------------------------------------------------------------------------
(* The end of a connection. *)

\* The client goes away, or the read times out.
PeerCloses(c) ==
    /\ link[c] = "open" /\ pc[c] \notin Starting
    /\ link' = [link EXCEPT ![c] = "shut"]
    /\ UNCHANGED <<connInfo, nilQueued, readVars, hubVars, countVars, busVars, drainVars>>

\* runConnWrite takes the nil.
WriterCloses(c) ==
    /\ c \in nilQueued
    /\ pc[c] \notin Starting
    /\ nilQueued' = nilQueued \ {c}
    /\ link' = [link EXCEPT ![c] = "shut"]
    /\ UNCHANGED <<connInfo, readVars, hubVars, countVars, busVars, drainVars>>

\* OnClose: takeIfAdmitted ...
TakeLease(c) ==
    /\ pc[c] = "idle" /\ link[c] = "shut"
    /\ leases' = leases \ {c}
    /\ pc' = [pc EXCEPT ![c] = IF c \in leases THEN "uncount" ELSE "remove"]
    /\ UNCHANGED <<sockVars, packetUid, victim, reserved, connections, sessions, hubVars,
                   busVars, drainVars>>

\* ... DecConnection ...
DecConnection(c) ==
    /\ pc[c] = "uncount"
    /\ connections' = Minus1(connections)
    /\ pc' = [pc EXCEPT ![c] = "release"]
    /\ UNCHANGED <<sockVars, packetUid, victim, leases, reserved, sessions, hubVars,
                   busVars, drainVars>>

\* ... ReleaseConnection, whatever OverloadMode is ...
ReleaseConnection(c) ==
    /\ pc[c] = "release"
    /\ reserved' = Minus1(reserved)
    /\ pc' = [pc EXCEPT ![c] = "remove"]
    /\ UNCHANGED <<sockVars, packetUid, victim, leases, connections, sessions, hubVars,
                   busVars, drainVars>>

\* ... RemoveConn up to Unlock ...
HoldsAnyUid(c) == connUid[c] # NoUid            \* mutant: cur.Conn == conn is not compared
HoldsUidUnkicked(c) ==                          \* mutant: a kicked connection is left alone
    connUid[c] # NoUid /\ uidConn[connUid[c]] = c /\ c \notin kickMark
HoldsUid(c) == connUid[c] # NoUid /\ uidConn[connUid[c]] = c
RemoveConn(c) ==
    /\ pc[c] = "remove"
    /\ IF HoldsUid(c)
       THEN /\ uidConn' = [uidConn EXCEPT ![connUid[c]] = NoConn]
            /\ kickMark' = kickMark \ {c}
            /\ pc' = [pc EXCEPT ![c] = "dec"]
       ELSE /\ pc' = [pc EXCEPT ![c] = "destroy"]
            /\ UNCHANGED <<uidConn, kickMark>>
    /\ connUid' = [connUid EXCEPT ![c] = NoUid]
    /\ UNCHANGED <<sockVars, packetUid, victim, accepting, countVars, busVars, drainVars>>

\* ... and DecSession.
DecSession(c) ==
    /\ pc[c] = "dec"
    /\ sessions' = Minus1(sessions)
    /\ pc' = [pc EXCEPT ![c] = "destroy"]
    /\ UNCHANGED <<sockVars, packetUid, victim, leases, reserved, connections, hubVars,
                   busVars, drainVars>>

DestroyConn(c) ==
    /\ pc[c] = "destroy"
    /\ connInfo' = connInfo \ {c}
    /\ nilQueued' = nilQueued \ {c}
    /\ pc' = [pc EXCEPT ![c] = "done"]
    /\ UNCHANGED <<link, packetUid, victim, hubVars, countVars, busVars, drainVars>>
-----------------------------------------------------------------------------
(* Bus goroutines: onRecvSSPacket, KickOut, Broadcast. *)

\* Bound: one of these requests is under way at a time.
BusIdle == down = NoDown /\ kicking = NoConn /\ targets = {}

\* What WriteData may return, nil being TRUE; SendByUid and BroadcastByZone
\* close the connection when it fails.
WriteData(t, c) == {ok \in BOOLEAN : IF ok THEN Writable(t, c) ELSE ~Writable(t, c) \/ c \in Slow}
CloseOnError(ok, c) == link' = IF ok THEN link ELSE [link EXCEPT ![c] = "shut"]

OnRecvSSPacket(u) ==
    /\ BusIdle
    /\ u \in SendTargets
    /\ down' = <<u, "tcp">>
    /\ UNCHANGED <<sockVars, readVars, hubVars, countVars, kicking, targets, drainVars>>

\* onRecvSSPacket tries TCP, WS and KCP until one accepts the packet.
TryNext(t) == IF t = "kcp" THEN NoDown ELSE <<down[1], IF t = "tcp" THEN "ws" ELSE "kcp">>
SendByUid(t) ==
    /\ down[1] # NoUid /\ down[2] = t
    /\ LET c == uidConn[down[1]] IN
       IF c = NoConn
       THEN down' = TryNext(t) /\ UNCHANGED link
       ELSE \E ok \in WriteData(t, c) :
               /\ CloseOnError(ok, c)
               /\ down' = IF ok THEN NoDown ELSE TryNext(t)
    /\ UNCHANGED <<connInfo, nilQueued, readVars, hubVars, countVars, kicking, targets, drainVars>>

\* KickOut names a remote address and always asks the WS transport; an address
\* is in remoteAddrConnMap exactly as long as its connection is in connUidMap.
ConnByRemoteAddr(c) ==
    /\ BusIdle
    /\ c \in KickTargets
    /\ connUid[c] # NoUid
    /\ kicking' = c
    /\ UNCHANGED <<sockVars, readVars, hubVars, countVars, down, targets, drainVars>>

MarkKick ==
    /\ kicking # NoConn
    /\ kickMark' = kickMark \cup {kicking}
    /\ CloseBy("ws", kicking)
    /\ kicking' = NoConn
    /\ UNCHANGED <<link, connInfo, readVars, uidConn, connUid, accepting, countVars, down,
                   targets, drainVars>>

\* Broadcast goes to the WS transport with zone 0: everybody.
SnapshotByZone ==
    /\ BusIdle
    /\ Broadcasts
    /\ targets' = {uidConn[u] : u \in Bound}
    /\ UNCHANGED <<sockVars, readVars, hubVars, countVars, down, kicking, drainVars>>

BroadcastWrite(c) ==
    /\ c \in targets
    /\ targets' = targets \ {c}
    /\ \E ok \in WriteData("ws", c) : CloseOnError(ok, c)
    /\ UNCHANGED <<connInfo, nilQueued, readVars, hubVars, countVars, down, kicking, drainVars>>
-----------------------------------------------------------------------------
(* gatewayComponent: Quiesce, Drain, Stop. *)

Quiesce ==
    /\ stage = "serving"
    /\ accepting' = FALSE
    /\ stage' = "quiescing"
    /\ UNCHANGED <<sockVars, readVars, uidConn, connUid, kickMark, countVars, busVars,
                   listening, running>>

First(S) == IF "tcp" \in S THEN "tcp" ELSE IF "ws" \in S THEN "ws" ELSE "kcp"

QuiesceListener ==
    /\ stage = "quiescing"
    /\ listening' = listening \ {First(listening)}
    /\ stage' = IF listening' = {} THEN "draining" ELSE stage
    /\ UNCHANGED <<sockVars, readVars, hubVars, countVars, busVars, running>>

\* WaitSessions reads zero sessions, at once or after a broadcast ...
WaitSessions ==
    /\ stage = "draining"
    /\ sessions = 0
    /\ stage' = "drained"
    /\ UNCHANGED <<sockVars, readVars, hubVars, countVars, busVars, listening, running>>

\* ... or its context ends first.
DrainExpires ==
    /\ stage = "draining"
    /\ stage' = "expired"
    /\ UNCHANGED <<sockVars, readVars, hubVars, countVars, busVars, listening, running>>

\* Stop of the next transport closes every connection in its table.
StopTransport ==
    /\ stage \in {"drained", "expired"}
    /\ LET t == First(running) IN
        /\ link' = [c \in Conns |-> IF c \in connInfo /\ Transport[c] = t THEN "shut" ELSE link[c]]
        /\ running' = running \ {t}
        /\ stage' = IF running' = {} THEN "stopped" ELSE stage
    /\ UNCHANGED <<connInfo, nilQueued, readVars, hubVars, countVars, busVars, listening>>
-----------------------------------------------------------------------------
Handler(c) ==
    \/ BindClient(c) \/ IncSession(c) \/ KickReplaced(c)
OnClose(c) ==
    \/ TakeLease(c) \/ DecConnection(c) \/ ReleaseConnection(c)
    \/ RemoveConn(c) \/ DecSession(c) \/ DestroyConn(c)

Client(c) ==
    \/ Accept(c) \/ PeerCloses(c)
    \/ \E u \in Uids : ClientPacket(c, u)
OnConn(c) ==
    MarkAdmitted(c) \/ IncConnection(c)
Server(c) ==
    OnConn(c) \/ Handler(c) \/ WriterCloses(c) \/ OnClose(c)

Downstream == (\E t \in Transports : SendByUid(t)) \/ MarkKick \/ (\E c \in targets : BroadcastWrite(c))
Bus ==
    \/ \E u \in Uids : OnRecvSSPacket(u)
    \/ \E c \in Conns : ConnByRemoteAddr(c)
    \/ SnapshotByZone
    \/ Downstream

Shutdown == Quiesce \/ QuiesceListener \/ WaitSessions \/ DrainExpires \/ StopTransport

Next == (\E c \in Conns : Client(c) \/ Server(c)) \/ Bus \/ Shutdown

Spec == Init /\ [][Next]_vars

(* Goroutines run.  Clients need not send or leave, and nobody has to stop the *)
(* server; once it quiesces, App.Run goes on to Drain and Stop.  The reader of a *)
(* socket that is shut comes to the end of what it has read, and to OnClose.    *)
Fairness ==
    /\ \A c \in Conns : /\ WF_vars(OnConn(c)) /\ WF_vars(Handler(c))
                        /\ WF_vars(WriterCloses(c)) /\ SF_vars(OnClose(c))
    /\ WF_vars(MarkKick)
    /\ WF_vars(QuiesceListener) /\ WF_vars(WaitSessions \/ DrainExpires) /\ WF_vars(StopTransport)

FairSpec == Spec /\ Fairness
-----------------------------------------------------------------------------
(* Properties. *)

TypeOK ==
    /\ link \in [Conns -> {"absent", "open", "shut"}]
    /\ pc \in [Conns -> Pcs]
    /\ packetUid \in [Conns -> Uids \cup {NoUid}]
    /\ victim \in [Conns -> Conns \cup {NoConn}]
    /\ connInfo \subseteq Conns /\ nilQueued \subseteq Conns
    /\ uidConn \in [Uids -> Conns \cup {NoConn}]
    /\ connUid \in [Conns -> Uids \cup {NoUid}]
    /\ kickMark \subseteq Conns /\ leases \subseteq Conns
    /\ reserved \in Nat /\ connections \in Nat /\ sessions \in Nat
    /\ accepting \in BOOLEAN
    /\ listening \subseteq Transports /\ running \subseteq Transports /\ stage \in Stages
    /\ down \in (Uids \cup {NoUid}) \X Transports
    /\ kicking \in Conns \cup {NoConn}
    /\ targets \subseteq Conns

At(p) == {c \in Conns : pc[c] = p}

\* A uid is bound only to a connection whose OnClose has yet to remove it: the
\* late close of a replaced connection does not remove the new binding, and no
\* binding outlives its connection (RemoveConn).  For clients that stay with
\* one uid.
BindingsAreLive ==
    \A u \in Bound :
        /\ connUid[uidConn[u]] = u
        /\ pc[uidConn[u]] \notin Starting \cup {"none", "dec", "destroy", "done"}

\* A connection that does not hold its uid any more has been replaced and is on
\* its way out: its socket is shut, or the nil is queued or about to be.  So a
\* late OnClose has not taken the uid from a connection that goes on.  For
\* clients that stay with one uid and one transport, and writers that keep up.
LostUidIsLeaving ==
    \A c \in Conns \ Slow : (connUid[c] # NoUid /\ uidConn[connUid[c]] # c) =>
        \/ link[c] = "shut"
        \/ c \in nilQueued
        \/ \E d \in Conns : victim[d] = c

\* The count that WaitSessions reads is short of the bound uids by at most the
\* binds that have not reached IncSession yet: Drain may pass over those, and
\* over no other session.
SessionsNotUndercounted ==
    Cardinality(Bound) + Cardinality(At("dec")) <= sessions + Cardinality(At("inc"))

\* Every admitted connection is counted once, from IncConnection to DecConnection,
\* and under enforce its slot is held from TryAcquireConnection to
\* ReleaseConnection, within the limit.
Counted == (leases \ At("counting")) \cup At("uncount")
HoldsSlot == leases \cup At("admitting") \cup At("uncount") \cup At("release")
LeasesCounted ==
    /\ connections = Cardinality(Counted)
    /\ (OverloadMode = "enforce" /\ TakesSlot) =>
          /\ reserved = Cardinality(HoldsSlot)
          /\ reserved <= MaxConnections

\* A connection that lost its uid to another one is closed (UpdateClientByUid),
\* if its writer keeps up.
ReplacedIsClosed ==
    \A c \in Conns \ Slow, u \in Uids :
        (connUid[c] = u /\ uidConn[u] # c) ~> (link[c] = "shut")

\* A connection marked as kicked is closed (KickByRemoteAddr), if its writer
\* keeps up.
KickCloses == \A c \in Conns \ Slow : (c \in kickMark) ~> (link[c] = "shut")

\* After Stop every connection is taken down and gives back what it held.
StopReleasesAll ==
    (stage = "stopped") ~> (connInfo = {} /\ Bound = {} /\ connections = 0 /\ reserved = 0)

\* The next two are refuted.

\* ActiveSessions is the number of bound uids whenever no goroutine is between
\* a map change and its count (session_tracker.go).
SessionsExact ==
    (At("inc") = {} /\ At("dec") = {}) => sessions = Cardinality(Bound)

\* A downstream packet tries TCP, WS and KCP in turn for the uid's connection
\* (pack_proc.go): it does not close one that its own transport can write to.
DownstreamSparesHealthy ==
    [][\A t \in Transports : SendByUid(t) =>
          \A c \in connInfo : link'[c] = link[c]]_vars
=============================================================================
