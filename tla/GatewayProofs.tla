---------------------------- MODULE GatewayProofs ----------------------------
(***************************************************************************)
(* Proofs for Gateway, for any connections, uids, transports, logins and   *)
(* limits.                                                                 *)
(*                                                                         *)
(* PlaceInv says what each position of a connection's reader implies for   *)
(* its socket, its table entry, its bindings and its lease; the counts and *)
(* the bindings are then preserved one action at a time.                   *)
(***************************************************************************)
EXTENDS Gateway, FiniteSetTheorems, TLAPS

\* Where a connection may be bound to a uid; where it may hold a lease.
Handling == {"idle", "binding", "inc", "kicking"}
MayBeBound == Handling \cup {"uncount", "release", "remove"}

Place(c) ==
    /\ link[c] = "absent" <=> pc[c] = "none"
    /\ c \in connInfo <=> pc[c] \notin {"none", "done"}
    /\ packetUid[c] # NoUid <=> pc[c] = "binding"
    /\ packetUid[c] # NoUid => <<c, packetUid[c]>> \in Logins
    /\ victim[c] # NoConn => pc[c] = "kicking"
    /\ connUid[c] # NoUid => pc[c] \in MayBeBound /\ <<c, connUid[c]>> \in Logins
    /\ c \in leases => pc[c] \in Handling \cup {"counting"}
    /\ pc[c] = "counting" => c \in leases

PlaceInv ==
    /\ \A c \in Conns : Place(c)
    /\ nilQueued \subseteq connInfo
    /\ \A u \in Bound : link[uidConn[u]] # "absent"
    /\ \A c \in targets : link[c] # "absent"

\* Clients that stay with one uid.
OneUidEach == \A c \in Conns, u, v \in Uids : (<<c, u>> \in Logins /\ <<c, v>> \in Logins) => u = v

\* A uid's connection holds that uid.
BindInv == \A u \in Bound : connUid[uidConn[u]] = u

\* All the connections of a uid use one transport.
OneTransportEach ==
    \A c, d \in Conns, u \in Uids :
        (<<c, u>> \in Logins /\ <<d, u>> \in Logins) => Transport[c] = Transport[d]

\* So the transport of a new connection knows the one that it replaces.
VictimInv == \A c \in Conns : victim[c] # NoConn => Transport[victim[c]] = Transport[c]

\* The counts, as the map changes and the counters come in separate steps.
CountInv == SessionsNotUndercounted /\ LeasesCounted

-----------------------------------------------------------------------------
(* One lemma per part: every step preserves it. *)

\* BindClient for the uid of the packet: it takes the uid over, or gives up.
BindFor(c, u) ==
    /\ u \in Uids /\ <<c, u>> \in Logins
    /\ packetUid[c] = u /\ pc[c] = "binding"
    /\ packetUid' = [packetUid EXCEPT ![c] = NoUid]
    /\ \/ /\ uidConn' = [uidConn EXCEPT ![u] = c]
          /\ connUid' = [connUid EXCEPT ![c] = u]
          /\ victim' = [victim EXCEPT ![c] = uidConn[u]]
          /\ \/ uidConn[u] = NoConn /\ pc' = [pc EXCEPT ![c] = "inc"]
             \/ uidConn[u] # NoConn /\ pc' = [pc EXCEPT ![c] = "kicking"]
       \/ UNCHANGED <<uidConn, connUid, victim>> /\ pc' = [pc EXCEPT ![c] = "idle"]
    /\ UNCHANGED <<sockVars, kickMark, accepting, countVars, busVars, drainVars>>

LEMMA BindEffect == ASSUME TypeOK, PlaceInv, NEW c \in Conns, BindClient(c)
                    PROVE  \E u \in Uids : BindFor(c, u)
<1>1. Place(c) /\ pc[c] = "binding" BY DEF PlaceInv, BindClient
<1>2. packetUid[c] \in Uids /\ <<c, packetUid[c]>> \in Logins BY <1>1 DEF Place, TypeOK
<1>3. BindFor(c, packetUid[c]) BY <1>1, <1>2 DEF BindClient, BindFor
<1> QED BY <1>2, <1>3

LEMMA NextTypeOK == ASSUME TypeOK, PlaceInv, [Next]_vars PROVE TypeOK'
<1> USE DEF sockVars, readVars, hubVars, countVars, busVars, drainVars
<1>1. ASSUME NEW c \in Conns, Accept(c) PROVE TypeOK'
  BY <1>1, GatewayAssumption DEF Accept, TypeOK, Pcs, Starting, Stages, Transports
<1>2. ASSUME NEW c \in Conns, MarkAdmitted(c) PROVE TypeOK'
  BY <1>2, GatewayAssumption DEF MarkAdmitted, TypeOK, Pcs, Starting, Stages, Transports
<1>2a. ASSUME NEW c \in Conns, IncConnection(c) PROVE TypeOK'
  BY <1>2a, GatewayAssumption DEF IncConnection, TypeOK, Pcs, Starting, Stages, Transports
<1>3. ASSUME NEW c \in Conns, NEW u \in Uids, ClientPacket(c, u) PROVE TypeOK'
  BY <1>3, GatewayAssumption DEF ClientPacket, TypeOK, Pcs, Starting, Stages, Transports
<1>4. ASSUME NEW c \in Conns, BindClient(c) PROVE TypeOK'
  <2>1. PICK u \in Uids : BindFor(c, u) BY <1>4, BindEffect
  <2>2. uidConn' \in [Uids -> Conns \cup {NoConn}] /\ connUid' \in [Conns -> Uids \cup {NoUid}]
    BY <2>1 DEF BindFor, TypeOK
  <2>3. victim' \in [Conns -> Conns \cup {NoConn}] /\ pc' \in [Conns -> Pcs]
    BY <2>1 DEF BindFor, TypeOK, Pcs, Starting
  <2>4. packetUid' \in [Conns -> Uids \cup {NoUid}]
    BY <2>1 DEF BindFor, TypeOK
  <2>5. QED BY <2>1, <2>2, <2>3, <2>4 DEF BindFor, TypeOK
<1>5. ASSUME NEW c \in Conns, IncSession(c) PROVE TypeOK'
  BY <1>5, GatewayAssumption DEF IncSession, TypeOK, Pcs, Starting, Stages, Transports
<1>6. ASSUME NEW c \in Conns, KickReplaced(c) PROVE TypeOK'
  BY <1>6, GatewayAssumption DEF KickReplaced, CloseBy, Writable, TypeOK, Pcs, Starting, Stages, Transports
<1>7. ASSUME NEW c \in Conns, PeerCloses(c) PROVE TypeOK'
  BY <1>7, GatewayAssumption DEF PeerCloses, TypeOK, Pcs, Starting, Stages, Transports
<1>8. ASSUME NEW c \in Conns, WriterCloses(c) PROVE TypeOK'
  BY <1>8, GatewayAssumption DEF WriterCloses, TypeOK, Pcs, Starting, Stages, Transports
<1>9. ASSUME NEW c \in Conns, TakeLease(c) PROVE TypeOK'
  BY <1>9, GatewayAssumption DEF TakeLease, TypeOK, Pcs, Starting, Stages, Transports
<1>9a. ASSUME NEW c \in Conns, DecConnection(c) PROVE TypeOK'
  BY <1>9a, GatewayAssumption DEF DecConnection, Minus1, TypeOK, Pcs, Starting, Stages, Transports
<1>10. ASSUME NEW c \in Conns, ReleaseConnection(c) PROVE TypeOK'
  BY <1>10, GatewayAssumption DEF ReleaseConnection, Minus1, TypeOK, Pcs, Starting, Stages, Transports
<1>11. ASSUME NEW c \in Conns, RemoveConn(c) PROVE TypeOK'
  BY <1>11, GatewayAssumption DEF RemoveConn, HoldsUid, TypeOK, Pcs, Starting, Stages, Transports
<1>12. ASSUME NEW c \in Conns, DecSession(c) PROVE TypeOK'
  BY <1>12, GatewayAssumption DEF DecSession, Minus1, TypeOK, Pcs, Starting, Stages, Transports
<1>13. ASSUME NEW c \in Conns, DestroyConn(c) PROVE TypeOK'
  BY <1>13, GatewayAssumption DEF DestroyConn, TypeOK, Pcs, Starting, Stages, Transports
<1>14. ASSUME NEW u \in Uids, OnRecvSSPacket(u) PROVE TypeOK'
  BY <1>14, GatewayAssumption DEF OnRecvSSPacket, TypeOK, Pcs, Starting, Stages, Transports
<1>15. ASSUME NEW t \in Transports, SendByUid(t) PROVE TypeOK'
  BY <1>15, GatewayAssumption DEF SendByUid, CloseOnError, WriteData, TryNext, Writable, NoDown, TypeOK, Pcs, Starting, Stages, Transports
<1>16. ASSUME NEW c \in Conns, ConnByRemoteAddr(c) PROVE TypeOK'
  BY <1>16, GatewayAssumption DEF ConnByRemoteAddr, TypeOK, Pcs, Starting, Stages, Transports
<1>17. ASSUME MarkKick PROVE TypeOK'
  BY <1>17, GatewayAssumption DEF MarkKick, CloseBy, Writable, TypeOK, Pcs, Starting, Stages, Transports
<1>18. ASSUME SnapshotByZone PROVE TypeOK'
  BY <1>18, GatewayAssumption DEF SnapshotByZone, Bound, TypeOK, Pcs, Starting, Stages, Transports
<1>19. ASSUME NEW c \in targets, BroadcastWrite(c) PROVE TypeOK'
  BY <1>19, GatewayAssumption DEF BroadcastWrite, CloseOnError, WriteData, Writable, TypeOK, Pcs, Starting, Stages, Transports
<1>20. ASSUME Quiesce PROVE TypeOK'
  BY <1>20, GatewayAssumption DEF Quiesce, TypeOK, Pcs, Starting, Stages, Transports
<1>21. ASSUME QuiesceListener PROVE TypeOK'
  BY <1>21, GatewayAssumption DEF QuiesceListener, TypeOK, Pcs, Starting, Stages, Transports
<1>22. ASSUME WaitSessions PROVE TypeOK'
  BY <1>22, GatewayAssumption DEF WaitSessions, TypeOK, Pcs, Starting, Stages, Transports
<1>23. ASSUME DrainExpires PROVE TypeOK'
  BY <1>23, GatewayAssumption DEF DrainExpires, TypeOK, Pcs, Starting, Stages, Transports
<1>24. ASSUME StopTransport PROVE TypeOK'
  BY <1>24, GatewayAssumption DEF StopTransport, First, TypeOK, Pcs, Starting, Stages, Transports
<1>25. CASE UNCHANGED vars BY <1>25 DEF vars, TypeOK, Pcs, Starting, Stages, Transports
<1> QED BY <1>1, <1>2, <1>2a, <1>3, <1>4, <1>5, <1>6, <1>7, <1>8, <1>9, <1>9a, <1>10, <1>11, <1>12, <1>13, <1>14, <1>15, <1>16, <1>17, <1>18, <1>19, <1>20, <1>21, <1>22, <1>23, <1>24, <1>25 DEF Next, Client, Server, OnConn, Handler, OnClose, Bus, Downstream, Shutdown

LEMMA NextPlaceInv == ASSUME TypeOK, PlaceInv, [Next]_vars PROVE PlaceInv'
<1> USE DEF sockVars, readVars, hubVars, countVars, busVars, drainVars
<1>1. ASSUME NEW c \in Conns, Accept(c) PROVE PlaceInv'
  BY <1>1, GatewayAssumption DEF Accept, TypeOK, PlaceInv, Place, Bound, Handling, MayBeBound
<1>2. ASSUME NEW c \in Conns, MarkAdmitted(c) PROVE PlaceInv'
  BY <1>2, GatewayAssumption DEF MarkAdmitted, TypeOK, PlaceInv, Place, Bound, Handling, MayBeBound
<1>2a. ASSUME NEW c \in Conns, IncConnection(c) PROVE PlaceInv'
  BY <1>2a, GatewayAssumption DEF IncConnection, TypeOK, PlaceInv, Place, Bound, Handling, MayBeBound
<1>3. ASSUME NEW c \in Conns, NEW u \in Uids, ClientPacket(c, u) PROVE PlaceInv'
  BY <1>3, GatewayAssumption DEF ClientPacket, TypeOK, PlaceInv, Place, Bound, Handling, MayBeBound
<1>4. ASSUME NEW c \in Conns, BindClient(c) PROVE PlaceInv'
  <2>1. PICK u \in Uids : BindFor(c, u) BY <1>4, BindEffect
  <2>2. ASSUME NEW d \in Conns PROVE Place(d)'
    <3>1. Place(d) BY DEF PlaceInv
    <3>2. CASE d # c BY <2>1, <3>1, <3>2 DEF BindFor, TypeOK, Place
    <3>3. CASE d = c BY <2>1, <3>1, <3>3, GatewayAssumption DEF BindFor, TypeOK, Place, Handling, MayBeBound
    <3>4. QED BY <3>2, <3>3
  <2>3. \A v \in Uids : uidConn'[v] = uidConn[v] \/ uidConn'[v] = c
    BY <2>1 DEF BindFor, TypeOK
  <2>4. link[c] # "absent"
    BY <2>1 DEF BindFor, PlaceInv, Place
  <2>5. QED BY <2>1, <2>2, <2>3, <2>4 DEF BindFor, PlaceInv, Bound
<1>5. ASSUME NEW c \in Conns, IncSession(c) PROVE PlaceInv'
  BY <1>5, GatewayAssumption DEF IncSession, TypeOK, PlaceInv, Place, Bound, Handling, MayBeBound
<1>6. ASSUME NEW c \in Conns, KickReplaced(c) PROVE PlaceInv'
  BY <1>6, GatewayAssumption DEF KickReplaced, CloseBy, Writable, TypeOK, PlaceInv, Place, Bound, Handling, MayBeBound
<1>7. ASSUME NEW c \in Conns, PeerCloses(c) PROVE PlaceInv'
  BY <1>7, GatewayAssumption DEF PeerCloses, Starting, TypeOK, PlaceInv, Place, Bound, Handling, MayBeBound
<1>8. ASSUME NEW c \in Conns, WriterCloses(c) PROVE PlaceInv'
  BY <1>8, GatewayAssumption DEF WriterCloses, Starting, TypeOK, PlaceInv, Place, Bound, Handling, MayBeBound
<1>9. ASSUME NEW c \in Conns, TakeLease(c) PROVE PlaceInv'
  BY <1>9, GatewayAssumption DEF TakeLease, TypeOK, PlaceInv, Place, Bound, Handling, MayBeBound
<1>9a. ASSUME NEW c \in Conns, DecConnection(c) PROVE PlaceInv'
  BY <1>9a, GatewayAssumption DEF DecConnection, Minus1, TypeOK, PlaceInv, Place, Bound, Handling, MayBeBound
<1>10. ASSUME NEW c \in Conns, ReleaseConnection(c) PROVE PlaceInv'
  BY <1>10, GatewayAssumption DEF ReleaseConnection, Minus1, TypeOK, PlaceInv, Place, Bound, Handling, MayBeBound
<1>11. ASSUME NEW c \in Conns, RemoveConn(c) PROVE PlaceInv'
  BY <1>11, GatewayAssumption DEF RemoveConn, HoldsUid, TypeOK, PlaceInv, Place, Bound, Handling, MayBeBound
<1>12. ASSUME NEW c \in Conns, DecSession(c) PROVE PlaceInv'
  BY <1>12, GatewayAssumption DEF DecSession, Minus1, TypeOK, PlaceInv, Place, Bound, Handling, MayBeBound
<1>13. ASSUME NEW c \in Conns, DestroyConn(c) PROVE PlaceInv'
  BY <1>13, GatewayAssumption DEF DestroyConn, TypeOK, PlaceInv, Place, Bound, Handling, MayBeBound
<1>14. ASSUME NEW u \in Uids, OnRecvSSPacket(u) PROVE PlaceInv'
  BY <1>14, GatewayAssumption DEF OnRecvSSPacket, TypeOK, PlaceInv, Place, Bound, Handling, MayBeBound
<1>15. ASSUME NEW t \in Transports, SendByUid(t) PROVE PlaceInv'
  BY <1>15, GatewayAssumption DEF SendByUid, CloseOnError, WriteData, TryNext, Writable, NoDown, TypeOK, PlaceInv, Place, Bound, Handling, MayBeBound
<1>16. ASSUME NEW c \in Conns, ConnByRemoteAddr(c) PROVE PlaceInv'
  BY <1>16, GatewayAssumption DEF ConnByRemoteAddr, TypeOK, PlaceInv, Place, Bound, Handling, MayBeBound
<1>17. ASSUME MarkKick PROVE PlaceInv'
  BY <1>17, GatewayAssumption DEF MarkKick, CloseBy, Writable, TypeOK, PlaceInv, Place, Bound, Handling, MayBeBound
<1>18. ASSUME SnapshotByZone PROVE PlaceInv'
  BY <1>18, GatewayAssumption DEF SnapshotByZone, Bound, TypeOK, PlaceInv, Place, Bound, Handling, MayBeBound
<1>19. ASSUME NEW c \in targets, BroadcastWrite(c) PROVE PlaceInv'
  BY <1>19, GatewayAssumption DEF BroadcastWrite, CloseOnError, WriteData, Writable, TypeOK, PlaceInv, Place, Bound, Handling, MayBeBound
<1>20. ASSUME Quiesce PROVE PlaceInv'
  BY <1>20, GatewayAssumption DEF Quiesce, TypeOK, PlaceInv, Place, Bound, Handling, MayBeBound
<1>21. ASSUME QuiesceListener PROVE PlaceInv'
  BY <1>21, GatewayAssumption DEF QuiesceListener, TypeOK, PlaceInv, Place, Bound, Handling, MayBeBound
<1>22. ASSUME WaitSessions PROVE PlaceInv'
  BY <1>22, GatewayAssumption DEF WaitSessions, TypeOK, PlaceInv, Place, Bound, Handling, MayBeBound
<1>23. ASSUME DrainExpires PROVE PlaceInv'
  BY <1>23, GatewayAssumption DEF DrainExpires, TypeOK, PlaceInv, Place, Bound, Handling, MayBeBound
<1>24. ASSUME StopTransport PROVE PlaceInv'
  BY <1>24, GatewayAssumption DEF StopTransport, First, TypeOK, PlaceInv, Place, Bound, Handling, MayBeBound
<1>25. CASE UNCHANGED vars BY <1>25 DEF vars, TypeOK, PlaceInv, Place, Bound, Handling, MayBeBound
<1> QED BY <1>1, <1>2, <1>2a, <1>3, <1>4, <1>5, <1>6, <1>7, <1>8, <1>9, <1>9a, <1>10, <1>11, <1>12, <1>13, <1>14, <1>15, <1>16, <1>17, <1>18, <1>19, <1>20, <1>21, <1>22, <1>23, <1>24, <1>25 DEF Next, Client, Server, OnConn, Handler, OnClose, Bus, Downstream, Shutdown

LEMMA NextBindInv == ASSUME TypeOK, PlaceInv, BindInv, OneUidEach, [Next]_vars PROVE BindInv'
<1> USE DEF sockVars, readVars, hubVars, countVars, busVars, drainVars
<1>1. ASSUME UNCHANGED <<uidConn, connUid>> PROVE BindInv'
  BY <1>1 DEF BindInv, Bound
<1>2. ASSUME NEW c \in Conns, Accept(c) PROVE UNCHANGED <<uidConn, connUid>>
  BY <1>2 DEF Accept
<1>3. ASSUME NEW c \in Conns, MarkAdmitted(c) PROVE UNCHANGED <<uidConn, connUid>>
  BY <1>3 DEF MarkAdmitted
<1>3a. ASSUME NEW c \in Conns, IncConnection(c) PROVE UNCHANGED <<uidConn, connUid>>
  BY <1>3a DEF IncConnection
<1>4. ASSUME NEW c \in Conns, NEW u \in Uids, ClientPacket(c, u) PROVE UNCHANGED <<uidConn, connUid>>
  BY <1>4 DEF ClientPacket
<1>5. ASSUME NEW c \in Conns, BindClient(c) PROVE BindInv'
  <2>1. PICK u \in Uids : BindFor(c, u) BY <1>5, BindEffect
  <2>2. CASE UNCHANGED <<uidConn, connUid>> BY <2>2 DEF BindInv, Bound
  <2>3. CASE uidConn' = [uidConn EXCEPT ![u] = c] /\ connUid' = [connUid EXCEPT ![c] = u]
    <3>0. Place(c) BY DEF PlaceInv
    <3>1. connUid[c] \in {u, NoUid}
      <4>1. CASE connUid[c] # NoUid
        <5>1. connUid[c] \in Uids /\ <<c, connUid[c]>> \in Logins BY <3>0, <4>1 DEF Place, TypeOK
        <5>2. <<c, u>> \in Logins BY <2>1 DEF BindFor
        <5>3. QED BY <5>1, <5>2 DEF OneUidEach
      <4>2. QED BY <4>1
    <3>2. QED BY <2>3, <3>1, GatewayAssumption DEF BindInv, Bound, TypeOK
  <2>4. QED BY <2>1, <2>2, <2>3 DEF BindFor
<1>6. ASSUME NEW c \in Conns, IncSession(c) PROVE UNCHANGED <<uidConn, connUid>>
  BY <1>6 DEF IncSession
<1>7. ASSUME NEW c \in Conns, KickReplaced(c) PROVE UNCHANGED <<uidConn, connUid>>
  BY <1>7 DEF KickReplaced
<1>8. ASSUME NEW c \in Conns, PeerCloses(c) PROVE UNCHANGED <<uidConn, connUid>>
  BY <1>8 DEF PeerCloses
<1>9. ASSUME NEW c \in Conns, WriterCloses(c) PROVE UNCHANGED <<uidConn, connUid>>
  BY <1>9 DEF WriterCloses
<1>10. ASSUME NEW c \in Conns, TakeLease(c) PROVE UNCHANGED <<uidConn, connUid>>
  BY <1>10 DEF TakeLease
<1>10a. ASSUME NEW c \in Conns, DecConnection(c) PROVE UNCHANGED <<uidConn, connUid>>
  BY <1>10a DEF DecConnection
<1>11. ASSUME NEW c \in Conns, ReleaseConnection(c) PROVE UNCHANGED <<uidConn, connUid>>
  BY <1>11 DEF ReleaseConnection
<1>12. ASSUME NEW c \in Conns, RemoveConn(c) PROVE BindInv'
  BY <1>12, GatewayAssumption DEF RemoveConn, HoldsUid, TypeOK, PlaceInv, Place, Bound, BindInv, OneUidEach, Handling, MayBeBound
<1>13. ASSUME NEW c \in Conns, DecSession(c) PROVE UNCHANGED <<uidConn, connUid>>
  BY <1>13 DEF DecSession
<1>14. ASSUME NEW c \in Conns, DestroyConn(c) PROVE UNCHANGED <<uidConn, connUid>>
  BY <1>14 DEF DestroyConn
<1>15. ASSUME NEW u \in Uids, OnRecvSSPacket(u) PROVE UNCHANGED <<uidConn, connUid>>
  BY <1>15 DEF OnRecvSSPacket
<1>16. ASSUME NEW t \in Transports, SendByUid(t) PROVE UNCHANGED <<uidConn, connUid>>
  BY <1>16 DEF SendByUid
<1>17. ASSUME NEW c \in Conns, ConnByRemoteAddr(c) PROVE UNCHANGED <<uidConn, connUid>>
  BY <1>17 DEF ConnByRemoteAddr
<1>18. ASSUME MarkKick PROVE UNCHANGED <<uidConn, connUid>>
  BY <1>18 DEF MarkKick
<1>19. ASSUME SnapshotByZone PROVE UNCHANGED <<uidConn, connUid>>
  BY <1>19 DEF SnapshotByZone
<1>20. ASSUME NEW c \in targets, BroadcastWrite(c) PROVE UNCHANGED <<uidConn, connUid>>
  BY <1>20 DEF BroadcastWrite
<1>21. ASSUME Quiesce PROVE UNCHANGED <<uidConn, connUid>>
  BY <1>21 DEF Quiesce
<1>22. ASSUME QuiesceListener PROVE UNCHANGED <<uidConn, connUid>>
  BY <1>22 DEF QuiesceListener
<1>23. ASSUME WaitSessions PROVE UNCHANGED <<uidConn, connUid>>
  BY <1>23 DEF WaitSessions
<1>24. ASSUME DrainExpires PROVE UNCHANGED <<uidConn, connUid>>
  BY <1>24 DEF DrainExpires
<1>25. ASSUME StopTransport PROVE UNCHANGED <<uidConn, connUid>>
  BY <1>25 DEF StopTransport
<1>26. CASE UNCHANGED vars BY <1>26 DEF vars, TypeOK, PlaceInv, Place, Bound, BindInv, OneUidEach, Handling, MayBeBound
<1> QED BY <1>1, <1>2, <1>3, <1>3a, <1>4, <1>5, <1>6, <1>7, <1>8, <1>9, <1>10, <1>10a, <1>11, <1>12, <1>13, <1>14, <1>15, <1>16, <1>17, <1>18, <1>19, <1>20, <1>21, <1>22, <1>23, <1>24, <1>25, <1>26 DEF Next, Client, Server, OnConn, Handler, OnClose, Bus, Downstream, Shutdown

LEMMA NextLost == ASSUME TypeOK, PlaceInv, BindInv, VictimInv, LostUidIsLeaving, OneUidEach, [Next]_vars PROVE LostUidIsLeaving'
<1> USE DEF sockVars, readVars, hubVars, countVars, busVars, drainVars
<1>1. ASSUME UNCHANGED <<uidConn, connUid, link, nilQueued, victim>> PROVE LostUidIsLeaving'
  BY <1>1 DEF LostUidIsLeaving
<1>2. ASSUME NEW c \in Conns, Accept(c) PROVE LostUidIsLeaving'
  BY <1>2, GatewayAssumption DEF Accept, TypeOK, PlaceInv, Place, Bound, BindInv, LostUidIsLeaving, Handling, MayBeBound
<1>3. ASSUME NEW c \in Conns, MarkAdmitted(c) PROVE UNCHANGED <<uidConn, connUid, link, nilQueued, victim>>
  BY <1>3 DEF MarkAdmitted
<1>3a. ASSUME NEW c \in Conns, IncConnection(c) PROVE UNCHANGED <<uidConn, connUid, link, nilQueued, victim>>
  BY <1>3a DEF IncConnection
<1>4. ASSUME NEW c \in Conns, NEW u \in Uids, ClientPacket(c, u) PROVE UNCHANGED <<uidConn, connUid, link, nilQueued, victim>>
  BY <1>4 DEF ClientPacket
<1>5. ASSUME NEW c \in Conns, BindClient(c) PROVE LostUidIsLeaving'
  <2>1. PICK u \in Uids : BindFor(c, u) BY <1>5, BindEffect
  <2>2. UNCHANGED <<link, nilQueued>> BY <2>1 DEF BindFor, sockVars
  <2>3. CASE UNCHANGED <<uidConn, connUid, victim>> BY <2>2, <2>3 DEF LostUidIsLeaving
  <2>4. CASE /\ uidConn' = [uidConn EXCEPT ![u] = c] /\ connUid' = [connUid EXCEPT ![c] = u]
             /\ victim' = [victim EXCEPT ![c] = uidConn[u]]
    <3>1. victim[c] = NoConn BY <2>1 DEF BindFor, PlaceInv, Place
    <3>2. QED BY <2>2, <2>4, <3>1, GatewayAssumption DEF LostUidIsLeaving, TypeOK
  <2>5. QED BY <2>1, <2>3, <2>4 DEF BindFor
<1>6. ASSUME NEW c \in Conns, IncSession(c) PROVE UNCHANGED <<uidConn, connUid, link, nilQueued, victim>>
  BY <1>6 DEF IncSession
<1>7. ASSUME NEW c \in Conns, KickReplaced(c) PROVE LostUidIsLeaving'
  <2>1. UNCHANGED <<uidConn, connUid, link>> BY <1>7 DEF KickReplaced
  <2>2. \A d \in Conns : d # c => victim'[d] = victim[d] BY <1>7 DEF KickReplaced, TypeOK
  <2>3. nilQueued \subseteq nilQueued' BY <1>7 DEF KickReplaced, CloseBy
  <2>4. ASSUME NEW d \in Conns \ Slow, connUid[d] # NoUid, victim[c] = d PROVE d \in nilQueued'
    <3>1. d \in connInfo BY <2>4 DEF PlaceInv, Place, MayBeBound, Handling
    <3>2. Transport[c] = Transport[d] BY <2>4, GatewayAssumption DEF VictimInv
    <3>3. QED BY <1>7, <2>4, <3>1, <3>2 DEF KickReplaced, CloseBy, Writable
  <2>5. QED BY <2>1, <2>2, <2>3, <2>4 DEF LostUidIsLeaving
<1>8. ASSUME NEW c \in Conns, PeerCloses(c) PROVE LostUidIsLeaving'
  BY <1>8, GatewayAssumption DEF PeerCloses, Starting, TypeOK, PlaceInv, Place, Bound, BindInv, LostUidIsLeaving, Handling, MayBeBound
<1>9. ASSUME NEW c \in Conns, WriterCloses(c) PROVE LostUidIsLeaving'
  BY <1>9, GatewayAssumption DEF WriterCloses, Starting, TypeOK, PlaceInv, Place, Bound, BindInv, LostUidIsLeaving, Handling, MayBeBound
<1>10. ASSUME NEW c \in Conns, TakeLease(c) PROVE UNCHANGED <<uidConn, connUid, link, nilQueued, victim>>
  BY <1>10 DEF TakeLease
<1>10a. ASSUME NEW c \in Conns, DecConnection(c) PROVE UNCHANGED <<uidConn, connUid, link, nilQueued, victim>>
  BY <1>10a DEF DecConnection
<1>11. ASSUME NEW c \in Conns, ReleaseConnection(c) PROVE UNCHANGED <<uidConn, connUid, link, nilQueued, victim>>
  BY <1>11 DEF ReleaseConnection
<1>12. ASSUME NEW c \in Conns, RemoveConn(c) PROVE LostUidIsLeaving'
  BY <1>12, GatewayAssumption DEF RemoveConn, HoldsUid, TypeOK, PlaceInv, Place, Bound, BindInv, LostUidIsLeaving, Handling, MayBeBound
<1>13. ASSUME NEW c \in Conns, DecSession(c) PROVE UNCHANGED <<uidConn, connUid, link, nilQueued, victim>>
  BY <1>13 DEF DecSession
<1>14. ASSUME NEW c \in Conns, DestroyConn(c) PROVE LostUidIsLeaving'
  BY <1>14, GatewayAssumption DEF DestroyConn, TypeOK, PlaceInv, Place, Bound, BindInv, LostUidIsLeaving, Handling, MayBeBound
<1>15. ASSUME NEW u \in Uids, OnRecvSSPacket(u) PROVE UNCHANGED <<uidConn, connUid, link, nilQueued, victim>>
  BY <1>15 DEF OnRecvSSPacket
<1>16. ASSUME NEW t \in Transports, SendByUid(t) PROVE LostUidIsLeaving'
  BY <1>16, GatewayAssumption DEF SendByUid, CloseOnError, WriteData, TryNext, Writable, NoDown, TypeOK, PlaceInv, Place, Bound, BindInv, LostUidIsLeaving, Handling, MayBeBound
<1>17. ASSUME NEW c \in Conns, ConnByRemoteAddr(c) PROVE UNCHANGED <<uidConn, connUid, link, nilQueued, victim>>
  BY <1>17 DEF ConnByRemoteAddr
<1>18. ASSUME MarkKick PROVE LostUidIsLeaving'
  BY <1>18, GatewayAssumption DEF MarkKick, CloseBy, Writable, TypeOK, PlaceInv, Place, Bound, BindInv, LostUidIsLeaving, Handling, MayBeBound
<1>19. ASSUME SnapshotByZone PROVE UNCHANGED <<uidConn, connUid, link, nilQueued, victim>>
  BY <1>19 DEF SnapshotByZone
<1>20. ASSUME NEW c \in targets, BroadcastWrite(c) PROVE LostUidIsLeaving'
  BY <1>20, GatewayAssumption DEF BroadcastWrite, CloseOnError, WriteData, Writable, TypeOK, PlaceInv, Place, Bound, BindInv, LostUidIsLeaving, Handling, MayBeBound
<1>21. ASSUME Quiesce PROVE UNCHANGED <<uidConn, connUid, link, nilQueued, victim>>
  BY <1>21 DEF Quiesce
<1>22. ASSUME QuiesceListener PROVE UNCHANGED <<uidConn, connUid, link, nilQueued, victim>>
  BY <1>22 DEF QuiesceListener
<1>23. ASSUME WaitSessions PROVE UNCHANGED <<uidConn, connUid, link, nilQueued, victim>>
  BY <1>23 DEF WaitSessions
<1>24. ASSUME DrainExpires PROVE UNCHANGED <<uidConn, connUid, link, nilQueued, victim>>
  BY <1>24 DEF DrainExpires
<1>25. ASSUME StopTransport PROVE LostUidIsLeaving'
  BY <1>25, GatewayAssumption DEF StopTransport, First, TypeOK, PlaceInv, Place, Bound, BindInv, LostUidIsLeaving, Handling, MayBeBound
<1>26. CASE UNCHANGED vars BY <1>26 DEF vars, TypeOK, PlaceInv, Place, Bound, BindInv, LostUidIsLeaving, Handling, MayBeBound
<1> QED BY <1>1, <1>2, <1>3, <1>3a, <1>4, <1>5, <1>6, <1>7, <1>8, <1>9, <1>10, <1>10a, <1>11, <1>12, <1>13, <1>14, <1>15, <1>16, <1>17, <1>18, <1>19, <1>20, <1>21, <1>22, <1>23, <1>24, <1>25, <1>26 DEF Next, Client, Server, OnConn, Handler, OnClose, Bus, Downstream, Shutdown

LEMMA NextVictim == ASSUME TypeOK, PlaceInv, BindInv, VictimInv, OneTransportEach, [Next]_vars PROVE VictimInv'
<1> USE DEF sockVars, readVars, hubVars, countVars, busVars, drainVars
<1>1. ASSUME UNCHANGED victim PROVE VictimInv'
  BY <1>1 DEF VictimInv
<1>2. ASSUME NEW c \in Conns, Accept(c) PROVE UNCHANGED victim
  BY <1>2 DEF Accept
<1>3. ASSUME NEW c \in Conns, MarkAdmitted(c) PROVE UNCHANGED victim
  BY <1>3 DEF MarkAdmitted
<1>3a. ASSUME NEW c \in Conns, IncConnection(c) PROVE UNCHANGED victim
  BY <1>3a DEF IncConnection
<1>4. ASSUME NEW c \in Conns, NEW u \in Uids, ClientPacket(c, u) PROVE UNCHANGED victim
  BY <1>4 DEF ClientPacket
<1>5. ASSUME NEW c \in Conns, BindClient(c) PROVE VictimInv'
  <2>1. PICK u \in Uids : BindFor(c, u) BY <1>5, BindEffect
  <2>2. ASSUME uidConn[u] # NoConn PROVE Transport[uidConn[u]] = Transport[c]
    <3>1. uidConn[u] \in Conns /\ connUid[uidConn[u]] = u BY <2>2 DEF BindInv, Bound, TypeOK
    <3>2. Place(uidConn[u]) BY <3>1 DEF PlaceInv
    <3>3. <<uidConn[u], u>> \in Logins BY <3>1, <3>2, GatewayAssumption DEF Place
    <3>4. <<c, u>> \in Logins BY <2>1 DEF BindFor
    <3>5. QED BY <3>1, <3>3, <3>4 DEF OneTransportEach
  <2>3. QED BY <2>1, <2>2 DEF BindFor, TypeOK, VictimInv
<1>6. ASSUME NEW c \in Conns, IncSession(c) PROVE UNCHANGED victim
  BY <1>6 DEF IncSession
<1>7. ASSUME NEW c \in Conns, KickReplaced(c) PROVE VictimInv'
  BY <1>7 DEF KickReplaced, CloseBy, Writable, VictimInv, TypeOK
<1>8. ASSUME NEW c \in Conns, PeerCloses(c) PROVE UNCHANGED victim
  BY <1>8 DEF PeerCloses
<1>9. ASSUME NEW c \in Conns, WriterCloses(c) PROVE UNCHANGED victim
  BY <1>9 DEF WriterCloses
<1>10. ASSUME NEW c \in Conns, TakeLease(c) PROVE UNCHANGED victim
  BY <1>10 DEF TakeLease
<1>10a. ASSUME NEW c \in Conns, DecConnection(c) PROVE UNCHANGED victim
  BY <1>10a DEF DecConnection
<1>11. ASSUME NEW c \in Conns, ReleaseConnection(c) PROVE UNCHANGED victim
  BY <1>11 DEF ReleaseConnection
<1>12. ASSUME NEW c \in Conns, RemoveConn(c) PROVE UNCHANGED victim
  BY <1>12 DEF RemoveConn
<1>13. ASSUME NEW c \in Conns, DecSession(c) PROVE UNCHANGED victim
  BY <1>13 DEF DecSession
<1>14. ASSUME NEW c \in Conns, DestroyConn(c) PROVE UNCHANGED victim
  BY <1>14 DEF DestroyConn
<1>15. ASSUME NEW u \in Uids, OnRecvSSPacket(u) PROVE UNCHANGED victim
  BY <1>15 DEF OnRecvSSPacket
<1>16. ASSUME NEW t \in Transports, SendByUid(t) PROVE UNCHANGED victim
  BY <1>16 DEF SendByUid
<1>17. ASSUME NEW c \in Conns, ConnByRemoteAddr(c) PROVE UNCHANGED victim
  BY <1>17 DEF ConnByRemoteAddr
<1>18. ASSUME MarkKick PROVE UNCHANGED victim
  BY <1>18 DEF MarkKick
<1>19. ASSUME SnapshotByZone PROVE UNCHANGED victim
  BY <1>19 DEF SnapshotByZone
<1>20. ASSUME NEW c \in targets, BroadcastWrite(c) PROVE UNCHANGED victim
  BY <1>20 DEF BroadcastWrite
<1>21. ASSUME Quiesce PROVE UNCHANGED victim
  BY <1>21 DEF Quiesce
<1>22. ASSUME QuiesceListener PROVE UNCHANGED victim
  BY <1>22 DEF QuiesceListener
<1>23. ASSUME WaitSessions PROVE UNCHANGED victim
  BY <1>23 DEF WaitSessions
<1>24. ASSUME DrainExpires PROVE UNCHANGED victim
  BY <1>24 DEF DrainExpires
<1>25. ASSUME StopTransport PROVE UNCHANGED victim
  BY <1>25 DEF StopTransport
<1>26. CASE UNCHANGED vars BY <1>26 DEF vars, VictimInv, TypeOK
<1> QED BY <1>1, <1>2, <1>3, <1>3a, <1>4, <1>5, <1>6, <1>7, <1>8, <1>9, <1>10, <1>10a, <1>11, <1>12, <1>13, <1>14, <1>15, <1>16, <1>17, <1>18, <1>19, <1>20, <1>21, <1>22, <1>23, <1>24, <1>25, <1>26 DEF Next, Client, Server, OnConn, Handler, OnClose, Bus, Downstream, Shutdown

-----------------------------------------------------------------------------
(* The counts. *)

\* All of these sets are finite.
LEMMA Finite == ASSUME TypeOK, NEW S, S \subseteq Conns PROVE IsFiniteSet(S) /\ Cardinality(S) \in Nat
  BY FS_Subset, FS_CardinalityType, GatewayAssumption

\* So are the bound uids.
LEMMA BoundFinite == IsFiniteSet(Bound) /\ Cardinality(Bound) \in Nat
  BY FS_Subset, FS_CardinalityType, GatewayAssumption DEF Bound

\* The cardinality of a finite set with one element more or less.
LEMMA Grow == ASSUME NEW S, NEW x, IsFiniteSet(S), x \notin S
              PROVE  Cardinality(S \cup {x}) = Cardinality(S) + 1
  BY FS_AddElement

LEMMA Shrink == ASSUME NEW S, NEW x, IsFiniteSet(S), x \in S
                PROVE  Cardinality(S \ {x}) = Cardinality(S) - 1
  BY FS_RemoveElement

LEMMA NextSessions == ASSUME TypeOK, PlaceInv, SessionsNotUndercounted, [Next]_vars PROVE SessionsNotUndercounted'
<1> USE DEF sockVars, readVars, hubVars, countVars, busVars, drainVars
<1>1. ASSUME UNCHANGED <<uidConn, sessions, At("dec"), At("inc")>> PROVE SessionsNotUndercounted'
  BY <1>1 DEF SessionsNotUndercounted, Bound
<1>2. ASSUME NEW c \in Conns, Accept(c) PROVE UNCHANGED <<uidConn, sessions, At("dec"), At("inc")>>
  <2>1. pc[c] = "none" BY <1>2 DEF Accept, PlaceInv, Place
  <2>2. PICK q \in {"admitting", "idle"} : pc' = [pc EXCEPT ![c] = q] BY <1>2 DEF Accept
  <2>3. UNCHANGED <<At("dec"), At("inc")>> BY <2>1, <2>2 DEF At, TypeOK
  <2>4. QED BY <1>2, <2>3 DEF Accept
<1>3. ASSUME NEW c \in Conns, MarkAdmitted(c) PROVE UNCHANGED <<uidConn, sessions, At("dec"), At("inc")>>
  BY <1>3 DEF MarkAdmitted, At, TypeOK
<1>3a. ASSUME NEW c \in Conns, IncConnection(c) PROVE UNCHANGED <<uidConn, sessions, At("dec"), At("inc")>>
  BY <1>3a DEF IncConnection, At, TypeOK
<1>4. ASSUME NEW c \in Conns, NEW u \in Uids, ClientPacket(c, u) PROVE UNCHANGED <<uidConn, sessions, At("dec"), At("inc")>>
  BY <1>4 DEF ClientPacket, At, TypeOK
<1>5. ASSUME NEW c \in Conns, BindClient(c) PROVE SessionsNotUndercounted'
  <2>9. \A r : IsFiniteSet(At(r)) /\ Cardinality(At(r)) \in Nat BY Finite DEF At
  <2>1. PICK u \in Uids : BindFor(c, u) BY <1>5, BindEffect
  <2>2. sessions' = sessions /\ At("dec")' = At("dec")
    BY <2>1 DEF BindFor, At, TypeOK
  <2>3. CASE uidConn[u] = NoConn /\ uidConn' = [uidConn EXCEPT ![u] = c] /\ pc' = [pc EXCEPT ![c] = "inc"]
    <3>1. Bound' = Bound \cup {u} /\ u \notin Bound BY <2>3, GatewayAssumption DEF Bound, TypeOK
    <3>2. At("inc")' = At("inc") \cup {c} /\ c \notin At("inc") BY <2>1, <2>3 DEF BindFor, At, TypeOK
    <3>3. Cardinality(Bound') = Cardinality(Bound) + 1 BY <3>1, BoundFinite, Grow
    <3>4. Cardinality(At("inc")') = Cardinality(At("inc")) + 1 BY <3>2, <2>9, Grow
    <3>5. QED BY <2>2, <2>9, <3>3, <3>4, BoundFinite DEF SessionsNotUndercounted, TypeOK
  <2>4. CASE uidConn[u] # NoConn /\ uidConn' = [uidConn EXCEPT ![u] = c] /\ pc' = [pc EXCEPT ![c] = "kicking"]
    <3>1. Bound' = Bound BY <2>4, GatewayAssumption DEF Bound, TypeOK
    <3>2. At("inc")' = At("inc") BY <2>1, <2>4 DEF BindFor, At, TypeOK
    <3>3. QED BY <2>2, <3>1, <3>2 DEF SessionsNotUndercounted
  <2>5. CASE UNCHANGED uidConn /\ pc' = [pc EXCEPT ![c] = "idle"]
    <3>1. At("inc")' = At("inc") BY <2>1, <2>5 DEF BindFor, At, TypeOK
    <3>2. QED BY <2>2, <2>5, <3>1 DEF SessionsNotUndercounted, Bound
  <2>6. QED BY <2>1, <2>3, <2>4, <2>5 DEF BindFor
<1>6. ASSUME NEW c \in Conns, IncSession(c) PROVE SessionsNotUndercounted'
  <2>1. Bound' = Bound /\ sessions' = sessions + 1 BY <1>6 DEF IncSession, Bound
  <2>2. At("dec")' = At("dec") BY <1>6 DEF IncSession, At, TypeOK
  <2>3. At("inc")' = At("inc") \ {c} /\ c \in At("inc") BY <1>6 DEF IncSession, At, TypeOK
  <2>4. \A r : IsFiniteSet(At(r)) /\ Cardinality(At(r)) \in Nat BY Finite DEF At
  <2>5. Cardinality(At("inc")') = Cardinality(At("inc")) - 1 BY <2>3, <2>4, Shrink
  <2>6. QED BY <2>1, <2>2, <2>4, <2>5, BoundFinite DEF SessionsNotUndercounted, TypeOK
<1>7. ASSUME NEW c \in Conns, KickReplaced(c) PROVE UNCHANGED <<uidConn, sessions, At("dec"), At("inc")>>
  BY <1>7 DEF KickReplaced, At, TypeOK
<1>8. ASSUME NEW c \in Conns, PeerCloses(c) PROVE UNCHANGED <<uidConn, sessions, At("dec"), At("inc")>>
  BY <1>8 DEF PeerCloses, At
<1>9. ASSUME NEW c \in Conns, WriterCloses(c) PROVE UNCHANGED <<uidConn, sessions, At("dec"), At("inc")>>
  BY <1>9 DEF WriterCloses, At
<1>10. ASSUME NEW c \in Conns, TakeLease(c) PROVE UNCHANGED <<uidConn, sessions, At("dec"), At("inc")>>
  BY <1>10 DEF TakeLease, At, TypeOK
<1>10a. ASSUME NEW c \in Conns, DecConnection(c) PROVE UNCHANGED <<uidConn, sessions, At("dec"), At("inc")>>
  BY <1>10a DEF DecConnection, At, TypeOK
<1>11. ASSUME NEW c \in Conns, ReleaseConnection(c) PROVE UNCHANGED <<uidConn, sessions, At("dec"), At("inc")>>
  BY <1>11 DEF ReleaseConnection, At, TypeOK
<1>12. ASSUME NEW c \in Conns, RemoveConn(c) PROVE SessionsNotUndercounted'
  <2>1. sessions' = sessions /\ At("inc")' = At("inc")
    BY <1>12 DEF RemoveConn, At, TypeOK
  <2>2. \A r : IsFiniteSet(At(r)) /\ Cardinality(At(r)) \in Nat BY Finite DEF At
  <2>3. CASE HoldsUid(c)
    <3> DEFINE u == connUid[c]
    <3>1. u \in Uids /\ uidConn[u] = c BY <2>3 DEF HoldsUid, TypeOK
    <3>2. Bound' = Bound \ {u} /\ u \in Bound BY <1>12, <2>3, <3>1, GatewayAssumption DEF RemoveConn, Bound, TypeOK
    <3>3. At("dec")' = At("dec") \cup {c} /\ c \notin At("dec") BY <1>12, <2>3 DEF RemoveConn, At, TypeOK
    <3>4. Cardinality(Bound') = Cardinality(Bound) - 1 BY <3>2, BoundFinite, Shrink
    <3>5. Cardinality(At("dec")') = Cardinality(At("dec")) + 1 BY <2>2, <3>3, Grow
    <3>6. QED BY <2>1, <2>2, <3>4, <3>5, BoundFinite DEF SessionsNotUndercounted, TypeOK
  <2>4. CASE ~HoldsUid(c)
    <3>1. Bound' = Bound BY <1>12, <2>4 DEF RemoveConn, Bound
    <3>2. At("dec")' = At("dec") BY <1>12, <2>4 DEF RemoveConn, At, TypeOK
    <3>3. QED BY <2>1, <3>1, <3>2 DEF SessionsNotUndercounted
  <2>5. QED BY <2>3, <2>4
<1>13. ASSUME NEW c \in Conns, DecSession(c) PROVE SessionsNotUndercounted'
  <2>1. Bound' = Bound /\ sessions' = Minus1(sessions) BY <1>13 DEF DecSession, Bound
  <2>2. At("inc")' = At("inc") BY <1>13 DEF DecSession, At, TypeOK
  <2>3. At("dec")' = At("dec") \ {c} /\ c \in At("dec") BY <1>13 DEF DecSession, At, TypeOK
  <2>4. \A r : IsFiniteSet(At(r)) /\ Cardinality(At(r)) \in Nat BY Finite DEF At
  <2>5. Cardinality(At("dec")') = Cardinality(At("dec")) - 1 BY <2>3, <2>4, Shrink
  <2>6. QED BY <2>1, <2>2, <2>4, <2>5, BoundFinite DEF SessionsNotUndercounted, Minus1, TypeOK
<1>14. ASSUME NEW c \in Conns, DestroyConn(c) PROVE UNCHANGED <<uidConn, sessions, At("dec"), At("inc")>>
  BY <1>14 DEF DestroyConn, At, TypeOK
<1>15. ASSUME NEW u \in Uids, OnRecvSSPacket(u) PROVE UNCHANGED <<uidConn, sessions, At("dec"), At("inc")>>
  BY <1>15 DEF OnRecvSSPacket, At
<1>16. ASSUME NEW t \in Transports, SendByUid(t) PROVE UNCHANGED <<uidConn, sessions, At("dec"), At("inc")>>
  BY <1>16 DEF SendByUid, At
<1>17. ASSUME NEW c \in Conns, ConnByRemoteAddr(c) PROVE UNCHANGED <<uidConn, sessions, At("dec"), At("inc")>>
  BY <1>17 DEF ConnByRemoteAddr, At
<1>18. ASSUME MarkKick PROVE UNCHANGED <<uidConn, sessions, At("dec"), At("inc")>>
  BY <1>18 DEF MarkKick, At
<1>19. ASSUME SnapshotByZone PROVE UNCHANGED <<uidConn, sessions, At("dec"), At("inc")>>
  BY <1>19 DEF SnapshotByZone, At
<1>20. ASSUME NEW c \in targets, BroadcastWrite(c) PROVE UNCHANGED <<uidConn, sessions, At("dec"), At("inc")>>
  BY <1>20 DEF BroadcastWrite, At
<1>21. ASSUME Quiesce PROVE UNCHANGED <<uidConn, sessions, At("dec"), At("inc")>>
  BY <1>21 DEF Quiesce, At
<1>22. ASSUME QuiesceListener PROVE UNCHANGED <<uidConn, sessions, At("dec"), At("inc")>>
  BY <1>22 DEF QuiesceListener, At
<1>23. ASSUME WaitSessions PROVE UNCHANGED <<uidConn, sessions, At("dec"), At("inc")>>
  BY <1>23 DEF WaitSessions, At
<1>24. ASSUME DrainExpires PROVE UNCHANGED <<uidConn, sessions, At("dec"), At("inc")>>
  BY <1>24 DEF DrainExpires, At
<1>25. ASSUME StopTransport PROVE UNCHANGED <<uidConn, sessions, At("dec"), At("inc")>>
  BY <1>25 DEF StopTransport, At
<1>26. CASE UNCHANGED vars BY <1>26, <1>1 DEF vars, At
<1> QED BY <1>1, <1>2, <1>3, <1>3a, <1>4, <1>5, <1>6, <1>7, <1>8, <1>9, <1>10, <1>10a, <1>11, <1>12, <1>13, <1>14, <1>15, <1>16, <1>17, <1>18, <1>19, <1>20, <1>21, <1>22, <1>23, <1>24, <1>25, <1>26 DEF Next, Client, Server, OnConn, Handler, OnClose, Bus, Downstream, Shutdown

LEMMA NextLeases == ASSUME TypeOK, PlaceInv, LeasesCounted, [Next]_vars PROVE LeasesCounted'
<1>0. IsFiniteSet(Counted) /\ IsFiniteSet(HoldsSlot)
  BY Finite DEF TypeOK, At, Counted, HoldsSlot
<1> USE <1>0 DEF sockVars, readVars, hubVars, countVars, busVars, drainVars
<1>1. ASSUME UNCHANGED <<leases, connections, reserved, At("admitting"), At("counting"), At("uncount"), At("release")>> PROVE LeasesCounted'
  BY <1>1 DEF LeasesCounted, Counted, HoldsSlot, TakesSlot
<1>2. ASSUME NEW c \in Conns, Accept(c) PROVE LeasesCounted'
  <2>1. pc[c] = "none" /\ UNCHANGED <<leases, connections>>
    BY <1>2 DEF Accept, PlaceInv, Place
  <2>2. c \notin leases BY <2>1 DEF PlaceInv, Place, Handling
  <2>3. PICK q \in {"admitting", "idle"} : pc' = [pc EXCEPT ![c] = q] BY <1>2 DEF Accept
  <2>4. UNCHANGED <<At("counting"), At("uncount"), At("release")>> BY <2>1, <2>3 DEF At, TypeOK
  <2>5. Counted' = Counted BY <2>1, <2>4 DEF Counted
  <2>6. CASE pc' = [pc EXCEPT ![c] = "idle"] /\ reserved' = reserved
    <3>1. At("admitting")' = At("admitting") BY <2>1, <2>6 DEF At, TypeOK
    <3>2. QED BY <1>1, <2>1, <2>4, <2>6, <3>1
  <2>7. CASE HasRoom /\ TakesSlot /\ reserved' = reserved + 1 /\ pc' = [pc EXCEPT ![c] = "admitting"]
    <3>1. At("admitting")' = At("admitting") \cup {c} BY <2>1, <2>7 DEF At, TypeOK
    <3>2. HoldsSlot' = HoldsSlot \cup {c} BY <2>1, <2>4, <3>1 DEF HoldsSlot
    <3>3. c \notin HoldsSlot BY <2>1, <2>2 DEF HoldsSlot, At
    <3>4. Cardinality(HoldsSlot') = Cardinality(HoldsSlot) + 1 BY <3>2, <3>3, Grow
    <3>5. QED BY <2>1, <2>5, <2>7, <3>4, GatewayAssumption DEF LeasesCounted, HasRoom, TakesSlot, TypeOK
  <2>8. CASE ~(OverloadMode = "enforce" /\ TakesSlot)
    BY <2>1, <2>5, <2>8 DEF LeasesCounted, TakesSlot, Enabled
  <2>9. QED BY <1>2, <2>6, <2>7, <2>8 DEF Accept, Within
<1>3. ASSUME NEW c \in Conns, MarkAdmitted(c) PROVE LeasesCounted'
  <2>1. UNCHANGED <<reserved, connections>> /\ leases' = leases \cup {c} BY <1>3 DEF MarkAdmitted
  <2>2. c \notin leases BY <1>3 DEF MarkAdmitted, PlaceInv, Place, Handling
  <2>3. At("admitting")' = At("admitting") \ {c} /\ c \in At("admitting") BY <1>3 DEF MarkAdmitted, At, TypeOK
  <2>4. At("counting")' = At("counting") \cup {c} BY <1>3 DEF MarkAdmitted, At, TypeOK
  <2>5. UNCHANGED <<At("uncount"), At("release")>> BY <1>3 DEF MarkAdmitted, At, TypeOK
  <2>6. Counted' = Counted BY <2>1, <2>2, <2>4, <2>5 DEF Counted
  <2>7. HoldsSlot' = HoldsSlot BY <2>1, <2>3, <2>5 DEF HoldsSlot
  <2>8. QED BY <2>1, <2>6, <2>7 DEF LeasesCounted, TakesSlot
<1>3a. ASSUME NEW c \in Conns, IncConnection(c) PROVE LeasesCounted'
  <2>1. UNCHANGED <<reserved, leases>> /\ connections' = connections + 1 BY <1>3a DEF IncConnection
  <2>2. c \in leases BY <1>3a DEF IncConnection, PlaceInv, Place
  <2>3. At("counting")' = At("counting") \ {c} /\ c \in At("counting") BY <1>3a DEF IncConnection, At, TypeOK
  <2>4. UNCHANGED <<At("admitting"), At("uncount"), At("release")>> BY <1>3a DEF IncConnection, At, TypeOK
  <2>5. c \notin At("uncount") BY <1>3a DEF IncConnection, At
  <2>6. Counted' = Counted \cup {c} /\ c \notin Counted BY <2>1, <2>2, <2>3, <2>4, <2>5 DEF Counted
  <2>7. HoldsSlot' = HoldsSlot BY <2>1, <2>4 DEF HoldsSlot
  <2>8. Cardinality(Counted') = Cardinality(Counted) + 1 BY <2>6, Grow
  <2>9. QED BY <2>1, <2>7, <2>8 DEF LeasesCounted, TakesSlot
<1>4. ASSUME NEW c \in Conns, NEW u \in Uids, ClientPacket(c, u) PROVE UNCHANGED <<leases, connections, reserved, At("admitting"), At("counting"), At("uncount"), At("release")>>
  BY <1>4 DEF ClientPacket, At, TypeOK
<1>5. ASSUME NEW c \in Conns, BindClient(c) PROVE UNCHANGED <<leases, connections, reserved, At("admitting"), At("counting"), At("uncount"), At("release")>>
  BY <1>5 DEF BindClient, At, TypeOK
<1>6. ASSUME NEW c \in Conns, IncSession(c) PROVE UNCHANGED <<leases, connections, reserved, At("admitting"), At("counting"), At("uncount"), At("release")>>
  BY <1>6 DEF IncSession, At, TypeOK
<1>7. ASSUME NEW c \in Conns, KickReplaced(c) PROVE UNCHANGED <<leases, connections, reserved, At("admitting"), At("counting"), At("uncount"), At("release")>>
  BY <1>7 DEF KickReplaced, At, TypeOK
<1>8. ASSUME NEW c \in Conns, PeerCloses(c) PROVE UNCHANGED <<leases, connections, reserved, At("admitting"), At("counting"), At("uncount"), At("release")>>
  BY <1>8 DEF PeerCloses, At
<1>9. ASSUME NEW c \in Conns, WriterCloses(c) PROVE UNCHANGED <<leases, connections, reserved, At("admitting"), At("counting"), At("uncount"), At("release")>>
  BY <1>9 DEF WriterCloses, At
<1>10. ASSUME NEW c \in Conns, TakeLease(c) PROVE LeasesCounted'
  <2>1. UNCHANGED <<reserved, connections>> /\ leases' = leases \ {c} BY <1>10 DEF TakeLease
  <2>2. UNCHANGED <<At("admitting"), At("counting"), At("release")>> BY <1>10 DEF TakeLease, At, TypeOK
  <2>3. c \notin At("counting") BY <1>10 DEF TakeLease, At
  <2>4. At("uncount")' = IF c \in leases THEN At("uncount") \cup {c} ELSE At("uncount")
    BY <1>10 DEF TakeLease, At, TypeOK
  <2>5. Counted' = Counted /\ HoldsSlot' = HoldsSlot
    BY <2>1, <2>2, <2>3, <2>4 DEF Counted, HoldsSlot
  <2>6. QED BY <2>1, <2>5 DEF LeasesCounted, TakesSlot
<1>10a. ASSUME NEW c \in Conns, DecConnection(c) PROVE LeasesCounted'
  <2>1. UNCHANGED <<reserved, leases>> /\ connections' = Minus1(connections) BY <1>10a DEF DecConnection
  <2>2. c \notin leases BY <1>10a DEF DecConnection, PlaceInv, Place, Handling
  <2>3. At("uncount")' = At("uncount") \ {c} /\ c \in At("uncount") BY <1>10a DEF DecConnection, At, TypeOK
  <2>4. At("release")' = At("release") \cup {c} BY <1>10a DEF DecConnection, At, TypeOK
  <2>5. UNCHANGED <<At("admitting"), At("counting")>> BY <1>10a DEF DecConnection, At, TypeOK
  <2>6. Counted' = Counted \ {c} /\ c \in Counted BY <2>1, <2>2, <2>3, <2>5 DEF Counted
  <2>7. HoldsSlot' = HoldsSlot BY <2>1, <2>3, <2>4, <2>5 DEF HoldsSlot
  <2>8. Cardinality(Counted') = Cardinality(Counted) - 1 BY <2>6, Shrink
  <2>9. Cardinality(Counted') \in Nat BY <2>6, FS_RemoveElement, FS_CardinalityType
  <2>10. QED BY <2>1, <2>7, <2>8, <2>9 DEF LeasesCounted, TakesSlot, Minus1, TypeOK
<1>11. ASSUME NEW c \in Conns, ReleaseConnection(c) PROVE LeasesCounted'
  <2>1. UNCHANGED <<leases, connections>> /\ reserved' = Minus1(reserved) BY <1>11 DEF ReleaseConnection
  <2>2. At("release")' = At("release") \ {c} /\ c \in At("release") BY <1>11 DEF ReleaseConnection, At, TypeOK
  <2>3. UNCHANGED <<At("admitting"), At("counting"), At("uncount")>> BY <1>11 DEF ReleaseConnection, At, TypeOK
  <2>4. c \notin leases /\ c \notin At("admitting") /\ c \notin At("uncount")
    BY <1>11 DEF ReleaseConnection, PlaceInv, Place, Handling, At
  <2>5. Counted' = Counted BY <2>1, <2>3 DEF Counted
  <2>6. HoldsSlot' = HoldsSlot \ {c} /\ c \in HoldsSlot BY <2>1, <2>2, <2>3, <2>4 DEF HoldsSlot
  <2>7. Cardinality(HoldsSlot') = Cardinality(HoldsSlot) - 1 BY <2>6, Shrink
  <2>8. Cardinality(HoldsSlot') \in Nat BY <2>6, FS_RemoveElement, FS_CardinalityType
  <2>9. QED BY <2>1, <2>5, <2>7, <2>8, GatewayAssumption DEF LeasesCounted, TakesSlot, Minus1, TypeOK
<1>12. ASSUME NEW c \in Conns, RemoveConn(c) PROVE UNCHANGED <<leases, connections, reserved, At("admitting"), At("counting"), At("uncount"), At("release")>>
  BY <1>12 DEF RemoveConn, At, TypeOK
<1>13. ASSUME NEW c \in Conns, DecSession(c) PROVE UNCHANGED <<leases, connections, reserved, At("admitting"), At("counting"), At("uncount"), At("release")>>
  BY <1>13 DEF DecSession, At, TypeOK
<1>14. ASSUME NEW c \in Conns, DestroyConn(c) PROVE UNCHANGED <<leases, connections, reserved, At("admitting"), At("counting"), At("uncount"), At("release")>>
  BY <1>14 DEF DestroyConn, At, TypeOK
<1>15. ASSUME NEW u \in Uids, OnRecvSSPacket(u) PROVE UNCHANGED <<leases, connections, reserved, At("admitting"), At("counting"), At("uncount"), At("release")>>
  BY <1>15 DEF OnRecvSSPacket, At
<1>16. ASSUME NEW t \in Transports, SendByUid(t) PROVE UNCHANGED <<leases, connections, reserved, At("admitting"), At("counting"), At("uncount"), At("release")>>
  BY <1>16 DEF SendByUid, At
<1>17. ASSUME NEW c \in Conns, ConnByRemoteAddr(c) PROVE UNCHANGED <<leases, connections, reserved, At("admitting"), At("counting"), At("uncount"), At("release")>>
  BY <1>17 DEF ConnByRemoteAddr, At
<1>18. ASSUME MarkKick PROVE UNCHANGED <<leases, connections, reserved, At("admitting"), At("counting"), At("uncount"), At("release")>>
  BY <1>18 DEF MarkKick, At
<1>19. ASSUME SnapshotByZone PROVE UNCHANGED <<leases, connections, reserved, At("admitting"), At("counting"), At("uncount"), At("release")>>
  BY <1>19 DEF SnapshotByZone, At
<1>20. ASSUME NEW c \in targets, BroadcastWrite(c) PROVE UNCHANGED <<leases, connections, reserved, At("admitting"), At("counting"), At("uncount"), At("release")>>
  BY <1>20 DEF BroadcastWrite, At
<1>21. ASSUME Quiesce PROVE UNCHANGED <<leases, connections, reserved, At("admitting"), At("counting"), At("uncount"), At("release")>>
  BY <1>21 DEF Quiesce, At
<1>22. ASSUME QuiesceListener PROVE UNCHANGED <<leases, connections, reserved, At("admitting"), At("counting"), At("uncount"), At("release")>>
  BY <1>22 DEF QuiesceListener, At
<1>23. ASSUME WaitSessions PROVE UNCHANGED <<leases, connections, reserved, At("admitting"), At("counting"), At("uncount"), At("release")>>
  BY <1>23 DEF WaitSessions, At
<1>24. ASSUME DrainExpires PROVE UNCHANGED <<leases, connections, reserved, At("admitting"), At("counting"), At("uncount"), At("release")>>
  BY <1>24 DEF DrainExpires, At
<1>25. ASSUME StopTransport PROVE UNCHANGED <<leases, connections, reserved, At("admitting"), At("counting"), At("uncount"), At("release")>>
  BY <1>25 DEF StopTransport, At
<1>26. CASE UNCHANGED vars BY <1>26, <1>1 DEF vars, At
<1> QED BY <1>1, <1>2, <1>3, <1>3a, <1>4, <1>5, <1>6, <1>7, <1>8, <1>9, <1>10, <1>10a, <1>11, <1>12, <1>13, <1>14, <1>15, <1>16, <1>17, <1>18, <1>19, <1>20, <1>21, <1>22, <1>23, <1>24, <1>25, <1>26 DEF Next, Client, Server, OnConn, Handler, OnClose, Bus, Downstream, Shutdown

-----------------------------------------------------------------------------
(* The theorems. *)

\* The initial state has no connections, bindings or counts.
LEMMA InitInv ==
  Init => TypeOK /\ PlaceInv /\ BindInv /\ VictimInv /\ LostUidIsLeaving /\ CountInv
<1> SUFFICES ASSUME Init PROVE TypeOK /\ PlaceInv /\ BindInv /\ VictimInv /\ LostUidIsLeaving /\ CountInv
  OBVIOUS
<1> USE GatewayAssumption DEF Init
<1>1. TypeOK BY DEF TypeOK, Pcs, Starting, Stages, Transports, NoDown, Used
<1>2. Bound = {} /\ (\A r \in Pcs \ {"none"} : At(r) = {}) BY DEF Bound, At
<1>3. PlaceInv /\ BindInv /\ VictimInv /\ LostUidIsLeaving
  BY <1>2 DEF PlaceInv, Place, BindInv, VictimInv, LostUidIsLeaving
<1>4. At("inc") = {} /\ At("dec") = {} /\ At("admitting") = {} /\ At("uncount") = {} /\ At("release") = {}
  BY <1>2 DEF Pcs, Starting
<1>5. Cardinality({}) = 0 BY FS_EmptySet
<1>6. SessionsNotUndercounted
  <2>1. sessions = 0 OBVIOUS
  <2>2. Bound = {} /\ At("inc") = {} /\ At("dec") = {} BY <1>2, <1>4
  <2> HIDE DEF Init
  <2>3. QED BY <2>1, <2>2, <1>5 DEF SessionsNotUndercounted
<1>7. Counted = {} /\ HoldsSlot = {} BY <1>4 DEF Counted, HoldsSlot
<1>8. LeasesCounted BY <1>5, <1>7, GatewayAssumption DEF LeasesCounted
<1> QED BY <1>1, <1>3, <1>6, <1>8 DEF CountInv

\* The tables, the positions of the readers, the counters and the requests of the bus
\* stay in their types; in particular no counter goes below zero.
THEOREM TypeCorrect == Spec => []TypeOK
<1>1. TypeOK /\ PlaceInv /\ [Next]_vars => (TypeOK /\ PlaceInv)'
  BY NextTypeOK, NextPlaceInv
<1>2. QED BY <1>1, InitInv, PTL DEF Spec

\* What each position of a connection's reader implies for its socket, its table entry,
\* its bindings and its lease.
THEOREM PlacesHold == Spec => []PlaceInv
<1>1. TypeOK /\ PlaceInv /\ [Next]_vars => (TypeOK /\ PlaceInv)'
  BY NextTypeOK, NextPlaceInv
<1>2. QED BY <1>1, InitInv, PTL DEF Spec

\* For any number of connections that come and go, however OnConn and OnClose interleave:
\* connections counts every admitted connection from IncConnection to DecConnection, and
\* under enforce the reserved slots are those of the leases and of the connections between
\* TryAcquireConnection and markAdmitted, or takeIfAdmitted and ReleaseConnection, and
\* never exceed the limit (admission.go, tcp_impl.go).
THEOREM LeasesAreCounted == Spec => []LeasesCounted
<1>1. TypeOK /\ PlaceInv /\ LeasesCounted /\ [Next]_vars => LeasesCounted'
  BY NextLeases
<1>2. QED BY <1>1, InitInv, TypeCorrect, PlacesHold, PTL DEF Spec, CountInv

\* However logins, replacements and closes interleave, the session count is short of
\* the bound uids by no more than the binds on their way to IncSession
\* (session_hub.go, BindClient and RemoveConn).
THEOREM SessionsSuffice == Spec => []SessionsNotUndercounted
<1>1. TypeOK /\ PlaceInv /\ SessionsNotUndercounted /\ [Next]_vars => SessionsNotUndercounted'
  BY NextSessions
<1>2. QED BY <1>1, InitInv, TypeCorrect, PlacesHold, PTL DEF Spec, CountInv

\* For clients that stay with one uid: no late close removes another's binding, and
\* none outlives its connection (session_hub.go, RemoveConn).
THEOREM BindingsLive == ASSUME OneUidEach PROVE Spec => []BindingsAreLive
<1>1. TypeOK /\ PlaceInv /\ BindInv /\ [Next]_vars => BindInv'
  BY OneUidEach, NextBindInv
<1>2. TypeOK /\ PlaceInv /\ BindInv => BindingsAreLive
  <2> SUFFICES ASSUME TypeOK, PlaceInv, BindInv, NEW u \in Bound
               PROVE  /\ connUid[uidConn[u]] = u
                      /\ pc[uidConn[u]] \notin Starting \cup {"none", "dec", "destroy", "done"}
    BY DEF BindingsAreLive
  <2>1. uidConn[u] \in Conns /\ connUid[uidConn[u]] = u /\ u # NoUid
    BY GatewayAssumption DEF Bound, BindInv, TypeOK
  <2>2. QED BY <2>1 DEF PlaceInv, Place, MayBeBound, Handling, Starting
<1>3. QED BY <1>1, <1>2, InitInv, TypeCorrect, PlacesHold, PTL DEF Spec

\* For clients that stay with one uid on one transport: who lost its uid is closing
\* or about to be closed (session_hub.go, UpdateClientByUid).
THEOREM LostLeaves == ASSUME OneUidEach, OneTransportEach PROVE Spec => []LostUidIsLeaving
<1> DEFINE J == BindInv /\ VictimInv /\ LostUidIsLeaving
<1>1. TypeOK /\ PlaceInv /\ J /\ [Next]_vars => J'
  BY OneUidEach, OneTransportEach, NextBindInv, NextVictim, NextLost
<1>2. Init => J BY InitInv
<1>3. J => LostUidIsLeaving OBVIOUS
<1> HIDE DEF J
<1>4. QED BY <1>1, <1>2, <1>3, TypeCorrect, PlacesHold, PTL DEF Spec
==============================================================================
