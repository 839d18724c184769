------------------------------- MODULE Routing -------------------------------
(***************************************************************************)
(* Which instance of a server type gets a message.  refreshServices takes  *)
(* the ids that are online (Discovery's table) and builds the sorted list  *)
(* and the consistent-hash ring of the type; a rule of the type picks an   *)
(* instance from them by uid, zone or router id.  The rules of one kind    *)
(* differ only in which of the three they use: id stands for each of them. *)
(***************************************************************************)
EXTENDS Naturals, SequencesExt

CONSTANTS
    Instances,      \* bus ids, none of them 0
    VirtualNodes,   \* how many points of the ring an instance has
    PointHash(_, _), \* CRC32 of an instance and a virtual node
    Ids,
    IdHash(_)       \* CRC32 of an id

VARIABLES
    instances,      \* mapSvrTypeToIns
    ring            \* consistentHashRing

vars == <<instances, ring>>

Points(nodes) ==
    {[hash |-> PointHash(n, i), node |-> n, i |-> i] : n \in nodes, i \in 0 .. VirtualNodes - 1}

TypeOK ==
    /\ instances \in Seq(Instances)
    /\ ring \in Seq(Points(Instances))

Init == instances = <<>> /\ ring = <<>>
-----------------------------------------------------------------------------
\* mutant of Ring: the points stay in the order in which they were appended.
RingUnsorted(nodes) ==
    {s \in SetToSeqs(Points(nodes)) : \A i, j \in DOMAIN s : i < j => s[i].node <= s[j].node}

\* sort.Slice is not stable: points with equal hashes are in any order.
Ring(nodes) ==
    {s \in SetToSeqs(Points(nodes)) : \A i, j \in DOMAIN s : i < j => s[i].hash <= s[j].hash}

Ascending(nodes) ==
    {s \in SetToSeqs(nodes) : \A i, j \in DOMAIN s : i < j => s[i] <= s[j]}

\* Under the write lock: both are replaced, and nobody sees one without the other.
RefreshServices ==
    \E nodes \in SUBSET Instances : instances' \in Ascending(nodes) /\ ring' \in Ring(nodes)

Next == RefreshServices
-----------------------------------------------------------------------------
(* The rules.  Without an instance the answer is 0, and the router reports an error. *)

\* The index of the first point that is not before hash, from 0; Len(ring) if there is none.
Search(hash) ==
    LET Bisect[range \in (0 .. Len(ring)) \X (0 .. Len(ring))] ==
            LET lo == range[1]  hi == range[2]  mid == lo + (hi - lo) \div 2
            IN  IF lo >= hi THEN lo
                ELSE IF ring[mid + 1].hash < hash THEN Bisect[<<mid + 1, hi>>] ELSE Bisect[<<lo, mid>>]
    IN  Bisect[<<0, Len(ring)>>]

ConsistentHash(id) == ring[(Search(IdHash(id)) % Len(ring)) + 1].node

Hash(id) == instances[(id % Len(instances)) + 1]

Rules == {"random", "hash", "consistent", "master"}

\* What a message of this id may get.
GetSvrInsBySvrType(rule, id) ==
    IF instances = <<>> THEN {0}
    ELSE CASE rule = "random"     -> ToSet(instances)
           [] rule = "hash"       -> {Hash(id)}
           [] rule = "consistent" -> {ConsistentHash(id)}
           [] rule = "master"     -> {instances[1]}
-----------------------------------------------------------------------------
(* Properties. *)

Online == ToSet(instances)

\* Two points of theirs have one hash: the order of these may change with the ring.
Collide(n, m) ==
    \E i, j \in 0 .. VirtualNodes - 1 : PointHash(n, i) = PointHash(m, j)

\* A message goes to an instance of the table, whichever the rule.
Routed == \A rule \in Rules, id \in Ids :
    GetSvrInsBySvrType(rule, id) \subseteq IF Online = {} THEN {0} ELSE Online

\* A key may go from one instance to another if the first has left, the second is
\* new, or they share a hash.
MayMove(n, m) == n \notin Online' \/ m \notin Online \/ Collide(n, m)

\* When instances come and go, every key of a consistent-hash rule whose instance stays
\* keeps it, unless it goes to a new one; a master is replaced only when it leaves or
\* for a new one.  And every rule finds an instance as long as there is one.
StaysOrMay ==
    /\ Routed'
    /\ \A rule \in {"consistent", "master"}, id \in Ids :
           \A n \in GetSvrInsBySvrType(rule, id), m \in GetSvrInsBySvrType(rule, id)' :
               n = m \/ MayMove(n, m)

KeysStay == [][StaysOrMay]_vars
=============================================================================
