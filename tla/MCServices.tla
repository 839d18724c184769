----------------------------- MODULE MCServices -----------------------------
(***************************************************************************)
(* Seven parts of a server that share no state, checked side by side: each *)
(* behaviour chooses one of them and leaves the others as they are.        *)
(***************************************************************************)
EXTENDS Role

VARIABLES
    part,
    \* AsyncWorker
    status, order, linked, count, popped, token, push, worker, ran, stop, accepted, racing,
    \* TimeWheel
    state, elapsed, curPos, loc, expiration, addCh, removeCh, cancelled,
    \* Discovery
    servers, changes, watch, resolver, children, services, watching, event, runWatch, snapshot,
    table, stopWatch, watchCancelled, watcher, close,
    \* Bus
    life, receiver, callback, run, cur, held, open, consuming, connected, breaks,
    \* Inflight
    mode, inflight, methodInflight, call,
    \* Routing
    instances, ring

asyncVars ==
    <<status, order, linked, count, popped, token, push, worker, ran, stop, accepted, racing>>
wheelVars == <<state, elapsed, curPos, loc, expiration, addCh, removeCh, cancelled>>
registryVars ==
    <<servers, changes, watch, resolver, children, services, watching, event, runWatch, snapshot,
      table, stopWatch, watchCancelled, watcher, close>>
busVars == <<life, receiver, callback, run, cur, held, open, consuming, connected, breaks>>
slotVars == <<mode, inflight, methodInflight, call>>
routeVars == <<instances, ring>>

CONSTANTS Tasks, Capacity
Async == INSTANCE AsyncWorker

CONSTANTS Timers, SlotNum, LayerNum, Delays, AddBuffer, RemoveBuffer, MaxElapsed
Wheel == INSTANCE TimeWheel

CONSTANTS Servers, Self, MaxChanges
Registry == INSTANCE Discovery WITH
    online <- servers, pc <- runWatch, cancelled <- watchCancelled

CONSTANTS Conns, NoConn, MaxBreaks
RabbitMQ == INSTANCE Bus

CONSTANTS Calls, MethodOf, MaxInflight, MaxPerMethod
Slots == INSTANCE Inflight

CONSTANTS Instances, VirtualNodes, PointHash(_, _), Ids, IdHash(_)
Routes == INSTANCE Routing

\* Two points of 1 and 3 have one hash; 2 has the first point and the last.
RingOfThree(n, i) ==
    CASE n = 1 -> IF i = 0 THEN 3 ELSE 5
      [] n = 2 -> IF i = 0 THEN 7 ELSE 1
      [] n = 3 -> IF i = 0 THEN 4 ELSE 5
HashOfId(id) == (5 * id) % 9

\* Two calls of a method with a limit, and others.
MethodOfCall == [c \in Calls |-> IF c \in {"a1", "a2"} THEN "limited" ELSE "free"]
OneOfLimited == [limited |-> 1, free |-> 0]

\* Values of Role's constants.
SectionOfCell == [c \in Cells |-> IF c = "name" THEN "basic" ELSE "inventory"]
HsetOrder == [basic |-> 1, inventory |-> 2]
NoEntries == [c \in Cells |-> 0]
NewPlayer == [c \in Cells |-> IF c = "name" THEN 1 ELSE 0]
GmPlayers == {[c \in Cells |-> 1]}

ServicesInit ==
    /\ part \in {"role", "async", "wheel", "registry", "bus", "slots", "routes"}
    /\ Init /\ Async!Init /\ Wheel!Init /\ Registry!Init /\ RabbitMQ!Init /\ Slots!Init
    /\ Routes!Init
    /\ part # "registry" => servers = {}
    /\ part # "slots" => mode = "enforce"

ServicesNext ==
    /\ part' = part
    /\ \/ /\ part = "role" /\ Next
          /\ UNCHANGED <<asyncVars, wheelVars, registryVars, busVars, slotVars, routeVars>>
       \/ /\ part = "async" /\ Async!Next
          /\ UNCHANGED <<vars, wheelVars, registryVars, busVars, slotVars, routeVars>>
       \/ /\ part = "wheel" /\ Wheel!Next
          /\ UNCHANGED <<vars, asyncVars, registryVars, busVars, slotVars, routeVars>>
       \/ /\ part = "registry" /\ Registry!Next
          /\ UNCHANGED <<vars, asyncVars, wheelVars, busVars, slotVars, routeVars>>
       \/ /\ part = "bus" /\ RabbitMQ!Next
          /\ UNCHANGED <<vars, asyncVars, wheelVars, registryVars, slotVars, routeVars>>
       \/ /\ part = "slots" /\ Slots!Next
          /\ UNCHANGED <<vars, asyncVars, wheelVars, registryVars, busVars, routeVars>>
       \/ /\ part = "routes" /\ Routes!Next
          /\ UNCHANGED <<vars, asyncVars, wheelVars, registryVars, busVars, slotVars>>

\* In the initial states of the parts that were not chosen nothing is owed.
ServicesSpec ==
    /\ ServicesInit
    /\ [][ServicesNext]_<<part, vars, asyncVars, wheelVars, registryVars, busVars, slotVars, routeVars>>
    /\ Fairness /\ Async!Fairness /\ Registry!Fairness /\ RabbitMQ!Fairness
-----------------------------------------------------------------------------
\* Each variable of the seven parts has values of its type.
ServicesTypeOK ==
    /\ RoleTypeOK /\ Async!TypeOK /\ Wheel!TypeOK
    /\ Registry!TypeOK /\ RabbitMQ!TypeOK /\ Slots!TypeOK /\ Routes!TypeOK

\* No wake-up of the worker is lost, and Stop runs what was accepted (see
\* AsyncWorker).
AcceptedIsRun == Async!AcceptedIsRun

\* No timer is overdue in the wheel (see TimeWheel).
FiresOnTime == Wheel!FiresOnTime

\* The instance table follows the registry, unless a read fails and nothing changes
\* after it, and Close ends (see Discovery).
DiscoveryLive == Registry!DiscoveryLive

\* One connection at most, a channel for senders, no call of a callback that Close
\* has taken away (see Bus).
BusSound == RabbitMQ!BusSound

\* The bus recovers, and Close ends with nothing left open (see Bus).
BusLive == RabbitMQ!BusLive

\* Under enforce the in-flight counters are the calls that hold slots (see Inflight).
InflightCounted == Slots!InflightCounted

\* The same of every mode, as the comments of the code have it (see Inflight).
CountsStayCorrect == Slots!CountsStayCorrect

\* Keys stay with their instance as others come and go (see Routing).
KeysStay == Routes!KeysStay
=============================================================================
