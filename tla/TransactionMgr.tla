--------------------------- MODULE TransactionMgr ---------------------------
(***************************************************************************)
(* The sharded, key-serial request executor of lib/service/transaction.    *)
(*                                                                         *)
(* Bus consumer goroutines hand request and response packets to            *)
(* ProcessSSPacket, which puts each one into the bounded channel of one    *)
(* shard.  A shard goroutine takes one packet at a time.  A request starts *)
(* a transaction goroutine, unless a transaction with the same serial key  *)
(* (RouterID, else Uid) is in process: then it waits in pendingPackets.  A *)
(* response is passed to the transaction it names.  A transaction may call *)
(* other servers and wait for their responses; when its handler returns it *)
(* reports to its shard through chanTransRet.  Close stops the shards once *)
(* they are empty.                                                         *)
(*                                                                         *)
(* Every step below is what one goroutine does between two points where    *)
(* another one can observe or disturb it: a channel operation or an atomic *)
(* counter.                                                                *)
(***************************************************************************)
EXTENDS Integers, Sequences, FiniteSets

CONSTANTS
    Requests,           \* the request packets that the environment may send
    RouterID, Uid,      \* their header fields, 0 when unset
    Registered,         \* the requests whose Cmd has a handler
    HasDeadline,        \* the requests that carry a deadline
    ShardCount, MaxTrans, MaxPendingPerKey,
    MaxCalls,           \* bound: request -> the calls that its handler makes
    IdSpace,            \* bound: transaction ids stay below it; the code's
                        \* uint32 wraps at 2^32
    NoRequest           \* not a request

ASSUME RequestsAssumption ==
    /\ IsFiniteSet(Requests)
    /\ NoRequest \notin Requests
    /\ RouterID \in [Requests -> Nat]
    /\ Uid \in [Requests -> Nat]
    /\ Registered \subseteq Requests
    /\ HasDeadline \subseteq Requests
    /\ MaxCalls \in [Requests -> Nat]

\* What normalizeConfig guarantees of the configuration.
ASSUME ConfigAssumption ==
    /\ ShardCount \in Nat \ {0}
    /\ MaxTrans \in Nat \ {0}
    /\ MaxPendingPerKey \in Nat \ {0}
    /\ IdSpace \in Nat

VARIABLES
    status,          \* request -> where it is, or how it was answered
    target,          \* request -> the shard that selectShard chose
    expired,         \* the requests whose deadline has passed
    roundRobin,      \* m.roundRobin, modulo ShardCount
    chanInPacket,    \* shard -> packets
    chanTransRet,    \* shard -> ids of transactions whose handler returned
    inHand,          \* shard -> the packet the shard goroutine is handling
    nextTransID,     \* shard -> the next id it hands out
    transMap,        \* id -> transaction; each one names the shard that owns it
    keyInProcess,    \* shard -> keys with a transaction in process
    pendingPackets,  \* shard -> key -> requests waiting for the key
    activeTransactions,
    net,             \* <<id, seq>>: calls whose response is still under way
    closing, closeCh,
    shardUp,         \* the shards whose goroutine has not returned
    closePc,         \* the caller of Close
    arrived          \* history: key -> its requests, as they entered the channel

mgrVars   == <<roundRobin, closing, closeCh, closePc>>
shardVars == <<inHand, nextTransID, keyInProcess, pendingPackets, shardUp>>
vars == <<status, target, expired, chanInPacket, chanTransRet, transMap,
          activeTransactions, net, arrived, mgrVars, shardVars>>

Shards == 0 .. ShardCount - 1

\* perShardBufferSize: the capacity of chanInPacket and of chanTransRet.
BufSize == IF MaxTrans % ShardCount = 0 THEN MaxTrans \div ShardCount
           ELSE MaxTrans \div ShardCount + 1
-----------------------------------------------------------------------------
(* Packets, keys and transactions. *)

Request(r)      == [dst |-> 0, seq |-> 0, req |-> r]
Response(id, n) == [dst |-> id, seq |-> n, req |-> NoRequest]
NoPacket        == [dst |-> 0, seq |-> 0, req |-> NoRequest]
Packets         == [dst : Nat, seq : Nat, req : Requests \cup {NoRequest}]

IsRequest(p)  == p.req # NoRequest
IsResponse(p) == p.dst # 0

\* serialKeyFromHeader; 0 says that there is no key.
SerialKey(r) == IF RouterID[r] # 0 THEN RouterID[r] ELSE Uid[r]
HasSerialKey(r) == SerialKey(r) # 0
Keys == {SerialKey(r) : r \in {q \in Requests : HasSerialKey(q)}}

\* selectShard, for a request and for a response.
SelectShardUnreduced(r) ==              \* mutant: the key is not reduced
    IF HasSerialKey(r) THEN SerialKey(r) ELSE roundRobin
ResponseShardOffByOne(id) == id % ShardCount    \* mutant
SelectShard(r)   == IF HasSerialKey(r) THEN SerialKey(r) % ShardCount ELSE roundRobin
ResponseShard(id) == (id - 1) % ShardCount

Live == DOMAIN transMap
NewTransaction(s, r) == [shard |-> s, req |-> r, st |-> "handler", sendSeq |-> 0, chanIn |-> 0]
Transactions == [shard : Shards, req : Requests, st : {"handler", "waiting", "returned"},
                 sendSeq : Nat, chanIn : Nat]

Rejections == {"rejected_shutdown", "dropped_queue_full", "dropped_deadline_exceeded",
               "dropped_pending_full", "missing_handler", "rejected_max_trans"}
Statuses == {"new", "admitted", "queued", "inhand", "pending", "started", "done"} \cup Rejections
ClosePcs == {"idle", "marked", "waiting", "closed", "timedout"}
-----------------------------------------------------------------------------
Init ==
    /\ status = [r \in Requests |-> "new"]
    /\ target = [r \in Requests |-> 0]
    /\ expired = {}
    /\ roundRobin = 0
    /\ chanInPacket = [s \in Shards |-> <<>>]
    /\ chanTransRet = [s \in Shards |-> <<>>]
    /\ inHand = [s \in Shards |-> NoPacket]
    /\ nextTransID = [s \in Shards |-> s + 1]
    /\ transMap = <<>>
    /\ keyInProcess = [s \in Shards |-> {}]
    /\ pendingPackets = [s \in Shards |-> [k \in Keys |-> <<>>]]
    /\ activeTransactions = 0
    /\ net = {}
    /\ closing = FALSE
    /\ closeCh = FALSE
    /\ shardUp = Shards
    /\ closePc = "idle"
    /\ arrived = [k \in Keys |-> <<>>]
-----------------------------------------------------------------------------
(* ProcessSSPacket, run by a bus consumer goroutine. *)

\* The closing check and selectShard.
Submit(r) ==
    /\ status[r] = "new"
    /\ IF closing
       THEN /\ status' = [status EXCEPT ![r] = "rejected_shutdown"]
            /\ UNCHANGED <<target, arrived, roundRobin>>
       ELSE /\ status' = [status EXCEPT ![r] = "admitted"]
            /\ target' = [target EXCEPT ![r] = SelectShard(r)]
            /\ roundRobin' = IF HasSerialKey(r) \/ ShardCount = 1 THEN roundRobin
                             ELSE (roundRobin + 1) % ShardCount
    /\ UNCHANGED <<expired, arrived, chanInPacket, chanTransRet, transMap, activeTransactions,
                   net, closing, closeCh, closePc, shardVars>>

\* SendToChan finds room, before or during its three seconds.
Enqueue(r) ==
    /\ status[r] = "admitted"
    /\ Len(chanInPacket[target[r]]) < BufSize
    /\ chanInPacket' = [chanInPacket EXCEPT ![target[r]] = Append(@, Request(r))]
    /\ status' = [status EXCEPT ![r] = "queued"]
    /\ arrived' = IF HasSerialKey(r) THEN [arrived EXCEPT ![SerialKey(r)] = Append(@, r)]
                  ELSE arrived
    /\ UNCHANGED <<target, expired, chanTransRet, transMap, activeTransactions, net,
                   mgrVars, shardVars>>

EnqueueTimeout(r) ==
    /\ status[r] = "admitted"
    /\ Len(chanInPacket[target[r]]) = BufSize
    /\ status' = [status EXCEPT ![r] = "dropped_queue_full"]
    /\ UNCHANGED <<target, expired, arrived, chanInPacket, chanTransRet, transMap,
                   activeTransactions, net, mgrVars, shardVars>>

\* A response is not subject to the closing check, but a closed manager has
\* no shards any more.
ResponseArrives(id, n) ==
    /\ <<id, n>> \in net
    /\ closePc # "closed"
    /\ Len(chanInPacket[ResponseShard(id)]) < BufSize
    /\ chanInPacket' = [chanInPacket EXCEPT ![ResponseShard(id)] = Append(@, Response(id, n))]
    /\ net' = net \ {<<id, n>>}
    /\ UNCHANGED <<status, target, expired, arrived, chanTransRet, transMap, activeTransactions,
                   mgrVars, shardVars>>

\* The response is lost on the bus, meets a full channel for three seconds,
\* or comes to a closed manager.
ResponseLost(id, n) ==
    /\ <<id, n>> \in net
    /\ net' = net \ {<<id, n>>}
    /\ UNCHANGED <<status, target, expired, arrived, chanInPacket, chanTransRet, transMap,
                   activeTransactions, mgrVars, shardVars>>

\* Time passes the DeadlineUnixMs of a request.  Once it is started its deadline
\* only shortens the timeouts of its calls, which CallFails and WaitTimeout allow
\* at any time.
DeadlinePasses(r) ==
    /\ r \in HasDeadline \ expired
    /\ status[r] \in {"new", "admitted", "queued", "inhand", "pending"}
    /\ expired' = expired \cup {r}
    /\ UNCHANGED <<status, target, arrived, chanInPacket, chanTransRet, transMap,
                   activeTransactions, net, mgrVars, shardVars>>
-----------------------------------------------------------------------------
(* The shard goroutine: run, drainOne, processSSPacket, processTransactionRet. *)

Idle(s) == s \in shardUp /\ inHand[s] = NoPacket

TakePacket(s) ==
    /\ Idle(s)
    /\ chanInPacket[s] # <<>>
    /\ LET p == Head(chanInPacket[s]) IN
        /\ inHand' = [inHand EXCEPT ![s] = p]
        /\ status' = IF IsRequest(p) THEN [status EXCEPT ![p.req] = "inhand"] ELSE status
    /\ chanInPacket' = [chanInPacket EXCEPT ![s] = Tail(@)]
    /\ UNCHANGED <<target, expired, arrived, chanTransRet, transMap, activeTransactions, net,
                   nextTransID, keyInProcess, pendingPackets, shardUp, mgrVars>>

\* The tests of processSSPacket on a request, in the code's order.
MustWaitForRouter(s, r) ==      \* mutant: a key that is a Uid is overlooked
    RouterID[r] # 0 /\ SerialKey(r) \in keyInProcess[s]
MustWait(s, r) == HasSerialKey(r) /\ SerialKey(r) \in keyInProcess[s]
Rejection(s, r) ==
    CASE r \in expired -> "dropped_deadline_exceeded"
      [] r \notin expired /\ MustWait(s, r) -> "dropped_pending_full"
      [] r \notin expired /\ ~MustWait(s, r) /\ r \notin Registered -> "missing_handler"
      [] OTHER -> "rejected_max_trans"

MayStartOneMore(s, r) ==        \* mutant: one transaction too many
    /\ r \notin expired /\ ~MustWait(s, r) /\ r \in Registered
    /\ activeTransactions <= MaxTrans
MayStart(s, r) ==
    /\ r \notin expired
    /\ ~MustWait(s, r)
    /\ r \in Registered
    /\ activeTransactions < MaxTrans
MayQueue(s, r) ==
    /\ r \notin expired
    /\ MustWait(s, r)
    /\ Len(pendingPackets[s][SerialKey(r)]) < MaxPendingPerKey

StartTransaction(s) ==
    /\ s \in shardUp
    /\ IsRequest(inHand[s])
    /\ LET r  == inHand[s].req
           id == nextTransID[s]
       IN  /\ MayStart(s, r)
           /\ id + ShardCount < IdSpace
           /\ transMap' = [i \in Live \cup {id} |->
                              IF i = id THEN NewTransaction(s, r) ELSE transMap[i]]
           /\ nextTransID' = [nextTransID EXCEPT ![s] = id + ShardCount]
           /\ keyInProcess' = IF HasSerialKey(r)
                              THEN [keyInProcess EXCEPT ![s] = @ \cup {SerialKey(r)}]
                              ELSE keyInProcess
           /\ status' = [status EXCEPT ![r] = "started"]
    /\ activeTransactions' = activeTransactions + 1
    /\ inHand' = [inHand EXCEPT ![s] = NoPacket]
    /\ UNCHANGED <<target, expired, arrived, chanInPacket, chanTransRet, net, pendingPackets,
                   shardUp, mgrVars>>

QueueRequest(s) ==
    /\ s \in shardUp
    /\ IsRequest(inHand[s])
    /\ LET r == inHand[s].req
       IN  /\ MayQueue(s, r)
           /\ pendingPackets' = [pendingPackets EXCEPT ![s][SerialKey(r)] = Append(@, r)]
           /\ status' = [status EXCEPT ![r] = "pending"]
    /\ inHand' = [inHand EXCEPT ![s] = NoPacket]
    /\ UNCHANGED <<target, expired, arrived, chanInPacket, chanTransRet, transMap,
                   activeTransactions, net, nextTransID, keyInProcess, shardUp, mgrVars>>

RejectRequest(s) ==
    /\ s \in shardUp
    /\ IsRequest(inHand[s])
    /\ LET r == inHand[s].req
       IN  /\ ~MayStart(s, r)
           /\ ~MayQueue(s, r)
           /\ status' = [status EXCEPT ![r] = Rejection(s, r)]
    /\ inHand' = [inHand EXCEPT ![s] = NoPacket]
    /\ UNCHANGED <<target, expired, arrived, chanInPacket, chanTransRet, transMap,
                   activeTransactions, net, nextTransID, keyInProcess, pendingPackets,
                   shardUp, mgrVars>>

\* The shard's own transMap has the id.
Owns(s, id) == id \in Live /\ transMap[id].shard = s

DispatchResponse(s) ==
    /\ s \in shardUp
    /\ IsResponse(inHand[s])
    /\ LET id == inHand[s].dst
       IN  /\ Owns(s, id)
           /\ transMap[id].chanIn = 0
           /\ transMap' = [transMap EXCEPT ![id].chanIn = inHand[s].seq]
    /\ inHand' = [inHand EXCEPT ![s] = NoPacket]
    /\ UNCHANGED <<status, target, expired, arrived, chanInPacket, chanTransRet,
                   activeTransactions, net, nextTransID, keyInProcess, pendingPackets,
                   shardUp, mgrVars>>

\* No such transaction, or its chanIn stays full for three seconds.
DropResponse(s) ==
    /\ s \in shardUp
    /\ IsResponse(inHand[s])
    /\ LET id == inHand[s].dst
       IN  Owns(s, id) => transMap[id].chanIn # 0
    /\ inHand' = [inHand EXCEPT ![s] = NoPacket]
    /\ UNCHANGED <<status, target, expired, arrived, chanInPacket, chanTransRet, transMap,
                   activeTransactions, net, nextTransID, keyInProcess, pendingPackets,
                   shardUp, mgrVars>>

\* processTransactionRet: the first pending request of the key, if any, is
\* then handled like one that has just been received.
NextPendingOfRouter(s, r) ==    \* mutant: a key that is a Uid is overlooked
    IF RouterID[r] # 0 THEN pendingPackets[s][SerialKey(r)] ELSE <<>>
NextPendingNewest(s, r) ==      \* mutant: the last one comes first
    IF HasSerialKey(r) THEN LET q == pendingPackets[s][SerialKey(r)]
                            IN  [i \in DOMAIN q |-> q[Len(q) + 1 - i]]
    ELSE <<>>
DequeueNothing(q) == q          \* mutant: the request stays in the queue
Dequeue(q) == Tail(q)
NextPending(s, r) == IF HasSerialKey(r) THEN pendingPackets[s][SerialKey(r)] ELSE <<>>

FinishTransaction(s) ==
    /\ Idle(s)
    /\ chanTransRet[s] # <<>>
    /\ LET id   == Head(chanTransRet[s])
           r    == transMap[id].req
           rest == NextPending(s, r)
       IN  /\ transMap' = [i \in Live \ {id} |-> transMap[i]]
           /\ keyInProcess' = IF HasSerialKey(r)
                              THEN [keyInProcess EXCEPT ![s] = @ \ {SerialKey(r)}]
                              ELSE keyInProcess
           /\ IF rest = <<>>
              THEN /\ status' = [status EXCEPT ![r] = "done"]
                   /\ UNCHANGED <<inHand, pendingPackets>>
              ELSE /\ status' = [status EXCEPT ![r] = "done", ![Head(rest)] = "inhand"]
                   /\ inHand' = [inHand EXCEPT ![s] = Request(Head(rest))]
                   /\ pendingPackets' = [pendingPackets EXCEPT ![s][SerialKey(r)] = Dequeue(@)]
    /\ chanTransRet' = [chanTransRet EXCEPT ![s] = Tail(@)]
    /\ activeTransactions' = activeTransactions - 1
    /\ UNCHANGED <<target, expired, arrived, chanInPacket, net, nextTransID, shardUp, mgrVars>>

CanStopEarly(s) ==              \* mutant: transactions in process are overlooked
    chanInPacket[s] = <<>> /\ chanTransRet[s] = <<>>
CanStopUnread(s) ==             \* mutant: packets not taken yet are overlooked
    chanTransRet[s] = <<>> /\ (\A id \in Live : transMap[id].shard # s)
CanStop(s) ==
    /\ chanInPacket[s] = <<>>
    /\ chanTransRet[s] = <<>>
    /\ \A id \in Live : transMap[id].shard # s
    /\ \A k \in Keys : pendingPackets[s][k] = <<>>

StopShard(s) ==
    /\ Idle(s)
    /\ closeCh
    /\ CanStop(s)
    /\ shardUp' = shardUp \ {s}
    /\ UNCHANGED <<status, target, expired, arrived, chanInPacket, chanTransRet, transMap,
                   activeTransactions, net, inHand, nextTransID, keyInProcess,
                   pendingPackets, mgrVars>>
-----------------------------------------------------------------------------
(* A transaction goroutine. *)

\* CallMsgBySvrType and its kin: the request goes out, the handler waits.
Call(id) ==
    /\ transMap[id].st = "handler"
    /\ transMap[id].sendSeq < MaxCalls[transMap[id].req]
    /\ LET n == transMap[id].sendSeq + 1
       IN  /\ transMap' = [transMap EXCEPT ![id].sendSeq = n, ![id].st = "waiting"]
           /\ net' = net \cup {<<id, n>>}
    /\ UNCHANGED <<status, target, expired, arrived, chanInPacket, chanTransRet,
                   activeTransactions, mgrVars, shardVars>>

\* The router refuses the call: the sequence number is used up all the same.
CallFails(id) ==
    /\ transMap[id].st = "handler"
    /\ transMap[id].sendSeq < MaxCalls[transMap[id].req]
    /\ transMap' = [transMap EXCEPT ![id].sendSeq = @ + 1]
    /\ UNCHANGED <<status, target, expired, arrived, chanInPacket, chanTransRet,
                   activeTransactions, net, mgrVars, shardVars>>

\* waitRsp takes a packet; one with another CmdSeq is thrown away.
WaitRsp(id) ==
    /\ transMap[id].st = "waiting"
    /\ transMap[id].chanIn # 0
    /\ transMap' = [transMap EXCEPT
            ![id].chanIn = 0,
            ![id].st = IF transMap[id].chanIn = transMap[id].sendSeq THEN "handler" ELSE @]
    /\ UNCHANGED <<status, target, expired, arrived, chanInPacket, chanTransRet,
                   activeTransactions, net, mgrVars, shardVars>>

WaitTimeout(id) ==
    /\ transMap[id].st = "waiting"
    /\ transMap' = [transMap EXCEPT ![id].st = "handler"]
    /\ UNCHANGED <<status, target, expired, arrived, chanInPacket, chanTransRet,
                   activeTransactions, net, mgrVars, shardVars>>

\* The handler returns or panics (SafeFunc), and run reports to the shard.
HandlerReturns(id) ==
    /\ transMap[id].st = "handler"
    /\ Len(chanTransRet[transMap[id].shard]) < BufSize
    /\ transMap' = [transMap EXCEPT ![id].st = "returned"]
    /\ chanTransRet' = [chanTransRet EXCEPT ![transMap[id].shard] = Append(@, id)]
    /\ UNCHANGED <<status, target, expired, arrived, chanInPacket, activeTransactions, net,
                   mgrVars, shardVars>>
-----------------------------------------------------------------------------
(* Close. *)

\* closing.Store; a second Close finds closeOnce done.
CloseBegins ==
    /\ \/ closePc = "idle" /\ closing' = TRUE /\ closePc' = "marked"
       \/ closePc = "timedout" /\ closePc' = "waiting" /\ UNCHANGED closing
    /\ UNCHANGED <<status, target, expired, arrived, roundRobin, chanInPacket, chanTransRet,
                   transMap, activeTransactions, net, closeCh, shardVars>>

CloseSignals ==
    /\ closePc = "marked"
    /\ closeCh' = TRUE
    /\ closePc' = "waiting"
    /\ UNCHANGED <<status, target, expired, arrived, roundRobin, chanInPacket, chanTransRet,
                   transMap, activeTransactions, net, closing, shardVars>>

\* Every shard has returned.
CloseEnds ==
    /\ closePc = "waiting"
    /\ shardUp = {}
    /\ closePc' = "closed"
    /\ UNCHANGED <<status, target, expired, arrived, roundRobin, chanInPacket, chanTransRet,
                   transMap, activeTransactions, net, closing, closeCh, shardVars>>

\* The caller's context is done first.
CloseTimesOut ==
    /\ closePc = "waiting"
    /\ closePc' = "timedout"
    /\ UNCHANGED <<status, target, expired, arrived, roundRobin, chanInPacket, chanTransRet,
                   transMap, activeTransactions, net, closing, closeCh, shardVars>>
-----------------------------------------------------------------------------
ProcessSSPacket ==
    \/ \E r \in Requests : Submit(r) \/ Enqueue(r) \/ EnqueueTimeout(r) \/ DeadlinePasses(r)
    \/ \E n \in net : ResponseArrives(n[1], n[2]) \/ ResponseLost(n[1], n[2])

ShardStep(s) ==
    \/ TakePacket(s)
    \/ StartTransaction(s) \/ QueueRequest(s) \/ RejectRequest(s)
    \/ DispatchResponse(s) \/ DropResponse(s)
    \/ FinishTransaction(s)
    \/ StopShard(s)

TransactionStep(id) ==
    Call(id) \/ CallFails(id) \/ WaitRsp(id) \/ WaitTimeout(id) \/ HandlerReturns(id)

Close == CloseBegins \/ CloseSignals \/ CloseEnds \/ CloseTimesOut

Next ==
    \/ ProcessSSPacket
    \/ \E s \in Shards : ShardStep(s)
    \/ \E id \in Live : TransactionStep(id)
    \/ Close

Spec == Init /\ [][Next]_vars

(* The goroutines of the process run: a shard that can act does, an admitted  *)
(* packet enters a channel or times out, waiting calls time out and handlers  *)
(* return.  Nothing is assumed of the environment: requests need not come,    *)
(* responses may be lost, and nobody has to call Close.                       *)
Fairness ==
    /\ \A r \in Requests : WF_vars(Enqueue(r) \/ EnqueueTimeout(r))
    /\ \A s \in Shards : WF_vars(ShardStep(s))
    /\ \A id \in 1 .. IdSpace : WF_vars(id \in Live /\ (WaitTimeout(id) \/ HandlerReturns(id)))
    /\ WF_vars(CloseSignals) /\ WF_vars(CloseEnds)

FairSpec == Spec /\ Fairness
-----------------------------------------------------------------------------
(* Properties. *)

TypeOK ==
    /\ status \in [Requests -> Statuses]
    /\ target \in [Requests -> Shards]
    /\ expired \subseteq HasDeadline
    /\ roundRobin \in Shards
    /\ chanInPacket \in [Shards -> Seq(Packets)]
    /\ chanTransRet \in [Shards -> Seq(Nat)]
    /\ inHand \in [Shards -> Packets]
    /\ nextTransID \in [Shards -> Nat]
    /\ Live \subseteq Nat
    /\ transMap \in [Live -> Transactions]
    /\ keyInProcess \in [Shards -> SUBSET Keys]
    /\ pendingPackets \in [Shards -> [Keys -> Seq(Requests)]]
    /\ activeTransactions \in Int
    /\ net \subseteq Nat \X Nat
    /\ closing \in BOOLEAN /\ closeCh \in BOOLEAN
    /\ shardUp \subseteq Shards
    /\ closePc \in ClosePcs
    /\ arrived \in [Keys -> Seq(Requests)]

\* Requests with the same serial key never run at the same time, on whichever
\* shards they were started (STYLE.md relies on it for per-entity state).
OneTransactionPerKey ==
    \A i, j \in Live :
        (i # j /\ HasSerialKey(transMap[i].req)) =>
            SerialKey(transMap[i].req) # SerialKey(transMap[j].req)

\* The slots taken with tryAcquireTransSlot are exactly those of the live
\* transactions, and they never exceed MaxTrans.
SlotsMatchTransactions ==
    /\ activeTransactions = Cardinality(Live)
    /\ activeTransactions <= MaxTrans

\* A request is executed at most once, and one that was rejected is not executed:
\* no step takes it up again, from a channel or from pendingPackets.
ExecutedAtMostOnce ==
    [][\A r \in Requests :
          /\ status[r] = "started" => status'[r] \in {"started", "done"}
          /\ status[r] \in {"done"} \cup Rejections => status'[r] = status[r]]_vars

\* A response meets the shard that owns its transaction: it is never thrown
\* away as "missing_transaction" while the transaction is live.
ResponseFindsTransaction ==
    \A s \in Shards : (IsResponse(inHand[s]) /\ inHand[s].dst \in Live) => Owns(s, inHand[s].dst)

(* The inductive invariant behind the properties above: where a request is,  *)
(* which shard handles it, and which keys that shard holds.                  *)

\* Each live transaction has a request of its own.
OwnRequest ==
    /\ \A i, j \in Live : transMap[i].req = transMap[j].req => i = j
    /\ \A i \in Live : status[transMap[i].req] = "started"

\* A packet in shard s's channel or hand belongs to s.
BelongsTo(p, s, st) ==
    /\ IsRequest(p) => p = Request(p.req) /\ status[p.req] = st /\ target[p.req] = s
    /\ IsResponse(p) => ResponseShard(p.dst) = s

ChanInv ==
    \A s \in Shards : \A i \in DOMAIN chanInPacket[s] :
        /\ BelongsTo(chanInPacket[s][i], s, "queued")
        /\ \A j \in DOMAIN chanInPacket[s] :
              (IsRequest(chanInPacket[s][i]) /\ chanInPacket[s][i].req = chanInPacket[s][j].req)
                  => i = j

HandInv == \A s \in Shards : BelongsTo(inHand[s], s, "inhand")

PendInv ==
    \A s \in Shards, k \in Keys : \A i \in DOMAIN pendingPackets[s][k] :
        LET r == pendingPackets[s][k][i]
        IN  /\ status[r] = "pending" /\ target[r] = s /\ SerialKey(r) = k
            /\ \A j \in DOMAIN pendingPackets[s][k] : pendingPackets[s][k][j] = r => i = j

TargetInv ==
    /\ \A r \in Requests : (HasSerialKey(r) /\ status[r] \notin {"new", "rejected_shutdown"}) =>
                               target[r] = SerialKey(r) % ShardCount
    /\ \A n \in net : n[1] # 0

TransInv ==
    \A id \in Live :
        LET t == transMap[id]
        IN  /\ status[t.req] = "started" /\ target[t.req] = t.shard
            /\ HasSerialKey(t.req) => SerialKey(t.req) \in keyInProcess[t.shard]

IdInv ==
    /\ \A s \in Shards : nextTransID[s] # 0 /\ ResponseShard(nextTransID[s]) = s
    /\ \A id \in Live : /\ id # 0
                        /\ ResponseShard(id) = transMap[id].shard
                        /\ id < nextTransID[transMap[id].shard]

RetInv ==
    \A s \in Shards : \A i \in DOMAIN chanTransRet[s] :
        LET id == chanTransRet[s][i]
        IN  /\ id \in Live /\ transMap[id].shard = s /\ transMap[id].st = "returned"
            /\ \A j \in DOMAIN chanTransRet[s] : chanTransRet[s][j] = id => i = j

IInv ==
    /\ TypeOK /\ RetInv
    /\ TargetInv /\ ChanInv /\ HandInv /\ PendInv
    /\ TransInv /\ IdInv
    /\ OneTransactionPerKey /\ OwnRequest
    /\ IsFiniteSet(Live) /\ SlotsMatchTransactions

\* Close returns nil only when no transaction is left and no request waits behind one.
\* It says nothing of a request that passed the closing check and enters its channel
\* after the shard has stopped: nobody takes that one any more, and it stays "queued".
ClosedMeansDrained ==
    closePc = "closed" =>
        /\ Live = {}
        /\ activeTransactions = 0
        /\ \A r \in Requests : status[r] \notin {"inhand", "pending", "started"}

\* A request that reached a running shard is executed to its end or rejected.
QueuedIsAnswered ==
    \A r \in Requests : (status[r] = "queued" /\ target[r] \in shardUp) ~>
                            (status[r] = "done" \/ status[r] \in Rejections)

\* Once closeCh is closed every shard returns.
CloseDrains == closeCh ~> (shardUp = {})
-----------------------------------------------------------------------------
(* Refinement: seen from the handlers, the manager is an Executor.  A packet *)
(* is in line from the moment it enters a channel; where it stands then, in  *)
(* chanInPacket, inHand or pendingPackets, is invisible.                     *)

StateOf(st) ==
    IF st \in {"new", "admitted"} THEN "new"
    ELSE IF st \in {"queued", "inhand", "pending"} THEN "waiting"
    ELSE IF st = "started" THEN "running"
    ELSE IF st = "done" THEN "done"
    ELSE "refused"

Exec == INSTANCE Executor WITH
    Key <- [r \in Requests |-> SerialKey(r)], NoKey <- 0, Capacity <- MaxTrans,
    state <- [r \in Requests |-> StateOf(status[r])], line <- arrived

\* The manager implements the Executor: whatever is queued, turned away or taken
\* out of pendingPackets by a transaction that ends, handlers of one key run one
\* at a time and in the order of arrival, and no more than MaxTrans at once.
\* Where a request may be rejected as it leaves pendingPackets (its deadline
\* passed, its Cmd unknown, no slot free) this does not hold: those behind it
\* stay there, and a later one of their key starts before them.
ImplementsExecutor == Exec!Spec
=============================================================================
