------------------------ MODULE TransactionMgrProofs ------------------------
(* Theorems about TransactionMgr, for any number of shards and requests. *)
EXTENDS TransactionMgr, FiniteSetTheorems, TLAPS

LEMMA ModAddDivisor ==
    ASSUME NEW N \in Nat \ {0}, NEW a \in Nat
    PROVE  (a + N) % N = a % N
  <1> DEFINE q == a \div N
             r == a % N
             q2 == (a + N) \div N
             r2 == (a + N) % N
  <1>1. q \in Int /\ r \in 0 .. N - 1 /\ a = N * q + r
    OBVIOUS
  <1>2. q2 \in Int /\ r2 \in 0 .. N - 1 /\ a + N = N * q2 + r2
    OBVIOUS
  <1> HIDE DEF q, r, q2, r2
  <1>3. N * (q2 - q - 1) = r - r2
    BY <1>1, <1>2
  <1>4. q2 - q - 1 = 0
    <2>1. CASE q2 - q - 1 >= 1
      <3>1. N * (q2 - q - 1) >= N
        BY <2>1, <1>1, <1>2
      <3> QED BY <3>1, <1>1, <1>2, <1>3
    <2>2. CASE q2 - q - 1 <= -1
      <3>1. N * (q2 - q - 1) <= -N
        BY <2>2, <1>1, <1>2
      <3> QED BY <3>1, <1>1, <1>2, <1>3
    <2> QED BY <2>1, <2>2, <1>1, <1>2
  <1>5. r2 = r
    BY <1>1, <1>2, <1>3, <1>4
  <1> QED BY <1>5 DEF r, r2
-----------------------------------------------------------------------------
LEMMA ShardsType == Shards \subseteq Nat /\ \A n \in Int : n % ShardCount \in Shards
  BY ConfigAssumption DEF Shards

LEMMA KeysType == /\ \A r \in Requests : SerialKey(r) \in Nat
                  /\ \A r \in Requests : HasSerialKey(r) => SerialKey(r) \in Keys
                  /\ Keys \subseteq Nat
  BY RequestsAssumption DEF SerialKey, HasSerialKey, Keys

LEMMA SelectShardType == ASSUME TypeOK, NEW r \in Requests PROVE SelectShard(r) \in Shards
  BY ShardsType, KeysType DEF SelectShard, TypeOK

LEMMA PacketTypes ==
    /\ \A r \in Requests : Request(r) \in Packets /\ IsRequest(Request(r)) /\ ~IsResponse(Request(r))
    /\ \A id, n \in Nat : Response(id, n) \in Packets /\ ~IsRequest(Response(id, n))
    /\ \A p \in Packets : IsRequest(p) => p.req \in Requests
    /\ NoPacket \in Packets /\ ~IsRequest(NoPacket) /\ ~IsResponse(NoPacket)
  BY RequestsAssumption DEF Request, Response, NoPacket, Packets, IsRequest, IsResponse

LEMMA TransactionUpdates ==
    ASSUME NEW t \in Transactions
    PROVE  /\ \A n \in Nat : [t EXCEPT !.chanIn = n] \in Transactions
           /\ [t EXCEPT !.st = "handler"] \in Transactions
           /\ [t EXCEPT !.st = "returned"] \in Transactions
           /\ [t EXCEPT !.chanIn = 0, !.st = "handler"] \in Transactions
           /\ t.sendSeq + 1 \in Nat
           /\ [t EXCEPT !.sendSeq = t.sendSeq + 1] \in Transactions
           /\ [t EXCEPT !.sendSeq = t.sendSeq + 1, !.st = "waiting"] \in Transactions
  <1>1. t.sendSeq + 1 \in Nat
    BY DEF Transactions
  <1>2. ASSUME NEW n \in Nat PROVE [t EXCEPT !.chanIn = n] \in Transactions
    BY DEF Transactions
  <1>3. /\ [t EXCEPT !.st = "handler"] \in Transactions
        /\ [t EXCEPT !.st = "returned"] \in Transactions
    BY DEF Transactions
  <1>4. [t EXCEPT !.chanIn = 0, !.st = "handler"] \in Transactions
    BY DEF Transactions
  <1>5. ASSUME NEW n \in Nat
        PROVE  /\ [t EXCEPT !.sendSeq = n] \in Transactions
               /\ [t EXCEPT !.sendSeq = n, !.st = "waiting"] \in Transactions
    BY DEF Transactions
  <1> QED BY <1>1, <1>2, <1>3, <1>4, <1>5

\* One entry of transMap is replaced.
LEMMA ReplaceTransaction ==
    ASSUME TypeOK, NEW id \in Live, NEW t \in Transactions,
           transMap' = [transMap EXCEPT ![id] = t]
    PROVE  /\ Live' = Live
           /\ transMap' \in [Live' -> Transactions]
           /\ Live' \subseteq Nat
           /\ transMap'[id] = t
           /\ \A i \in Live : i # id => transMap'[i] = transMap[i]
  BY DEF TypeOK, Live

\* What a transaction goroutine does to its own entry of transMap.
LEMMA TransactionStepEffect ==
    ASSUME TypeOK, NEW id \in Live, TransactionStep(id)
    PROVE  /\ Live' = Live
           /\ transMap' \in [Live' -> Transactions]
           /\ Live' \subseteq Nat
           /\ \A i \in Live : transMap'[i].shard = transMap[i].shard
           /\ \A i \in Live : transMap'[i].req = transMap[i].req
           /\ \A i \in Live : i # id => transMap'[i] = transMap[i]
           /\ transMap[id].st # "returned"
  <1>1. transMap[id] \in Transactions
    BY DEF TypeOK
  <1> DEFINE t == transMap[id]
  <1>2. ASSUME NEW u \in Transactions, transMap' = [transMap EXCEPT ![id] = u],
               u.shard = t.shard, u.req = t.req, t.st # "returned"
        PROVE  /\ Live' = Live
               /\ transMap' \in [Live' -> Transactions]
               /\ Live' \subseteq Nat
               /\ \A i \in Live : transMap'[i].shard = transMap[i].shard
               /\ \A i \in Live : transMap'[i].req = transMap[i].req
               /\ \A i \in Live : i # id => transMap'[i] = transMap[i]
               /\ transMap[id].st # "returned"
    BY <1>2, ReplaceTransaction
  <1>3. CASE Call(id)
    <2> DEFINE u == [t EXCEPT !.sendSeq = t.sendSeq + 1, !.st = "waiting"]
    <2>1. u \in Transactions /\ u.shard = t.shard /\ u.req = t.req /\ t.st # "returned"
      BY <1>1, <1>3, TransactionUpdates DEF Call, Transactions
    <2>2. transMap' = [transMap EXCEPT ![id] = u]
      BY <1>3 DEF Call
    <2> QED BY <1>2, <2>1, <2>2
  <1>4. CASE CallFails(id)
    <2> DEFINE u == [t EXCEPT !.sendSeq = t.sendSeq + 1]
    <2>1. u \in Transactions /\ u.shard = t.shard /\ u.req = t.req /\ t.st # "returned"
      BY <1>1, <1>4, TransactionUpdates DEF CallFails, Transactions
    <2>2. transMap' = [transMap EXCEPT ![id] = u]
      BY <1>4 DEF CallFails
    <2> QED BY <1>2, <2>1, <2>2
  <1>5. CASE WaitRsp(id)
    <2> DEFINE u == IF t.chanIn = t.sendSeq THEN [t EXCEPT !.chanIn = 0, !.st = "handler"]
                    ELSE [t EXCEPT !.chanIn = 0]
    <2>1. u \in Transactions /\ u.shard = t.shard /\ u.req = t.req /\ t.st # "returned"
      BY <1>1, <1>5, TransactionUpdates DEF WaitRsp, Transactions
    <2>2. transMap' = [transMap EXCEPT ![id] = u]
      <3>1. transMap' = [transMap EXCEPT ![id] =
                [t EXCEPT !.chanIn = 0, !.st = IF t.chanIn = t.sendSeq THEN "handler" ELSE t.st]]
        BY <1>5 DEF WaitRsp
      <3>2. [t EXCEPT !.chanIn = 0, !.st = IF t.chanIn = t.sendSeq THEN "handler" ELSE t.st] = u
        BY <1>1 DEF Transactions
      <3> QED BY <3>1, <3>2
    <2> QED BY <1>2, <2>1, <2>2
  <1>6. CASE WaitTimeout(id)
    <2> DEFINE u == [t EXCEPT !.st = "handler"]
    <2>1. u \in Transactions /\ u.shard = t.shard /\ u.req = t.req /\ t.st # "returned"
      BY <1>1, <1>6, TransactionUpdates DEF WaitTimeout, Transactions
    <2> QED BY <1>2, <1>6, <2>1 DEF WaitTimeout
  <1>7. CASE HandlerReturns(id)
    <2> DEFINE u == [t EXCEPT !.st = "returned"]
    <2>1. u \in Transactions /\ u.shard = t.shard /\ u.req = t.req /\ t.st # "returned"
      BY <1>1, <1>7, TransactionUpdates DEF HandlerReturns, Transactions
    <2> QED BY <1>2, <1>7, <2>1 DEF HandlerReturns
  <1> QED BY <1>3, <1>4, <1>5, <1>6, <1>7 DEF TransactionStep

\* Init establishes the types.
LEMMA InitTypeOK == Init => TypeOK
  <1> SUFFICES ASSUME Init PROVE TypeOK
    OBVIOUS
  <1>1. 0 \in Shards /\ \A s \in Shards : s + 1 \in Nat
    BY ConfigAssumption DEF Shards
  <1>2. Live = {} /\ transMap \in [Live -> Transactions]
    BY DEF Init, Live
  <1>3. /\ pendingPackets \in [Shards -> [Keys -> Seq(Requests)]]
        /\ arrived \in [Keys -> Seq(Requests)]
        /\ chanInPacket \in [Shards -> Seq(Packets)]
        /\ chanTransRet \in [Shards -> Seq(Nat)]
    BY DEF Init
  <1>4. status \in [Requests -> Statuses] /\ closePc \in ClosePcs
    BY DEF Init, Statuses, ClosePcs
  <1>5. nextTransID \in [Shards -> Nat] /\ target \in [Requests -> Shards] /\ roundRobin \in Shards
    BY <1>1 DEF Init
  <1>6. inHand \in [Shards -> Packets]
    BY PacketTypes DEF Init
  <1>7. /\ keyInProcess \in [Shards -> SUBSET Keys]
        /\ expired \subseteq HasDeadline /\ net \subseteq Nat \X Nat /\ shardUp \subseteq Shards
        /\ activeTransactions \in Int
    BY DEF Init
  <1>8. closing \in BOOLEAN /\ closeCh \in BOOLEAN
    BY DEF Init
  <1> QED
    BY <1>2, <1>3, <1>4, <1>5, <1>6, <1>7, <1>8 DEF TypeOK

\* Every step preserves the types.
LEMMA NextTypeOK == ASSUME TypeOK, RetInv, [Next]_vars PROVE TypeOK'
  <1>1. ASSUME NEW r \in Requests, Submit(r) PROVE TypeOK'
    <2>1. roundRobin' \in Shards
      <3>1. roundRobin + 1 \in Nat /\ (roundRobin + 1) % ShardCount \in Shards
        BY ShardsType DEF TypeOK
      <3> QED BY <1>1, <3>1 DEF Submit, TypeOK
    <2>2. target' \in [Requests -> Shards]
      BY <1>1, SelectShardType DEF Submit, TypeOK
    <2>3. status' \in [Requests -> Statuses]
      BY <1>1 DEF Submit, Statuses, Rejections, TypeOK
    <2> QED BY <1>1, <2>1, <2>2, <2>3 DEF Submit, TypeOK, shardVars, Live
  <1>2. ASSUME NEW r \in Requests, Enqueue(r) PROVE TypeOK'
    <2>1. chanInPacket' \in [Shards -> Seq(Packets)]
      BY <1>2, PacketTypes DEF Enqueue, TypeOK
    <2>2. arrived' \in [Keys -> Seq(Requests)]
      BY <1>2, KeysType DEF Enqueue, TypeOK
    <2>3. status' \in [Requests -> Statuses]
      BY <1>2 DEF Enqueue, Statuses, TypeOK
    <2> QED BY <1>2, <2>1, <2>2, <2>3 DEF Enqueue, TypeOK, mgrVars, shardVars, Live
  <1>3. ASSUME NEW r \in Requests, EnqueueTimeout(r) PROVE TypeOK'
    BY <1>3 DEF EnqueueTimeout, Statuses, Rejections, TypeOK, mgrVars, shardVars, Live
  <1>4. ASSUME NEW r \in Requests, DeadlinePasses(r) PROVE TypeOK'
    BY <1>4 DEF DeadlinePasses, TypeOK, mgrVars, shardVars, Live
  <1>5. ASSUME NEW n \in net, ResponseArrives(n[1], n[2]) PROVE TypeOK'
    <2>1. Response(n[1], n[2]) \in Packets
      BY PacketTypes DEF TypeOK
    <2>2. chanInPacket' \in [Shards -> Seq(Packets)]
      <3> DEFINE s == ResponseShard(n[1])
                 p == Response(n[1], n[2])
      <3>1. chanInPacket' = [chanInPacket EXCEPT ![s] = Append(@, p)]
        BY <1>5 DEF ResponseArrives
      <3>2. p \in Packets /\ s \in Shards
        BY <2>1, ShardsType DEF TypeOK, ResponseShard
      <3> HIDE DEF s, p
      <3> QED BY <3>1, <3>2 DEF TypeOK
    <2> QED BY <1>5, <2>2 DEF ResponseArrives, TypeOK, mgrVars, shardVars, Live
  <1>6. ASSUME NEW n \in net, ResponseLost(n[1], n[2]) PROVE TypeOK'
    BY <1>6 DEF ResponseLost, TypeOK, mgrVars, shardVars, Live
  <1>7. ASSUME NEW s \in Shards, TakePacket(s) PROVE TypeOK'
    <2> DEFINE p == Head(chanInPacket[s])
    <2>1. p \in Packets
      BY <1>7 DEF TakePacket, TypeOK
    <2>2. status' \in [Requests -> Statuses]
      BY <1>7, <2>1, PacketTypes DEF TakePacket, TypeOK, Statuses
    <2>3. chanInPacket' \in [Shards -> Seq(Packets)] /\ inHand' \in [Shards -> Packets]
      BY <1>7, <2>1 DEF TakePacket, TypeOK
    <2> QED BY <1>7, <2>2, <2>3 DEF TakePacket, TypeOK, mgrVars, Live
  <1>8. ASSUME NEW s \in Shards, StartTransaction(s) PROVE TypeOK'
    <2> DEFINE r == inHand[s].req
               id == nextTransID[s]
    <2>1. r \in Requests /\ id \in Nat /\ NewTransaction(s, r) \in Transactions
      BY <1>8, PacketTypes, ConfigAssumption
      DEF StartTransaction, NewTransaction, Transactions, TypeOK
    <2>2. Live' \subseteq Nat /\ transMap' \in [Live' -> Transactions]
      BY <1>8, <2>1 DEF StartTransaction, TypeOK, Live
    <2>3. nextTransID' \in [Shards -> Nat]
      <3>1. id + ShardCount \in Nat
        BY <2>1, ConfigAssumption
      <3> QED BY <1>8, <3>1 DEF StartTransaction, TypeOK
    <2>4. keyInProcess' \in [Shards -> SUBSET Keys]
      BY <1>8, <2>1, KeysType DEF StartTransaction, TypeOK
    <2>5. status' \in [Requests -> Statuses] /\ activeTransactions' \in Int
      BY <1>8, <2>1 DEF StartTransaction, Statuses, TypeOK
    <2>6. inHand' \in [Shards -> Packets]
      BY <1>8, PacketTypes DEF StartTransaction, TypeOK
    <2> QED BY <1>8, <2>2, <2>3, <2>4, <2>5, <2>6 DEF StartTransaction, TypeOK, mgrVars
  <1>9. ASSUME NEW s \in Shards, QueueRequest(s) PROVE TypeOK'
    <2> DEFINE r == inHand[s].req
               k == SerialKey(r)
    <2>1. r \in Requests /\ k \in Keys
      BY <1>9, PacketTypes, KeysType DEF QueueRequest, MayQueue, MustWait, TypeOK
    <2>2. Append(pendingPackets[s][k], r) \in Seq(Requests)
      BY <2>1 DEF TypeOK
    <2>3. pendingPackets' \in [Shards -> [Keys -> Seq(Requests)]]
      BY <1>9, <2>1, <2>2 DEF QueueRequest, TypeOK
    <2>4. status' \in [Requests -> Statuses]
      BY <1>9, <2>1 DEF QueueRequest, Statuses, TypeOK
    <2>5. inHand' \in [Shards -> Packets]
      BY <1>9, PacketTypes DEF QueueRequest, TypeOK
    <2> QED BY <1>9, <2>3, <2>4, <2>5 DEF QueueRequest, TypeOK, mgrVars, Live
  <1>10. ASSUME NEW s \in Shards, RejectRequest(s) PROVE TypeOK'
    BY <1>10, PacketTypes DEF RejectRequest, Rejection, Statuses, Rejections, TypeOK, mgrVars, Live
  <1>11. ASSUME NEW s \in Shards, DispatchResponse(s) PROVE TypeOK'
    <2> DEFINE id == inHand[s].dst
               t == [transMap[id] EXCEPT !.chanIn = inHand[s].seq]
    <2>1. id \in Live /\ t \in Transactions
      BY <1>11, TransactionUpdates DEF DispatchResponse, Owns, Packets, TypeOK
    <2>2. transMap' = [transMap EXCEPT ![id] = t]
      BY <1>11 DEF DispatchResponse
    <2>3. Live' = Live /\ transMap' \in [Live -> Transactions]
      BY <2>1, <2>2, ReplaceTransaction
    <2>4. inHand' \in [Shards -> Packets]
      BY <1>11, PacketTypes DEF DispatchResponse, TypeOK
    <2> QED BY <1>11, <2>3, <2>4 DEF DispatchResponse, TypeOK, mgrVars
  <1>12. ASSUME NEW s \in Shards, DropResponse(s) PROVE TypeOK'
    BY <1>12, PacketTypes DEF DropResponse, TypeOK, mgrVars, Live
  <1>13. ASSUME NEW s \in Shards, FinishTransaction(s) PROVE TypeOK'
    <2> DEFINE id == Head(chanTransRet[s])
               r == transMap[id].req
               k == SerialKey(r)
               rest == NextPending(s, r)
    <2>1. id \in Live /\ r \in Requests
      <3>1. id = chanTransRet[s][1] /\ 1 \in DOMAIN chanTransRet[s]
        BY <1>13 DEF FinishTransaction, TypeOK
      <3>2. id \in Live
        BY <3>1 DEF RetInv
      <3> QED BY <3>2 DEF TypeOK, Transactions
    <2>2. rest \in Seq(Requests) /\ (rest # <<>> => k \in Keys /\ rest = pendingPackets[s][k])
      BY <2>1, KeysType DEF NextPending, TypeOK
    <2>3. Live' \subseteq Nat /\ transMap' \in [Live' -> Transactions]
      BY <1>13 DEF FinishTransaction, TypeOK, Live
    <2>4. keyInProcess' \in [Shards -> SUBSET Keys]
      BY <1>13 DEF FinishTransaction, TypeOK
    <2>5. chanTransRet' \in [Shards -> Seq(Nat)] /\ activeTransactions' \in Int
      BY <1>13 DEF FinishTransaction, TypeOK
    <2>6. CASE rest = <<>>
      <3>1. status' \in [Requests -> Statuses]
        BY <1>13, <2>6 DEF FinishTransaction, TypeOK, Statuses
      <3>2. UNCHANGED <<inHand, pendingPackets>>
        BY <1>13, <2>6 DEF FinishTransaction
      <3> QED BY <1>13, <2>3, <2>4, <2>5, <3>1, <3>2 DEF FinishTransaction, TypeOK, mgrVars
    <2>7. CASE rest # <<>>
      <3>1. status' \in [Requests -> Statuses]
        BY <1>13, <2>7 DEF FinishTransaction, TypeOK, Statuses
      <3>2. inHand' \in [Shards -> Packets]
        <4>1. Head(rest) \in Requests
          BY <2>2, <2>7
        <4>2. inHand' = [inHand EXCEPT ![s] = Request(Head(rest))]
          BY <1>13, <2>7 DEF FinishTransaction
        <4> QED BY <4>1, <4>2, PacketTypes DEF TypeOK
      <3>3. pendingPackets' \in [Shards -> [Keys -> Seq(Requests)]]
        <4>1. Tail(pendingPackets[s][k]) \in Seq(Requests)
          BY <2>2, <2>7 DEF TypeOK
        <4>2. pendingPackets' = [pendingPackets EXCEPT ![s][k] = Tail(@)]
          BY <1>13, <2>7 DEF FinishTransaction, Dequeue
        <4> QED BY <2>2, <2>7, <4>1, <4>2 DEF TypeOK
      <3> QED BY <1>13, <2>3, <2>4, <2>5, <3>1, <3>2, <3>3 DEF FinishTransaction, TypeOK, mgrVars
    <2> QED BY <2>6, <2>7
  <1>14. ASSUME NEW s \in Shards, StopShard(s) PROVE TypeOK'
    BY <1>14 DEF StopShard, TypeOK, mgrVars, Live
  <1>15. ASSUME NEW id \in Live, TransactionStep(id) PROVE TypeOK'
    <2>1. Live' \subseteq Nat /\ transMap' \in [Live' -> Transactions]
      BY <1>15, TransactionStepEffect
    <2>2. chanTransRet' \in [Shards -> Seq(Nat)]
      <3>1. CASE HandlerReturns(id)
        <4>1. transMap[id].shard \in Shards /\ id \in Nat
          BY DEF TypeOK, Transactions
        <4> QED BY <3>1, <4>1 DEF HandlerReturns, TypeOK
      <3>2. CASE ~HandlerReturns(id)
        BY <1>15, <3>2 DEF TransactionStep, Call, CallFails, WaitRsp, WaitTimeout, TypeOK
      <3> QED BY <3>1, <3>2
    <2>3. net' \subseteq Nat \X Nat
      <3>1. id \in Nat /\ transMap[id].sendSeq + 1 \in Nat
        BY ConfigAssumption DEF TypeOK, Transactions
      <3> QED BY <1>15, <3>1 DEF TransactionStep, Call, CallFails, WaitRsp, WaitTimeout,
                                 HandlerReturns, TypeOK
    <2>4. UNCHANGED <<status, target, expired, arrived, chanInPacket, activeTransactions,
                      mgrVars, shardVars>>
      BY <1>15 DEF TransactionStep, Call, CallFails, WaitRsp, WaitTimeout, HandlerReturns
    <2> QED BY <2>1, <2>2, <2>3, <2>4 DEF TypeOK, mgrVars, shardVars
  <1>16. ASSUME Close PROVE TypeOK'
    BY <1>16 DEF Close, CloseBegins, CloseSignals, CloseEnds, CloseTimesOut, ClosePcs, TypeOK,
                 shardVars, Live
  <1>17. CASE UNCHANGED vars
    BY <1>17 DEF TypeOK, vars, mgrVars, shardVars, Live
  <1> QED
    BY <1>1, <1>2, <1>3, <1>4, <1>5, <1>6, <1>7, <1>8, <1>9, <1>10, <1>11, <1>12,
       <1>13, <1>14, <1>15, <1>16, <1>17 DEF Next, ProcessSSPacket, ShardStep

-----------------------------------------------------------------------------
(* Transaction ids and returning transactions. *)

\* The steps that touch transMap, chanTransRet or nextTransID.
LEMMA TransMapSteps ==
    ASSUME [Next]_vars
    PROVE  \/ UNCHANGED <<transMap, chanTransRet, nextTransID, keyInProcess, activeTransactions>>
           \/ \E s \in Shards : StartTransaction(s)
           \/ \E s \in Shards : DispatchResponse(s)
           \/ \E s \in Shards : FinishTransaction(s)
           \/ \E id \in Live : TransactionStep(id)
  <1>1. CASE ProcessSSPacket
    BY <1>1 DEF ProcessSSPacket, Submit, Enqueue, EnqueueTimeout, DeadlinePasses,
                ResponseArrives, ResponseLost, shardVars
  <1>2. ASSUME NEW s \in Shards, ShardStep(s)
        PROVE  \/ UNCHANGED <<transMap, chanTransRet, nextTransID, keyInProcess, activeTransactions>>
               \/ StartTransaction(s) \/ DispatchResponse(s) \/ FinishTransaction(s)
    BY <1>2 DEF ShardStep, TakePacket, QueueRequest, RejectRequest, DropResponse, StopShard
  <1>3. CASE Close
    BY <1>3 DEF Close, CloseBegins, CloseSignals, CloseEnds, CloseTimesOut, shardVars
  <1>4. CASE UNCHANGED vars
    BY <1>4 DEF vars, shardVars
  <1> QED BY <1>1, <1>2, <1>3, <1>4 DEF Next

\* A shard's next id is not in use.
LEMMA FreshId ==
    ASSUME TypeOK, IdInv, NEW s \in Shards
    PROVE  nextTransID[s] \notin Live /\ nextTransID[s] \in Nat \ {0}
  <1>1. nextTransID[s] \in Nat \ {0}
    BY DEF TypeOK, IdInv
  <1>2. ASSUME nextTransID[s] \in Live PROVE FALSE
    <2>1. transMap[nextTransID[s]].shard = s
      BY <1>2 DEF IdInv
    <2>2. nextTransID[s] < nextTransID[s]
      BY <1>2, <2>1 DEF IdInv
    <2> QED BY <1>1, <2>2
  <1> QED BY <1>1, <1>2

\* What StartTransaction and FinishTransaction do to transMap.
LEMMA StartEffect ==
    ASSUME TypeOK, IdInv, NEW s \in Shards, StartTransaction(s)
    PROVE  LET id == nextTransID[s]
               r  == inHand[s].req
           IN  /\ r \in Requests
               /\ Live' = Live \cup {id}
               /\ \A i \in Live : i # id /\ transMap'[i] = transMap[i]
               /\ transMap'[id].shard = s /\ transMap'[id].req = r
  <1>1. nextTransID[s] \notin Live
    BY FreshId
  <1> QED BY <1>1, PacketTypes DEF StartTransaction, Live, TypeOK, NewTransaction

LEMMA FinishEffect ==
    ASSUME TypeOK, RetInv, NEW s \in Shards, FinishTransaction(s)
    PROVE  LET id == Head(chanTransRet[s])
               r  == transMap[id].req
           IN  /\ 1 \in DOMAIN chanTransRet[s] /\ chanTransRet[s][1] = id
               /\ id \in Live /\ r \in Requests /\ transMap[id].shard = s
               /\ Live' = Live \ {id}
               /\ \A i \in Live' : transMap'[i] = transMap[i]
  <1> DEFINE id == Head(chanTransRet[s])
  <1>1. 1 \in DOMAIN chanTransRet[s] /\ chanTransRet[s][1] = id
    BY DEF FinishTransaction, TypeOK
  <1>2. id \in Live /\ transMap[id].shard = s
    BY <1>1 DEF RetInv
  <1>3. transMap[id].req \in Requests
    BY <1>2 DEF TypeOK, Transactions
  <1>4. Live' = Live \ {id} /\ \A i \in Live' : transMap'[i] = transMap[i]
    BY DEF FinishTransaction, Live
  <1> QED BY <1>1, <1>2, <1>3, <1>4

LEMMA DispatchEffect ==
    ASSUME TypeOK, NEW s \in Shards, DispatchResponse(s)
    PROVE  /\ Live' = Live
           /\ \A i \in Live : /\ transMap'[i].shard = transMap[i].shard
                              /\ transMap'[i].req = transMap[i].req
                              /\ transMap'[i].st = transMap[i].st
  <1> DEFINE id == inHand[s].dst
             t == [transMap[id] EXCEPT !.chanIn = inHand[s].seq]
  <1>1. id \in Live /\ transMap[id] \in Transactions /\ t \in Transactions
    BY TransactionUpdates DEF DispatchResponse, Owns, Packets, TypeOK
  <1>2. t.shard = transMap[id].shard /\ t.req = transMap[id].req /\ t.st = transMap[id].st
    BY <1>1 DEF Transactions
  <1>3. transMap' = [transMap EXCEPT ![id] = t]
    BY DEF DispatchResponse
  <1> QED BY <1>1, <1>2, <1>3, ReplaceTransaction

LEMMA NextIdInv == ASSUME TypeOK, RetInv, IdInv, [Next]_vars PROVE IdInv'
  <1>1. CASE UNCHANGED <<transMap, chanTransRet, nextTransID, keyInProcess, activeTransactions>>
    BY <1>1 DEF IdInv, Live, ResponseShard
  <1>2. ASSUME NEW s \in Shards, StartTransaction(s) PROVE IdInv'
    <2> DEFINE id == nextTransID[s]
    <2>1. id \in Nat \ {0} /\ id - 1 \in Nat
      BY FreshId
    <2>2. ResponseShard(id + ShardCount) = ResponseShard(id)
      <3>1. (id + ShardCount) - 1 = (id - 1) + ShardCount
        BY <2>1, ConfigAssumption
      <3> QED BY <2>1, <3>1, ModAddDivisor, ConfigAssumption DEF ResponseShard
    <2>3. nextTransID' = [nextTransID EXCEPT ![s] = id + ShardCount]
      BY <1>2 DEF StartTransaction
    <2>4. \A u \in Shards : nextTransID'[u] # 0 /\ ResponseShard(nextTransID'[u]) = u
      BY <2>1, <2>2, <2>3, ConfigAssumption DEF IdInv, TypeOK
    <2>5. \A u \in Shards : nextTransID[u] <= nextTransID'[u]
      BY <2>1, <2>3, ConfigAssumption DEF TypeOK
    <2>6. /\ Live' = Live \cup {id}
          /\ \A i \in Live : i # id /\ transMap'[i] = transMap[i]
          /\ transMap'[id].shard = s
      BY <1>2, StartEffect
    <2>7. ASSUME NEW i \in Live'
          PROVE  i # 0 /\ ResponseShard(i) = transMap'[i].shard /\ i < nextTransID'[transMap'[i].shard]
      <3>1. CASE i = id
        BY <2>1, <2>3, <2>6, <3>1, ConfigAssumption DEF IdInv, TypeOK
      <3>2. CASE i \in Live
        <4>1. transMap'[i] = transMap[i] /\ transMap[i].shard \in Shards /\ i \in Nat
          BY <2>6, <3>2 DEF TypeOK, Transactions
        <4>2. i # 0 /\ ResponseShard(i) = transMap[i].shard /\ i < nextTransID[transMap[i].shard]
          BY <3>2 DEF IdInv
        <4>3. nextTransID[transMap[i].shard] \in Nat /\ nextTransID'[transMap[i].shard] \in Nat
          <5>1. nextTransID \in [Shards -> Nat]
            BY DEF TypeOK
          <5>2. nextTransID' \in [Shards -> Nat]
            BY <2>1, <2>3, <5>1, ConfigAssumption
          <5> QED BY <4>1, <5>1, <5>2
        <4> QED BY <4>1, <4>2, <4>3, <2>5
      <3> QED BY <2>6, <2>7, <3>1, <3>2
    <2> QED BY <2>4, <2>7 DEF IdInv, ResponseShard
  <1>3. ASSUME NEW s \in Shards, DispatchResponse(s) PROVE IdInv'
    BY <1>3, DispatchEffect DEF IdInv, DispatchResponse, ResponseShard
  <1>4. ASSUME NEW s \in Shards, FinishTransaction(s) PROVE IdInv'
    BY <1>4, FinishEffect DEF IdInv, FinishTransaction, ResponseShard
  <1>5. ASSUME NEW id \in Live, TransactionStep(id) PROVE IdInv'
    <2>1. nextTransID' = nextTransID
      BY <1>5 DEF TransactionStep, Call, CallFails, WaitRsp, WaitTimeout, HandlerReturns, shardVars
    <2> QED BY <1>5, <2>1, TransactionStepEffect DEF IdInv, ResponseShard
  <1> QED BY <1>1, <1>2, <1>3, <1>4, <1>5, TransMapSteps

LEMMA NextRetInv == ASSUME TypeOK, RetInv, IdInv, [Next]_vars PROVE RetInv'
  <1>1. CASE UNCHANGED <<transMap, chanTransRet, nextTransID, keyInProcess, activeTransactions>>
    BY <1>1 DEF RetInv, Live
  <1>2. ASSUME NEW s \in Shards, StartTransaction(s) PROVE RetInv'
    <2>1. chanTransRet' = chanTransRet
      BY <1>2 DEF StartTransaction
    <2> QED BY <1>2, <2>1, StartEffect DEF RetInv
  <1>3. ASSUME NEW s \in Shards, DispatchResponse(s) PROVE RetInv'
    <2>1. chanTransRet' = chanTransRet
      BY <1>3 DEF DispatchResponse
    <2>2. /\ Live' = Live
          /\ \A i \in Live : transMap'[i].shard = transMap[i].shard /\ transMap'[i].st = transMap[i].st
      BY <1>3, DispatchEffect
    <2> QED BY <2>1, <2>2 DEF RetInv
  <1>4. ASSUME NEW s \in Shards, FinishTransaction(s) PROVE RetInv'
    <2> DEFINE id == Head(chanTransRet[s])
    <2>1. /\ chanTransRet' = [chanTransRet EXCEPT ![s] = Tail(@)]
          /\ chanTransRet[s] \in Seq(Nat) /\ chanTransRet[s] # <<>>
      BY <1>4 DEF FinishTransaction, TypeOK
    <2>2. \A i \in DOMAIN Tail(chanTransRet[s]) :
              i + 1 \in DOMAIN chanTransRet[s] /\ Tail(chanTransRet[s])[i] = chanTransRet[s][i + 1]
                  /\ i \in Nat /\ i # 0
      BY <2>1
    <2>3. ASSUME NEW u \in Shards, NEW i \in DOMAIN chanTransRet'[u]
          PROVE  LET x == chanTransRet'[u][i]
                 IN  /\ x \in Live' /\ transMap'[x].shard = u /\ transMap'[x].st = "returned"
                     /\ \A j \in DOMAIN chanTransRet'[u] : chanTransRet'[u][j] = x => i = j
      <3>1. CASE u = s
        <4>1. chanTransRet'[u] = Tail(chanTransRet[s])
          BY <2>1, <3>1 DEF TypeOK
        <4>2. chanTransRet'[u][i] # id
          BY <1>4, <2>2, <2>3, <4>1, FinishEffect DEF RetInv
        <4>3. \A j \in DOMAIN chanTransRet'[u] : chanTransRet'[u][j] = chanTransRet'[u][i] => i = j
          BY <2>2, <2>3, <4>1 DEF RetInv
        <4> QED BY <1>4, <2>2, <2>3, <3>1, <4>1, <4>2, <4>3, FinishEffect DEF RetInv
      <3>2. CASE u # s
        <4>1. chanTransRet'[u] = chanTransRet[u]
          BY <2>1, <3>2 DEF TypeOK
        <4> QED BY <1>4, <2>3, <3>2, <4>1, FinishEffect DEF RetInv
      <3> QED BY <3>1, <3>2
    <2> QED BY <2>3 DEF RetInv
  <1>5. ASSUME NEW id \in Live, TransactionStep(id) PROVE RetInv'
    <2>1. \A u \in Shards : \A i \in DOMAIN chanTransRet[u] : chanTransRet[u][i] # id
      BY <1>5, TransactionStepEffect DEF RetInv
    <2>2. CASE HandlerReturns(id)
      <3> DEFINE s == transMap[id].shard
      <3>1. /\ s \in Shards /\ id \in Nat
            /\ chanTransRet' = [chanTransRet EXCEPT ![s] = Append(@, id)]
            /\ chanTransRet[s] \in Seq(Nat)
        BY <2>2 DEF HandlerReturns, TypeOK, Transactions
      <3>2. transMap'[id].st = "returned"
        <4>1. transMap[id] \in Transactions
          BY DEF TypeOK
        <4> QED BY <2>2, <4>1 DEF HandlerReturns, TypeOK, Transactions
      <3>3. ASSUME NEW u \in Shards, NEW i \in DOMAIN chanTransRet'[u]
            PROVE  LET x == chanTransRet'[u][i]
                   IN  /\ x \in Live' /\ transMap'[x].shard = u /\ transMap'[x].st = "returned"
                       /\ \A j \in DOMAIN chanTransRet'[u] : chanTransRet'[u][j] = x => i = j
        <4>1. CASE u = s
          <5>1. chanTransRet'[u] = Append(chanTransRet[s], id)
            BY <3>1, <4>1 DEF TypeOK
          <5>2. /\ DOMAIN chanTransRet'[u] = DOMAIN chanTransRet[s] \cup {Len(chanTransRet[s]) + 1}
                /\ \A j \in DOMAIN chanTransRet[s] : chanTransRet'[u][j] = chanTransRet[s][j]
                /\ chanTransRet'[u][Len(chanTransRet[s]) + 1] = id
            <6> DEFINE q == chanTransRet[s]
            <6>1. q \in Seq(Nat) /\ id \in Nat
              BY <3>1
            <6> HIDE DEF q
            <6>2. /\ DOMAIN Append(q, id) = DOMAIN q \cup {Len(q) + 1}
                  /\ \A j \in DOMAIN q : Append(q, id)[j] = q[j]
                  /\ Append(q, id)[Len(q) + 1] = id
              BY <6>1
            <6> QED BY <5>1, <6>2 DEF q
          <5>3. /\ id \in Live' /\ transMap'[id].shard = u
                /\ \A j \in DOMAIN chanTransRet[s] :
                       LET x == chanTransRet[s][j]
                       IN  x \in Live' /\ transMap'[x].shard = u /\ transMap'[x].st = "returned"
            <6>1. /\ Live' = Live /\ transMap'[id].shard = s
                  /\ \A k \in Live : k # id => transMap'[k] = transMap[k]
              BY <1>5, TransactionStepEffect
            <6>2. \A j \in DOMAIN chanTransRet[s] :
                       LET x == chanTransRet[s][j]
                       IN  x \in Live /\ x # id /\ transMap[x].shard = s /\ transMap[x].st = "returned"
              BY <2>1, <3>1 DEF RetInv
            <6> QED BY <4>1, <6>1, <6>2
          <5>4. \A j, m \in DOMAIN chanTransRet[s] : chanTransRet[s][j] = chanTransRet[s][m] => j = m
            BY <3>1 DEF RetInv
          <5>5. \A j \in DOMAIN chanTransRet[s] : chanTransRet[s][j] # id
            BY <2>1, <3>1
          <5> QED BY <3>2, <3>3, <5>2, <5>3, <5>4, <5>5
        <4>2. CASE u # s
          <5>1. chanTransRet'[u] = chanTransRet[u]
            BY <3>1, <4>2 DEF TypeOK
          <5> QED BY <1>5, <2>1, <3>3, <5>1, TransactionStepEffect DEF RetInv
        <4> QED BY <4>1, <4>2
      <3> QED BY <3>3 DEF RetInv
    <2>3. CASE ~HandlerReturns(id)
      <3>1. chanTransRet' = chanTransRet
        BY <1>5, <2>3 DEF TransactionStep, Call, CallFails, WaitRsp, WaitTimeout
      <3> QED BY <1>5, <2>1, <3>1, TransactionStepEffect DEF RetInv
    <2> QED BY <2>2, <2>3
  <1> QED BY <1>1, <1>2, <1>3, <1>4, <1>5, TransMapSteps

-----------------------------------------------------------------------------
(* Frame lemmas: what keeps a part of the invariant when a step leaves its   *)
(* own variable alone.  Kept(st) says that requests with status st keep it.  *)

Kept(st) == \A q \in Requests : status[q] = st => status'[q] = st /\ target'[q] = target[q]

BelongsNext(p, s, st) ==
    /\ IsRequest(p) => p = Request(p.req) /\ status'[p.req] = st /\ target'[p.req] = s
    /\ IsResponse(p) => ResponseShard(p.dst) = s

LEMMA FrameTarget ==
    ASSUME TypeOK, TargetInv, target' = target, net' \subseteq net,
           \A q \in Requests : status'[q] \notin {"new", "rejected_shutdown"} =>
                                   status[q] \notin {"new", "rejected_shutdown"}
    PROVE  TargetInv'
  BY DEF TargetInv

LEMMA FrameChan ==
    ASSUME TypeOK, ChanInv, chanInPacket' = chanInPacket, Kept("queued")
    PROVE  ChanInv'
  <1> SUFFICES ASSUME NEW s \in Shards, NEW i \in DOMAIN chanInPacket[s]
               PROVE  /\ BelongsTo(chanInPacket[s][i], s, "queued")'
                      /\ \A j \in DOMAIN chanInPacket[s] :
                            (IsRequest(chanInPacket[s][i]) /\ chanInPacket[s][i].req = chanInPacket[s][j].req)
                                => i = j
    BY DEF ChanInv
  <1>1. chanInPacket[s][i] \in Packets
    BY DEF TypeOK
  <1> QED BY <1>1, PacketTypes DEF ChanInv, BelongsTo, Kept

LEMMA FrameHand ==
    ASSUME TypeOK, HandInv, inHand' = inHand, Kept("inhand")
    PROVE  HandInv'
  <1> SUFFICES ASSUME NEW s \in Shards PROVE BelongsTo(inHand[s], s, "inhand")'
    BY DEF HandInv
  <1>1. inHand[s] \in Packets
    BY DEF TypeOK
  <1> QED BY <1>1, PacketTypes DEF HandInv, BelongsTo, Kept

LEMMA FramePend ==
    ASSUME TypeOK, PendInv, pendingPackets' = pendingPackets, Kept("pending")
    PROVE  PendInv'
  <1> SUFFICES ASSUME NEW s \in Shards, NEW k \in Keys, NEW i \in DOMAIN pendingPackets[s][k]
               PROVE  LET r == pendingPackets[s][k][i]
                      IN  /\ status'[r] = "pending" /\ target'[r] = s /\ SerialKey(r) = k
                          /\ \A j \in DOMAIN pendingPackets[s][k] : pendingPackets[s][k][j] = r => i = j
    BY DEF PendInv
  <1>1. pendingPackets[s][k][i] \in Requests
    BY DEF TypeOK
  <1> QED BY <1>1 DEF PendInv, Kept

LiveInv == TransInv /\ OneTransactionPerKey /\ OwnRequest

LEMMA FrameLive ==
    ASSUME TypeOK, LiveInv, Live' = Live, keyInProcess' = keyInProcess, Kept("started"),
           \A i \in Live : transMap'[i].shard = transMap[i].shard /\ transMap'[i].req = transMap[i].req
    PROVE  LiveInv'
  <1>1. \A i \in Live : transMap[i].req \in Requests
    BY DEF TypeOK, Transactions
  <1>2. TransInv'
    BY <1>1 DEF LiveInv, TransInv, Kept
  <1>3. OneTransactionPerKey'
    BY DEF LiveInv, OneTransactionPerKey
  <1>4. OwnRequest'
    BY <1>1 DEF LiveInv, OwnRequest, Kept
  <1> QED BY <1>2, <1>3, <1>4 DEF LiveInv

LEMMA FrameLiveSame ==
    ASSUME TypeOK, LiveInv, UNCHANGED <<transMap, keyInProcess>>, Kept("started")
    PROVE  LiveInv'
  BY FrameLive DEF Live

PlaceInv == TargetInv /\ ChanInv /\ HandInv /\ PendInv /\ LiveInv

\* What PendInv says of one place in a queue.
LEMMA PendingPlace ==
    ASSUME PendInv, NEW s \in Shards, NEW k \in Keys, NEW i \in DOMAIN pendingPackets[s][k]
    PROVE  LET q == pendingPackets[s][k][i]
           IN  /\ status[q] = "pending" /\ target[q] = s /\ SerialKey(q) = k
               /\ \A j \in DOMAIN pendingPackets[s][k] : pendingPackets[s][k][j] = q => i = j
  BY DEF PendInv

\* The requests of a channel that grows by one packet at its end.
LEMMA AppendChan ==
    ASSUME TypeOK, NEW s \in Shards, NEW p \in Packets,
           chanInPacket' = [chanInPacket EXCEPT ![s] = Append(@, p)]
    PROVE  /\ \A u \in Shards : u # s => chanInPacket'[u] = chanInPacket[u]
           /\ DOMAIN chanInPacket'[s] = DOMAIN chanInPacket[s] \cup {Len(chanInPacket[s]) + 1}
           /\ \A i \in DOMAIN chanInPacket[s] : chanInPacket'[s][i] = chanInPacket[s][i]
           /\ chanInPacket'[s][Len(chanInPacket[s]) + 1] = p
  <1>1. chanInPacket[s] \in Seq(Packets) /\ chanInPacket'[s] = Append(chanInPacket[s], p)
    BY DEF TypeOK
  <1>2. \A u \in Shards : u # s => chanInPacket'[u] = chanInPacket[u]
    BY DEF TypeOK
  <1> QED BY <1>1, <1>2

LEMMA ChanInvAppend ==
    ASSUME TypeOK, ChanInv, NEW s \in Shards, NEW p \in Packets,
           chanInPacket' = [chanInPacket EXCEPT ![s] = Append(@, p)],
           Kept("queued"),
           BelongsNext(p, s, "queued"),
           IsRequest(p) => status[p.req] # "queued"
    PROVE  ChanInv'
  <1> DEFINE n == Len(chanInPacket[s]) + 1
  <1>1. \A u \in Shards : \A i \in DOMAIN chanInPacket[u] :
            /\ chanInPacket[u][i] \in Packets
            /\ BelongsTo(chanInPacket[u][i], u, "queued")
            /\ BelongsNext(chanInPacket[u][i], u, "queued")
            /\ (IsRequest(p) \/ IsRequest(chanInPacket[u][i])) => chanInPacket[u][i].req # p.req
    <2> TAKE u \in Shards
    <2> TAKE i \in DOMAIN chanInPacket[u]
    <2>1. chanInPacket[u][i] \in Packets /\ BelongsTo(chanInPacket[u][i], u, "queued")
      BY DEF TypeOK, ChanInv
    <2>2. BelongsNext(chanInPacket[u][i], u, "queued")
      BY <2>1, PacketTypes DEF BelongsTo, BelongsNext, Kept
    <2>3. (IsRequest(p) \/ IsRequest(chanInPacket[u][i])) => chanInPacket[u][i].req # p.req
      BY <2>1 DEF BelongsTo, IsRequest
    <2> QED BY <2>1, <2>2, <2>3
  <1>2. ASSUME NEW u \in Shards, NEW i \in DOMAIN chanInPacket'[u]
        PROVE  /\ BelongsNext(chanInPacket'[u][i], u, "queued")
               /\ \A j \in DOMAIN chanInPacket'[u] :
                     (IsRequest(chanInPacket'[u][i]) /\ chanInPacket'[u][i].req = chanInPacket'[u][j].req)
                         => i = j
    <2>1. CASE u # s
      <3>1. chanInPacket'[u] = chanInPacket[u]
        BY <2>1, AppendChan
      <3> QED BY <1>1, <1>2, <3>1 DEF ChanInv
    <2>2. CASE u = s
      <3>1. /\ DOMAIN chanInPacket'[s] = DOMAIN chanInPacket[s] \cup {n}
            /\ \A j \in DOMAIN chanInPacket[s] : chanInPacket'[s][j] = chanInPacket[s][j]
            /\ chanInPacket'[s][n] = p
        BY AppendChan
      <3>2. BelongsNext(chanInPacket'[u][i], u, "queued")
        BY <1>1, <1>2, <2>2, <3>1
      <3>3. ASSUME NEW j \in DOMAIN chanInPacket'[u], IsRequest(chanInPacket'[u][i]),
                   chanInPacket'[u][i].req = chanInPacket'[u][j].req
            PROVE  i = j
        <4>1. CASE i = n /\ j = n
          BY <4>1
        <4>2. CASE i \in DOMAIN chanInPacket[s] /\ j \in DOMAIN chanInPacket[s]
          BY <2>2, <3>1, <3>3, <4>2 DEF ChanInv
        <4>3. CASE i = n /\ j \in DOMAIN chanInPacket[s]
          BY <1>1, <2>2, <3>1, <3>3, <4>3
        <4>4. CASE j = n /\ i \in DOMAIN chanInPacket[s]
          BY <1>1, <2>2, <3>1, <3>3, <4>4
        <4> QED BY <1>2, <2>2, <3>1, <3>3, <4>1, <4>2, <4>3, <4>4
      <3> QED BY <3>2, <3>3
    <2> QED BY <2>1, <2>2
  <1> QED BY <1>2 DEF ChanInv, BelongsTo, BelongsNext

\* One shard's hand changes.
LEMMA SetHand ==
    ASSUME TypeOK, HandInv, NEW s \in Shards, NEW p \in Packets,
           inHand' = [inHand EXCEPT ![s] = p], BelongsNext(p, s, "inhand"),
           \A q \in Requests : (status[q] = "inhand" /\ target[q] # s) =>
                                   status'[q] = "inhand" /\ target'[q] = target[q]
    PROVE  HandInv'
  <1> SUFFICES ASSUME NEW u \in Shards PROVE BelongsNext(inHand'[u], u, "inhand")
    BY DEF HandInv, BelongsTo, BelongsNext
  <1>1. CASE u = s
    BY <1>1 DEF TypeOK
  <1>2. CASE u # s
    <2>1. inHand'[u] = inHand[u] /\ inHand[u] \in Packets /\ BelongsTo(inHand[u], u, "inhand")
      BY <1>2 DEF TypeOK, HandInv
    <2> QED BY <1>2, <2>1, PacketTypes DEF BelongsTo, BelongsNext
  <1> QED BY <1>1, <1>2

LEMMA NoPacketBelongs == ASSUME NEW s \in Shards PROVE BelongsNext(NoPacket, s, "inhand")
  BY PacketTypes DEF BelongsNext

-----------------------------------------------------------------------------
(* The steps of ProcessSSPacket, and those that leave the requests alone.    *)

LEMMA SubmitPlace == ASSUME TypeOK, PlaceInv, NEW r \in Requests, Submit(r) PROVE PlaceInv'
  <1>1. Kept("queued") /\ Kept("inhand") /\ Kept("pending") /\ Kept("started")
    BY DEF Submit, TypeOK, Kept
  <1>2. TargetInv'
    <2>1. \A q \in Requests : q # r => status'[q] = status[q] /\ target'[q] = target[q]
      BY DEF Submit, TypeOK
    <2>2. status'[r] \notin {"new", "rejected_shutdown"} => target'[r] = SelectShard(r)
      BY DEF Submit, TypeOK
    <2>3. net' = net
      BY DEF Submit
    <2> QED BY <2>1, <2>2, <2>3 DEF PlaceInv, TargetInv, SelectShard
  <1>3. UNCHANGED <<chanInPacket, inHand, pendingPackets, transMap, keyInProcess>>
    BY DEF Submit, shardVars
  <1> QED BY <1>1, <1>2, <1>3, FrameChan, FrameHand, FramePend, FrameLiveSame DEF PlaceInv

LEMMA EnqueuePlace == ASSUME TypeOK, PlaceInv, NEW r \in Requests, Enqueue(r) PROVE PlaceInv'
  <1>1. /\ status[r] = "admitted" /\ target' = target /\ net' = net
        /\ status' = [status EXCEPT ![r] = "queued"]
        /\ UNCHANGED <<inHand, pendingPackets, transMap, keyInProcess>>
    BY DEF Enqueue, shardVars
  <1>2. Kept("queued") /\ Kept("inhand") /\ Kept("pending") /\ Kept("started")
    BY <1>1 DEF TypeOK, Kept
  <1>3. ChanInv'
    <2>1. target[r] \in Shards /\ Request(r) \in Packets
      BY PacketTypes DEF TypeOK
    <2>2. BelongsNext(Request(r), target[r], "queued")
      BY <1>1, PacketTypes DEF BelongsNext, TypeOK, Request
    <2>3. status[Request(r).req] # "queued"
      BY <1>1 DEF Request
    <2> QED BY <1>2, <2>1, <2>2, <2>3, ChanInvAppend DEF PlaceInv, Enqueue
  <1>4. TargetInv'
    BY <1>1, FrameTarget DEF PlaceInv, TypeOK
  <1> QED BY <1>1, <1>2, <1>3, <1>4, FrameHand, FramePend, FrameLiveSame DEF PlaceInv

LEMMA EnqueueTimeoutPlace ==
    ASSUME TypeOK, PlaceInv, NEW r \in Requests, EnqueueTimeout(r) PROVE PlaceInv'
  <1>1. /\ status[r] = "admitted" /\ target' = target /\ net' = net
        /\ status' = [status EXCEPT ![r] = "dropped_queue_full"]
        /\ UNCHANGED <<chanInPacket, inHand, pendingPackets, transMap, keyInProcess>>
    BY DEF EnqueueTimeout, shardVars
  <1>2. Kept("queued") /\ Kept("inhand") /\ Kept("pending") /\ Kept("started")
    BY <1>1 DEF TypeOK, Kept
  <1>3. TargetInv'
    BY <1>1, FrameTarget DEF PlaceInv, TypeOK
  <1> QED BY <1>1, <1>2, <1>3, FrameChan, FrameHand, FramePend, FrameLiveSame DEF PlaceInv

LEMMA ResponseArrivesPlace ==
    ASSUME TypeOK, PlaceInv, NEW n \in net, ResponseArrives(n[1], n[2]) PROVE PlaceInv'
  <1>1. /\ status' = status /\ target' = target /\ net' \subseteq net
        /\ UNCHANGED <<inHand, pendingPackets, transMap, keyInProcess>>
    BY DEF ResponseArrives, shardVars
  <1>2. Kept("queued") /\ Kept("inhand") /\ Kept("pending") /\ Kept("started")
    BY <1>1 DEF Kept
  <1>3. ChanInv'
    <2> DEFINE p == Response(n[1], n[2])
    <2>1. p \in Packets /\ ~IsRequest(p) /\ ResponseShard(n[1]) \in Shards
      BY PacketTypes, ShardsType DEF TypeOK, ResponseShard
    <2>2. BelongsNext(p, ResponseShard(n[1]), "queued")
      BY <2>1 DEF BelongsNext, Response
    <2> QED BY <1>2, <2>1, <2>2, ChanInvAppend DEF PlaceInv, ResponseArrives
  <1>4. TargetInv'
    BY <1>1, FrameTarget DEF PlaceInv
  <1> QED BY <1>1, <1>2, <1>3, <1>4, FrameHand, FramePend, FrameLiveSame DEF PlaceInv

\* Nothing that PlaceInv mentions changes, except that responses may be lost.
LEMMA QuietPlace ==
    ASSUME TypeOK, PlaceInv, net' \subseteq net,
           UNCHANGED <<status, target, chanInPacket, inHand, pendingPackets, transMap, keyInProcess>>
    PROVE  PlaceInv'
  <1>1. Kept("queued") /\ Kept("inhand") /\ Kept("pending") /\ Kept("started")
    BY DEF Kept
  <1>2. TargetInv'
    BY FrameTarget DEF PlaceInv
  <1> QED BY <1>1, <1>2, FrameChan, FrameHand, FramePend, FrameLiveSame DEF PlaceInv

LEMMA TransactionStepPlace ==
    ASSUME TypeOK, IdInv, PlaceInv, NEW id \in Live, TransactionStep(id) PROVE PlaceInv'
  <1>1. UNCHANGED <<status, target, chanInPacket, inHand, pendingPackets, keyInProcess>>
    BY DEF TransactionStep, Call, CallFails, WaitRsp, WaitTimeout, HandlerReturns, shardVars
  <1>2. Kept("queued") /\ Kept("inhand") /\ Kept("pending") /\ Kept("started")
    BY <1>1 DEF Kept
  <1>3. TargetInv'
    <2>1. \A n \in net' : n[1] # 0
      <3>1. id # 0 /\ \A n \in net : n[1] # 0
        BY DEF IdInv, PlaceInv, TargetInv
      <3>2. net' = net \/ net' = net \cup {<<id, transMap[id].sendSeq + 1>>}
        <4>1. CASE Call(id)
          BY <4>1 DEF Call
        <4>2. CASE ~Call(id)
          BY <4>2 DEF TransactionStep, CallFails, WaitRsp, WaitTimeout, HandlerReturns
        <4> QED BY <4>1, <4>2
      <3> QED BY <3>1, <3>2
    <2> QED BY <1>1, <2>1 DEF PlaceInv, TargetInv
  <1>4. LiveInv'
    BY <1>1, <1>2, TransactionStepEffect, FrameLive DEF PlaceInv
  <1> QED BY <1>1, <1>2, <1>3, <1>4, FrameChan, FrameHand, FramePend DEF PlaceInv

-----------------------------------------------------------------------------
(* The steps of a shard. *)

LEMMA TakePacketPlace == ASSUME TypeOK, PlaceInv, NEW s \in Shards, TakePacket(s) PROVE PlaceInv'
  <1> DEFINE p == Head(chanInPacket[s])
  <1>1. /\ target' = target /\ net' = net
        /\ inHand' = [inHand EXCEPT ![s] = p]
        /\ chanInPacket' = [chanInPacket EXCEPT ![s] = Tail(@)]
        /\ status' = IF IsRequest(p) THEN [status EXCEPT ![p.req] = "inhand"] ELSE status
        /\ UNCHANGED <<pendingPackets, transMap, keyInProcess>>
    BY DEF TakePacket
  <1>2. /\ chanInPacket[s] \in Seq(Packets) /\ chanInPacket[s] # <<>>
        /\ p \in Packets /\ 1 \in DOMAIN chanInPacket[s] /\ p = chanInPacket[s][1]
    BY DEF TakePacket, TypeOK
  <1>3. BelongsTo(p, s, "queued")
    BY <1>2 DEF PlaceInv, ChanInv
  <1>4. IsRequest(p) => p.req \in Requests /\ status[p.req] = "queued" /\ target[p.req] = s
    BY <1>2, <1>3, PacketTypes DEF BelongsTo
  <1>5. \A q \in Requests : ~(IsRequest(p) /\ q = p.req) => status'[q] = status[q]
    BY <1>1, <1>4 DEF TypeOK
  <1>6. Kept("inhand") /\ Kept("pending") /\ Kept("started")
    BY <1>1, <1>4, <1>5 DEF Kept
  <1>7. TargetInv'
    BY <1>1, <1>4, <1>5, FrameTarget DEF PlaceInv
  <1>8. HandInv'
    <2>1. BelongsNext(p, s, "inhand")
      BY <1>1, <1>3, <1>4 DEF BelongsTo, BelongsNext, TypeOK
    <2> QED BY <1>1, <1>2, <1>6, <2>1, SetHand DEF PlaceInv, Kept
  <1>9. ChanInv'
    <2>1. ASSUME NEW u \in Shards, NEW i \in DOMAIN chanInPacket'[u]
          PROVE  /\ BelongsNext(chanInPacket'[u][i], u, "queued")
                 /\ \A j \in DOMAIN chanInPacket'[u] :
                       (IsRequest(chanInPacket'[u][i]) /\ chanInPacket'[u][i].req = chanInPacket'[u][j].req)
                           => i = j
      <3>1. CASE u # s
        <4>1. chanInPacket'[u] = chanInPacket[u] /\ chanInPacket[u][i] \in Packets
          BY <1>1, <2>1, <3>1 DEF TypeOK
        <4>2. BelongsTo(chanInPacket[u][i], u, "queued")
          BY <2>1, <4>1 DEF PlaceInv, ChanInv
        <4>3. BelongsNext(chanInPacket'[u][i], u, "queued")
          BY <1>1, <1>4, <1>5, <3>1, <4>1, <4>2, PacketTypes DEF BelongsTo, BelongsNext
        <4> QED BY <2>1, <4>1, <4>3 DEF PlaceInv, ChanInv
      <3>2. CASE u = s
        <4>1. chanInPacket'[u] = Tail(chanInPacket[s])
          BY <1>1, <3>2 DEF TypeOK
        <4>2. \A j \in DOMAIN chanInPacket'[u] :
                  /\ j \in Nat /\ j # 0 /\ j + 1 \in DOMAIN chanInPacket[s]
                  /\ chanInPacket'[u][j] = chanInPacket[s][j + 1]
          BY <1>2, <4>1
        <4>3. /\ chanInPacket[s][i + 1] \in Packets
              /\ BelongsTo(chanInPacket[s][i + 1], s, "queued")
          BY <2>1, <4>2 DEF PlaceInv, ChanInv, TypeOK
        <4>4. (IsRequest(p) /\ p.req = chanInPacket[s][i + 1].req) => 1 = i + 1
          BY <1>2, <2>1, <4>2 DEF PlaceInv, ChanInv
        <4>5. BelongsNext(chanInPacket'[u][i], u, "queued")
          BY <1>1, <1>5, <2>1, <3>2, <4>2, <4>3, <4>4, PacketTypes DEF BelongsTo, BelongsNext
        <4>6. ASSUME NEW j \in DOMAIN chanInPacket'[u], IsRequest(chanInPacket'[u][i]),
                     chanInPacket'[u][i].req = chanInPacket'[u][j].req
              PROVE  i = j
          <5>1. i + 1 = j + 1
            BY <2>1, <4>2, <4>6 DEF PlaceInv, ChanInv
          <5> QED BY <2>1, <4>2, <5>1
        <4> QED BY <4>5, <4>6
      <3> QED BY <3>1, <3>2
    <2> QED BY <2>1 DEF ChanInv, BelongsTo, BelongsNext
  <1> QED BY <1>1, <1>6, <1>7, <1>8, <1>9, FramePend, FrameLiveSame DEF PlaceInv

\* The request in a shard's hand leaves it for status st.
LEMMA LeaveHand ==
    ASSUME TypeOK, PlaceInv, NEW s \in Shards, IsRequest(inHand[s]), NEW st,
           st \notin {"new", "rejected_shutdown"},
           status' = [status EXCEPT ![inHand[s].req] = st],
           inHand' = [inHand EXCEPT ![s] = NoPacket],
           UNCHANGED <<target, net, chanInPacket>>
    PROVE  /\ inHand[s].req \in Requests
           /\ status[inHand[s].req] = "inhand" /\ target[inHand[s].req] = s
           /\ status'[inHand[s].req] = st
           /\ Kept("queued") /\ Kept("pending") /\ Kept("started")
           /\ TargetInv' /\ ChanInv' /\ HandInv'
  <1> DEFINE r == inHand[s].req
  <1>1. r \in Requests /\ status[r] = "inhand" /\ target[r] = s
    BY PacketTypes DEF TypeOK, PlaceInv, HandInv, BelongsTo
  <1>2. status'[r] = st /\ \A q \in Requests : q # r => status'[q] = status[q]
    BY <1>1 DEF TypeOK
  <1>3. Kept("queued") /\ Kept("pending") /\ Kept("started")
    BY <1>1, <1>2 DEF Kept
  <1>4. TargetInv'
    BY <1>1, <1>2, FrameTarget DEF PlaceInv
  <1>5. HandInv'
    BY <1>1, <1>2, NoPacketBelongs, PacketTypes, SetHand DEF PlaceInv
  <1> QED BY <1>1, <1>2, <1>3, <1>4, <1>5, FrameChan DEF PlaceInv

LEMMA RejectPlace == ASSUME TypeOK, PlaceInv, NEW s \in Shards, RejectRequest(s) PROVE PlaceInv'
  <1>1. \E st : /\ st \notin {"new", "rejected_shutdown"}
                /\ status' = [status EXCEPT ![inHand[s].req] = st]
    <2>1. Rejection(s, inHand[s].req) \notin {"new", "rejected_shutdown"}
      BY DEF Rejection
    <2> QED BY <2>1 DEF RejectRequest
  <1>2. /\ IsRequest(inHand[s]) /\ inHand' = [inHand EXCEPT ![s] = NoPacket]
        /\ UNCHANGED <<target, net, chanInPacket, pendingPackets, transMap, keyInProcess>>
    BY DEF RejectRequest
  <1> QED BY <1>1, <1>2, LeaveHand, FramePend, FrameLiveSame DEF PlaceInv

LEMMA QueuePlace == ASSUME TypeOK, PlaceInv, NEW s \in Shards, QueueRequest(s) PROVE PlaceInv'
  <1> DEFINE r == inHand[s].req
             k == SerialKey(r)
             n == Len(pendingPackets[s][k]) + 1
  <1>1. /\ IsRequest(inHand[s]) /\ inHand' = [inHand EXCEPT ![s] = NoPacket]
        /\ status' = [status EXCEPT ![r] = "pending"]
        /\ pendingPackets' = [pendingPackets EXCEPT ![s][k] = Append(@, r)]
        /\ MustWait(s, r)
        /\ UNCHANGED <<target, net, chanInPacket, transMap, keyInProcess>>
    BY DEF QueueRequest, MayQueue
  <1>2. /\ r \in Requests /\ status[r] = "inhand" /\ target[r] = s /\ status'[r] = "pending"
        /\ Kept("pending") /\ Kept("started")
        /\ TargetInv' /\ ChanInv' /\ HandInv'
    <2>1. "pending" \notin {"new", "rejected_shutdown"}
      OBVIOUS
    <2> QED BY <1>1, <2>1, LeaveHand
  <1>3. k \in Keys
    BY <1>1, <1>2, KeysType DEF MustWait
  <1>4. \A u \in Shards, m \in Keys : ~(u = s /\ m = k) => pendingPackets'[u][m] = pendingPackets[u][m]
    BY <1>1 DEF TypeOK
  <1>5. /\ DOMAIN pendingPackets'[s][k] = DOMAIN pendingPackets[s][k] \cup {n}
        /\ \A i \in DOMAIN pendingPackets[s][k] : pendingPackets'[s][k][i] = pendingPackets[s][k][i]
        /\ pendingPackets'[s][k][n] = r
    <2>1. pendingPackets[s][k] \in Seq(Requests) /\ pendingPackets'[s][k] = Append(pendingPackets[s][k], r)
      BY <1>1, <1>3 DEF TypeOK
    <2> DEFINE q == pendingPackets[s][k]
    <2>2. q \in Seq(Requests) /\ r \in Requests
      BY <1>2, <2>1
    <2> HIDE DEF q, r
    <2>3. /\ DOMAIN Append(q, r) = DOMAIN q \cup {Len(q) + 1}
          /\ \A i \in DOMAIN q : Append(q, r)[i] = q[i]
          /\ Append(q, r)[Len(q) + 1] = r
      BY <2>2
    <2> QED BY <2>1, <2>3 DEF q
  <1>6. ASSUME NEW u \in Shards, NEW m \in Keys, NEW i \in DOMAIN pendingPackets[u][m]
        PROVE  LET q == pendingPackets[u][m][i]
               IN  /\ q # r /\ status'[q] = "pending" /\ target'[q] = u /\ SerialKey(q) = m
                   /\ \A j \in DOMAIN pendingPackets[u][m] : pendingPackets[u][m][j] = q => i = j
    <2>1. pendingPackets[u][m][i] \in Requests
      BY <1>6 DEF TypeOK
    <2> QED BY <1>1, <1>2, <1>6, <2>1 DEF PlaceInv, PendInv, Kept
  <1>7. PendInv'
    <2> SUFFICES ASSUME NEW u \in Shards, NEW m \in Keys, NEW i \in DOMAIN pendingPackets'[u][m]
                 PROVE  LET q == pendingPackets'[u][m][i]
                        IN  /\ status'[q] = "pending" /\ target'[q] = u /\ SerialKey(q) = m
                            /\ \A j \in DOMAIN pendingPackets'[u][m] : pendingPackets'[u][m][j] = q => i = j
      BY DEF PendInv
    <2>1. CASE u = s /\ m = k
      <3>1. \A j \in DOMAIN pendingPackets[s][k] : pendingPackets[s][k][j] # r
        BY <1>3, <1>6
      <3>2. CASE i = n
        <4>1. pendingPackets'[u][m][i] = r
          BY <1>5, <2>1, <3>2
        <4>2. \A j \in DOMAIN pendingPackets'[u][m] : pendingPackets'[u][m][j] = r => i = j
          BY <1>5, <2>1, <3>1, <3>2
        <4>3. status'[r] = "pending" /\ target'[r] = u /\ SerialKey(r) = m
          BY <1>1, <1>2, <2>1
        <4> QED BY <4>1, <4>2, <4>3
      <3>3. CASE i \in DOMAIN pendingPackets[s][k]
        <4> DEFINE q == pendingPackets[s][k][i]
        <4>1. pendingPackets'[u][m][i] = q
          BY <1>5, <2>1, <3>3
        <4>2. /\ q # r /\ status'[q] = "pending" /\ target'[q] = s /\ SerialKey(q) = k
              /\ \A j \in DOMAIN pendingPackets[s][k] : pendingPackets[s][k][j] = q => i = j
          BY <1>3, <1>6, <3>3
        <4>3. \A j \in DOMAIN pendingPackets'[u][m] : pendingPackets'[u][m][j] = q => i = j
          BY <1>5, <2>1, <4>2
        <4> QED BY <2>1, <4>1, <4>2, <4>3
      <3> QED BY <1>5, <2>1, <3>2, <3>3
    <2>2. CASE ~(u = s /\ m = k)
      BY <1>4, <1>6, <2>2
    <2> QED BY <2>1, <2>2
  <1> QED BY <1>1, <1>2, <1>7, FrameLiveSame DEF PlaceInv

LEMMA StartPlace ==
    ASSUME TypeOK, IdInv, PlaceInv, NEW s \in Shards, StartTransaction(s) PROVE PlaceInv'
  <1> DEFINE r == inHand[s].req
             id == nextTransID[s]
  <1>1. /\ IsRequest(inHand[s]) /\ inHand' = [inHand EXCEPT ![s] = NoPacket]
        /\ status' = [status EXCEPT ![r] = "started"]
        /\ keyInProcess' = IF HasSerialKey(r)
                           THEN [keyInProcess EXCEPT ![s] = @ \cup {SerialKey(r)}]
                           ELSE keyInProcess
        /\ ~MustWait(s, r)
        /\ UNCHANGED <<target, net, chanInPacket, pendingPackets>>
    BY DEF StartTransaction, MayStart
  <1>2. /\ r \in Requests /\ status[r] = "inhand" /\ target[r] = s /\ status'[r] = "started"
        /\ Kept("pending") /\ Kept("started")
        /\ TargetInv' /\ ChanInv' /\ HandInv'
    <2>1. "started" \notin {"new", "rejected_shutdown"}
      OBVIOUS
    <2> QED BY <1>1, <2>1, LeaveHand
  <1>3. /\ Live' = Live \cup {id}
        /\ \A i \in Live : i # id /\ transMap'[i] = transMap[i]
        /\ transMap'[id].shard = s /\ transMap'[id].req = r
    BY StartEffect
  <1>4. \A i \in Live :
            /\ transMap[i].req \in Requests /\ transMap[i].shard \in Shards
            /\ status[transMap[i].req] = "started" /\ target[transMap[i].req] = transMap[i].shard
            /\ HasSerialKey(transMap[i].req) =>
                   /\ SerialKey(transMap[i].req) \in keyInProcess[transMap[i].shard]
                   /\ transMap[i].shard = SerialKey(transMap[i].req) % ShardCount
    BY DEF TypeOK, Transactions, PlaceInv, LiveInv, TransInv, TargetInv
  <1>5. \A i \in Live : transMap[i].req # r
    BY <1>2, <1>4
  <1>6. \A u \in Shards : keyInProcess[u] \subseteq keyInProcess'[u]
    BY <1>1 DEF TypeOK
  <1>7. TransInv'
    <2>1. ASSUME NEW i \in Live'
          PROVE  LET t == transMap'[i]
                 IN  /\ status'[t.req] = "started" /\ target'[t.req] = t.shard
                     /\ HasSerialKey(t.req) => SerialKey(t.req) \in keyInProcess'[t.shard]
      <3>1. CASE i = id
        BY <1>1, <1>2, <1>3, <3>1 DEF TypeOK
      <3>2. CASE i \in Live
        BY <1>1, <1>2, <1>3, <1>4, <1>6, <3>2 DEF Kept
      <3> QED BY <1>3, <2>1, <3>1, <3>2
    <2> QED BY <2>1 DEF TransInv
  <1>8. OneTransactionPerKey'
    <2>1. \A i \in Live : HasSerialKey(r) /\ HasSerialKey(transMap[i].req) =>
                              SerialKey(transMap[i].req) # SerialKey(r)
      <3> SUFFICES ASSUME NEW i \in Live, HasSerialKey(r), HasSerialKey(transMap[i].req),
                          SerialKey(transMap[i].req) = SerialKey(r)
                   PROVE  FALSE
        OBVIOUS
      <3>1. target[r] = SerialKey(r) % ShardCount
        BY <1>2 DEF PlaceInv, TargetInv
      <3>2. transMap[i].shard = s
        BY <1>2, <1>4, <3>1
      <3> QED BY <1>1, <1>4, <3>2 DEF MustWait
    <2>2. \A i \in Live : HasSerialKey(r) => SerialKey(transMap[i].req) # SerialKey(r)
      BY <2>1 DEF HasSerialKey
    <2> QED BY <1>3, <2>2 DEF OneTransactionPerKey, PlaceInv, LiveInv, HasSerialKey
  <1>9. OwnRequest'
    <2>1. \A i \in Live' : status'[transMap'[i].req] = "started"
      BY <1>7 DEF TransInv
    <2> QED BY <1>3, <1>5, <2>1 DEF OwnRequest, PlaceInv, LiveInv
  <1> QED BY <1>1, <1>2, <1>7, <1>8, <1>9, FramePend DEF PlaceInv, LiveInv

LEMMA DispatchPlace ==
    ASSUME TypeOK, PlaceInv, NEW s \in Shards, DispatchResponse(s) PROVE PlaceInv'
  <1>1. /\ inHand' = [inHand EXCEPT ![s] = NoPacket]
        /\ UNCHANGED <<status, target, net, chanInPacket, pendingPackets, keyInProcess>>
    BY DEF DispatchResponse
  <1>2. Kept("queued") /\ Kept("inhand") /\ Kept("pending") /\ Kept("started")
    BY <1>1 DEF Kept
  <1>3. HandInv'
    BY <1>1, NoPacketBelongs, PacketTypes, SetHand DEF PlaceInv
  <1>4. TargetInv'
    BY <1>1, FrameTarget DEF PlaceInv
  <1>5. LiveInv'
    BY <1>1, <1>2, DispatchEffect, FrameLive DEF PlaceInv
  <1> QED BY <1>1, <1>2, <1>3, <1>4, <1>5, FrameChan, FramePend DEF PlaceInv

LEMMA DropPlace == ASSUME TypeOK, PlaceInv, NEW s \in Shards, DropResponse(s) PROVE PlaceInv'
  <1>1. /\ inHand' = [inHand EXCEPT ![s] = NoPacket]
        /\ UNCHANGED <<status, target, net, chanInPacket, pendingPackets, transMap, keyInProcess>>
    BY DEF DropResponse
  <1>2. Kept("queued") /\ Kept("inhand") /\ Kept("pending") /\ Kept("started")
    BY <1>1 DEF Kept
  <1>3. HandInv'
    BY <1>1, NoPacketBelongs, PacketTypes, SetHand DEF PlaceInv
  <1>4. TargetInv'
    BY <1>1, FrameTarget DEF PlaceInv
  <1> QED BY <1>1, <1>2, <1>3, <1>4, FrameChan, FramePend, FrameLiveSame DEF PlaceInv

LEMMA TailElements ==
    ASSUME NEW S, NEW q \in Seq(S), q # <<>>
    PROVE  \A j \in DOMAIN Tail(q) : /\ j \in Nat /\ j # 0 /\ j + 1 \in DOMAIN q
                                     /\ Tail(q)[j] = q[j + 1]
  OBVIOUS

LEMMA FinishPlace ==
    ASSUME TypeOK, RetInv, PlaceInv, NEW s \in Shards, FinishTransaction(s) PROVE PlaceInv'
  <1> DEFINE id == Head(chanTransRet[s])
             r == transMap[id].req
             k == SerialKey(r)
             rest == NextPending(s, r)
  <1>1. /\ target' = target /\ UNCHANGED <<net, chanInPacket>>
        /\ keyInProcess' = IF HasSerialKey(r) THEN [keyInProcess EXCEPT ![s] = @ \ {k}]
                           ELSE keyInProcess
    BY DEF FinishTransaction
  <1>2. /\ id \in Live /\ r \in Requests /\ transMap[id].shard = s
        /\ Live' = Live \ {id}
        /\ \A i \in Live' : transMap'[i] = transMap[i]
    BY FinishEffect
  <1>3. /\ status[r] = "started" /\ target[r] = s
        /\ \A i \in Live : i # id => transMap[i].req # r
    BY <1>2 DEF PlaceInv, LiveInv, TransInv, OwnRequest
  <1>4. LiveInv' \/ ~(\A i \in Live' : status'[transMap[i].req] = "started")
    <2> SUFFICES ASSUME \A i \in Live' : status'[transMap[i].req] = "started" PROVE LiveInv'
      OBVIOUS
    <2>1. ASSUME NEW i \in Live', HasSerialKey(transMap[i].req)
          PROVE  SerialKey(transMap[i].req) \in keyInProcess'[transMap[i].shard]
      <3>1. transMap[i].shard \in Shards /\ SerialKey(transMap[i].req) \in keyInProcess[transMap[i].shard]
        BY <1>2, <2>1 DEF TypeOK, Transactions, PlaceInv, LiveInv, TransInv
      <3>2. SerialKey(transMap[i].req) # k
        BY <1>2, <2>1 DEF PlaceInv, LiveInv, OneTransactionPerKey
      <3> QED BY <1>1, <3>1, <3>2 DEF TypeOK
    <2>2. TransInv'
      BY <1>1, <1>2, <2>1 DEF PlaceInv, LiveInv, TransInv
    <2>3. OneTransactionPerKey'
      BY <1>2 DEF PlaceInv, LiveInv, OneTransactionPerKey
    <2>4. OwnRequest'
      BY <1>2 DEF PlaceInv, LiveInv, OwnRequest
    <2> QED BY <2>2, <2>3, <2>4 DEF LiveInv
  <1>5. \A i \in Live' : transMap[i].req \in Requests /\ status[transMap[i].req] = "started"
                             /\ transMap[i].req # r
    BY <1>2, <1>3 DEF TypeOK, Transactions, PlaceInv, LiveInv, TransInv
  <1>6. CASE rest = <<>>
    <2>1. status' = [status EXCEPT ![r] = "done"] /\ UNCHANGED <<inHand, pendingPackets>>
      BY <1>6 DEF FinishTransaction
    <2>2. \A q \in Requests : q # r => status'[q] = status[q]
      BY <2>1 DEF TypeOK
    <2>3. Kept("queued") /\ Kept("inhand") /\ Kept("pending")
      BY <1>1, <1>3, <2>2 DEF Kept
    <2>4. TargetInv'
      BY <1>1, <1>3, <2>2, FrameTarget DEF PlaceInv
    <2>5. LiveInv'
      BY <1>4, <1>5, <2>2
    <2> QED BY <1>1, <2>1, <2>3, <2>4, <2>5, FrameChan, FrameHand, FramePend DEF PlaceInv
  <1>7. CASE rest # <<>>
    <2> DEFINE h == Head(rest)
    <2>1. /\ status' = [status EXCEPT ![r] = "done", ![h] = "inhand"]
          /\ inHand' = [inHand EXCEPT ![s] = Request(h)]
          /\ pendingPackets' = [pendingPackets EXCEPT ![s][k] = Tail(@)]
          /\ inHand[s] = NoPacket
      BY <1>7 DEF FinishTransaction, Idle, Dequeue
    <2>2. k \in Keys /\ rest = pendingPackets[s][k] /\ rest \in Seq(Requests)
      BY <1>2, <1>7, KeysType DEF NextPending, TypeOK
    <2>3. h = pendingPackets[s][k][1] /\ 1 \in DOMAIN pendingPackets[s][k] /\ h \in Requests
      BY <1>7, <2>2
    <2>4. status[h] = "pending" /\ target[h] = s /\ h # r
      <3>1. status[h] = "pending" /\ target[h] = s
        <4>1. s \in Shards /\ k \in Keys /\ 1 \in DOMAIN pendingPackets[s][k]
          BY <2>2, <2>3
        <4>2. LET q == pendingPackets[s][k][1] IN status[q] = "pending" /\ target[q] = s
          BY <4>1, PendingPlace DEF PlaceInv
        <4> QED BY <2>3, <4>2
      <3> QED BY <1>3, <3>1
    <2>5. status'[h] = "inhand" /\ \A q \in Requests : (q # r /\ q # h) => status'[q] = status[q]
      BY <1>2, <2>1, <2>3 DEF TypeOK
    <2>6. Kept("queued")
      BY <1>1, <1>3, <2>4, <2>5 DEF Kept
    <2>7. TargetInv'
      BY <1>1, <1>3, <2>4, <2>5, FrameTarget DEF PlaceInv
    <2>8. LiveInv'
      BY <1>4, <1>5, <2>4, <2>5
    <2>9. HandInv'
      <3>1. Request(h) \in Packets /\ BelongsNext(Request(h), s, "inhand")
        BY <1>1, <2>3, <2>4, <2>5, PacketTypes DEF BelongsNext, Request
      <3> QED BY <1>1, <1>3, <2>1, <2>4, <2>5, <3>1, SetHand DEF PlaceInv
    <2>10. PendInv'
      <3>1. \A u \in Shards, m \in Keys : ~(u = s /\ m = k) => pendingPackets'[u][m] = pendingPackets[u][m]
        BY <2>1 DEF TypeOK
      <3>2. /\ pendingPackets'[s][k] = Tail(pendingPackets[s][k])
            /\ \A j \in DOMAIN pendingPackets'[s][k] :
                   /\ j \in Nat /\ j # 0 /\ j + 1 \in DOMAIN pendingPackets[s][k]
                   /\ pendingPackets'[s][k][j] = pendingPackets[s][k][j + 1]
        <4>1. pendingPackets'[s][k] = Tail(pendingPackets[s][k])
          BY <2>1, <2>2 DEF TypeOK
        <4>2. pendingPackets[s][k] \in Seq(Requests) /\ pendingPackets[s][k] # <<>>
          BY <1>7, <2>2
        <4> QED BY <4>1, <4>2, TailElements
      <3>3. ASSUME NEW u \in Shards, NEW m \in Keys, NEW i \in DOMAIN pendingPackets[u][m]
            PROVE  LET q == pendingPackets[u][m][i]
                   IN  /\ q \in Requests
                       /\ status[q] = "pending" /\ target[q] = u /\ SerialKey(q) = m
                       /\ \A j \in DOMAIN pendingPackets[u][m] : pendingPackets[u][m][j] = q => i = j
                       /\ q # h => status'[q] = "pending"
        <4>1. pendingPackets[u][m][i] \in Requests
          BY <3>3 DEF TypeOK
        <4>2. LET q == pendingPackets[u][m][i]
              IN  /\ status[q] = "pending" /\ target[q] = u /\ SerialKey(q) = m
                  /\ \A j \in DOMAIN pendingPackets[u][m] : pendingPackets[u][m][j] = q => i = j
          BY <3>3 DEF PlaceInv, PendInv
        <4> QED BY <1>3, <2>5, <4>1, <4>2
      <3>6. \A i, j \in DOMAIN pendingPackets[s][k] : pendingPackets[s][k][i] = pendingPackets[s][k][j] => i = j
        BY <2>2, PendingPlace DEF PlaceInv
      <3> HIDE DEF h, rest, k, r, id
      <3> SUFFICES ASSUME NEW u \in Shards, NEW m \in Keys, NEW i \in DOMAIN pendingPackets'[u][m]
                   PROVE  LET q == pendingPackets'[u][m][i]
                          IN  /\ status'[q] = "pending" /\ target'[q] = u /\ SerialKey(q) = m
                              /\ \A j \in DOMAIN pendingPackets'[u][m] : pendingPackets'[u][m][j] = q => i = j
        BY DEF PendInv
      <3>4. CASE u = s /\ m = k
        <4>1. i \in Nat /\ i # 0 /\ i + 1 \in DOMAIN pendingPackets[s][k]
                /\ pendingPackets'[s][k][i] = pendingPackets[s][k][i + 1]
          BY <3>2, <3>4
        <4>2. pendingPackets[s][k][i + 1] # h
          <5>1. pendingPackets[s][k][i + 1] = h => 1 = i + 1
            BY <2>3, <3>6, <4>1
          <5> QED BY <4>1, <5>1
        <4>3. ASSUME NEW j \in DOMAIN pendingPackets'[s][k],
                     pendingPackets'[s][k][j] = pendingPackets'[s][k][i]
              PROVE  i = j
          <5>1. j + 1 \in DOMAIN pendingPackets[s][k] /\ j \in Nat
                   /\ pendingPackets[s][k][j + 1] = pendingPackets[s][k][i + 1]
            BY <3>2, <4>1, <4>3
          <5>2. i + 1 = j + 1
            BY <3>6, <4>1, <5>1
          <5> QED BY <4>1, <5>1, <5>2
        <4>4. LET q == pendingPackets[s][k][i + 1]
              IN  q \in Requests /\ status'[q] = "pending" /\ target[q] = s /\ SerialKey(q) = k
          <5>1. s \in Shards /\ k \in Keys /\ i + 1 \in DOMAIN pendingPackets[s][k]
            BY <2>2, <4>1
          <5>2. LET q == pendingPackets[s][k][i + 1]
                IN  q \in Requests /\ target[q] = s /\ SerialKey(q) = k
                    /\ (q # h => status'[q] = "pending")
            BY <3>3, <5>1
          <5> QED BY <4>2, <5>2
        <4> QED BY <1>1, <3>4, <4>1, <4>3, <4>4
      <3>5. CASE ~(u = s /\ m = k)
        <4>1. pendingPackets'[u][m] = pendingPackets[u][m]
          BY <3>1, <3>5
        <4>2. pendingPackets[u][m][i] # h
          <5>1. s \in Shards /\ k \in Keys /\ 1 \in DOMAIN pendingPackets[s][k]
            BY <2>2, <2>3
          <5>2. target[pendingPackets[s][k][1]] = s /\ SerialKey(pendingPackets[s][k][1]) = k
            BY <3>3, <5>1
          <5>3. target[pendingPackets[u][m][i]] = u /\ SerialKey(pendingPackets[u][m][i]) = m
            <6>1. i \in DOMAIN pendingPackets[u][m]
              BY <4>1
            <6> QED BY <3>3, <6>1
          <5> QED BY <2>3, <3>5, <5>2, <5>3
        <4> QED BY <1>1, <3>3, <4>1, <4>2
      <3> QED BY <3>4, <3>5
    <2> QED BY <1>1, <2>6, <2>7, <2>8, <2>9, <2>10, FrameChan DEF PlaceInv
  <1> QED BY <1>6, <1>7

-----------------------------------------------------------------------------
(* The theorems. *)

LEMMA NextPlaceInv == ASSUME TypeOK, RetInv, IdInv, PlaceInv, [Next]_vars PROVE PlaceInv'
  <1>1. CASE ProcessSSPacket
    <2>1. ASSUME NEW r \in Requests, DeadlinePasses(r) PROVE PlaceInv'
      BY <2>1, QuietPlace DEF DeadlinePasses, shardVars
    <2>2. ASSUME NEW n \in net, ResponseLost(n[1], n[2]) PROVE PlaceInv'
      <3>1. net' \subseteq net
        BY <2>2 DEF ResponseLost
      <3> QED BY <2>2, <3>1, QuietPlace DEF ResponseLost, shardVars
    <2> QED BY <1>1, <2>1, <2>2, SubmitPlace, EnqueuePlace, EnqueueTimeoutPlace, ResponseArrivesPlace
            DEF ProcessSSPacket
  <1>2. ASSUME NEW s \in Shards, ShardStep(s) PROVE PlaceInv'
    <2>1. CASE StopShard(s)
      BY <2>1, QuietPlace DEF StopShard
    <2> QED BY <1>2, <2>1, TakePacketPlace, StartPlace, QueuePlace, RejectPlace, DispatchPlace,
               DropPlace, FinishPlace DEF ShardStep
  <1>3. CASE Close
    BY <1>3, QuietPlace DEF Close, CloseBegins, CloseSignals, CloseEnds, CloseTimesOut, shardVars
  <1>4. CASE UNCHANGED vars
    BY <1>4, QuietPlace DEF vars, shardVars
  <1> QED BY <1>1, <1>2, <1>3, <1>4, TransactionStepPlace DEF Next

SlotInv == IsFiniteSet(Live) /\ SlotsMatchTransactions

LEMMA NextSlotInv == ASSUME TypeOK, RetInv, IdInv, SlotInv, [Next]_vars PROVE SlotInv'
  <1>1. CASE UNCHANGED <<transMap, chanTransRet, nextTransID, keyInProcess, activeTransactions>>
    BY <1>1 DEF SlotInv, SlotsMatchTransactions, Live
  <1>2. ASSUME NEW s \in Shards, StartTransaction(s) PROVE SlotInv'
    <2>1. Live' = Live \cup {nextTransID[s]} /\ nextTransID[s] \notin Live
      BY <1>2, StartEffect, FreshId
    <2>2. IsFiniteSet(Live') /\ Cardinality(Live') = Cardinality(Live) + 1
      BY <2>1, FS_AddElement DEF SlotInv
    <2>3. activeTransactions' = activeTransactions + 1 /\ activeTransactions < MaxTrans
      BY <1>2 DEF StartTransaction, MayStart
    <2> QED BY <2>2, <2>3, ConfigAssumption DEF SlotInv, SlotsMatchTransactions, TypeOK
  <1>3. ASSUME NEW s \in Shards, FinishTransaction(s) PROVE SlotInv'
    <2> DEFINE id == Head(chanTransRet[s])
    <2>1. Live' = Live \ {id} /\ id \in Live
      BY <1>3, FinishEffect
    <2>2. IsFiniteSet(Live') /\ Cardinality(Live') = Cardinality(Live) - 1
      BY <2>1, FS_RemoveElement DEF SlotInv
    <2>3. activeTransactions' = activeTransactions - 1
      BY <1>3 DEF FinishTransaction
    <2> QED BY <2>2, <2>3, ConfigAssumption DEF SlotInv, SlotsMatchTransactions, TypeOK
  <1>4. ASSUME NEW s \in Shards, DispatchResponse(s) PROVE SlotInv'
    BY <1>4, DispatchEffect DEF SlotInv, SlotsMatchTransactions, DispatchResponse
  <1>5. ASSUME NEW id \in Live, TransactionStep(id) PROVE SlotInv'
    <2>1. activeTransactions' = activeTransactions
      BY <1>5 DEF TransactionStep, Call, CallFails, WaitRsp, WaitTimeout, HandlerReturns
    <2> QED BY <1>5, <2>1, TransactionStepEffect DEF SlotInv, SlotsMatchTransactions
  <1> QED BY <1>1, <1>2, <1>3, <1>4, <1>5, TransMapSteps

LEMMA IInvParts ==
    IInv <=> TypeOK /\ RetInv /\ IdInv /\ PlaceInv /\ SlotInv
  BY DEF IInv, PlaceInv, LiveInv, SlotInv

LEMMA InitIInv == Init => IInv
  <1> SUFFICES ASSUME Init PROVE IInv
    OBVIOUS
  <1>1. TypeOK
    BY InitTypeOK
  <1>2. Live = {}
    BY DEF Init, Live
  <1>3. RetInv
    BY DEF Init, RetInv
  <1>4. IdInv
    <2>1. \A s \in Shards : (s + 1) - 1 = s /\ s % ShardCount = s /\ s + 1 # 0
      BY ConfigAssumption DEF Shards
    <2> QED BY <1>2, <2>1 DEF Init, IdInv, ResponseShard
  <1>5. PlaceInv
    <2>1. TargetInv
      BY DEF Init, TargetInv
    <2>2. ChanInv
      BY DEF Init, ChanInv
    <2>3. HandInv
      BY PacketTypes DEF Init, HandInv, BelongsTo
    <2>4. PendInv
      BY DEF Init, PendInv
    <2>5. LiveInv
      BY <1>2 DEF LiveInv, TransInv, OneTransactionPerKey, OwnRequest
    <2> QED BY <2>1, <2>2, <2>3, <2>4, <2>5 DEF PlaceInv
  <1>6. SlotInv
    BY <1>2, FS_EmptySet, ConfigAssumption DEF Init, SlotInv, SlotsMatchTransactions
  <1> QED BY <1>1, <1>3, <1>4, <1>5, <1>6, IInvParts

LEMMA NextIInv == IInv /\ [Next]_vars => IInv'
  <1> SUFFICES ASSUME IInv, [Next]_vars PROVE IInv'
    OBVIOUS
  <1>1. TypeOK' /\ RetInv' /\ IdInv' /\ PlaceInv' /\ SlotInv'
    BY IInvParts, NextTypeOK, NextRetInv, NextIdInv, NextPlaceInv, NextSlotInv
  <1> QED BY <1>1 DEF IInv, PlaceInv, LiveInv, SlotInv

\* The inductive invariant holds of the executor of transaction_mgr_impl.go,
\* for any requests, shards, keys and limits.
THEOREM Invariance == Spec => []IInv
  BY InitIInv, NextIInv, PTL DEF Spec

\* Every variable keeps its type: the channels hold packets, the maps hold
\* transactions, whatever the shards, the transactions and Close do.
THEOREM TypeCorrect == Spec => []TypeOK
  <1>1. IInv => TypeOK
    BY DEF IInv
  <1> QED BY <1>1, Invariance, PTL

\* keyInProcess and the choice of the shard by key together serialise the
\* requests of one RouterID or Uid: two of them never run at the same time.
THEOREM KeySerial == Spec => []OneTransactionPerKey
  <1>1. IInv => OneTransactionPerKey
    BY DEF IInv
  <1> QED BY <1>1, Invariance, PTL

\* tryAcquireTransSlot and releaseTransSlot stay in step with the transactions
\* of all shards, and MaxTrans bounds them.
THEOREM SlotsCorrect == Spec => []SlotsMatchTransactions
  <1>1. IInv => SlotsMatchTransactions
    BY DEF IInv
  <1> QED BY <1>1, Invariance, PTL

\* What ExecutedAtMostOnce says of one step.
Settles ==
    \A r \in Requests :
        /\ status[r] = "started" => status'[r] \in {"started", "done"}
        /\ status[r] \in {"done"} \cup Rejections => status'[r] = status[r]

Unsettled == {"new", "admitted", "queued", "inhand", "pending"}

LEMMA OneMoves ==
    ASSUME TypeOK, NEW q \in Requests, NEW v, status' = [status EXCEPT ![q] = v],
           status[q] \in Unsettled
    PROVE  Settles
  BY DEF Settles, Unsettled, Rejections, TypeOK

LEMMA TakeSettles == ASSUME IInv, NEW s \in Shards, TakePacket(s) PROVE Settles
  <1> DEFINE p == Head(chanInPacket[s])
  <1>1. TypeOK /\ ChanInv
    BY DEF IInv
  <1>2. p = chanInPacket[s][1] /\ 1 \in DOMAIN chanInPacket[s] /\ p \in Packets
    BY <1>1 DEF TakePacket, TypeOK
  <1>3. CASE IsRequest(p)
    <2>1. p.req \in Requests /\ status[p.req] = "queued"
      BY <1>1, <1>2, <1>3, PacketTypes DEF ChanInv, BelongsTo
    <2>2. status' = [status EXCEPT ![p.req] = "inhand"]
      BY <1>3 DEF TakePacket
    <2> QED BY <1>1, <2>1, <2>2, OneMoves DEF Unsettled
  <1>4. CASE ~IsRequest(p)
    BY <1>4 DEF TakePacket, Settles
  <1> QED BY <1>3, <1>4

LEMMA HandledSettles ==
    ASSUME IInv, NEW s \in Shards, IsRequest(inHand[s]), NEW v,
           status' = [status EXCEPT ![inHand[s].req] = v]
    PROVE  Settles
  <1>1. TypeOK /\ inHand[s].req \in Requests /\ status[inHand[s].req] = "inhand"
    BY PacketTypes DEF IInv, TypeOK, HandInv, BelongsTo
  <1> QED BY <1>1, OneMoves DEF Unsettled

LEMMA FinishSettles == ASSUME IInv, NEW s \in Shards, FinishTransaction(s) PROVE Settles
  <1> DEFINE r == transMap[Head(chanTransRet[s])].req
             rest == NextPending(s, r)
             h == Head(rest)
  <1>1. TypeOK /\ RetInv /\ PendInv /\ OwnRequest
    BY DEF IInv
  <1>2. r \in Requests /\ status[r] = "started"
    BY <1>1, FinishEffect DEF OwnRequest
  <1>3. CASE rest = <<>>
    <2>1. status' = [status EXCEPT ![r] = "done"]
      BY <1>3 DEF FinishTransaction
    <2> QED BY <1>1, <1>2, <2>1 DEF Settles, Rejections, TypeOK
  <1>4. CASE rest # <<>>
    <2>1. status' = [status EXCEPT ![r] = "done", ![h] = "inhand"]
      BY <1>4 DEF FinishTransaction
    <2>2. SerialKey(r) \in Keys /\ rest = pendingPackets[s][SerialKey(r)] /\ rest \in Seq(Requests)
      BY <1>1, <1>2, <1>4, KeysType DEF NextPending, TypeOK
    <2>3. h = pendingPackets[s][SerialKey(r)][1] /\ 1 \in DOMAIN pendingPackets[s][SerialKey(r)]
          /\ h \in Requests
      BY <1>4, <2>2
    <2>4. status[h] = "pending"
      BY <1>1, <2>2, <2>3, PendingPlace
    <2> HIDE DEF r, rest, h
    <2>5. r # h
      BY <1>2, <2>4
    <2>6. status'[r] = "done" /\ status'[h] = "inhand"
          /\ \A q \in Requests \ {r, h} : status'[q] = status[q]
      BY <1>1, <1>2, <2>1, <2>3, <2>5 DEF TypeOK
    <2> QED BY <1>2, <2>4, <2>6 DEF Settles, Rejections
  <1> QED BY <1>3, <1>4

LEMMA NextSettles == IInv /\ [Next]_vars => Settles
  <1> SUFFICES ASSUME IInv, [Next]_vars PROVE Settles
    OBVIOUS
  <1>1. TypeOK
    BY DEF IInv
  <1>2. CASE UNCHANGED status
    BY <1>2 DEF Settles
  <1>3. ASSUME NEW r \in Requests, Submit(r) \/ Enqueue(r) \/ EnqueueTimeout(r) PROVE Settles
    <2>1. /\ status[r] \in Unsettled
          /\ \E v \in Statuses : status' = [status EXCEPT ![r] = v]
      BY <1>3 DEF Submit, Enqueue, EnqueueTimeout, Unsettled, Statuses, Rejections
    <2> QED BY <1>1, <2>1, OneMoves
  <1>4. ASSUME NEW s \in Shards, StartTransaction(s) \/ QueueRequest(s) \/ RejectRequest(s)
        PROVE  Settles
    <2>1. CASE StartTransaction(s)
      BY <2>1, HandledSettles DEF StartTransaction
    <2>2. CASE QueueRequest(s)
      BY <2>2, HandledSettles DEF QueueRequest
    <2>3. CASE RejectRequest(s)
      BY <2>3, HandledSettles DEF RejectRequest
    <2> QED BY <1>4, <2>1, <2>2, <2>3
  <1>5. ASSUME NEW s \in Shards, ShardStep(s) PROVE Settles
    <2>1. CASE DispatchResponse(s) \/ DropResponse(s) \/ StopShard(s)
      BY <1>2, <2>1 DEF DispatchResponse, DropResponse, StopShard
    <2> QED BY <1>4, <1>5, <2>1, TakeSettles, FinishSettles DEF ShardStep
  <1>6. CASE ProcessSSPacket
    <2>1. ASSUME NEW r \in Requests, DeadlinePasses(r) PROVE Settles
      BY <1>2, <2>1 DEF DeadlinePasses
    <2>2. ASSUME NEW n \in net, ResponseArrives(n[1], n[2]) \/ ResponseLost(n[1], n[2])
          PROVE  Settles
      BY <1>2, <2>2 DEF ResponseArrives, ResponseLost
    <2> QED BY <1>3, <1>6, <2>1, <2>2 DEF ProcessSSPacket
  <1>7. ASSUME NEW id \in Live, TransactionStep(id) PROVE Settles
    BY <1>2, <1>7 DEF TransactionStep, Call, CallFails, WaitRsp, WaitTimeout, HandlerReturns
  <1>8. CASE Close
    BY <1>2, <1>8 DEF Close, CloseBegins, CloseSignals, CloseEnds, CloseTimesOut
  <1>9. CASE UNCHANGED vars
    BY <1>2, <1>9 DEF vars
  <1> QED BY <1>5, <1>6, <1>7, <1>8, <1>9 DEF Next

\* A request packet is executed at most once, and one that was answered with a
\* rejection is not, whatever waits in the channels and in pendingPackets.
THEOREM AtMostOnce == Spec => ExecutedAtMostOnce
  <1>1. IInv /\ [Next]_vars => [\A r \in Requests :
            /\ status[r] = "started" => status'[r] \in {"started", "done"}
            /\ status[r] \in {"done"} \cup Rejections => status'[r] = status[r]]_vars
    BY NextSettles DEF Settles
  <1> QED BY <1>1, Invariance, PTL DEF Spec, ExecutedAtMostOnce

\* selectShard sends a response to the shard whose transMap has its
\* transaction, as long as the ids have not wrapped.
THEOREM ResponseRouting == Spec => []ResponseFindsTransaction
  <1>1. IInv => ResponseFindsTransaction
    BY DEF IInv, HandInv, BelongsTo, IdInv, ResponseFindsTransaction, Owns
  <1> QED BY <1>1, Invariance, PTL
=============================================================================
