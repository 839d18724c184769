---------------------------- MODULE ExecutorProofs ----------------------------
(* Two promises of TransactionMgr, for any number of shards and requests: Close *)
(* leaves nothing behind, and the handlers see an Executor.  Both need to know  *)
(* where a request is, given its status (the invariants of TransactionMgrProofs *)
(* say the converse); the second one, in which order the requests of a key      *)
(* stand in a channel, a hand and pendingPackets.                               *)
EXTENDS TransactionMgrProofs

InSomeHand(r) == \E s \in Shards : inHand[s].req = r
Waits(r) ==
    \E s \in Shards, k \in Keys : \E i \in DOMAIN pendingPackets[s][k] : pendingPackets[s][k][i] = r
Runs(r) == \E id \in Live : transMap[id].req = r

WhereInv ==
    \A r \in Requests :
        /\ status[r] = "inhand" => InSomeHand(r)
        /\ status[r] = "pending" => Waits(r)
        /\ status[r] = "started" => Runs(r)

DownInv ==
    /\ \A s \in Shards \ shardUp :
        /\ inHand[s] = NoPacket
        /\ \A id \in Live : transMap[id].shard # s
        /\ \A k \in Keys : pendingPackets[s][k] = <<>>
    /\ closePc = "closed" => shardUp = {}
-----------------------------------------------------------------------------
\* A shard that has returned does nothing any more, and others leave it alone.
LEMMA NextDownInv == ASSUME IInv, DownInv, [Next]_vars PROVE DownInv'
<1> USE DEF mgrVars, shardVars
<1>1. TypeOK BY DEF IInv
<1>2. ASSUME UNCHANGED <<inHand, pendingPackets, shardUp, closePc>>,
             Live' = Live, \A i \in Live : transMap'[i].shard = transMap[i].shard
      PROVE  DownInv'
  BY <1>2 DEF DownInv
<1>3. ASSUME NEW s \in Shards, s \in shardUp, UNCHANGED <<shardUp, closePc>>,
             \A u \in Shards \ {s} : inHand'[u] = inHand[u] /\ pendingPackets'[u] = pendingPackets[u],
             \A i \in Live' : IF i \in Live THEN transMap'[i].shard = transMap[i].shard
                              ELSE transMap'[i].shard = s
      PROVE  DownInv'
  BY <1>3 DEF DownInv
<1>4. CASE UNCHANGED <<inHand, pendingPackets, shardUp, closePc, transMap>>
  BY <1>2, <1>4 DEF Live
<1>5. CASE ProcessSSPacket
  BY <1>4, <1>5 DEF ProcessSSPacket, Submit, Enqueue, EnqueueTimeout, DeadlinePasses, ResponseArrives,
     ResponseLost
<1>6. ASSUME NEW s \in Shards, TakePacket(s) PROVE DownInv'
  BY <1>1, <1>3, <1>6 DEF TakePacket, Idle, Live, TypeOK
<1>7. ASSUME NEW s \in Shards, StartTransaction(s) PROVE DownInv'
  <2>1. \A i \in Live' : IF i \in Live THEN transMap'[i].shard = transMap[i].shard
                         ELSE transMap'[i].shard = s
    BY <1>7, StartEffect, IInvParts
  <2>2. QED BY <1>1, <1>3, <1>7, <2>1 DEF StartTransaction, TypeOK
<1>8. ASSUME NEW s \in Shards, QueueRequest(s) PROVE DownInv'
  BY <1>1, <1>3, <1>8 DEF QueueRequest, Live, TypeOK
<1>9. ASSUME NEW s \in Shards, RejectRequest(s) PROVE DownInv'
  BY <1>1, <1>3, <1>9 DEF RejectRequest, Live, TypeOK
<1>10. ASSUME NEW s \in Shards, DispatchResponse(s) PROVE DownInv'
  <2>1. Live' = Live /\ \A i \in Live : transMap'[i].shard = transMap[i].shard
    BY <1>1, <1>10, DispatchEffect
  <2>2. QED BY <1>1, <1>3, <1>10, <2>1 DEF DispatchResponse, TypeOK
<1>11. ASSUME NEW s \in Shards, DropResponse(s) PROVE DownInv'
  BY <1>1, <1>3, <1>11 DEF DropResponse, Live, TypeOK
<1>12. ASSUME NEW s \in Shards, FinishTransaction(s) PROVE DownInv'
  <2>1. \A i \in Live' : i \in Live /\ transMap'[i] = transMap[i]
    BY <1>1, <1>12, FinishEffect DEF IInv
  <2>2. \A u \in Shards \ {s} : inHand'[u] = inHand[u] /\ pendingPackets'[u] = pendingPackets[u]
    BY <1>1, <1>12 DEF FinishTransaction, TypeOK
  <2>3. QED BY <1>3, <1>12, <2>1, <2>2 DEF FinishTransaction, Idle
<1>13. ASSUME NEW s \in Shards, StopShard(s) PROVE DownInv'
  BY <1>13 DEF StopShard, CanStop, Idle, DownInv, Live
<1>14. ASSUME NEW id \in Live, TransactionStep(id) PROVE DownInv'
  <2>1. UNCHANGED <<inHand, pendingPackets, shardUp, closePc>>
    BY <1>14 DEF TransactionStep, Call, CallFails, WaitRsp, WaitTimeout, HandlerReturns
  <2>2. QED BY <1>1, <1>2, <1>14, <2>1, TransactionStepEffect
<1>15. CASE Close
  BY <1>15 DEF Close, CloseBegins, CloseSignals, CloseEnds, CloseTimesOut, DownInv, Live
<1>16. CASE UNCHANGED vars
  BY <1>4, <1>16 DEF vars
<1> QED
  BY <1>5, <1>6, <1>7, <1>8, <1>9, <1>10, <1>11, <1>12, <1>13, <1>14, <1>15, <1>16 DEF Next, ShardStep

\* The requests that do not move stay where they are.
LEMMA WhereStays ==
    ASSUME WhereInv,
           \A q \in Requests : InSomeHand(q) => status'[q] # "inhand" \/ InSomeHand(q)',
           \A q \in Requests : Waits(q) => status'[q] # "pending" \/ Waits(q)',
           \A q \in Requests : Runs(q) => status'[q] # "started" \/ Runs(q)',
           \A q \in Requests :
               \/ status'[q] = status[q]
               \/ /\ status'[q] = "inhand" => InSomeHand(q)'
                  /\ status'[q] = "pending" => Waits(q)'
                  /\ status'[q] = "started" => Runs(q)'
    PROVE  WhereInv'
  BY DEF WhereInv

\* A transaction keeps its request for as long as it lives.
LEMMA RunsStays == ASSUME Live \subseteq Live', \A i \in Live : transMap'[i].req = transMap[i].req, NEW q, Runs(q)
                   PROVE  Runs(q)'
  BY DEF Runs

\* Where a packet goes out of a hand, and none comes in, every other stays.
LEMMA HandStays == ASSUME TypeOK, NEW s \in Shards, NEW p, inHand' = [inHand EXCEPT ![s] = p],
                          NEW q, inHand[s].req # q, InSomeHand(q)
                   PROVE  InSomeHand(q)'
<1>1. PICK u \in Shards : inHand[u].req = q BY DEF InSomeHand
<1>2. u # s /\ inHand'[u] = inHand[u] BY <1>1 DEF TypeOK
<1> QED BY <1>1, <1>2 DEF InSomeHand

\* WhereInv is preserved: by case on where the step moves a request.
LEMMA NextWhereInv == ASSUME IInv, WhereInv, [Next]_vars PROVE WhereInv'
<1> USE DEF mgrVars, shardVars
<1>1. TypeOK /\ HandInv /\ ChanInv /\ PendInv /\ RetInv /\ IdInv /\ OwnRequest BY DEF IInv
<1>2. ASSUME UNCHANGED <<status, inHand, pendingPackets>>, Live' = Live,
             \A i \in Live : transMap'[i].req = transMap[i].req
      PROVE  WhereInv'
  BY <1>2 DEF WhereInv, InSomeHand, Waits, Runs
<1>3. CASE UNCHANGED <<status, inHand, pendingPackets, transMap>>
  BY <1>2, <1>3 DEF Live
<1>4. ASSUME NEW r \in Requests, Submit(r) \/ Enqueue(r) \/ EnqueueTimeout(r) PROVE WhereInv'
  <2>1. UNCHANGED <<inHand, pendingPackets, transMap>>
    BY <1>4 DEF Submit, Enqueue, EnqueueTimeout
  <2>2. \A q \in Requests : status'[q] \in {"inhand", "pending", "started"} => status'[q] = status[q]
    BY <1>1, <1>4 DEF Submit, Enqueue, EnqueueTimeout, TypeOK
  <2>3. QED BY <2>1, <2>2 DEF WhereInv, InSomeHand, Waits, Runs, Live
<1>5. CASE ProcessSSPacket
  BY <1>3, <1>4, <1>5 DEF ProcessSSPacket, DeadlinePasses, ResponseArrives, ResponseLost
<1>6. ASSUME NEW s \in Shards, TakePacket(s) PROVE WhereInv'
  <2>0. PICK p : p = Head(chanInPacket[s]) OBVIOUS
  <2>1. UNCHANGED <<pendingPackets, transMap>> /\ inHand' = [inHand EXCEPT ![s] = p]
        /\ inHand[s] = NoPacket /\ inHand'[s] = p
    BY <1>1, <1>6, <2>0 DEF TakePacket, Idle, TypeOK
  <2>2. \A q \in Requests : inHand[s].req # q
    BY <2>1, RequestsAssumption DEF NoPacket
  <2>3. \A q \in Requests : InSomeHand(q) => InSomeHand(q)'
    BY <1>1, <2>1, <2>2, HandStays
  <2>4. \A q \in Requests : (Waits(q) => Waits(q)') /\ (Runs(q) => Runs(q)')
    BY <2>1 DEF Waits, Runs, Live
  <2>5. \A q \in Requests : status'[q] = status[q] \/ (q = p.req /\ status'[q] = "inhand")
    BY <1>1, <1>6, <2>0 DEF TakePacket, TypeOK
  <2>6. \A q \in Requests : q = p.req => InSomeHand(q)' BY <2>1 DEF InSomeHand
  <2>7. QED BY <2>3, <2>4, <2>5, <2>6, WhereStays
<1>7. ASSUME NEW s \in Shards, NEW v \in Statuses \ {"inhand"}, IsRequest(inHand[s]),
             NEW r \in Requests, r = inHand[s].req, status' = [status EXCEPT ![r] = v], inHand' = [inHand EXCEPT ![s] = NoPacket],
             \A q \in Requests : (Waits(q) => Waits(q)') /\ (Runs(q) => Runs(q)'),
             v = "pending" => Waits(r)', v = "started" => Runs(r)'
      PROVE  WhereInv'
  <2>1. \A q \in Requests : status'[q] = IF q = r THEN v ELSE status[q]
    BY <1>1, <1>7 DEF TypeOK
  <2>2. \A q \in Requests \ {r} : InSomeHand(q) => InSomeHand(q)'
    BY <1>1, <1>7, HandStays
  <2>3. QED BY <1>7, <2>1, <2>2, WhereStays
<1>8. ASSUME NEW s \in Shards, StartTransaction(s) PROVE WhereInv'
  <2>1. PICK r \in Requests : r = inHand[s].req
    BY <1>1, <1>8, PacketTypes DEF StartTransaction, MayStart, TypeOK
  <2>6. /\ Live' = Live \cup {nextTransID[s]} /\ transMap'[nextTransID[s]].req = r
        /\ \A i \in Live : i # nextTransID[s] /\ transMap'[i] = transMap[i]
    BY <1>1, <1>8, <2>1, StartEffect
  <2>2. PICK id \in Live' : /\ id \notin Live /\ transMap'[id].req = r
                            /\ \A i \in Live : i \in Live' /\ transMap'[i] = transMap[i]
    BY <2>6
  <2>3. Runs(r)' /\ \A q \in Requests : Runs(q) => Runs(q)' BY <2>2 DEF Runs
  <2>4. \A q \in Requests : Waits(q) => Waits(q)' BY <1>8 DEF StartTransaction, Waits
  <2>5. QED BY <1>7, <1>8, <2>1, <2>3, <2>4 DEF StartTransaction, Statuses
<1>9. ASSUME NEW s \in Shards, QueueRequest(s) PROVE WhereInv'
  <2>0. PICK r \in Requests : r = inHand[s].req
    BY <1>1, <1>9, PacketTypes DEF QueueRequest, MayQueue, MustWait, TypeOK
  <2>1. PICK k \in Keys : k = SerialKey(r)
    BY <1>9, <2>0, KeysType DEF QueueRequest, MayQueue, MustWait
  <2>2. pendingPackets' = [pendingPackets EXCEPT ![s][k] = Append(@, r)] BY <1>9, <2>0, <2>1 DEF QueueRequest
  <2>3. pendingPackets[s][k] \in Seq(Requests) BY <1>1, <2>1 DEF TypeOK
  <2>4. pendingPackets'[s][k] = Append(pendingPackets[s][k], r) BY <1>1, <2>1, <2>2 DEF TypeOK
  <2>5. \A u \in Shards, l \in Keys : (u # s \/ l # k) => pendingPackets'[u][l] = pendingPackets[u][l]
    BY <1>1, <2>1, <2>2 DEF TypeOK
  <2>6. Waits(r)'
    <3>1. Len(pendingPackets[s][k]) + 1 \in DOMAIN pendingPackets'[s][k]
          /\ pendingPackets'[s][k][Len(pendingPackets[s][k]) + 1] = r
      BY <2>1, <2>3, <2>4
    <3>2. QED BY <2>1, <3>1 DEF Waits
  <2>7. ASSUME NEW q \in Requests, Waits(q) PROVE Waits(q)'
    <3>1. PICK u \in Shards, l \in Keys : \E i \in DOMAIN pendingPackets[u][l] : pendingPackets[u][l][i] = q
      BY <2>7 DEF Waits
    <3>2. PICK i \in DOMAIN pendingPackets[u][l] : pendingPackets[u][l][i] = q BY <3>1
    <3>3. i \in DOMAIN pendingPackets'[u][l] /\ pendingPackets'[u][l][i] = q
      BY <2>1, <2>3, <2>4, <2>5, <3>2
    <3>4. QED BY <3>3 DEF Waits
  <2>8. \A q \in Requests : Runs(q) => Runs(q)' BY <1>9 DEF QueueRequest, Runs, Live
  <2>9. QED BY <1>7, <1>9, <2>0, <2>6, <2>7, <2>8 DEF QueueRequest, Statuses
<1>10. ASSUME NEW s \in Shards, RejectRequest(s) PROVE WhereInv'
  <2>1. \A q \in Requests : (Waits(q) => Waits(q)') /\ (Runs(q) => Runs(q)')
    BY <1>10 DEF RejectRequest, Waits, Runs, Live
  <2>2. PICK v \in Rejections : status' = [status EXCEPT ![inHand[s].req] = v]
    BY <1>10 DEF RejectRequest, Rejection, Rejections
  <2>3. v \in Statuses \ {"inhand"} /\ v \notin {"pending", "started"}
    BY <2>2 DEF Statuses, Rejections
  <2>4. PICK r \in Requests : r = inHand[s].req
    BY <1>1, <1>10, PacketTypes DEF RejectRequest, Rejection, TypeOK
  <2>5. QED BY <1>7, <1>10, <2>1, <2>2, <2>3, <2>4 DEF RejectRequest
<1>11. ASSUME NEW s \in Shards, DispatchResponse(s) \/ DropResponse(s) PROVE WhereInv'
  <2>1. \A q \in Requests : inHand[s].req # q
    BY <1>1, <1>11, PacketTypes, RequestsAssumption
       DEF DispatchResponse, DropResponse, HandInv, BelongsTo, IsRequest, TypeOK
  <2>2. inHand' = [inHand EXCEPT ![s] = NoPacket] /\ UNCHANGED <<status, pendingPackets>>
    BY <1>11 DEF DispatchResponse, DropResponse
  <2>3. \A q \in Requests : Runs(q) => Runs(q)'
    BY <1>1, <1>11, DispatchEffect DEF DropResponse, Runs, Live
  <2>4. \A q \in Requests : InSomeHand(q) => InSomeHand(q)'
    BY <1>1, <2>1, <2>2, HandStays
  <2>5. QED BY <2>2, <2>3, <2>4, WhereStays DEF Waits
<1>12. ASSUME NEW s \in Shards, FinishTransaction(s) PROVE WhereInv'
  <2>0. PICK id : id = Head(chanTransRet[s]) OBVIOUS
  <2>1. /\ id \in Live /\ transMap[id].req \in Requests /\ status[transMap[id].req] = "started"
        /\ Live' = Live \ {id} /\ \A i \in Live' : transMap'[i] = transMap[i]
    BY <1>1, <1>12, <2>0, FinishEffect DEF OwnRequest
  <2>11. PICK r \in Requests : r = transMap[id].req BY <2>1
  <2>12. PICK k : k = SerialKey(r) OBVIOUS
  <2>13. PICK rest : rest = NextPending(s, r) OBVIOUS
  <2>14. PICK h : h = Head(rest) OBVIOUS
  <2>2. \A q \in Requests \ {r} : Runs(q) => Runs(q)'
    BY <2>1, <2>11 DEF Runs
  <2>3. CASE rest = <<>>
    <3>1. UNCHANGED <<inHand, pendingPackets>> /\ status' = [status EXCEPT ![r] = "done"]
      BY <1>12, <2>0, <2>11, <2>13, <2>3 DEF FinishTransaction
    <3>2. \A q \in Requests : status'[q] = IF q = r THEN "done" ELSE status[q]
      BY <1>1, <2>1, <3>1 DEF TypeOK
    <3>3. QED BY <2>2, <3>1, <3>2, WhereStays DEF InSomeHand, Waits
  <2>4. CASE rest # <<>>
    <3>1. /\ status' = [status EXCEPT ![r] = "done", ![h] = "inhand"]
          /\ inHand' = [inHand EXCEPT ![s] = Request(h)]
          /\ pendingPackets' = [pendingPackets EXCEPT ![s][k] = Tail(@)]
          /\ inHand[s] = NoPacket
      BY <1>12, <2>0, <2>11, <2>12, <2>13, <2>14, <2>4 DEF FinishTransaction, Dequeue, Idle
    <3>2. k \in Keys /\ rest = pendingPackets[s][k] /\ rest \in Seq(Requests)
      BY <1>1, <2>12, <2>13, <2>4, KeysType DEF NextPending, TypeOK
    <3>3. h = pendingPackets[s][k][1] /\ 1 \in DOMAIN pendingPackets[s][k] /\ h \in Requests
      BY <2>4, <2>14, <3>2
    <3>4. status[h] = "pending" BY <1>1, <3>2, <3>3, PendingPlace
    <3>5. pendingPackets'[s][k] = Tail(rest)
      BY <1>1, <3>1, <3>2 DEF TypeOK
    <3>6. \A u \in Shards, l \in Keys : (u # s \/ l # k) => pendingPackets'[u][l] = pendingPackets[u][l]
      BY <1>1, <3>1, <3>2 DEF TypeOK
    <3>7. \A q \in Requests : status'[q] = IF q = h THEN "inhand" ELSE IF q = r THEN "done" ELSE status[q]
      BY <1>1, <2>1, <3>1, <3>3 DEF TypeOK
    <3>8. InSomeHand(h)'
      <4>1. inHand'[s] = Request(h) BY <1>1, <3>1 DEF TypeOK
      <4>2. inHand'[s].req = h BY <4>1 DEF Request
      <4>3. QED BY <4>2 DEF InSomeHand
    <3>9. \A q \in Requests : InSomeHand(q) => InSomeHand(q)'
      <4>1. \A q \in Requests : inHand[s].req # q BY <3>1, RequestsAssumption DEF NoPacket
      <4>2. QED BY <1>1, <3>1, <4>1, HandStays
    <3>10. ASSUME NEW q \in Requests \ {h}, Waits(q) PROVE Waits(q)'
      <4>1. PICK u \in Shards, l \in Keys : \E i \in DOMAIN pendingPackets[u][l] : pendingPackets[u][l][i] = q
        BY <3>10 DEF Waits
      <4>2. PICK i \in DOMAIN pendingPackets[u][l] : pendingPackets[u][l][i] = q BY <4>1
      <4>3. CASE u # s \/ l # k
        BY <3>6, <4>2, <4>3 DEF Waits
      <4>4. CASE u = s /\ l = k
        <5>1. i \in 2 .. Len(rest) /\ rest[i] = q BY <3>2, <3>3, <4>2, <4>4
        <5>2. i - 1 \in DOMAIN Tail(rest) /\ Tail(rest)[i - 1] = q BY <3>2, <5>1
        <5>3. QED BY <3>2, <3>5, <5>2 DEF Waits
      <4>5. QED BY <4>3, <4>4
    <3>11. QED BY <2>2, <3>7, <3>8, <3>9, <3>10, WhereStays
  <2>5. QED BY <2>3, <2>4
<1>13. ASSUME NEW s \in Shards, StopShard(s) PROVE WhereInv'
  BY <1>3, <1>13 DEF StopShard
<1>14. ASSUME NEW id \in Live, TransactionStep(id) PROVE WhereInv'
  <2>1. UNCHANGED <<status, inHand, pendingPackets>>
    BY <1>14 DEF TransactionStep, Call, CallFails, WaitRsp, WaitTimeout, HandlerReturns
  <2>2. QED BY <1>1, <1>2, <1>14, <2>1, TransactionStepEffect
<1>15. CASE Close
  BY <1>3, <1>15 DEF Close, CloseBegins, CloseSignals, CloseEnds, CloseTimesOut
<1>16. CASE UNCHANGED vars
  BY <1>3, <1>16 DEF vars
<1> QED
  BY <1>5, <1>6, <1>8, <1>9, <1>10, <1>11, <1>12, <1>13, <1>14, <1>15, <1>16 DEF Next, ShardStep
-----------------------------------------------------------------------------
\* A Close that returns nil left nothing behind, however many shards there are and
\* however the signal falls between their packets (transaction_mgr_impl.go, Close).
THEOREM CloseLeavesNothing == Spec => []ClosedMeansDrained
<1>1. Init => WhereInv /\ DownInv
  BY DEF Init, WhereInv, DownInv
<1>2. IInv /\ WhereInv /\ DownInv => ClosedMeansDrained
  <2> SUFFICES ASSUME IInv, WhereInv, DownInv, closePc = "closed"
               PROVE  /\ Live = {} /\ activeTransactions = 0
                      /\ \A r \in Requests : status[r] \notin {"inhand", "pending", "started"}
    BY DEF ClosedMeansDrained
  <2>1. \A s \in Shards : /\ inHand[s] = NoPacket /\ \A k \in Keys : pendingPackets[s][k] = <<>>
                          /\ \A id \in Live : transMap[id].shard # s
    BY DEF DownInv
  <2>2. Live = {} BY <2>1 DEF IInv, TypeOK, Transactions
  <2>3. activeTransactions = 0 BY <2>2, FS_EmptySet DEF IInv, SlotsMatchTransactions
  <2>4. \A r \in Requests : ~InSomeHand(r) /\ ~Waits(r) /\ ~Runs(r)
    BY <2>1, <2>2, RequestsAssumption DEF InSomeHand, Waits, Runs, NoPacket
  <2>5. QED BY <2>2, <2>3, <2>4 DEF WhereInv
<1>3. QED BY <1>1, <1>2, Invariance, NextDownInv, NextWhereInv, PTL DEF Spec
-----------------------------------------------------------------------------
(* The lines of the Executor: where the requests of a key stand. *)


\* Where the requests of key k stand.
OfKey(p, k) == IsRequest(p) /\ SerialKey(p.req) = k

InSomeChannel(r) == \E s \in Shards : \E i \in DOMAIN chanInPacket[s] : chanInPacket[s][i].req = r
QueuedInv == \A r \in Requests : status[r] = "queued" => InSomeChannel(r)

HasArrived(r) == \E i \in DOMAIN arrived[SerialKey(r)] : arrived[SerialKey(r)][i] = r
ArrivedInv ==
    /\ \A k \in Keys : \A i \in DOMAIN arrived[k] :
          /\ SerialKey(arrived[k][i]) = k
          /\ StateOf(status[arrived[k][i]]) # "new"
          /\ \A j \in DOMAIN arrived[k] : arrived[k][i] = arrived[k][j] => i = j
    /\ \A r \in Requests :
          HasSerialKey(r) /\ StateOf(status[r]) = "waiting" => HasArrived(r)

\* Of two requests of one key, q entered a channel before r.
Earlier(q, r) ==
    \E j \in DOMAIN arrived[SerialKey(r)] : \E i \in 1 .. j - 1 :
        arrived[SerialKey(r)][i] = q /\ arrived[SerialKey(r)][j] = r

\* The requests of a key stand in the order of arrival: first the pending ones, then
\* the one in hand, then those in the channel.  The one that FinishTransaction has
\* taken out of pendingPackets is before the others there; its key is free.
ChanOrder(s, k) ==
    \A i, j \in DOMAIN chanInPacket[s] :
        i < j /\ OfKey(chanInPacket[s][i], k) /\ OfKey(chanInPacket[s][j], k) =>
            Earlier(chanInPacket[s][i].req, chanInPacket[s][j].req)
PendOrder(s, k) ==
    \A i, j \in DOMAIN pendingPackets[s][k] :
        i < j => Earlier(pendingPackets[s][k][i], pendingPackets[s][k][j])
PendFirst(s, k) ==
    \A i \in DOMAIN pendingPackets[s][k], j \in DOMAIN chanInPacket[s] :
        OfKey(chanInPacket[s][j], k) => Earlier(pendingPackets[s][k][i], chanInPacket[s][j].req)
HandFirst(s, k) ==
    OfKey(inHand[s], k) =>
        \A j \in DOMAIN chanInPacket[s] :
            OfKey(chanInPacket[s][j], k) => Earlier(inHand[s].req, chanInPacket[s][j].req)
HandOrder(s, k) ==
    OfKey(inHand[s], k) =>
        \A i \in DOMAIN pendingPackets[s][k] :
            IF k \in keyInProcess[s] THEN Earlier(pendingPackets[s][k][i], inHand[s].req)
            ELSE Earlier(inHand[s].req, pendingPackets[s][k][i])
Order(s, k) == /\ ChanOrder(s, k) /\ PendOrder(s, k) /\ PendFirst(s, k)
               /\ HandFirst(s, k) /\ HandOrder(s, k)

LineInv ==
    /\ WhereInv /\ QueuedInv /\ ArrivedInv
    /\ \A s \in Shards, k \in Keys : Order(s, k)

\* Whoever waits in pendingPackets will be taken out: by the transaction that runs,
\* or after the request in hand, which will start.
NeverStranded ==
    \A s \in Shards, k \in Keys :
        pendingPackets[s][k] # <<>> => k \in keyInProcess[s] \/ OfKey(inHand[s], k)
-----------------------------------------------------------------------------
(* Earlier. *)

\* What arrived stays, in its order.
LEMMA EarlierStays ==
    ASSUME UNCHANGED arrived, NEW q, NEW r PROVE Earlier(q, r)' <=> Earlier(q, r)
  BY DEF Earlier

LEMMA EarlierIsStrict ==
    ASSUME ArrivedInv, NEW q \in Requests, NEW r \in Requests, HasSerialKey(q), HasSerialKey(r),
           TypeOK, SerialKey(q) = SerialKey(r), Earlier(q, r)
    PROVE  ~Earlier(r, q) /\ q # r
  <1>1. PICK k \in Keys : k = SerialKey(r) /\ k = SerialKey(q) BY KeysType
  <1>2. DOMAIN arrived[k] \subseteq Nat
    <2>1. arrived[k] \in Seq(Requests) BY DEF TypeOK
    <2>2. QED BY <2>1
  <1>3. PICK i, j : j \in DOMAIN arrived[k] /\ i \in 1 .. j - 1 /\ arrived[k][i] = q /\ arrived[k][j] = r
    BY <1>1 DEF Earlier
  <1>4. i \in DOMAIN arrived[k] BY <1>1, <1>3 DEF TypeOK
  <1>5. i < j BY <1>2, <1>3
  <1>6. \A m, n \in DOMAIN arrived[k] : arrived[k][m] = arrived[k][n] => m = n
    BY <1>1 DEF ArrivedInv
  <1>7. ASSUME Earlier(r, q) PROVE FALSE
    <2>1. PICK m, n : n \in DOMAIN arrived[k] /\ m \in 1 .. n - 1 /\ arrived[k][m] = r /\ arrived[k][n] = q
      BY <1>1, <1>7 DEF Earlier
    <2>2. m \in DOMAIN arrived[k] /\ m < n
      <3>1. arrived[k] \in Seq(Requests) BY DEF TypeOK
      <3>2. QED BY <2>1, <3>1
    <2>3. m = j /\ n = i BY <1>3, <1>4, <1>6, <2>1, <2>2
    <2>4. QED BY <1>2, <1>4, <1>5, <2>2, <2>3
  <1>8. q # r BY <1>2, <1>3, <1>4, <1>5, <1>6
  <1> QED BY <1>7, <1>8

\* A request that enters a channel joins its line at the end.
LEMMA EnqueueArrives ==
    ASSUME TypeOK, ArrivedInv, NEW r \in Requests, Enqueue(r)
    PROVE  /\ \A q, p : Earlier(q, p) => Earlier(q, p)'
           /\ HasSerialKey(r) => \A q \in Requests :
                  SerialKey(q) = SerialKey(r) /\ HasArrived(q) => Earlier(q, r)'
           /\ \A q \in Requests : HasSerialKey(q) /\ HasArrived(q) => HasArrived(q)'
           /\ HasSerialKey(r) => HasArrived(r)'
  <1>1. CASE ~HasSerialKey(r)
    BY <1>1 DEF Enqueue, Earlier, HasArrived
  <1>2. CASE HasSerialKey(r)
    <2>1. PICK k \in Keys : k = SerialKey(r) BY <1>2, KeysType
    <2>2. PICK n \in Nat : n = Len(arrived[k]) /\ DOMAIN arrived[k] = 1 .. n BY <2>1 DEF TypeOK
    <2>3. arrived' = [arrived EXCEPT ![k] = Append(@, r)] BY <1>2, <2>1 DEF Enqueue
    <2>4. /\ DOMAIN arrived'[k] = 1 .. n + 1 /\ arrived'[k][n + 1] = r
          /\ \A i \in 1 .. n : arrived'[k][i] = arrived[k][i]
      BY <2>1, <2>2, <2>3 DEF TypeOK
    <2>5. \A l : l # k => arrived'[l] = arrived[l]
      BY <2>1, <2>3 DEF TypeOK
    <2>6. ASSUME NEW q, NEW p, Earlier(q, p) PROVE Earlier(q, p)'
      <3>1. CASE SerialKey(p) # k BY <2>5, <2>6, <3>1 DEF Earlier
      <3>2. CASE SerialKey(p) = k
        <4>1. PICK i, j : j \in 1 .. n /\ i \in 1 .. j - 1 /\ arrived[k][i] = q /\ arrived[k][j] = p
          BY <2>2, <2>6, <3>2 DEF Earlier
        <4>2. j \in 1 .. n + 1 /\ i \in 1 .. n BY <2>2, <4>1
        <4>3. arrived'[k][i] = q /\ arrived'[k][j] = p BY <2>4, <4>1, <4>2
        <4>4. QED BY <2>4, <3>2, <4>1, <4>2, <4>3 DEF Earlier
      <3>3. QED BY <3>1, <3>2
    <2>7. ASSUME NEW q \in Requests, SerialKey(q) = k, HasArrived(q) PROVE Earlier(q, r)'
      <3>1. PICK i \in 1 .. n : arrived[k][i] = q BY <2>2, <2>7 DEF HasArrived
      <3>2. n + 1 \in DOMAIN arrived'[k] /\ i \in 1 .. (n + 1) - 1 BY <2>2, <2>4, <3>1
      <3>3. QED BY <2>1, <2>4, <3>1, <3>2 DEF Earlier
    <2>8. ASSUME NEW q \in Requests, HasArrived(q) PROVE HasArrived(q)'
      <3>1. CASE SerialKey(q) # k BY <2>5, <2>8, <3>1 DEF HasArrived
      <3>2. CASE SerialKey(q) = k
        <4>1. PICK i \in 1 .. n : arrived[k][i] = q BY <2>2, <2>8, <3>2 DEF HasArrived
        <4>2. i \in 1 .. n + 1 BY <2>2, <4>1
        <4>3. QED BY <2>4, <3>2, <4>1, <4>2 DEF HasArrived
      <3>3. QED BY <3>1, <3>2
    <2>9. HasArrived(r)'
      <3>1. n + 1 \in DOMAIN arrived'[k] BY <2>2, <2>4
      <3>2. QED BY <2>1, <2>4, <3>1 DEF HasArrived
    <2>10. QED BY <2>1, <2>6, <2>7, <2>8, <2>9
  <1> QED BY <1>1, <1>2

-----------------------------------------------------------------------------
(* The order, step by step. *)

\* Nothing that the order of a key in a shard depends on changes.
LEMMA OrderStays ==
    ASSUME NEW s \in Shards, NEW k \in Keys, Order(s, k), \A q, p : Earlier(q, p) => Earlier(q, p)',
           chanInPacket'[s] = chanInPacket[s], inHand'[s] = inHand[s],
           pendingPackets'[s][k] = pendingPackets[s][k],
           k \in keyInProcess'[s] <=> k \in keyInProcess[s]
    PROVE  Order(s, k)'
<1> USE DEF Order, ChanOrder, PendOrder, PendFirst, HandFirst, HandOrder
<1> QED OBVIOUS

\* The hand becomes empty, and nothing else is new.
LEMMA OrderWithoutHand ==
    ASSUME NEW s \in Shards, NEW k \in Keys, Order(s, k), \A q, p : Earlier(q, p) => Earlier(q, p)',
           chanInPacket'[s] = chanInPacket[s], inHand'[s] = NoPacket,
           pendingPackets'[s][k] = pendingPackets[s][k]
    PROVE  Order(s, k)'
<1> USE DEF Order, ChanOrder, PendOrder, PendFirst, HandFirst, HandOrder
<1>1. ~OfKey(inHand[s], k)' BY PacketTypes DEF OfKey
<1> QED BY <1>1

\* The channel grows by one packet, which is last of its key.
LEMMA OrderAppend ==
    ASSUME TypeOK, NEW s \in Shards, NEW k \in Keys, Order(s, k), NEW p \in Packets,
           chanInPacket'[s] = Append(chanInPacket[s], p), inHand'[s] = inHand[s],
           pendingPackets'[s][k] = pendingPackets[s][k], keyInProcess'[s] = keyInProcess[s],
           \A q, t : Earlier(q, t) => Earlier(q, t)',
           OfKey(p, k) =>
               /\ \A i \in DOMAIN chanInPacket[s] : OfKey(chanInPacket[s][i], k) =>
                      Earlier(chanInPacket[s][i].req, p.req)'
               /\ \A i \in DOMAIN pendingPackets[s][k] : Earlier(pendingPackets[s][k][i], p.req)'
               /\ OfKey(inHand[s], k) => Earlier(inHand[s].req, p.req)'
    PROVE  Order(s, k)'
<1>1. PICK n \in Nat : n = Len(chanInPacket[s]) /\ DOMAIN chanInPacket[s] = 1 .. n BY DEF TypeOK
<1>2. /\ DOMAIN chanInPacket'[s] = 1 .. n + 1 /\ chanInPacket'[s][n + 1] = p
      /\ \A i \in 1 .. n : chanInPacket'[s][i] = chanInPacket[s][i]
  <2>1. chanInPacket[s] \in Seq(Packets) BY DEF TypeOK
  <2>2. QED BY <1>1, <2>1
<1>3. \A i \in DOMAIN chanInPacket'[s] : i \in 1 .. n \/ i = n + 1 BY <1>2
<1>4. ChanOrder(s, k)'
  <2> SUFFICES ASSUME NEW i \in 1 .. n + 1, NEW j \in 1 .. n + 1, i < j,
                      OfKey(chanInPacket'[s][i], k), OfKey(chanInPacket'[s][j], k)
               PROVE  Earlier(chanInPacket[s][i].req, chanInPacket[s][j].req)'
    BY <1>2 DEF ChanOrder, OfKey, IsRequest
  <2>1. PICK a, b : a = chanInPacket'[s][i].req /\ b = chanInPacket'[s][j].req OBVIOUS
  <2>2. i \in 1 .. n /\ chanInPacket'[s][i] = chanInPacket[s][i] BY <1>2
  <2>3. CASE j \in 1 .. n
    <3>1. Earlier(a, b) BY <1>1, <1>2, <2>1, <2>2, <2>3 DEF Order, ChanOrder
    <3>2. Earlier(a, b)' BY <3>1
    <3>3. QED BY <2>1, <3>2
  <2>4. CASE j = n + 1
    <3>1. b = p.req /\ OfKey(p, k) BY <1>2, <2>1, <2>4
    <3>2. Earlier(a, b)' BY <1>1, <2>1, <2>2, <3>1
    <3>3. QED BY <2>1, <3>2
  <2>5. QED BY <1>1, <2>3, <2>4
<1>5. PendOrder(s, k)' BY DEF Order, PendOrder
<1>6. PendFirst(s, k)' BY <1>1, <1>2, <1>3 DEF Order, PendFirst, OfKey, IsRequest
<1>7. HandFirst(s, k)' BY <1>1, <1>2, <1>3 DEF Order, HandFirst, OfKey, IsRequest
<1>8. HandOrder(s, k)' BY DEF Order, HandOrder, OfKey, IsRequest
<1> QED BY <1>4, <1>5, <1>6, <1>7, <1>8 DEF Order

\* The packet that TakePacket takes out of the channel stands behind the pending ones
\* of its key; there are none when the key is free.
LEMMA TakeOrder ==
    ASSUME IInv, LineInv, NeverStranded, NEW s \in Shards, TakePacket(s), NEW u \in Shards, NEW k \in Keys
    PROVE  Order(u, k)'
<1>1. TypeOK /\ Order(u, k) BY DEF IInv, LineInv
<1>2. \A q, p : Earlier(q, p)' <=> Earlier(q, p) BY EarlierStays DEF TakePacket
<1>3. CASE u # s
  BY <1>1, <1>2, <1>3, OrderStays DEF TakePacket, TypeOK
<1>4. CASE u = s
  <2>1. PICK n \in Nat : n = Len(chanInPacket[s]) /\ DOMAIN chanInPacket[s] = 1 .. n BY <1>1 DEF TypeOK
  <2>2. chanInPacket[s] \in Seq(Packets) /\ chanInPacket[s] # <<>> BY <1>1 DEF TypeOK, TakePacket
  <2>3. n >= 1 /\ inHand'[s] = chanInPacket[s][1]
    BY <1>1, <2>1, <2>2 DEF TypeOK, TakePacket
  <2>4. chanInPacket'[s] = Tail(chanInPacket[s]) BY <1>1 DEF TakePacket, TypeOK
  <2>5. DOMAIN chanInPacket'[s] = 1 .. n - 1 /\ \A i \in 1 .. n - 1 : chanInPacket'[s][i] = chanInPacket[s][i + 1]
    BY <2>1, <2>2, <2>4
  <2>6. \A i \in 1 .. n - 1 : i + 1 \in 1 .. n /\ 1 < i + 1 BY <2>1
  <2>7. \A i, j \in 1 .. n - 1 : i < j => i + 1 < j + 1 OBVIOUS
  <2>8. pendingPackets'[s] = pendingPackets[s] /\ keyInProcess'[s] = keyInProcess[s]
    BY DEF TakePacket
  <2>9. ChanOrder(s, k)'
    BY <1>1, <1>2, <1>4, <2>1, <2>5, <2>6, <2>7 DEF Order, ChanOrder, OfKey, IsRequest
  <2>10. PendOrder(s, k)' BY <1>1, <1>2, <1>4, <2>8 DEF Order, PendOrder
  <2>11. PendFirst(s, k)'
    BY <1>1, <1>2, <1>4, <2>1, <2>5, <2>6, <2>8 DEF Order, PendFirst, OfKey, IsRequest
  <2>12. HandFirst(s, k)'
    <3> SUFFICES ASSUME NEW j \in 1 .. n - 1, OfKey(chanInPacket[s][1], k), OfKey(chanInPacket[s][j + 1], k)
                 PROVE  Earlier(inHand[s].req, chanInPacket[s][j].req)'
      BY <2>3, <2>5 DEF HandFirst, OfKey, IsRequest
    <3>1. PICK a, b : a = inHand'[s].req /\ b = chanInPacket'[s][j].req OBVIOUS
    <3>2. a = chanInPacket[s][1].req /\ b = chanInPacket[s][j + 1].req BY <2>3, <2>5, <3>1
    <3>3. 1 \in 1 .. n /\ j + 1 \in 1 .. n /\ 1 < j + 1 BY <2>3, <2>6
    <3>4. Earlier(a, b) BY <1>1, <1>4, <2>1, <3>2, <3>3 DEF Order, ChanOrder
    <3>5. QED BY <1>2, <3>1, <3>4
  <2>13. HandOrder(s, k)'
    <3>1. CASE k \in keyInProcess[s]
      BY <1>1, <1>2, <1>4, <2>1, <2>3, <2>8, <3>1 DEF Order, PendFirst, HandOrder, OfKey, IsRequest
    <3>2. CASE k \notin keyInProcess[s]
      <4>1. ~OfKey(inHand[s], k) BY PacketTypes DEF TakePacket, Idle, OfKey
      <4>2. pendingPackets[s][k] = <<>> BY <3>2, <4>1 DEF NeverStranded
      <4>3. QED BY <2>8, <4>2 DEF HandOrder
    <3>3. QED BY <3>1, <3>2
  <2>14. QED BY <1>4, <2>9, <2>10, <2>11, <2>12, <2>13 DEF Order
<1> QED BY <1>3, <1>4

\* A request that waits for its key goes behind those that wait for it already.
LEMMA QueueOrder ==
    ASSUME IInv, LineInv, NEW s \in Shards, QueueRequest(s), NEW u \in Shards, NEW k \in Keys
    PROVE  Order(u, k)'
<1>1. TypeOK /\ Order(u, k) BY DEF IInv, LineInv
<1>2. \A q, p : Earlier(q, p)' <=> Earlier(q, p) BY EarlierStays DEF QueueRequest
<1>3. PICK r \in Requests : r = inHand[s].req
  BY <1>1, PacketTypes DEF QueueRequest, TypeOK
<1>4. SerialKey(r) \in Keys /\ SerialKey(r) \in keyInProcess[s]
  BY <1>3, KeysType DEF QueueRequest, MayQueue, MustWait
<1>5. pendingPackets' = [pendingPackets EXCEPT ![s][SerialKey(r)] = Append(@, r)] /\ UNCHANGED <<chanInPacket, keyInProcess>>
      /\ inHand' = [inHand EXCEPT ![s] = NoPacket]
  BY <1>3 DEF QueueRequest
<1>6. CASE u # s
  BY <1>1, <1>2, <1>5, <1>6, OrderStays DEF TypeOK
<1>7. CASE u = s /\ k # SerialKey(r)
  <2>1. pendingPackets'[s][k] = pendingPackets[s][k] BY <1>1, <1>4, <1>5, <1>7 DEF TypeOK
  <2>2. QED BY <1>1, <1>2, <1>5, <1>7, <2>1, OrderWithoutHand DEF TypeOK
<1>8. CASE u = s /\ k = SerialKey(r)
  <2>1. PICK n \in Nat : n = Len(pendingPackets[s][k]) /\ DOMAIN pendingPackets[s][k] = 1 .. n
    BY <1>1 DEF TypeOK
  <2>2. pendingPackets[s][k] \in Seq(Requests) BY <1>1 DEF TypeOK
  <2>3. pendingPackets'[s][k] = Append(pendingPackets[s][k], r) BY <1>1, <1>4, <1>5, <1>8 DEF TypeOK
  <2>4. /\ DOMAIN pendingPackets'[s][k] = 1 .. n + 1 /\ pendingPackets'[s][k][n + 1] = r
        /\ \A i \in 1 .. n : pendingPackets'[s][k][i] = pendingPackets[s][k][i]
    BY <1>3, <2>1, <2>2, <2>3
  <2>5. \A i \in 1 .. n + 1 : i \in 1 .. n \/ i = n + 1 BY <2>1
  <2>6. OfKey(inHand[s], k) BY <1>3, <1>8 DEF QueueRequest, OfKey
  <2>7. \A i \in 1 .. n : Earlier(pendingPackets[s][k][i], r)
    BY <1>1, <1>3, <1>4, <1>8, <2>1, <2>6 DEF Order, HandOrder
  <2>8. PendOrder(s, k)'
    <3> SUFFICES ASSUME NEW i \in 1 .. n + 1, NEW j \in 1 .. n + 1, i < j
                 PROVE  Earlier(pendingPackets[s][k][i], pendingPackets[s][k][j])'
      BY <2>4 DEF PendOrder
    <3>1. PICK a, b : a = pendingPackets'[s][k][i] /\ b = pendingPackets'[s][k][j] OBVIOUS
    <3>2. i \in 1 .. n /\ a = pendingPackets[s][k][i] BY <2>1, <2>4, <3>1
    <3>3. Earlier(a, b)
      <4>1. CASE j \in 1 .. n BY <1>1, <1>8, <2>1, <2>4, <3>1, <3>2, <4>1 DEF Order, PendOrder
      <4>2. CASE j = n + 1 BY <2>4, <2>7, <3>1, <3>2, <4>2
      <4>3. QED BY <2>5, <4>1, <4>2
    <3>4. QED BY <1>2, <3>1, <3>3
  <2>9. ChanOrder(s, k)' BY <1>1, <1>2, <1>5, <1>8 DEF Order, ChanOrder
  <2>10. PendFirst(s, k)'
    BY <1>1, <1>2, <1>3, <1>5, <1>8, <2>1, <2>4, <2>5, <2>6 DEF Order, PendFirst, HandFirst
  <2>11. ~OfKey(inHand[s], k)' BY <1>1, <1>5, PacketTypes DEF OfKey, TypeOK
  <2>12. QED BY <1>8, <2>8, <2>9, <2>10, <2>11 DEF Order, HandFirst, HandOrder
<1> QED BY <1>6, <1>7, <1>8

\* The request in hand, and what becomes of it.
LEMMA HandLeaves ==
    ASSUME TypeOK, NEW s \in Shards, NEW u \in Shards, NEW k \in Keys, Order(u, k),
           inHand' = [inHand EXCEPT ![s] = NoPacket],
           UNCHANGED <<arrived, chanInPacket, pendingPackets>>, u # s => keyInProcess'[u] = keyInProcess[u]
    PROVE  Order(u, k)'
<1>1. \A q, p : Earlier(q, p)' <=> Earlier(q, p) BY EarlierStays
<1>2. CASE u # s BY <1>1, <1>2, OrderStays DEF TypeOK
<1>3. CASE u = s BY <1>1, <1>3, OrderWithoutHand DEF TypeOK
<1> QED BY <1>2, <1>3

\* processTransactionRet, with the request that is done, the pending ones of its key and
\* the first of these.
Released(s, r) ==
    /\ r \in Requests /\ status[r] = "started"
    /\ UNCHANGED <<arrived, chanInPacket>>
    /\ \A u \in Shards : \A l \in Keys :
          (u # s \/ l # SerialKey(r)) => /\ pendingPackets'[u][l] = pendingPackets[u][l]
                                         /\ l \in keyInProcess'[u] <=> l \in keyInProcess[u]
    /\ \A u \in Shards \ {s} : inHand'[u] = inHand[u]
    /\ inHand[s] = NoPacket

NoneWaits(s, r) ==
    /\ UNCHANGED <<inHand, pendingPackets>>
    /\ status' = [status EXCEPT ![r] = "done"]
    /\ HasSerialKey(r) => pendingPackets[s][SerialKey(r)] = <<>>

TakenOut(s, r, h) ==
    LET k == SerialKey(r)
    IN  /\ k \in Keys /\ pendingPackets[s][k] # <<>>
        /\ h \in Requests /\ h = pendingPackets[s][k][1] /\ status[h] = "pending" /\ SerialKey(h) = k
        /\ \A q \in Requests : status'[q] = IF q = h THEN "inhand" ELSE IF q = r THEN "done" ELSE status[q]
        /\ inHand'[s] = Request(h)
        /\ pendingPackets'[s][k] = Tail(pendingPackets[s][k])
        /\ k \notin keyInProcess'[s]

LEMMA FinishMoves ==
    ASSUME IInv, NEW s \in Shards, FinishTransaction(s)
    PROVE  \E r \in Requests : Released(s, r) /\ (NoneWaits(s, r) \/ \E h \in Requests : TakenOut(s, r, h))
<1>1. TypeOK /\ RetInv /\ PendInv /\ OwnRequest BY DEF IInv
<1>2. PICK r : r = transMap[Head(chanTransRet[s])].req OBVIOUS
<1>3. r \in Requests /\ status[r] = "started"
  BY <1>1, <1>2, FinishEffect DEF OwnRequest
<1>4. PICK rest : rest = NextPending(s, r) OBVIOUS
<1>5. PICK k : k = SerialKey(r) OBVIOUS
<1>6. PICK h : h = Head(rest) OBVIOUS
<1>7. /\ keyInProcess' = IF HasSerialKey(r) THEN [keyInProcess EXCEPT ![s] = @ \ {k}] ELSE keyInProcess
      /\ UNCHANGED <<arrived, chanInPacket>> /\ inHand[s] = NoPacket
  BY <1>2, <1>5 DEF FinishTransaction, Idle
<1>8. \A u \in Shards, l \in Keys : (u # s \/ l # k) => (l \in keyInProcess'[u] <=> l \in keyInProcess[u])
  BY <1>1, <1>7 DEF TypeOK
<1>9. CASE rest = <<>>
  <2>1. UNCHANGED <<inHand, pendingPackets>> /\ status' = [status EXCEPT ![r] = "done"]
    BY <1>2, <1>4, <1>9 DEF FinishTransaction
  <2>2. HasSerialKey(r) => pendingPackets[s][k] = <<>> BY <1>4, <1>5, <1>9 DEF NextPending
  <2>3. Released(s, r) BY <1>3, <1>5, <1>7, <1>8, <2>1 DEF Released
  <2>4. QED BY <1>3, <1>5, <2>1, <2>2, <2>3 DEF NoneWaits
<1>10. CASE rest # <<>>
  <2>1. /\ status' = [status EXCEPT ![r] = "done", ![h] = "inhand"]
        /\ inHand' = [inHand EXCEPT ![s] = Request(h)]
        /\ pendingPackets' = [pendingPackets EXCEPT ![s][k] = Tail(@)]
    BY <1>2, <1>4, <1>5, <1>6, <1>10 DEF FinishTransaction, Dequeue
  <2>2. k \in Keys /\ HasSerialKey(r) /\ rest = pendingPackets[s][k] /\ rest \in Seq(Requests)
    BY <1>1, <1>3, <1>4, <1>5, <1>10, KeysType DEF NextPending, TypeOK
  <2>3. h = pendingPackets[s][k][1] /\ 1 \in DOMAIN pendingPackets[s][k] /\ h \in Requests
    BY <1>6, <1>10, <2>2
  <2>4. status[h] = "pending" /\ SerialKey(h) = k BY <1>1, <2>2, <2>3, PendingPlace
  <2>5. pendingPackets'[s][k] = Tail(pendingPackets[s][k])
        /\ \A u \in Shards, l \in Keys : (u # s \/ l # k) => pendingPackets'[u][l] = pendingPackets[u][l]
    BY <1>1, <2>1, <2>2 DEF TypeOK
  <2>6. \A q \in Requests : status'[q] = IF q = h THEN "inhand" ELSE IF q = r THEN "done" ELSE status[q]
    BY <1>1, <1>3, <2>1, <2>3 DEF TypeOK
  <2>7. inHand'[s] = Request(h) /\ \A u \in Shards \ {s} : inHand'[u] = inHand[u]
    BY <1>1, <2>1 DEF TypeOK
  <2>8. k \notin keyInProcess'[s] BY <1>1, <1>7, <2>2 DEF TypeOK
  <2>9. Released(s, r) BY <1>3, <1>5, <1>7, <1>8, <2>5, <2>7 DEF Released
  <2>10. TakenOut(s, r, h) BY <1>5, <1>10, <2>2, <2>3, <2>4, <2>5, <2>6, <2>7, <2>8 DEF TakenOut
  <2>11. QED BY <1>3, <2>3, <2>9, <2>10
<1> QED BY <1>9, <1>10

\* The first of the pending requests of a key is before the others and before what is
\* still in the channel.
LEMMA FinishOrder ==
    ASSUME IInv, LineInv, NEW s \in Shards, FinishTransaction(s), NEW u \in Shards, NEW k \in Keys
    PROVE  Order(u, k)'
<1>1. TypeOK /\ Order(u, k) BY DEF IInv, LineInv
<1>2. PICK r \in Requests : Released(s, r) /\ (NoneWaits(s, r) \/ \E h \in Requests : TakenOut(s, r, h))
  BY FinishMoves
<1>3. \A q, p : Earlier(q, p)' <=> Earlier(q, p) BY <1>2, EarlierStays DEF Released
<1>4. CASE u # s
  BY <1>1, <1>2, <1>3, <1>4, OrderStays DEF Released
<1>5. CASE u = s /\ NoneWaits(s, r)
  <2>1. ~OfKey(inHand[s], k) BY <1>2, PacketTypes DEF Released, OfKey
  <2>2. inHand'[s] = NoPacket /\ pendingPackets'[s][k] = pendingPackets[s][k] /\ chanInPacket'[s] = chanInPacket[s]
    BY <1>2, <1>5 DEF Released, NoneWaits
  <2>3. QED BY <1>1, <1>3, <1>5, <2>2, OrderWithoutHand
<1>6. ASSUME u = s, NEW h \in Requests, TakenOut(s, r, h), k # SerialKey(r) PROVE Order(u, k)'
  <2>1. ~OfKey(inHand[s], k)' BY <1>6, PacketTypes DEF TakenOut, OfKey, Request
  <2>2. chanInPacket'[s] = chanInPacket[s] /\ pendingPackets'[s][k] = pendingPackets[s][k]
    BY <1>2, <1>6 DEF Released
  <2>3. ChanOrder(s, k)' /\ PendOrder(s, k)' /\ PendFirst(s, k)'
    BY <1>1, <1>3, <1>6, <2>2 DEF Order, ChanOrder, PendOrder, PendFirst
  <2>4. QED BY <1>6, <2>1, <2>3 DEF Order, HandFirst, HandOrder
<1>7. ASSUME u = s, NEW h \in Requests, TakenOut(s, r, h), k = SerialKey(r) PROVE Order(u, k)'
  <2>1. PICK n \in Nat : n = Len(pendingPackets[s][k]) /\ DOMAIN pendingPackets[s][k] = 1 .. n
    BY <1>1 DEF TypeOK
  <2>2. pendingPackets[s][k] \in Seq(Requests) /\ pendingPackets[s][k] # <<>>
    BY <1>1, <1>7 DEF TypeOK, TakenOut
  <2>3. n >= 1 /\ h = pendingPackets[s][k][1] BY <1>7, <2>1, <2>2 DEF TakenOut
  <2>4. DOMAIN pendingPackets'[s][k] = 1 .. n - 1
        /\ \A i \in 1 .. n - 1 : pendingPackets'[s][k][i] = pendingPackets[s][k][i + 1]
    <3>1. pendingPackets'[s][k] = Tail(pendingPackets[s][k]) BY <1>7 DEF TakenOut
    <3>2. QED BY <2>1, <2>2, <3>1
  <2>5. \A i \in 1 .. n - 1 : i + 1 \in 1 .. n /\ 1 < i + 1 BY <2>1
  <2>6. \A i, j \in 1 .. n - 1 : i < j => i + 1 < j + 1 OBVIOUS
  <2>7. chanInPacket'[s] = chanInPacket[s] /\ k \notin keyInProcess'[s] /\ inHand'[s].req = h
    BY <1>2, <1>7 DEF Released, TakenOut, Request
  <2>8. ChanOrder(s, k)' BY <1>1, <1>3, <1>7, <2>7 DEF Order, ChanOrder
  <2>9. PendOrder(s, k)'
    <3> SUFFICES ASSUME NEW i \in 1 .. n - 1, NEW j \in 1 .. n - 1, i < j
                 PROVE  Earlier(pendingPackets[s][k][i], pendingPackets[s][k][j])'
      BY <2>4 DEF PendOrder
    <3>1. PICK a, b : a = pendingPackets'[s][k][i] /\ b = pendingPackets'[s][k][j] OBVIOUS
    <3>2. a = pendingPackets[s][k][i + 1] /\ b = pendingPackets[s][k][j + 1] BY <2>4, <3>1
    <3>3. Earlier(a, b) BY <1>1, <1>7, <2>1, <2>5, <2>6, <3>2 DEF Order, PendOrder
    <3>4. QED BY <1>3, <3>1, <3>3
  <2>10. PendFirst(s, k)'
    <3> SUFFICES ASSUME NEW i \in 1 .. n - 1, NEW j \in DOMAIN chanInPacket[s], OfKey(chanInPacket[s][j], k)
                 PROVE  Earlier(pendingPackets[s][k][i], chanInPacket[s][j].req)'
      BY <2>4, <2>7 DEF PendFirst, OfKey, IsRequest
    <3>1. PICK a, b : a = pendingPackets'[s][k][i] /\ b = chanInPacket'[s][j].req OBVIOUS
    <3>2. a = pendingPackets[s][k][i + 1] /\ b = chanInPacket[s][j].req BY <2>4, <2>7, <3>1
    <3>3. Earlier(a, b) BY <1>1, <1>7, <2>1, <2>5, <3>2 DEF Order, PendFirst
    <3>4. QED BY <1>3, <3>1, <3>3
  <2>11. HandFirst(s, k)'
    <3> SUFFICES ASSUME NEW j \in DOMAIN chanInPacket[s], OfKey(chanInPacket[s][j], k)
                 PROVE  Earlier(inHand[s].req, chanInPacket[s][j].req)'
      BY <2>7 DEF HandFirst, OfKey, IsRequest
    <3>1. PICK b : b = chanInPacket'[s][j].req OBVIOUS
    <3>2. Earlier(h, b) BY <1>1, <1>7, <2>1, <2>3, <2>7, <3>1 DEF Order, PendFirst
    <3>3. QED BY <1>3, <2>7, <3>1, <3>2
  <2>12. HandOrder(s, k)'
    <3> SUFFICES ASSUME NEW i \in 1 .. n - 1
                 PROVE  Earlier(inHand[s].req, pendingPackets[s][k][i])'
      BY <2>4, <2>7 DEF HandOrder
    <3>1. PICK b : b = pendingPackets'[s][k][i] OBVIOUS
    <3>2. 1 \in 1 .. n /\ i + 1 \in 1 .. n /\ 1 < i + 1 /\ b = pendingPackets[s][k][i + 1]
      BY <2>3, <2>4, <2>5, <3>1
    <3>3. Earlier(h, b) BY <1>1, <1>7, <2>1, <2>3, <3>2 DEF Order, PendOrder
    <3>4. QED BY <1>3, <2>7, <3>1, <3>3
  <2>13. QED BY <1>7, <2>8, <2>9, <2>10, <2>11, <2>12 DEF Order
<1> QED BY <1>2, <1>4, <1>5, <1>6, <1>7

LEMMA EnqueueOrder ==
    ASSUME IInv, LineInv, NEW r \in Requests, Enqueue(r), NEW u \in Shards, NEW k \in Keys
    PROVE  Order(u, k)'
<1>1. TypeOK /\ TargetInv /\ ChanInv /\ HandInv /\ PendInv /\ ArrivedInv /\ Order(u, k)
  BY DEF IInv, LineInv
<1>2. /\ chanInPacket' = [chanInPacket EXCEPT ![target[r]] = Append(@, Request(r))]
      /\ UNCHANGED <<inHand, pendingPackets, keyInProcess>>
  BY DEF Enqueue, shardVars
<1>3. \A q, p : Earlier(q, p) => Earlier(q, p)' BY <1>1, EnqueueArrives
<1>4. CASE u # target[r]
  BY <1>1, <1>2, <1>3, <1>4, OrderStays DEF TypeOK
<1>5. CASE u = target[r]
  <2>1. PICK p \in Packets : p = Request(r) BY PacketTypes
  <2>2. chanInPacket'[u] = Append(chanInPacket[u], p) BY <1>1, <1>2, <1>5, <2>1 DEF TypeOK
  <2>3. ASSUME OfKey(p, k), NEW q \in Requests, SerialKey(q) = k, status[q] \in {"queued", "inhand", "pending"}
        PROVE  Earlier(q, p.req)'
    <3>1. p.req = r /\ SerialKey(r) = k BY <2>1, <2>3 DEF OfKey, Request
    <3>2. HasSerialKey(r) /\ HasSerialKey(q) BY <2>3, <3>1 DEF HasSerialKey, Keys
    <3>3. HasArrived(q) BY <1>1, <2>3, <3>2 DEF ArrivedInv, StateOf
    <3>4. Earlier(q, r)' BY <1>1, <2>3, <3>1, <3>2, <3>3, EnqueueArrives
    <3>5. QED BY <3>1, <3>4
  <2>4. ASSUME OfKey(p, k), NEW i \in DOMAIN chanInPacket[u], OfKey(chanInPacket[u][i], k)
        PROVE  Earlier(chanInPacket[u][i].req, p.req)'
    <3>1. PICK q \in Requests : q = chanInPacket[u][i].req /\ SerialKey(q) = k /\ status[q] = "queued"
      BY <1>1, <2>4, PacketTypes DEF ChanInv, BelongsTo, OfKey, TypeOK
    <3>2. chanInPacket'[u][i].req = q
      <4>1. chanInPacket[u] \in Seq(Packets) BY <1>1 DEF TypeOK
      <4>2. QED BY <2>2, <2>4, <3>1, <4>1
    <3>3. Earlier(q, p.req)' BY <2>3, <2>4, <3>1
    <3>4. QED BY <3>2, <3>3
  <2>5. ASSUME OfKey(p, k), NEW i \in DOMAIN pendingPackets[u][k]
        PROVE  Earlier(pendingPackets[u][k][i], p.req)'
    <3>1. PICK q \in Requests : q = pendingPackets[u][k][i] /\ SerialKey(q) = k /\ status[q] = "pending"
      BY <1>1, <2>5, PendingPlace DEF TypeOK
    <3>2. pendingPackets'[u][k][i] = q BY <1>2, <3>1
    <3>3. Earlier(q, p.req)' BY <2>3, <2>5, <3>1
    <3>4. QED BY <3>2, <3>3
  <2>6. ASSUME OfKey(p, k), OfKey(inHand[u], k) PROVE Earlier(inHand[u].req, p.req)'
    <3>1. PICK q \in Requests : q = inHand[u].req /\ SerialKey(q) = k /\ status[q] = "inhand"
      BY <1>1, <2>6, PacketTypes DEF HandInv, BelongsTo, OfKey, TypeOK
    <3>2. inHand'[u].req = q BY <1>2, <3>1
    <3>3. Earlier(q, p.req)' BY <2>3, <2>6, <3>1
    <3>4. QED BY <3>2, <3>3
  <2>7. inHand'[u] = inHand[u] /\ pendingPackets'[u][k] = pendingPackets[u][k]
        /\ keyInProcess'[u] = keyInProcess[u]
    BY <1>2
  <2>8. OfKey(p, k) =>
           /\ \A i \in DOMAIN chanInPacket[u] : OfKey(chanInPacket[u][i], k) =>
                  Earlier(chanInPacket[u][i].req, p.req)'
           /\ \A i \in DOMAIN pendingPackets[u][k] : Earlier(pendingPackets[u][k][i], p.req)'
           /\ OfKey(inHand[u], k) => Earlier(inHand[u].req, p.req)'
    BY <2>4, <2>5, <2>6
  <2>9. QED BY <1>1, <1>3, <2>2, <2>7, <2>8, OrderAppend
<1> QED BY <1>4, <1>5

LEMMA ResponseOrder ==
    ASSUME IInv, LineInv, NEW n \in net, ResponseArrives(n[1], n[2]), NEW u \in Shards, NEW k \in Keys
    PROVE  Order(u, k)'
<1>1. TypeOK /\ Order(u, k) BY DEF IInv, LineInv
<1>2. \A q, p : Earlier(q, p)' <=> Earlier(q, p) BY EarlierStays DEF ResponseArrives
<1>3. PICK p \in Packets : p = Response(n[1], n[2]) /\ ~IsRequest(p) BY <1>1, PacketTypes DEF TypeOK
<1>4. PICK s \in Shards : s = ResponseShard(n[1])
  <2>1. n[1] - 1 \in Int BY <1>1 DEF TypeOK
  <2>2. QED BY <2>1, ShardsType DEF ResponseShard
<1>5. /\ chanInPacket' = [chanInPacket EXCEPT ![s] = Append(@, p)]
      /\ UNCHANGED <<inHand, pendingPackets, keyInProcess>>
  BY <1>3, <1>4 DEF ResponseArrives, shardVars
<1>6. CASE u # s BY <1>1, <1>2, <1>5, <1>6, OrderStays DEF TypeOK
<1>7. CASE u = s
  <2>1. chanInPacket'[u] = Append(chanInPacket[u], p) BY <1>1, <1>5, <1>7 DEF TypeOK
  <2>2. ~OfKey(p, k) BY <1>3 DEF OfKey
  <2>3. QED BY <1>1, <1>2, <1>5, <2>1, <2>2, OrderAppend
<1> QED BY <1>6, <1>7

\* A step that only looks at the lines, or changes them elsewhere.
Quiet == UNCHANGED <<arrived, chanInPacket, inHand, pendingPackets, keyInProcess, activeTransactions>>

LEMMA NextQuiet ==
    ASSUME [Next]_vars
    PROVE  \/ Quiet
           \/ \E r \in Requests : Enqueue(r)
           \/ \E n \in net : ResponseArrives(n[1], n[2])
           \/ \E s \in Shards :
                 \/ TakePacket(s) \/ StartTransaction(s) \/ QueueRequest(s) \/ RejectRequest(s)
                 \/ DispatchResponse(s) \/ DropResponse(s) \/ FinishTransaction(s)
<1> USE DEF mgrVars, shardVars
<1>1. ASSUME NEW r \in Requests, Submit(r) \/ EnqueueTimeout(r) \/ DeadlinePasses(r) PROVE Quiet
  BY <1>1 DEF Quiet, Submit, EnqueueTimeout, DeadlinePasses
<1>2. ASSUME NEW n \in net, ResponseLost(n[1], n[2]) PROVE Quiet
  BY <1>2 DEF Quiet, ResponseLost
<1>3. ASSUME NEW s \in Shards, StopShard(s) PROVE Quiet
  BY <1>3 DEF Quiet, StopShard
<1>4. ASSUME NEW id \in Live, TransactionStep(id) PROVE Quiet
  BY <1>4 DEF Quiet, TransactionStep, Call, CallFails, WaitRsp, WaitTimeout, HandlerReturns
<1>5. CASE Close
  BY <1>5 DEF Quiet, Close, CloseBegins, CloseSignals, CloseEnds, CloseTimesOut
<1>6. CASE UNCHANGED vars BY <1>6 DEF Quiet, vars
<1> QED BY <1>1, <1>2, <1>3, <1>4, <1>5, <1>6 DEF Next, ProcessSSPacket, ShardStep

LEMMA NextOrder ==
    ASSUME IInv, LineInv, NeverStranded, [Next]_vars, NEW u \in Shards, NEW k \in Keys
    PROVE  Order(u, k)'
<1>1. TypeOK /\ Order(u, k) BY DEF IInv, LineInv
<1>2. CASE Quiet
  <2>1. \A q, p : Earlier(q, p)' <=> Earlier(q, p) BY <1>2, EarlierStays DEF Quiet
  <2>2. QED BY <1>1, <1>2, <2>1, OrderStays DEF Quiet
<1>3. ASSUME NEW s \in Shards,
             StartTransaction(s) \/ RejectRequest(s) \/ DispatchResponse(s) \/ DropResponse(s)
      PROVE  Order(u, k)'
  <2>1. inHand' = [inHand EXCEPT ![s] = NoPacket] /\ UNCHANGED <<arrived, chanInPacket, pendingPackets>>
    BY <1>3 DEF StartTransaction, RejectRequest, DispatchResponse, DropResponse
  <2>2. u # s => keyInProcess'[u] = keyInProcess[u]
    BY <1>1, <1>3 DEF StartTransaction, RejectRequest, DispatchResponse, DropResponse, TypeOK
  <2>3. QED BY <1>1, <2>1, <2>2, HandLeaves
<1> QED BY <1>2, <1>3, NextQuiet, EnqueueOrder, ResponseOrder, TakeOrder, QueueOrder, FinishOrder
-----------------------------------------------------------------------------
(* The states of the requests, as the Executor sees them. *)

Same == arrived' = arrived /\ \A q \in Requests : StateOf(status'[q]) = StateOf(status[q])
Refused(r) ==
    /\ arrived' = arrived
    /\ StateOf(status[r]) \in {"new", "waiting"} /\ StateOf(status'[r]) = "refused"
    /\ \A q \in Requests \ {r} : status'[q] = status[q]

\* TakePacket, QueueRequest and a handler's own steps are invisible; a request is
\* refused at the closing check, at a full channel, or by processSSPacket.
LEMMA NextStates ==
    ASSUME IInv, [Next]_vars
    PROVE  \/ Same
           \/ \E r \in Requests : Refused(r)
           \/ \E r \in Requests : Enqueue(r)
           \/ \E s \in Shards : StartTransaction(s) \/ FinishTransaction(s)
<1>1. TypeOK /\ HandInv /\ ChanInv BY DEF IInv
<1>2. CASE UNCHANGED <<status, arrived>> BY <1>2 DEF Same
<1>3. ASSUME NEW r \in Requests, Submit(r) PROVE Same \/ Refused(r)
  BY <1>1, <1>3 DEF Submit, Same, Refused, StateOf, TypeOK
<1>4. ASSUME NEW r \in Requests, EnqueueTimeout(r) PROVE Refused(r)
  BY <1>1, <1>4 DEF EnqueueTimeout, Refused, StateOf, TypeOK
<1>5. ASSUME NEW s \in Shards, TakePacket(s) PROVE Same
  <2>1. PICK p \in Packets : p = Head(chanInPacket[s]) /\ p = chanInPacket[s][1] /\ 1 \in DOMAIN chanInPacket[s]
    BY <1>1, <1>5 DEF TakePacket, TypeOK
  <2>2. IsRequest(p) => p.req \in Requests /\ status[p.req] = "queued"
    BY <1>1, <2>1, PacketTypes DEF ChanInv, BelongsTo
  <2>3. arrived' = arrived /\ \A q \in Requests : status'[q] = status[q] \/ (status[q] = "queued" /\ status'[q] = "inhand")
    BY <1>1, <1>5, <2>1, <2>2 DEF TakePacket, TypeOK
  <2>4. QED BY <2>3 DEF Same, StateOf
<1>6. ASSUME NEW s \in Shards, QueueRequest(s) PROVE Same
  <2>1. inHand[s].req \in Requests /\ status[inHand[s].req] = "inhand"
    BY <1>1, <1>6, PacketTypes DEF QueueRequest, HandInv, BelongsTo, TypeOK
  <2>2. arrived' = arrived /\ \A q \in Requests : status'[q] = status[q] \/ (status[q] = "inhand" /\ status'[q] = "pending")
    BY <1>1, <1>6, <2>1 DEF QueueRequest, TypeOK
  <2>3. QED BY <2>2 DEF Same, StateOf
<1>7. ASSUME NEW s \in Shards, RejectRequest(s) PROVE \E r \in Requests : Refused(r)
  <2>1. PICK r \in Requests : r = inHand[s].req /\ status[r] = "inhand"
    BY <1>1, <1>7, PacketTypes DEF RejectRequest, HandInv, BelongsTo, TypeOK
  <2>2. PICK v \in Rejections : status' = [status EXCEPT ![r] = v]
    BY <1>7, <2>1 DEF RejectRequest, Rejection, Rejections
  <2>3. StateOf(v) = "refused" BY <2>2 DEF Rejections, StateOf
  <2>4. status'[r] = v /\ \A q \in Requests \ {r} : status'[q] = status[q]
    BY <1>1, <2>2 DEF TypeOK
  <2>5. Refused(r) BY <1>7, <2>1, <2>3, <2>4 DEF RejectRequest, Refused, StateOf
  <2>6. QED BY <2>5
<1>8. ASSUME NEW r \in Requests, DeadlinePasses(r) PROVE UNCHANGED <<status, arrived>>
  BY <1>8 DEF DeadlinePasses
<1>9. ASSUME NEW n \in net, ResponseArrives(n[1], n[2]) \/ ResponseLost(n[1], n[2])
      PROVE  UNCHANGED <<status, arrived>>
  BY <1>9 DEF ResponseArrives, ResponseLost
<1>10. ASSUME NEW s \in Shards, DispatchResponse(s) \/ DropResponse(s) \/ StopShard(s)
       PROVE  UNCHANGED <<status, arrived>>
  BY <1>10 DEF DispatchResponse, DropResponse, StopShard
<1>11. ASSUME NEW id \in Live, TransactionStep(id) PROVE UNCHANGED <<status, arrived>>
  BY <1>11 DEF TransactionStep, Call, CallFails, WaitRsp, WaitTimeout, HandlerReturns
<1>12. ASSUME Close PROVE UNCHANGED <<status, arrived>>
  BY <1>12 DEF Close, CloseBegins, CloseSignals, CloseEnds, CloseTimesOut
<1>13. ASSUME UNCHANGED vars PROVE UNCHANGED <<status, arrived>> BY <1>13 DEF vars
<1> QED
  BY <1>2, <1>3, <1>4, <1>5, <1>6, <1>7, <1>8, <1>9, <1>10, <1>11, <1>12, <1>13
     DEF Next, ProcessSSPacket, ShardStep

\* The request that a shard starts.
LEMMA StartState ==
    ASSUME IInv, NEW s \in Shards, StartTransaction(s)
    PROVE  \E r \in Requests : /\ r = inHand[s].req /\ status[r] = "inhand" /\ target[r] = s
                               /\ IsRequest(inHand[s]) /\ MayStart(s, r) /\ arrived' = arrived
                               /\ status' = [status EXCEPT ![r] = "started"]
<1>1. PICK r \in Requests : r = inHand[s].req
  BY PacketTypes DEF StartTransaction, IInv, TypeOK
<1> QED BY <1>1 DEF StartTransaction, IInv, HandInv, BelongsTo

LEMMA NextArrivedInv == ASSUME IInv, ArrivedInv, [Next]_vars PROVE ArrivedInv'
<1>1. TypeOK BY DEF IInv
<1>2. ASSUME arrived' = arrived,
             \A q \in Requests : StateOf(status[q]) # "new" => StateOf(status'[q]) # "new",
             \A q \in Requests : StateOf(status'[q]) = "waiting" => StateOf(status[q]) = "waiting"
      PROVE  ArrivedInv'
  <2>1. \A k \in Keys : \A i \in DOMAIN arrived[k] : arrived[k][i] \in Requests BY <1>1 DEF TypeOK
  <2>2. QED BY <1>2, <2>1 DEF ArrivedInv, HasArrived
<1>3. CASE Same BY <1>2, <1>3 DEF Same
<1>4. ASSUME NEW r \in Requests, Refused(r) PROVE ArrivedInv' BY <1>2, <1>4 DEF Refused
<1>5. ASSUME NEW r \in Requests, Enqueue(r) PROVE ArrivedInv'
  <2>1. \A q \in Requests : status'[q] = IF q = r THEN "queued" ELSE status[q]
    BY <1>1, <1>5 DEF Enqueue, TypeOK
  <2>2. \A q \in Requests : HasSerialKey(q) /\ StateOf(status'[q]) = "waiting" => HasArrived(q)'
    BY <1>1, <1>5, <2>1, EnqueueArrives DEF ArrivedInv
  <2>3. \A q \in Requests : StateOf(status[q]) # "new" => StateOf(status'[q]) # "new"
    BY <2>1 DEF StateOf
  <2>4. StateOf(status[r]) = "new" BY <1>5 DEF Enqueue, StateOf
  <2>5. ASSUME NEW k \in Keys, NEW i \in DOMAIN arrived'[k]
        PROVE  /\ SerialKey(arrived'[k][i]) = k
               /\ StateOf(status'[arrived'[k][i]]) # "new"
               /\ \A j \in DOMAIN arrived'[k] : arrived'[k][i] = arrived'[k][j] => i = j
    <3>0. PICK n \in Nat : n = Len(arrived[k]) /\ DOMAIN arrived[k] = 1 .. n BY <1>1 DEF TypeOK
    <3>1. \A m \in 1 .. n : arrived[k][m] \in Requests BY <1>1, <3>0 DEF TypeOK
    <3>2. CASE ~HasSerialKey(r) \/ k # SerialKey(r)
      <4>1. arrived'[k] = arrived[k] BY <1>1, <1>5, <3>2 DEF Enqueue, TypeOK
      <4>2. QED BY <2>3, <2>5, <3>0, <3>1, <4>1 DEF ArrivedInv
    <3>3. CASE HasSerialKey(r) /\ k = SerialKey(r)
      <4>1. arrived'[k] = Append(arrived[k], r) BY <1>1, <1>5, <3>3 DEF Enqueue, TypeOK
      <4>2. arrived[k] \in Seq(Requests) BY <1>1 DEF TypeOK
      <4>3. /\ DOMAIN arrived'[k] = 1 .. n + 1 /\ arrived'[k][n + 1] = r
            /\ \A m \in 1 .. n : arrived'[k][m] = arrived[k][m]
        BY <3>0, <4>1, <4>2
      <4>4. \A m \in 1 .. n + 1 : m \in 1 .. n \/ m = n + 1 BY <3>0
      <4>5. \A m \in 1 .. n : arrived[k][m] # r /\ SerialKey(arrived[k][m]) = k
                              /\ StateOf(status[arrived[k][m]]) # "new"
        BY <2>4, <3>0 DEF ArrivedInv
      <4>6. \A m \in 1 .. n + 1 : SerialKey(arrived'[k][m]) = k /\ StateOf(status'[arrived'[k][m]]) # "new"
        BY <2>1, <2>3, <3>1, <3>3, <4>3, <4>4, <4>5 DEF StateOf
      <4>7. \A l, m \in 1 .. n + 1 : arrived'[k][l] = arrived'[k][m] => l = m
        BY <3>0, <4>3, <4>4, <4>5 DEF ArrivedInv
      <4>8. QED BY <2>5, <4>3, <4>6, <4>7
    <3>4. QED BY <3>2, <3>3
  <2>6. QED BY <2>2, <2>5 DEF ArrivedInv
<1>6. ASSUME NEW s \in Shards, StartTransaction(s) PROVE ArrivedInv'
  <2>1. PICK r \in Requests : /\ status[r] = "inhand" /\ arrived' = arrived
                              /\ status' = [status EXCEPT ![r] = "started"]
    BY <1>6, StartState
  <2>2. \A q \in Requests : status'[q] = IF q = r THEN "started" ELSE status[q]
    BY <1>1, <2>1 DEF TypeOK
  <2>3. QED BY <1>2, <2>1, <2>2 DEF StateOf
<1>7. ASSUME NEW s \in Shards, FinishTransaction(s) PROVE ArrivedInv'
  <2>1. PICK r \in Requests : Released(s, r) /\ (NoneWaits(s, r) \/ \E h \in Requests : TakenOut(s, r, h))
    BY <1>7, FinishMoves
  <2>2. CASE NoneWaits(s, r)
    <3>1. \A q \in Requests : status'[q] = IF q = r THEN "done" ELSE status[q]
      BY <1>1, <2>2 DEF NoneWaits, TypeOK
    <3>2. QED BY <1>2, <2>1, <3>1 DEF Released, StateOf
  <2>3. ASSUME NEW h \in Requests, TakenOut(s, r, h) PROVE ArrivedInv'
    <3>1. \A q \in Requests : status'[q] = IF q = h THEN "inhand" ELSE IF q = r THEN "done" ELSE status[q]
      BY <2>3 DEF TakenOut
    <3>2. status[h] = "pending" BY <2>3 DEF TakenOut
    <3>3. QED BY <1>2, <2>1, <3>1, <3>2 DEF Released, StateOf
  <2>4. QED BY <2>1, <2>2, <2>3
<1> QED BY <1>3, <1>4, <1>5, <1>6, <1>7, NextStates

LEMMA NextQueuedInv == ASSUME IInv, QueuedInv, [Next]_vars PROVE QueuedInv'
<1>1. TypeOK BY DEF IInv
<1> DEFINE NewlyQueued(q) == status'[q] = "queued" /\ status[q] # "queued"
<1>2. \A q \in Requests : NewlyQueued(q) => Enqueue(q)
  <2> USE DEF mgrVars, shardVars
  <2>1. ASSUME NEW q \in Requests, NEW r \in Requests,
               Submit(r) \/ EnqueueTimeout(r) \/ DeadlinePasses(r) \/ (Enqueue(r) /\ r # q)
        PROVE  ~NewlyQueued(q)
    BY <1>1, <2>1 DEF Submit, EnqueueTimeout, DeadlinePasses, Enqueue, TypeOK
  <2>2. ASSUME NEW q \in Requests, NEW n \in net, ResponseArrives(n[1], n[2]) \/ ResponseLost(n[1], n[2])
        PROVE  ~NewlyQueued(q)
    BY <2>2 DEF ResponseArrives, ResponseLost
  <2>3. ASSUME NEW q \in Requests, NEW s \in Shards,
               \/ TakePacket(s) \/ StartTransaction(s) \/ QueueRequest(s)
               \/ DispatchResponse(s) \/ DropResponse(s) \/ StopShard(s)
        PROVE  ~NewlyQueued(q)
    <3>1. ASSUME NEW r, NEW v \in {"inhand", "started", "pending"}, status' = [status EXCEPT ![r] = v]
          PROVE  ~NewlyQueued(q)
      BY <1>1, <3>1 DEF TypeOK
    <3>2. CASE TakePacket(s) BY <3>1, <3>2 DEF TakePacket
    <3>3. CASE StartTransaction(s) BY <3>1, <3>3 DEF StartTransaction
    <3>4. CASE QueueRequest(s) BY <3>1, <3>4 DEF QueueRequest
    <3>5. CASE DispatchResponse(s) \/ DropResponse(s) \/ StopShard(s)
      BY <3>5 DEF DispatchResponse, DropResponse, StopShard
    <3>6. QED BY <2>3, <3>2, <3>3, <3>4, <3>5
  <2>4. ASSUME NEW q \in Requests, NEW s \in Shards, RejectRequest(s) PROVE ~NewlyQueued(q)
    BY <1>1, <2>4 DEF RejectRequest, Rejection, TypeOK
  <2>5. ASSUME NEW q \in Requests, NEW s \in Shards, FinishTransaction(s) PROVE ~NewlyQueued(q)
    <3>1. PICK r \in Requests : Released(s, r) /\ (NoneWaits(s, r) \/ \E h \in Requests : TakenOut(s, r, h))
      BY <2>5, FinishMoves
    <3>2. QED BY <1>1, <3>1 DEF NoneWaits, TakenOut, TypeOK
  <2>6. ASSUME NEW q \in Requests, NEW id \in Live, TransactionStep(id) PROVE ~NewlyQueued(q)
    BY <2>6 DEF TransactionStep, Call, CallFails, WaitRsp, WaitTimeout, HandlerReturns
  <2>7. ASSUME NEW q \in Requests, Close PROVE ~NewlyQueued(q)
    BY <2>7 DEF Close, CloseBegins, CloseSignals, CloseEnds, CloseTimesOut
  <2>8. ASSUME NEW q \in Requests, UNCHANGED vars PROVE ~NewlyQueued(q)
    BY <2>8 DEF vars
  <2> HIDE DEF NewlyQueued
  <2>9. QED BY <2>1, <2>2, <2>3, <2>4, <2>5, <2>6, <2>7, <2>8 DEF Next, ProcessSSPacket, ShardStep
<1>3. ASSUME NEW s \in Shards, NEW p \in Packets, chanInPacket' = [chanInPacket EXCEPT ![s] = Append(@, p)],
             \A q \in Requests : NewlyQueued(q) => q = p.req
      PROVE  QueuedInv'
  <2>1. /\ \A u \in Shards : u # s => chanInPacket'[u] = chanInPacket[u]
        /\ DOMAIN chanInPacket'[s] = DOMAIN chanInPacket[s] \cup {Len(chanInPacket[s]) + 1}
        /\ \A i \in DOMAIN chanInPacket[s] : chanInPacket'[s][i] = chanInPacket[s][i]
        /\ chanInPacket'[s][Len(chanInPacket[s]) + 1] = p
    BY <1>1, <1>3, AppendChan
  <2>2. \A q \in Requests : InSomeChannel(q) => InSomeChannel(q)' BY <2>1 DEF InSomeChannel
  <2>3. InSomeChannel(p.req)' BY <2>1 DEF InSomeChannel
  <2>4. QED BY <1>3, <2>2, <2>3 DEF QueuedInv
<1>4. ASSUME NEW r \in Requests, Enqueue(r) PROVE QueuedInv'
  <2>1. target[r] \in Shards /\ Request(r) \in Packets /\ Request(r).req = r
    BY <1>1, PacketTypes DEF TypeOK, Request
  <2>2. \A q \in Requests : NewlyQueued(q) => q = r BY <1>1, <1>4 DEF Enqueue, TypeOK
  <2>3. chanInPacket' = [chanInPacket EXCEPT ![target[r]] = Append(@, Request(r))] BY <1>4 DEF Enqueue
  <2>4. QED BY <1>3, <2>1, <2>2, <2>3
<1>5. ASSUME NEW n \in net, ResponseArrives(n[1], n[2]) PROVE QueuedInv'
  <2>1. n[1] - 1 \in Int /\ Response(n[1], n[2]) \in Packets BY <1>1, PacketTypes DEF TypeOK
  <2>2. ResponseShard(n[1]) \in Shards BY <2>1, ShardsType DEF ResponseShard
  <2>3. \A q \in Requests : ~NewlyQueued(q) BY <1>5 DEF ResponseArrives
  <2>4. QED BY <1>3, <1>5, <2>1, <2>2, <2>3 DEF ResponseArrives
<1>6. ASSUME NEW s \in Shards, TakePacket(s) PROVE QueuedInv'
  <2>1. PICK p \in Packets : p = Head(chanInPacket[s]) /\ p = chanInPacket[s][1]
    BY <1>1, <1>6 DEF TakePacket, TypeOK
  <2>2. chanInPacket[s] \in Seq(Packets) /\ chanInPacket[s] # <<>> BY <1>1, <1>6 DEF TakePacket, TypeOK
  <2>3. chanInPacket'[s] = Tail(chanInPacket[s]) /\ \A u \in Shards \ {s} : chanInPacket'[u] = chanInPacket[u]
    BY <1>1, <1>6 DEF TakePacket, TypeOK
  <2>4. ASSUME NEW q \in Requests, status'[q] = "queued" PROVE InSomeChannel(q)'
    <3>1. status[q] = "queued" /\ q # p.req
      BY <1>1, <1>6, <2>1, <2>4, RequestsAssumption DEF TakePacket, TypeOK, IsRequest
    <3>2. PICK u \in Shards : \E i \in DOMAIN chanInPacket[u] : chanInPacket[u][i].req = q
      BY <3>1 DEF QueuedInv, InSomeChannel
    <3>3. PICK i \in DOMAIN chanInPacket[u] : chanInPacket[u][i].req = q BY <3>2
    <3>4. CASE u # s BY <2>3, <3>3, <3>4 DEF InSomeChannel
    <3>5. CASE u = s
      <4>1. i - 1 \in DOMAIN chanInPacket'[s] /\ chanInPacket'[s][i - 1] = chanInPacket[s][i]
        BY <2>1, <2>2, <2>3, <3>1, <3>3, <3>5
      <4>2. QED BY <3>3, <3>5, <4>1 DEF InSomeChannel
    <3>6. QED BY <3>4, <3>5
  <2>5. QED BY <2>4 DEF QueuedInv
<1>7. CASE chanInPacket' = chanInPacket /\ \A q \in Requests : ~NewlyQueued(q)
  BY <1>7 DEF QueuedInv, InSomeChannel
<1>8. ASSUME NEW s \in Shards,
             \/ StartTransaction(s) \/ QueueRequest(s) \/ RejectRequest(s)
             \/ DispatchResponse(s) \/ DropResponse(s) \/ FinishTransaction(s)
      PROVE  chanInPacket' = chanInPacket
  BY <1>8 DEF StartTransaction, QueueRequest, RejectRequest, DispatchResponse, DropResponse, FinishTransaction
<1>9. Quiet => chanInPacket' = chanInPacket BY DEF Quiet
<1> HIDE DEF NewlyQueued
<1> QED BY <1>2, <1>4, <1>5, <1>6, <1>7, <1>8, <1>9, NextQuiet

LEMMA NextLineInv == ASSUME IInv, LineInv, NeverStranded, [Next]_vars PROVE LineInv'
<1>1. WhereInv' /\ QueuedInv' /\ ArrivedInv'
  BY NextWhereInv, NextQueuedInv, NextArrivedInv DEF LineInv
<1>2. \A s \in Shards, k \in Keys : Order(s, k)' BY NextOrder
<1> QED BY <1>1, <1>2 DEF LineInv

LEMMA InitLineInv == Init => LineInv
<1> SUFFICES ASSUME Init PROVE LineInv OBVIOUS
<1>1. WhereInv /\ QueuedInv /\ ArrivedInv
  BY DEF Init, WhereInv, QueuedInv, ArrivedInv, StateOf
<1>2. \A s \in Shards, k \in Keys : Order(s, k)
  BY DEF Init, Order, ChanOrder, PendOrder, PendFirst, HandFirst, HandOrder
<1> QED BY <1>1, <1>2 DEF LineInv
-----------------------------------------------------------------------------
(* Step simulation. *)

\* Whoever waits with the key of the request that starts stands behind it.
LEMMA StartsFirst ==
    ASSUME IInv, LineInv, NEW s \in Shards, NEW r \in Requests, r = inHand[s].req, IsRequest(inHand[s]),
           status[r] = "inhand", target[r] = s, MayStart(s, r), HasSerialKey(r),
           NEW q \in Requests, Earlier(q, r)
    PROVE  StateOf(status[q]) # "waiting"
<1>1. /\ TypeOK /\ TargetInv /\ ChanInv /\ HandInv /\ PendInv /\ WhereInv /\ QueuedInv /\ ArrivedInv
      /\ \A k \in Keys : Order(s, k)
  BY DEF IInv, LineInv
<1>2. PICK k \in Keys : k = SerialKey(r) /\ k \notin keyInProcess[s] /\ OfKey(inHand[s], k)
  BY KeysType DEF MayStart, MustWait, OfKey
<1>3. SerialKey(q) = k /\ HasSerialKey(q)
  <2>1. PICK j \in DOMAIN arrived[k] : \E i \in 1 .. j - 1 : arrived[k][i] = q
    BY <1>2 DEF Earlier
  <2>2. PICK i \in 1 .. j - 1 : arrived[k][i] = q BY <2>1
  <2>3. i \in DOMAIN arrived[k]
    <3>1. arrived[k] \in Seq(Requests) BY <1>1 DEF TypeOK
    <3>2. QED BY <2>1, <2>2, <3>1
  <2>4. SerialKey(q) = k BY <1>1, <2>2, <2>3 DEF ArrivedInv
  <2>5. QED BY <1>2, <2>4 DEF HasSerialKey
<1>4. ~Earlier(r, q) /\ q # r BY <1>1, <1>2, <1>3, EarlierIsStrict
<1>5. status[q] \notin {"new", "rejected_shutdown"} => target[q] = s
  BY <1>1, <1>2, <1>3 DEF TargetInv
<1>6. CASE status[q] = "queued"
  <2>1. PICK u \in Shards : \E i \in DOMAIN chanInPacket[u] : chanInPacket[u][i].req = q
    BY <1>1, <1>6 DEF QueuedInv, InSomeChannel
  <2>2. PICK i \in DOMAIN chanInPacket[u] : chanInPacket[u][i].req = q BY <2>1
  <2>3. u = s /\ OfKey(chanInPacket[s][i], k)
    BY <1>1, <1>3, <1>5, <1>6, <2>2, RequestsAssumption DEF ChanInv, BelongsTo, OfKey, IsRequest
  <2>4. Earlier(r, q) BY <1>1, <1>2, <2>2, <2>3 DEF Order, HandFirst
  <2>5. QED BY <1>4, <2>4
<1>7. CASE status[q] = "inhand"
  <2>1. PICK u \in Shards : inHand[u].req = q BY <1>1, <1>7 DEF WhereInv, InSomeHand
  <2>2. u = s BY <1>1, <1>5, <1>7, <2>1, RequestsAssumption DEF HandInv, BelongsTo, IsRequest
  <2>3. QED BY <1>4, <2>1, <2>2
<1>8. CASE status[q] = "pending"
  <2>1. PICK u \in Shards, l \in Keys : \E i \in DOMAIN pendingPackets[u][l] : pendingPackets[u][l][i] = q
    BY <1>1, <1>8 DEF WhereInv, Waits
  <2>2. PICK i \in DOMAIN pendingPackets[u][l] : pendingPackets[u][l][i] = q BY <2>1
  <2>3. u = s /\ l = k BY <1>1, <1>3, <1>5, <1>8, <2>2, PendingPlace
  <2>4. Earlier(r, q) BY <1>1, <1>2, <2>2, <2>3 DEF Order, HandOrder
  <2>5. QED BY <1>4, <2>4
<1> QED BY <1>6, <1>7, <1>8 DEF StateOf

\* The requests that run are those of the live transactions.
LEMMA RunningBound ==
    ASSUME IInv, WhereInv
    PROVE  /\ Cardinality({q \in Requests : status[q] = "started"}) = Cardinality(Live)
           /\ IsFiniteSet({q \in Requests : status[q] = "started"})
<1> DEFINE Running == {q \in Requests : status[q] = "started"}
           f == [id \in Live |-> transMap[id].req]
<1>1. TypeOK /\ OwnRequest /\ IsFiniteSet(Live) BY DEF IInv
<1>2. \A id \in Live : transMap[id].req \in Requests BY <1>1 DEF TypeOK, Transactions
<1>3. f \in [Live -> Running] BY <1>1, <1>2 DEF OwnRequest
<1>4. \A q \in Running : \E id \in Live : f[id] = q BY DEF WhereInv, Runs
<1>5. f \in Surjection(Live, Running) BY <1>3, <1>4 DEF Surjection
<1>6. f \in Injection(Live, Running) BY <1>1, <1>3 DEF OwnRequest, Injection, IsInjective
<1> HIDE DEF f, Running
<1>7. IsFiniteSet(Running) /\ Cardinality(Running) = Cardinality(Live)
  BY <1>1, <1>5, <1>6, FS_Surjection
<1> QED BY <1>7 DEF Running

LEMMA StartServes ==
    ASSUME IInv, LineInv, NEW s \in Shards, StartTransaction(s)
    PROVE  \E r \in Requests : Exec!Serve(r)
<1>1. TypeOK /\ TransInv /\ SlotsMatchTransactions /\ WhereInv /\ TargetInv /\ ArrivedInv
  BY DEF IInv, LineInv
<1>2. PICK r \in Requests : /\ r = inHand[s].req /\ status[r] = "inhand" /\ target[r] = s
                            /\ IsRequest(inHand[s]) /\ MayStart(s, r) /\ arrived' = arrived
                            /\ status' = [status EXCEPT ![r] = "started"]
  BY StartState
<1>3. \A q \in Exec!Before(r) : StateOf(status[q]) # "waiting"
  <2>1. CASE ~HasSerialKey(r) BY <2>1 DEF Exec!Before, HasSerialKey
  <2>2. CASE HasSerialKey(r)
    <3>1. \A q \in Exec!Before(r) : q \in Requests /\ Earlier(q, r)
      BY <2>2 DEF Exec!Before, HasSerialKey, Earlier
    <3>2. QED BY <1>2, <2>2, <3>1, StartsFirst
  <2>3. QED BY <2>1, <2>2
<1>4. Exec!Running = {q \in Requests : status[q] = "started"} BY DEF Exec!Running, StateOf
<1>5. ASSUME HasSerialKey(r), NEW q \in Requests, status[q] = "started", SerialKey(q) = SerialKey(r)
      PROVE  FALSE
  <2>1. PICK id \in Live : transMap[id].req = q BY <1>1, <1>5 DEF WhereInv, Runs
  <2>2. HasSerialKey(q) BY <1>5 DEF HasSerialKey
  <2>3. target[q] = transMap[id].shard /\ SerialKey(q) \in keyInProcess[transMap[id].shard]
    BY <1>1, <2>1, <2>2 DEF TransInv
  <2>4. target[q] = target[r] BY <1>1, <1>2, <1>5, <2>2 DEF TargetInv
  <2>5. QED BY <1>2, <1>5, <2>3, <2>4 DEF MayStart, MustWait
<1>6. Cardinality(Exec!Running) < MaxTrans
  BY <1>1, <1>2, <1>4, RunningBound DEF SlotsMatchTransactions, MayStart
<1>7. [q \in Requests |-> StateOf(status'[q])] =
         [[q \in Requests |-> StateOf(status[q])] EXCEPT ![r] = "running"]
  BY <1>1, <1>2 DEF TypeOK, StateOf
<1>8. StateOf(status[r]) = "waiting" BY <1>2 DEF StateOf
<1>9. SerialKey(r) # 0 => \A q \in Exec!Running : SerialKey(q) # SerialKey(r)
  BY <1>4, <1>5 DEF HasSerialKey
<1>10. Exec!Running \subseteq Requests BY <1>4
<1>11. [q \in Requests |-> SerialKey(q)][r] # 0 =>
          \A q \in Exec!Running : [p \in Requests |-> SerialKey(p)][q] # [p \in Requests |-> SerialKey(p)][r]
  BY <1>9, <1>10
<1>12. \A q \in Exec!Before(r) : q \in Requests BY DEF Exec!Before
<1>13. \A q \in Exec!Before(r) : [p \in Requests |-> StateOf(status[p])][q] # "waiting"
  BY <1>3, <1>12
<1>14. Exec!Cardinality(Exec!Running) = Cardinality(Exec!Running)
  BY DEF Exec!Cardinality, Cardinality
<1>15. Exec!Serve(r)
  BY <1>2, <1>6, <1>7, <1>8, <1>11, <1>13, <1>14 DEF Exec!Serve
<1> QED BY <1>15

LEMMA FinishFinishes ==
    ASSUME IInv, NEW s \in Shards, FinishTransaction(s)
    PROVE  \E r \in Requests : Exec!Finish(r)
<1>1. TypeOK BY DEF IInv
<1>2. PICK r \in Requests : Released(s, r) /\ (NoneWaits(s, r) \/ \E h \in Requests : TakenOut(s, r, h))
  BY FinishMoves
<1>3. status[r] = "started" /\ arrived' = arrived BY <1>2 DEF Released
<1>4. \A q \in Requests : StateOf(status'[q]) = IF q = r THEN "done" ELSE StateOf(status[q])
  <2>1. CASE NoneWaits(s, r)
    <3>1. \A q \in Requests : status'[q] = IF q = r THEN "done" ELSE status[q]
      BY <1>1, <2>1 DEF NoneWaits, TypeOK
    <3>2. QED BY <3>1 DEF StateOf
  <2>2. ASSUME NEW h \in Requests, TakenOut(s, r, h)
        PROVE  \A q \in Requests : StateOf(status'[q]) = IF q = r THEN "done" ELSE StateOf(status[q])
    <3>1. /\ \A q \in Requests : status'[q] = IF q = h THEN "inhand" ELSE IF q = r THEN "done" ELSE status[q]
          /\ status[h] = "pending"
      BY <2>2 DEF TakenOut
    <3>2. QED BY <1>3, <3>1 DEF StateOf
  <2>3. QED BY <1>2, <2>1, <2>2
<1>5. [q \in Requests |-> StateOf(status'[q])] =
         [[q \in Requests |-> StateOf(status[q])] EXCEPT ![r] = "done"]
  BY <1>4
<1>6. Exec!Finish(r) BY <1>3, <1>5 DEF Exec!Finish, StateOf
<1> QED BY <1>6

LEMMA StepImplements == ASSUME IInv, LineInv, [Next]_vars PROVE [Exec!Next]_(Exec!vars)
<1>1. TypeOK BY DEF IInv
<1>2. CASE Same
  <2>1. [q \in Requests |-> StateOf(status'[q])] = [q \in Requests |-> StateOf(status[q])]
    BY <1>2 DEF Same
  <2>2. QED BY <1>2, <2>1 DEF Same, Exec!vars
<1>3. ASSUME NEW r \in Requests, Refused(r) PROVE Exec!Refuse(r)
  <2>1. [q \in Requests |-> StateOf(status'[q])] =
           [[q \in Requests |-> StateOf(status[q])] EXCEPT ![r] = "refused"]
    <3>1. \A q \in Requests : StateOf(status'[q]) = IF q = r THEN "refused" ELSE StateOf(status[q])
      BY <1>3 DEF Refused
    <3>2. QED BY <3>1
  <2>2. QED BY <1>3, <2>1 DEF Exec!Refuse, Refused
<1>4. ASSUME NEW r \in Requests, Enqueue(r) PROVE Exec!Join(r)
  <2>1. [q \in Requests |-> StateOf(status'[q])] =
           [[q \in Requests |-> StateOf(status[q])] EXCEPT ![r] = "waiting"]
    BY <1>1, <1>4 DEF Enqueue, StateOf, TypeOK
  <2>2. QED BY <1>4, <2>1 DEF Exec!Join, Enqueue, StateOf, HasSerialKey
<1> QED BY <1>2, <1>3, <1>4, NextStates, StartServes, FinishFinishes DEF Exec!Next

LEMMA InitImplements == Init => Exec!Init
<1>1. Keys = Exec!Keys
  BY DEF Keys, Exec!Keys, HasSerialKey
<1> QED BY <1>1 DEF Init, Exec!Init, StateOf
-----------------------------------------------------------------------------
(* When requests are stranded. *)

\* A shard rejects the request that FinishTransaction took out of pendingPackets, and
\* others wait behind it: nobody takes these out before a later one of their key ends.
Strands(s) ==
    LET r == inHand[s].req
    IN  /\ RejectRequest(s)
        /\ HasSerialKey(r) /\ SerialKey(r) \notin keyInProcess[s]
        /\ pendingPackets[s][SerialKey(r)] # <<>>

LEMMA NextNeverStranded ==
    ASSUME IInv, NeverStranded, [Next]_vars, \A s \in Shards : ~Strands(s) PROVE NeverStranded'
<1>1. TypeOK BY DEF IInv
<1>2. CASE UNCHANGED <<inHand, pendingPackets, keyInProcess>>
  BY <1>2 DEF NeverStranded, OfKey, IsRequest
<1>3. ASSUME NEW s \in Shards, UNCHANGED <<pendingPackets, keyInProcess>>,
             \A u \in Shards \ {s} : inHand'[u] = inHand[u], ~IsRequest(inHand[s])
      PROVE  NeverStranded'
  BY <1>3 DEF NeverStranded, OfKey, IsRequest
<1>4. ASSUME NEW s \in Shards, TakePacket(s) \/ DispatchResponse(s) \/ DropResponse(s)
      PROVE  NeverStranded'
  <2>1. ~IsRequest(inHand[s])
    <3>1. CASE TakePacket(s) BY <3>1, PacketTypes DEF TakePacket, Idle
    <3>2. CASE DispatchResponse(s) \/ DropResponse(s)
      <4>1. IsResponse(inHand[s]) BY <3>2 DEF DispatchResponse, DropResponse
      <4>2. IsRequest(inHand[s]) => inHand[s] = Request(inHand[s].req) BY DEF IInv, HandInv, BelongsTo
      <4>3. QED BY <4>1, <4>2, PacketTypes DEF IsResponse, Request
    <3>3. QED BY <1>4, <3>1, <3>2
  <2>2. UNCHANGED <<pendingPackets, keyInProcess>> /\ \A u \in Shards \ {s} : inHand'[u] = inHand[u]
    BY <1>1, <1>4 DEF TakePacket, DispatchResponse, DropResponse, TypeOK
  <2>3. QED BY <1>3, <2>1, <2>2
<1>5. ASSUME NEW s \in Shards, StartTransaction(s) PROVE NeverStranded'
  <2>1. PICK r : r = inHand[s].req OBVIOUS
  <2>2. /\ UNCHANGED pendingPackets /\ inHand' = [inHand EXCEPT ![s] = NoPacket]
        /\ keyInProcess' = IF HasSerialKey(r) THEN [keyInProcess EXCEPT ![s] = @ \cup {SerialKey(r)}]
                           ELSE keyInProcess
    BY <1>5, <2>1 DEF StartTransaction
  <2>3. \A k \in Keys : OfKey(inHand[s], k) => k \in keyInProcess'[s]
    BY <1>1, <2>1, <2>2 DEF OfKey, Keys, HasSerialKey, TypeOK
  <2>4. \A u \in Shards, k \in Keys : k \in keyInProcess[u] => k \in keyInProcess'[u]
    BY <1>1, <2>2 DEF TypeOK
  <2>5. \A u \in Shards \ {s} : inHand'[u] = inHand[u] BY <1>1, <2>2 DEF TypeOK
  <2>6. QED BY <2>2, <2>3, <2>4, <2>5 DEF NeverStranded, OfKey, IsRequest
<1>6. ASSUME NEW s \in Shards, QueueRequest(s) PROVE NeverStranded'
  <2>1. PICK r : r = inHand[s].req OBVIOUS
  <2>2. SerialKey(r) \in keyInProcess[s]
    BY <1>6, <2>1 DEF QueueRequest, MayQueue, MustWait
  <2>3. /\ pendingPackets' = [pendingPackets EXCEPT ![s][SerialKey(r)] = Append(@, r)]
        /\ inHand' = [inHand EXCEPT ![s] = NoPacket] /\ UNCHANGED keyInProcess
    BY <1>6, <2>1 DEF QueueRequest
  <2>4. \A u \in Shards, k \in Keys :
            (u # s \/ k # SerialKey(r)) => pendingPackets'[u][k] = pendingPackets[u][k]
    BY <1>1, <2>3 DEF TypeOK
  <2>5. \A k \in Keys : OfKey(inHand[s], k) => k = SerialKey(r) BY <2>1 DEF OfKey
  <2>6. \A u \in Shards \ {s} : inHand'[u] = inHand[u] BY <1>1, <2>3 DEF TypeOK
  <2>7. QED BY <2>2, <2>3, <2>4, <2>5, <2>6 DEF NeverStranded, OfKey, IsRequest
<1>7. ASSUME NEW s \in Shards, RejectRequest(s) PROVE NeverStranded'
  <2>1. UNCHANGED <<pendingPackets, keyInProcess>> /\ inHand' = [inHand EXCEPT ![s] = NoPacket]
    BY <1>7 DEF RejectRequest
  <2>2. \A k \in Keys : OfKey(inHand[s], k) => k \in keyInProcess[s] \/ pendingPackets[s][k] = <<>>
    BY <1>7 DEF Strands, OfKey, Keys, HasSerialKey
  <2>3. \A u \in Shards \ {s} : inHand'[u] = inHand[u] BY <1>1, <2>1 DEF TypeOK
  <2>4. QED BY <2>1, <2>2, <2>3 DEF NeverStranded, OfKey, IsRequest
<1>8. ASSUME NEW s \in Shards, FinishTransaction(s) PROVE NeverStranded'
  <2>1. PICK r \in Requests : Released(s, r) /\ (NoneWaits(s, r) \/ \E h \in Requests : TakenOut(s, r, h))
    BY <1>8, FinishMoves
  <2>2. \A k \in Keys : ~OfKey(inHand[s], k) BY <2>1, PacketTypes DEF Released, OfKey
  <2>3. CASE NoneWaits(s, r)
    BY <2>1, <2>2, <2>3 DEF Released, NoneWaits, NeverStranded, OfKey, IsRequest, Keys, HasSerialKey
  <2>4. ASSUME NEW h \in Requests, TakenOut(s, r, h) PROVE NeverStranded'
    <3>1. OfKey(inHand[s], SerialKey(r))'
      BY <2>4, PacketTypes DEF TakenOut, OfKey, Request, IsRequest
    <3>2. QED BY <2>1, <2>2, <3>1 DEF Released, NeverStranded, OfKey, IsRequest
  <2>5. QED BY <2>1, <2>3, <2>4
<1>9. ASSUME NEW r \in Requests, Enqueue(r) PROVE NeverStranded'
  BY <1>2, <1>9 DEF Enqueue, shardVars
<1>10. ASSUME NEW n \in net, ResponseArrives(n[1], n[2]) PROVE NeverStranded'
  BY <1>2, <1>10 DEF ResponseArrives, shardVars
<1>11. CASE Quiet BY <1>2, <1>11 DEF Quiet
<1> QED BY <1>4, <1>5, <1>6, <1>7, <1>8, <1>9, <1>10, <1>11, NextQuiet

\* Requests with a key have a handler and no deadline, and a slot is free for each one that
\* leaves pendingPackets: there is one shard, or there are as many slots as requests.
Orderly ==
    /\ \A r \in Requests : HasSerialKey(r) => r \in Registered \ HasDeadline
    /\ ShardCount = 1 \/ Cardinality(Requests) <= MaxTrans

\* The slot that FinishTransaction gave back is still free.
SlotFree ==
    \A s \in Shards, k \in Keys :
        (OfKey(inHand[s], k) /\ k \notin keyInProcess[s] /\ pendingPackets[s][k] # <<>>)
            => activeTransactions < MaxTrans

\* With a slot for each request every one of them finds one.
LEMMA SlotForEach ==
    ASSUME IInv, WhereInv, NEW s \in Shards, IsRequest(inHand[s]), Cardinality(Requests) <= MaxTrans
    PROVE  activeTransactions < MaxTrans
<1> DEFINE Running == {q \in Requests : status[q] = "started"}
<1>1. inHand[s].req \in Requests \ Running
  BY PacketTypes DEF IInv, TypeOK, HandInv, BelongsTo
<1>2. Cardinality(Running) <= Cardinality(Requests) /\ Running # Requests
  BY <1>1, FS_Subset, RequestsAssumption
<1>3. Cardinality(Running) # Cardinality(Requests)
  BY <1>2, FS_Subset, RequestsAssumption
<1>4. Cardinality(Running) = activeTransactions BY RunningBound DEF IInv, SlotsMatchTransactions
<1>5. Cardinality(Requests) \in Nat /\ activeTransactions \in Int
  BY FS_CardinalityType, RequestsAssumption DEF IInv, TypeOK
<1> QED BY <1>2, <1>3, <1>4, <1>5, ConfigAssumption

\* With one shard nobody can take that slot in between.
LEMMA NextSlotFree ==
    ASSUME ShardCount = 1, IInv, NeverStranded, SlotFree, [Next]_vars PROVE SlotFree'
<1>1. TypeOK /\ SlotsMatchTransactions BY DEF IInv
<1>2. Shards = {0} BY DEF Shards
<1>3. ASSUME UNCHANGED <<inHand, pendingPackets, keyInProcess, activeTransactions>> PROVE SlotFree'
  BY <1>3 DEF SlotFree, OfKey, IsRequest
<1>4. ASSUME NEW s \in Shards,
             \/ StartTransaction(s) \/ QueueRequest(s) \/ RejectRequest(s)
             \/ DispatchResponse(s) \/ DropResponse(s)
      PROVE  SlotFree'
  <2>1. inHand' = [inHand EXCEPT ![s] = NoPacket]
    BY <1>4 DEF StartTransaction, QueueRequest, RejectRequest, DispatchResponse, DropResponse
  <2>2. \A u \in Shards : inHand'[u] = NoPacket BY <1>1, <1>2, <2>1 DEF TypeOK
  <2>3. QED BY <2>2, PacketTypes DEF SlotFree, OfKey, IsRequest
<1>5. ASSUME NEW s \in Shards, TakePacket(s) PROVE SlotFree'
  <2>1. \A k \in Keys : ~OfKey(inHand[s], k) BY <1>5, PacketTypes DEF TakePacket, Idle, OfKey
  <2>2. \A k \in Keys : k \in keyInProcess[s] \/ pendingPackets[s][k] = <<>>
    BY <2>1 DEF NeverStranded
  <2>3. UNCHANGED <<keyInProcess, pendingPackets>> BY <1>5 DEF TakePacket
  <2>4. QED BY <1>2, <2>2, <2>3 DEF SlotFree
<1>6. ASSUME NEW s \in Shards, FinishTransaction(s) PROVE SlotFree'
  <2>1. activeTransactions' = activeTransactions - 1 BY <1>6 DEF FinishTransaction
  <2>2. activeTransactions' < MaxTrans
    BY <1>1, <2>1, ConfigAssumption DEF TypeOK, SlotsMatchTransactions
  <2>3. QED BY <2>2 DEF SlotFree
<1>7. ASSUME NEW r \in Requests, Enqueue(r) PROVE SlotFree' BY <1>3, <1>7 DEF Enqueue, shardVars
<1>8. ASSUME NEW n \in net, ResponseArrives(n[1], n[2]) PROVE SlotFree'
  BY <1>3, <1>8 DEF ResponseArrives, shardVars
<1>9. CASE Quiet BY <1>3, <1>9 DEF Quiet
<1> QED BY <1>4, <1>5, <1>6, <1>7, <1>8, <1>9, NextQuiet

LEMMA OrderlyNeverStrands ==
    ASSUME Orderly, IInv, WhereInv, ShardCount = 1 => SlotFree, NEW s \in Shards
    PROVE  ~Strands(s)
<1> SUFFICES ASSUME Strands(s) PROVE FALSE OBVIOUS
<1>1. PICK r \in Requests : r = inHand[s].req
  BY PacketTypes DEF Strands, RejectRequest, IInv, TypeOK
<1>2. /\ IsRequest(inHand[s]) /\ HasSerialKey(r) /\ SerialKey(r) \notin keyInProcess[s]
      /\ pendingPackets[s][SerialKey(r)] # <<>> /\ ~MayStart(s, r)
  BY <1>1 DEF Strands, RejectRequest
<1>3. r \notin expired /\ r \in Registered BY <1>2 DEF Orderly, IInv, TypeOK
<1>4. ~MustWait(s, r) BY <1>2 DEF MustWait
<1>5. activeTransactions >= MaxTrans
  BY <1>2, <1>3, <1>4, ConfigAssumption DEF MayStart, IInv, TypeOK
<1>6. activeTransactions < MaxTrans
  <2>1. CASE ShardCount = 1
    <3>1. SerialKey(r) \in Keys /\ OfKey(inHand[s], SerialKey(r)) BY <1>1, <1>2, KeysType DEF OfKey
    <3>2. QED BY <1>2, <2>1, <3>1 DEF SlotFree
  <2>2. CASE Cardinality(Requests) <= MaxTrans BY <1>2, <2>2, SlotForEach
  <2>3. QED BY <2>1, <2>2 DEF Orderly
<1> QED BY <1>5, <1>6, ConfigAssumption DEF IInv, TypeOK

LEMMA InitNeverStranded == Init => NeverStranded /\ SlotFree
  BY DEF Init, NeverStranded, SlotFree
-----------------------------------------------------------------------------
\* Requests of a key are left behind in pendingPackets, with no transaction to take them
\* out, only when processSSPacket rejects the one that processTransactionRet passed to it.
THEOREM StrandedByRejection ==
    Spec => [][NeverStranded /\ ~NeverStranded' => \E s \in Shards : Strands(s)]_vars
<1>1. IInv /\ [Next]_vars => [NeverStranded /\ ~NeverStranded' => \E s \in Shards : Strands(s)]_vars
  BY NextNeverStranded
<1> QED BY <1>1, Invariance, PTL DEF Spec

\* As long as nobody is left behind the sharded manager is an Executor: it runs the
\* requests of a key one at a time and in the order of arrival (transaction_mgr_impl.go,
\* processSSPacket and processTransactionRet), whatever the shards, limits and requests.
THEOREM ImplementsUntilStranded == Spec /\ []NeverStranded => Exec!Spec
<1>1. Init => Exec!Init BY InitImplements
<1>2. IInv /\ LineInv /\ [Next]_vars => [Exec!Next]_(Exec!vars) BY StepImplements
<1>3. Init => LineInv BY InitLineInv
<1>4. IInv /\ LineInv /\ NeverStranded /\ [Next]_vars => LineInv' BY NextLineInv
<1> QED BY <1>1, <1>2, <1>3, <1>4, Invariance, PTL DEF Spec, Exec!Spec

\* In an orderly configuration nobody is left behind.
THEOREM OrderlyIsNeverStranded == ASSUME Orderly PROVE Spec => []NeverStranded
<1>1. Init => WhereInv /\ NeverStranded /\ (ShardCount = 1 => SlotFree)
  BY InitNeverStranded, InitLineInv DEF LineInv
<1>2. IInv /\ WhereInv /\ NeverStranded /\ (ShardCount = 1 => SlotFree) /\ [Next]_vars
         => (WhereInv /\ NeverStranded /\ (ShardCount = 1 => SlotFree))'
  BY NextWhereInv, NextNeverStranded, NextSlotFree, OrderlyNeverStrands
<1> QED BY <1>1, <1>2, Invariance, PTL DEF Spec

\* In an orderly configuration the manager implements the Executor.
THEOREM ImplementsTheExecutor == ASSUME Orderly PROVE Spec => ImplementsExecutor
  BY OrderlyIsNeverStranded, ImplementsUntilStranded, PTL DEF ImplementsExecutor
=============================================================================
