-------------------------- MODULE MCTransactionMgr --------------------------
(* Instances of TransactionMgr for TLC. *)
EXTENDS TransactionMgr, TLC

CONSTANTS r1, r2, r3, r4

\* r1 and r2 have one key, r3 has another one on the other shard, through
\* RouterID or through Uid; r4 has none and takes a shard
\* in turn.
AllRequests == {r1, r2, r3, r4}
MixedRouterID == (r1 :> 2) @@ (r2 :> 0) @@ (r3 :> 3) @@ (r4 :> 0)
MixedUid      == (r1 :> 7) @@ (r2 :> 2) @@ (r3 :> 8) @@ (r4 :> 0)
MixedCalls    == (r1 :> 2) @@ (r2 :> 0) @@ (r3 :> 1) @@ (r4 :> 0)

\* Requests of one key.
KeyRouterID == (r1 :> 2) @@ (r2 :> 0) @@ (r3 :> 2) @@ (r4 :> 2)
KeyUid      == (r1 :> 7) @@ (r2 :> 2) @@ (r3 :> 8) @@ (r4 :> 9)
NoCall      == [r \in AllRequests |-> 0]

\* The same for three of them.
ThreeRequests == {r1, r2, r3}
ThreeRouterID == [r \in ThreeRequests |-> KeyRouterID[r]]
ThreeUid      == [r \in ThreeRequests |-> KeyUid[r]]
ThreeNoCall   == [r \in ThreeRequests |-> 0]
=============================================================================
