----------------------------- MODULE MCGateway -----------------------------
(* Instances of Gateway for TLC. *)
EXTENDS Gateway, TLC

CONSTANTS c1, c2, c3, u1, u2

AllWs == [c \in Conns |-> "ws"]

\* Every client keeps to one uid.
OneUid == Conns \X {u1}

\* c1 and c2 are TCP connections of u1; c3 is a WS connection of u2.
MixedTransport == (c1 :> "tcp") @@ (c2 :> "tcp") @@ (c3 :> "ws")
MixedLogins    == {<<c1, u1>>, <<c2, u1>>, <<c3, u2>>}

Interchangeable == Permutations(Conns)
=============================================================================
