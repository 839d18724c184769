---------------------------- MODULE MCRoomCenter ----------------------------
(* Values for the constants of RoomCenter. *)
EXTENDS RoomCenter

CONSTANT p1

AllLow == [p \in Players |-> 1]
SameStageAndCoin == {<<1, 1>>}
=============================================================================
