------------------------------ MODULE TimeWheel ------------------------------
(***************************************************************************)
(* The hierarchical timing wheel of lib/util/timer: layers of slots, each  *)
(* layer a full turn of the one below.  Time is counted in ticks.  A timer *)
(* is its key: one at a time, which the code asks of its callers.  Adding  *)
(* and removing go through channels of their own, so that they may         *)
(* overtake each other.                                                    *)
(***************************************************************************)
EXTENDS Integers, Sequences, FiniteSetsExt

CONSTANTS
    Timers,
    SlotNum,        \* slots of a layer
    LayerNum,
    Delays,
    AddBuffer, RemoveBuffer,    \* capacities of the channels
    MaxElapsed                  \* bound: the ticks that are explored

VARIABLES
    state,      \* of the wheel
    elapsed,
    curPos,     \* layer -> its pointer
    loc,        \* timer -> its layer and slot, or Nowhere
    expiration,
    addCh, removeCh,
    cancelled   \* keys removed while nothing was found under them

vars == <<state, elapsed, curPos, loc, expiration, addCh, removeCh, cancelled>>

Layers == 0 .. LayerNum - 1
Nowhere == <<-1, -1>>
Places == Layers \X (0 .. SlotNum - 1)

InWheel(t) == loc[t] # Nowhere
InChannel(t) == \E i \in DOMAIN addCh : addCh[i] = t

TypeOK ==
    /\ state \in {"new", "running", "stopped"}
    /\ elapsed \in 0 .. MaxElapsed
    /\ curPos \in [Layers -> 0 .. SlotNum - 1]
    /\ loc \in [Timers -> Places \cup {Nowhere}]
    /\ expiration \in [Timers -> Nat]
    /\ addCh \in Seq(Timers) /\ Len(addCh) <= AddBuffer
    /\ removeCh \in Seq(Timers) /\ Len(removeCh) <= RemoveBuffer
    /\ cancelled \subseteq Timers

Init ==
    /\ state = "new" /\ elapsed = 0
    /\ curPos = [i \in Layers |-> 0]
    /\ loc = [t \in Timers |-> Nowhere]
    /\ expiration = [t \in Timers |-> 0]
    /\ addCh = <<>> /\ removeCh = <<>>
    /\ cancelled = {}
-----------------------------------------------------------------------------
(* The callers.  A full channel refuses, which changes nothing. *)

AddTimer(t, delay) ==
    /\ state # "stopped"
    /\ ~InWheel(t) /\ ~InChannel(t)
    /\ Len(addCh) < AddBuffer
    /\ expiration' = [expiration EXCEPT ![t] = elapsed + delay]
    /\ addCh' = Append(addCh, t)
    /\ UNCHANGED <<state, elapsed, curPos, loc, removeCh, cancelled>>

RemoveTimer(t) ==
    /\ state # "stopped"
    /\ Len(removeCh) < RemoveBuffer
    /\ removeCh' = Append(removeCh, t)
    /\ UNCHANGED <<state, elapsed, curPos, loc, expiration, addCh, cancelled>>

Start ==
    /\ state = "new" /\ state' = "running"
    /\ UNCHANGED <<elapsed, curPos, loc, expiration, addCh, removeCh, cancelled>>

Stop ==
    /\ state = "running" /\ state' = "stopped"
    /\ UNCHANGED <<elapsed, curPos, loc, expiration, addCh, removeCh, cancelled>>
-----------------------------------------------------------------------------
(* Placing. *)

\* buildLayers: a slot stands for the whole of the layer below.
PerSlot[i \in Layers] == IF i = 0 THEN 1 ELSE PerSlot[i - 1] * SlotNum
LayerCapacity(i) == PerSlot[i] * SlotNum

\* scheduleIn: the first layer that can express the delay, or the highest allowed.
LayerFor(remaining, maxIdx) ==
    Min({i \in 0 .. maxIdx : LayerCapacity(i) > remaining} \cup {maxIdx})

\* mutant of SlotFor: the slot is counted from zero, not from the pointer.
SlotForFromZero(remaining, i, pos) == (remaining \div PerSlot[i]) % SlotNum

SlotFor(remaining, i, pos) == (pos[i] + remaining \div PerSlot[i]) % SlotNum

PlaceFor(remaining, maxIdx, pos) ==
    LET i == LayerFor(remaining, maxIdx) IN <<i, SlotFor(remaining, i, pos)>>

\* A timer that is late when it arrives is run at once, whatever its mark says.
Schedule ==
    LET t == Head(addCh)
        remaining == expiration[t] - elapsed
    IN  /\ state = "running" /\ addCh # <<>>
        /\ addCh' = Tail(addCh)
        /\ IF remaining <= 0
           THEN UNCHANGED <<loc, cancelled>>
           ELSE /\ loc' = IF t \in cancelled THEN loc
                          ELSE [loc EXCEPT ![t] = PlaceFor(remaining, LayerNum - 1, curPos)]
                /\ cancelled' = cancelled \ {t}
        /\ expiration' = IF loc'[t] = Nowhere THEN [expiration EXCEPT ![t] = 0] ELSE expiration
        /\ UNCHANGED <<state, elapsed, curPos, removeCh>>

\* A key that is not in a slot is marked, for the timer that is still to come.
RemoveByKey ==
    LET t == Head(removeCh)
    IN  /\ state = "running" /\ removeCh # <<>>
        /\ removeCh' = Tail(removeCh)
        /\ IF InWheel(t)
           THEN /\ loc' = [loc EXCEPT ![t] = Nowhere]
                /\ expiration' = [expiration EXCEPT ![t] = 0]
                /\ cancelled' = cancelled \ {t}
           ELSE /\ cancelled' = cancelled \cup {t}
                /\ UNCHANGED <<loc, expiration>>
        /\ UNCHANGED <<state, elapsed, curPos, addCh>>
-----------------------------------------------------------------------------
(* The tick: it runs the slot under each pointer that moves, and after the *)
(* last of them takes the timers of the higher layers' new slots down.     *)

\* A pointer moves when all those below return to zero.
Moves(i) == \A j \in 0 .. i - 1 : curPos[j] = SlotNum - 1

NextPos == [i \in Layers |-> IF Moves(i) THEN (curPos[i] + 1) % SlotNum ELSE curPos[i]]

\* runSlot: the timers that are due.
RunsNow(t) ==
    /\ InWheel(t)
    /\ Moves(loc[t][1]) /\ loc[t][2] = curPos[loc[t][1]]
    /\ expiration[t] <= elapsed + 1

FallsNow(t) ==
    /\ InWheel(t) /\ ~RunsNow(t)
    /\ loc[t][1] > 0 /\ Moves(loc[t][1]) /\ loc[t][2] = NextPos[loc[t][1]]

\* cascadeDown, from one layer to the next until the timer rests.
CascadeDown(t) ==
    LET remaining == Max({0, expiration[t] - (elapsed + 1)})
        fall[maxIdx \in Layers] ==
            LET p == PlaceFor(remaining, maxIdx, NextPos)
            IN  IF p[1] > 0 /\ p[2] = NextPos[p[1]] THEN fall[p[1] - 1] ELSE p
    IN  fall[loc[t][1] - 1]

Advance ==
    /\ state = "running" /\ elapsed < MaxElapsed
    /\ elapsed' = elapsed + 1
    /\ curPos' = NextPos
    /\ loc' = [t \in Timers |->
          CASE RunsNow(t) -> Nowhere
            [] FallsNow(t) -> IF t \in cancelled THEN Nowhere ELSE CascadeDown(t)
            [] OTHER -> loc[t]]
    /\ expiration' = [t \in Timers |->
          IF InWheel(t) /\ loc'[t] = Nowhere THEN 0 ELSE expiration[t]]
    /\ cancelled' = {t \in cancelled : ~RunsNow(t) /\ ~FallsNow(t)}
    /\ UNCHANGED <<state, addCh, removeCh>>

Next ==
    \/ \E t \in Timers : RemoveTimer(t) \/ \E delay \in Delays : AddTimer(t, delay)
    \/ Start \/ Stop
    \/ Schedule \/ RemoveByKey \/ Advance

Spec == Init /\ [][Next]_vars
-----------------------------------------------------------------------------
(* Properties. *)

\* No timer is overdue in the wheel after a tick: whatever its delay, the layer it
\* was put on, the pointers at that time and the cascades it went through, it is
\* run in the tick after its expiration, also when its delay is longer than a turn
\* of the highest layer.
FiresOnTime == \A t \in Timers : InWheel(t) => elapsed <= expiration[t]
=============================================================================
