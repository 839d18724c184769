------------------------------ MODULE Inflight ------------------------------
(***************************************************************************)
(* The in-flight limit of SSRPC: AdmissionMiddleware takes a slot of the   *)
(* AdmissionController before the handler and gives it back after it.  A   *)
(* slot is two counters, the global one and that of the method, which are  *)
(* taken and given back one after the other.  Each compare-and-swap loop   *)
(* is one step.                                                            *)
(***************************************************************************)
EXTENDS Integers, FiniteSets

CONSTANTS
    Calls,
    MethodOf,       \* call -> method
    MaxInflight,    \* 0: no limit
    MaxPerMethod    \* method -> limit, 0: none

VARIABLES
    mode,           \* OverloadMode; off does here what shadow does
    inflight,
    methodInflight,
    call            \* call -> where it is

vars == <<mode, inflight, methodInflight, call>>

Methods == {MethodOf[c] : c \in Calls}
Places == {"new", "method", "undo", "handler", "unslotted", "leave", "leaveGlobal", "done", "rejected"}

TypeOK ==
    /\ mode \in {"shadow", "enforce"}
    /\ inflight \in Int
    /\ methodInflight \in [Methods -> Nat]
    /\ call \in [Calls -> Places]

Init ==
    /\ mode \in {"shadow", "enforce"}
    /\ inflight = 0 /\ methodInflight = [m \in Methods |-> 0]
    /\ call = [c \in Calls |-> "new"]
-----------------------------------------------------------------------------
Goto(c, place) == call' = [call EXCEPT ![c] = place]
MethodLimit(c) == MaxPerMethod[MethodOf[c]]

\* admitOrReject: only enforce refuses.  Otherwise the handler runs, and the slot
\* that was not taken is given back after it.
Refuse(c) == Goto(c, IF mode = "enforce" THEN "rejected" ELSE "unslotted")

\* A call that neither limit is about takes no slot.
AcquireGlobal(c) ==
    /\ call[c] = "new"
    /\ MaxInflight > 0 \/ MethodLimit(c) > 0
    /\ IF MaxInflight > 0 /\ inflight >= MaxInflight
       THEN Refuse(c) /\ UNCHANGED inflight
       ELSE Goto(c, "method") /\ inflight' = inflight + 1
    /\ UNCHANGED <<mode, methodInflight>>

AcquireMethod(c) ==
    /\ call[c] = "method"
    /\ IF MethodLimit(c) > 0 /\ methodInflight[MethodOf[c]] >= MethodLimit(c)
       THEN Goto(c, "undo") /\ UNCHANGED methodInflight
       ELSE /\ Goto(c, "handler")
            /\ methodInflight' = IF MethodLimit(c) = 0 THEN methodInflight
                                 ELSE [methodInflight EXCEPT ![MethodOf[c]] = @ + 1]
    /\ UNCHANGED <<mode, inflight>>

\* mutant of GivenBack: the method is full and the global slot is kept.
Kept == inflight

GivenBack == inflight - 1

UndoGlobal(c) ==
    /\ call[c] = "undo"
    /\ inflight' = GivenBack
    /\ Refuse(c)
    /\ UNCHANGED <<mode, methodInflight>>

HandlerReturns(c) ==
    /\ call[c] \in {"handler", "unslotted"}
    /\ Goto(c, "leave")
    /\ UNCHANGED <<mode, inflight, methodInflight>>

Less(n) == IF n > 0 THEN n - 1 ELSE n

ReleaseMethod(c) ==
    /\ call[c] = "leave" /\ Goto(c, "leaveGlobal")
    /\ methodInflight' = [methodInflight EXCEPT ![MethodOf[c]] = Less(@)]
    /\ UNCHANGED <<mode, inflight>>

ReleaseGlobal(c) ==
    /\ call[c] = "leaveGlobal" /\ Goto(c, "done")
    /\ inflight' = Less(inflight)
    /\ UNCHANGED <<mode, methodInflight>>

Next == \E c \in Calls :
    \/ AcquireGlobal(c) \/ AcquireMethod(c) \/ UndoGlobal(c)
    \/ HandlerReturns(c) \/ ReleaseMethod(c) \/ ReleaseGlobal(c)

Spec == Init /\ [][Next]_vars
-----------------------------------------------------------------------------
(* Properties. *)

At(places) == {c \in Calls : call[c] \in places}
HoldsGlobal == At({"method", "undo", "handler", "leave", "leaveGlobal"})
HoldsMethod(m) == {c \in At({"handler", "leave"}) : MethodOf[c] = m /\ MethodLimit(c) > 0}

\* Under enforce the counters are the calls that hold slots, whichever of them
\* is full and however calls that were refused half way overlap with others: no
\* slot leaks and neither limit is exceeded.
InflightCounted == mode = "enforce" =>
    /\ inflight = Cardinality(HoldsGlobal)
    /\ MaxInflight > 0 => inflight <= MaxInflight
    /\ \A m \in Methods :
        /\ methodInflight[m] = Cardinality(HoldsMethod(m))
        /\ MaxPerMethod[m] > 0 => methodInflight[m] <= MaxPerMethod[m]

\* No call is on its way into a handler or out of it.
Settled == At({"method", "undo", "leave", "leaveGlobal"}) = {}

\* What the comments claim of every mode (admission.go:28-29, 274-275): shadow
\* refuses nothing but counts as enforce does, so the counters are the calls that
\* took slots and have not given them back.
CountsStayCorrect == Settled =>
    /\ inflight = Cardinality(At({"handler"}))
    /\ \A m \in Methods : methodInflight[m] = Cardinality(HoldsMethod(m))
=============================================================================
