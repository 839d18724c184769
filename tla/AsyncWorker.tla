----------------------------- MODULE AsyncWorker -----------------------------
(***************************************************************************)
(* One worker of lib/service/async: goroutines push tasks on a lock-free   *)
(* queue with many producers and one consumer, and the worker, woken by a  *)
(* channel of one place, runs them until it is stopped.  A push is six     *)
(* steps, and a stop may come between any two of them.                     *)
(***************************************************************************)
EXTENDS Integers, Sequences, SequencesExt, Functions

CONSTANTS
    Tasks,          \* each is pushed once, by a goroutine of its own
    Capacity

VARIABLES
    status,
    order,      \* the tasks in the order of the swaps of Queue.tail
    linked,     \* tasks that the node before them points to
    count,      \* of the queue
    popped,     \* how many nodes the head has passed
    token,      \* the channel pushCh
    push,       \* task -> where its PushE is, or how it ended
    worker,     \* where run is
    ran,        \* tasks that were run
    stop,       \* where the first Stop is
    accepted,   \* tasks whose PushE had returned nil when Stop began
    racing      \* tasks whose PushE had looked at the status by then, and no more

vars == <<status, order, linked, count, popped, token, push, worker, ran, stop, accepted, racing>>
queueVars == <<order, linked, count>>
stopVars == <<stop, accepted, racing>>

Pending == {"check", "swap", "link", "count", "notify"}

TypeOK ==
    /\ status \in {"STOP", "RUN", "QUIESCE"}
    /\ order \in Seq(Tasks) /\ IsInjective(order) /\ linked \subseteq ToSet(order)
    /\ count \in Int
    /\ popped \in 0 .. Len(order) /\ ran \subseteq ToSet(SubSeq(order, 1, popped))
    /\ token \in BOOLEAN
    /\ push \in [Tasks -> Pending \cup {"idle", "accepted", "rejected"}]
    /\ worker \in {"off", "select", "pop", "run", "lastPop", "lastRun", "gone"}
    /\ stop \in {"idle", "send", "wait", "done"}
    /\ accepted \subseteq Tasks /\ racing \subseteq Tasks

Init ==
    /\ status = "STOP"
    /\ order = <<>> /\ linked = {} /\ count = 0 /\ popped = 0
    /\ token = FALSE
    /\ push = [t \in Tasks |-> "idle"]
    /\ worker = "off" /\ ran = {}
    /\ stop = "idle" /\ accepted = {} /\ racing = {}
-----------------------------------------------------------------------------
(* PushE. *)

Goto(t, place) == push' = [push EXCEPT ![t] = place]

LoadStatus(t) ==
    /\ push[t] = "idle"
    /\ Goto(t, IF status = "RUN" THEN "check" ELSE "rejected")
    /\ UNCHANGED <<status, queueVars, popped, token, worker, ran, stopVars>>

LoadCount(t) ==
    /\ push[t] = "check"
    /\ Goto(t, IF count >= Capacity THEN "rejected" ELSE "swap")
    /\ UNCHANGED <<status, queueVars, popped, token, worker, ran, stopVars>>

SwapTail(t) ==
    /\ push[t] = "swap" /\ Goto(t, "link")
    /\ order' = Append(order, t)
    /\ UNCHANGED <<status, linked, count, popped, token, worker, ran, stopVars>>

LinkNode(t) ==
    /\ push[t] = "link" /\ Goto(t, "count")
    /\ linked' = linked \cup {t}
    /\ UNCHANGED <<status, order, count, popped, token, worker, ran, stopVars>>

AddCount(t) ==
    /\ push[t] = "count" /\ Goto(t, "notify")
    /\ count' = count + 1
    /\ UNCHANGED <<status, order, linked, popped, token, worker, ran, stopVars>>

Notify(t) ==
    /\ push[t] = "notify" /\ Goto(t, "accepted")
    /\ token' = TRUE
    /\ UNCHANGED <<status, queueVars, popped, worker, ran, stopVars>>
-----------------------------------------------------------------------------
(* The worker. *)

\* Pop finds a node when the one at the head points to it: a task that is linked
\* behind one that is not cannot be reached yet.
Reachable == popped < Len(order) /\ order[popped + 1] \in linked

\* Bound: a worker is started once.  Start would also take a worker that Stop has
\* stopped, or is stopping, as the status is STOP by then; component.go starts each
\* worker once, before any Stop, and that is what is modelled.
Start ==
    /\ status = "STOP" /\ worker = "off"
    /\ status' = "RUN" /\ worker' = "select"
    /\ UNCHANGED <<queueVars, popped, token, push, ran, stopVars>>

TakeToken ==
    /\ worker = "select" /\ token
    /\ token' = FALSE /\ worker' = "pop"
    /\ UNCHANGED <<status, queueVars, popped, push, ran, stopVars>>

TakeExit ==
    /\ worker = "select" /\ stop = "send"
    /\ worker' = "lastPop" /\ stop' = "wait"
    /\ UNCHANGED <<status, queueVars, popped, token, push, ran, accepted, racing>>

Pop ==
    /\ worker \in {"pop", "lastPop"}
    /\ IF Reachable
       THEN /\ count' = count - 1
            /\ popped' = popped + 1
            /\ worker' = IF worker = "pop" THEN "run" ELSE "lastRun"
       ELSE /\ worker' = IF worker = "pop" THEN "select" ELSE "gone"
            /\ UNCHANGED <<count, popped>>
    /\ UNCHANGED <<status, order, linked, token, push, ran, stopVars>>

\* mutant of AfterRun: the exit runs one more task and not the rest.
AfterRunGone == IF worker = "run" THEN "pop" ELSE "gone"

\* The loop goes on until the queue is empty.
AfterRun == IF worker = "run" THEN "pop" ELSE "lastPop"

RunTask ==
    /\ worker \in {"run", "lastRun"}
    /\ ran' = ran \cup {order[popped]}
    /\ worker' = AfterRun
    /\ UNCHANGED <<status, queueVars, popped, token, push, stopVars>>
-----------------------------------------------------------------------------
(* Quiesce and Stop. *)

Quiesce ==
    /\ status = "RUN" /\ status' = "QUIESCE"
    /\ UNCHANGED <<queueVars, popped, token, push, worker, ran, stopVars>>

StopBegins ==
    /\ status \in {"RUN", "QUIESCE"} /\ status' = "STOP"
    /\ stop' = "send"
    /\ accepted' = {t \in Tasks : push[t] = "accepted"}
    /\ racing' = {t \in Tasks : push[t] \in Pending}
    /\ UNCHANGED <<queueVars, popped, token, push, worker, ran>>

StopEnds ==
    /\ stop = "wait" /\ worker = "gone"
    /\ stop' = "done"
    /\ UNCHANGED <<status, queueVars, popped, token, push, worker, ran, accepted, racing>>

Push(t) ==
    LoadStatus(t) \/ LoadCount(t) \/ SwapTail(t) \/ LinkNode(t) \/ AddCount(t) \/ Notify(t)

PushGoesOn(t) == LoadCount(t) \/ SwapTail(t) \/ LinkNode(t) \/ AddCount(t) \/ Notify(t)

WorkerGoesOn == TakeToken \/ TakeExit \/ Pop \/ RunTask

Next ==
    \/ \E t \in Tasks : Push(t)
    \/ Start \/ WorkerGoesOn
    \/ Quiesce \/ StopBegins \/ StopEnds

\* A goroutine that has begun to push goes on, and so does the worker; tasks end.
Fairness ==
    /\ \A t \in Tasks : WF_vars(PushGoesOn(t))
    /\ WF_vars(WorkerGoesOn \/ StopEnds)

Spec == Init /\ [][Next]_vars /\ Fairness
-----------------------------------------------------------------------------
(* Properties. *)

\* No wake-up is lost: in the end every task whose push has ended is run.  And Stop
\* returns, wherever the worker was, with every accepted task run; only when no
\* push was half done as it began, since behind a node that is not linked yet the
\* worker finds nothing, and leaves accepted tasks there.
AcceptedIsRun ==
    <>[](IF stop = "idle"
         THEN \A t \in Tasks : push[t] = "accepted" => t \in ran
         ELSE stop = "done" /\ (racing = {} => accepted \subseteq ran))
=============================================================================
