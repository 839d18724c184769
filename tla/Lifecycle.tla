----------------------------- MODULE Lifecycle -----------------------------
(***************************************************************************)
(* The application lifecycle of lib/service/runtime: App.Run (run.go), the *)
(* signal dispatcher (signal.go), the StateStore (state.go) and Allocate   *)
(* (app.go).                                                               *)
(*                                                                         *)
(* Goroutines: Run; the startup supervisor that owns termCh until the      *)
(* components are started; awaitRunReason, which owns it afterwards; the   *)
(* signal dispatcher; and callers of Allocate.  A state transition holds   *)
(* transitionMu while the observers run.                                   *)
(***************************************************************************)
EXTENDS Integers

CONSTANTS
    N,            \* components, in registration order 1 .. N
    Callers,      \* goroutines that call Allocate, once each
    MaxSignals,   \* bound: termination signals that the process gets
    MaxReloads,   \* bound: reload signals that the process gets
    Free, Run     \* transitionMu is free, is held by Run

ASSUME LifecycleAssumption ==
    /\ N \in Nat /\ MaxSignals \in Nat /\ MaxReloads \in Nat
    /\ Free \notin Callers /\ Run \notin Callers /\ Free # Run

Components == 1 .. N

VARIABLES
    state,           \* StateStore.current
    transitionMu,
    runPc, next,     \* Run's position, and the component it is at
    comp,            \* component -> how far it got
    failed,          \* Run has an error to return
    drainCause,      \* why drainCtx is done
    sent, raw, count, termCh, secondCh,   \* termination signals
    reloads, reloadCh,
    parentDone,      \* Run's context is done
    cancelled,       \* signalCancel was called
    startupDone, supervisor,
    awaiter, reasonCh, runtimeErrCh,
    allocate         \* caller -> its position in Allocate

runVars    == <<runPc, next, comp, failed>>
sigVars    == <<sent, raw, count, termCh, secondCh, reloads, reloadCh>>
startVars  == <<parentDone, cancelled, startupDone, supervisor>>
serveVars  == <<awaiter, reasonCh, runtimeErrCh>>
storeVars  == <<state, transitionMu>>
vars == <<storeVars, runVars, drainCause, sigVars, startVars, serveVars, allocate>>

States == {"starting", "ready", "allocated", "draining", "stopping", "stopped", "failed"}
RunPcs == {"load", "start", "cause", "ready", "readyObs", "serve", "drain", "drainObs",
           "quiesce", "drainEach", "drainEnd", "stopObs", "stop", "rollback", "final",
           "finalObs", "returned"}

\* Mutant: an allocated App may not drain.
noDrainFromAllocated ==
    [starting |-> {"ready", "failed", "stopping"},
     ready |-> {"allocated", "draining", "failed", "stopping"},
     allocated |-> {"failed", "stopping"},
     draining |-> {"stopping", "failed"},
     stopping |-> {"stopped", "failed"},
     stopped |-> {}, failed |-> {}]

legalTransitions ==
    [starting |-> {"ready", "failed", "stopping"},
     ready |-> {"allocated", "draining", "failed", "stopping"},
     allocated |-> {"draining", "failed", "stopping"},
     draining |-> {"stopping", "failed"},
     stopping |-> {"stopped", "failed"},
     stopped |-> {}, failed |-> {}]

Init ==
    /\ state = "starting" /\ transitionMu = Free
    /\ runPc = "load" /\ next = 1
    /\ comp = [c \in Components |-> "new"]
    /\ failed = FALSE /\ drainCause = "none"
    /\ sent = 0 /\ raw = FALSE /\ count = 0 /\ termCh = FALSE /\ secondCh = FALSE
    /\ reloads = 0 /\ reloadCh = FALSE
    /\ parentDone = FALSE /\ cancelled = FALSE
    /\ startupDone = FALSE /\ supervisor = "waiting"
    /\ awaiter = "none" /\ reasonCh = "none" /\ runtimeErrCh = FALSE
    /\ allocate = [a \in Callers |-> "called"]
-----------------------------------------------------------------------------
(* Startup. *)

Goto(p) == runPc' = p

LoadConfig ==
    /\ runPc = "load"
    /\ \/ Goto("start") /\ UNCHANGED <<failed, startupDone>>
       \/ Goto("final") /\ failed' = TRUE /\ startupDone' = TRUE
    /\ UNCHANGED <<next, comp, storeVars, drainCause, sigVars, parentDone, cancelled, supervisor,
                   serveVars, allocate>>

\* One Start; the component may or may not heed its context.
StartComponent ==
    /\ runPc = "start" /\ next <= N
    /\ \/ /\ comp' = [comp EXCEPT ![next] = "started"]
          /\ next' = next + 1
          /\ UNCHANGED <<runPc, failed, startupDone>>
       \/ /\ comp' = [comp EXCEPT ![next] = "start_failed"]
          /\ next' = next - 1
          /\ failed' = TRUE /\ startupDone' = TRUE
          /\ Goto("rollback")
    /\ UNCHANGED <<storeVars, drainCause, sigVars, parentDone, cancelled, supervisor, serveVars,
                   allocate>>

CloseStartupDone ==
    /\ runPc = "start" /\ next > N
    /\ startupDone' = TRUE
    /\ next' = N
    /\ Goto("cause")
    /\ UNCHANGED <<comp, failed, storeVars, drainCause, sigVars, parentDone, cancelled,
                   supervisor, serveVars, allocate>>

\* context.Cause(signalCtx).
InterruptedBySignal == cancelled     \* mutant: a done parent context is overlooked
Interrupted == cancelled \/ parentDone
CheckCause ==
    /\ runPc = "cause"
    /\ Goto(IF Interrupted THEN "rollback" ELSE "ready")
    /\ failed' = Interrupted
    /\ UNCHANGED <<next, comp, storeVars, drainCause, sigVars, startVars, serveVars, allocate>>

\* The goroutine that listens to termCh during startup.
SuperviseStartup ==
    /\ \/ /\ supervisor = "waiting" /\ termCh
          /\ termCh' = FALSE /\ supervisor' = "took"
          /\ UNCHANGED cancelled
       \/ /\ supervisor = "took"
          /\ cancelled' = TRUE /\ supervisor' = "exited"
          /\ UNCHANGED termCh
       \/ /\ supervisor = "waiting" /\ startupDone
          /\ supervisor' = "exited"
          /\ UNCHANGED <<cancelled, termCh>>
    /\ UNCHANGED <<storeVars, runVars, drainCause, sent, raw, count, secondCh, reloads,
                   reloadCh, parentDone, startupDone, serveVars, allocate>>
-----------------------------------------------------------------------------
(* State transitions.  To Ready and to Allocated the state follows the      *)
(* observers, which may refuse; to the others it precedes them.             *)

Unlock == transitionMu' = Free

EnterReady ==
    /\ runPc = "ready" /\ transitionMu = Free
    /\ transitionMu' = Run
    /\ Goto("readyObs")
    /\ UNCHANGED <<state, next, comp, failed, drainCause, sigVars, startVars, serveVars, allocate>>

ReadyObserved ==
    /\ runPc = "readyObs"
    /\ Unlock
    /\ \/ state' = "ready" /\ Goto("serve") /\ awaiter' = "waiting" /\ UNCHANGED failed
       \/ failed' = TRUE /\ Goto("rollback") /\ UNCHANGED <<state, awaiter>>
    /\ UNCHANGED <<next, comp, drainCause, sigVars, startVars, reasonCh, runtimeErrCh, allocate>>

\* transition to a shutdown state; an illegal one is ignored by its callers.
Shutdown(from, to, then) ==
    /\ runPc = from /\ transitionMu = Free
    /\ IF to \in legalTransitions[state]
       THEN state' = to /\ transitionMu' = Run
       ELSE UNCHANGED <<state, transitionMu>>
    /\ Goto(then)
    /\ UNCHANGED <<next, comp, failed, drainCause, sigVars, startVars, serveVars, allocate>>

\* Mutants: the mutex is kept; the index is not set back for the next pass, is
\* set to the first component, or runs on.
ObservedAs(at, then, mutex, index) ==
    /\ runPc = at /\ transitionMu' = mutex /\ Goto(then) /\ next' = index
    /\ UNCHANGED <<state, comp, failed, drainCause, sigVars, startVars, serveVars, allocate>>
ObservedLocked(at, then)  == ObservedAs(at, then, transitionMu, N)
ObservedNoReset(at, then) == ObservedAs(at, then, Free, next)
ObservedFirst(at, then)   == ObservedAs(at, then, Free, 1)
ObservedRunsOn(at, then)  == ObservedAs(at, then, Free, next - 1)

Observed(at, then) ==
    /\ runPc = at
    /\ Unlock
    /\ Goto(then)
    /\ next' = N
    /\ UNCHANGED <<state, comp, failed, drainCause, sigVars, startVars, serveVars, allocate>>

EnterDraining == Shutdown("drain", "draining", "drainObs")
DrainObserved == Observed("drainObs", "quiesce")
EnterStopping == Shutdown("drainEnd", "stopping", "stopObs")
StopObserved  == Observed("stopObs", "stop")
MarkEnd       == Shutdown("final", IF failed THEN "failed" ELSE "stopped", "finalObs")
EndObserved   == Observed("finalObs", "returned")

\* Allocate: a first look without the mutex, then the transition.
AllocateReads(a) ==
    /\ allocate[a] = "called"
    /\ allocate' = [allocate EXCEPT ![a] =
                       CASE state = "ready" -> "transition"
                         [] state = "allocated" -> "ok"
                         [] OTHER -> "error"]
    /\ UNCHANGED <<storeVars, runVars, drainCause, sigVars, startVars, serveVars>>

\* Mutant: the transition relies on that first look.
AllocateUnchecked(a) ==
    /\ allocate[a] = "transition" /\ transitionMu = Free
    /\ transitionMu' = a /\ allocate' = [allocate EXCEPT ![a] = "observing"]
    /\ UNCHANGED <<state, runVars, drainCause, sigVars, startVars, serveVars>>

AllocateLocks(a) ==
    /\ allocate[a] = "transition" /\ transitionMu = Free
    /\ IF "allocated" \in legalTransitions[state]
       THEN transitionMu' = a /\ allocate' = [allocate EXCEPT ![a] = "observing"]
       ELSE allocate' = [allocate EXCEPT ![a] = "error"] /\ UNCHANGED transitionMu
    /\ UNCHANGED <<state, runVars, drainCause, sigVars, startVars, serveVars>>

AllocateObserved(a) ==
    /\ allocate[a] = "observing"
    /\ Unlock
    /\ \/ state' = "allocated" /\ allocate' = [allocate EXCEPT ![a] = "ok"]
       \/ allocate' = [allocate EXCEPT ![a] = "error"] /\ UNCHANGED state
    /\ UNCHANGED <<runVars, drainCause, sigVars, startVars, serveVars>>
-----------------------------------------------------------------------------
(* serveReady. *)

\* awaitRunReason, in a goroutine of its own.
AwaitRunReason ==
    /\ awaiter = "waiting"
    /\ \/ parentDone /\ reasonCh' = "ctx_done" /\ UNCHANGED <<termCh, reloadCh>>
       \/ termCh /\ reasonCh' = "terminated" /\ termCh' = FALSE /\ UNCHANGED reloadCh
       \/ reloadCh /\ reasonCh' = "reload" /\ reloadCh' = FALSE /\ UNCHANGED termCh
    /\ awaiter' = "none"
    /\ UNCHANGED <<storeVars, runVars, drainCause, sent, raw, count, secondCh, reloads, startVars,
                   runtimeErrCh, allocate>>

ServeReady ==
    /\ runPc = "serve"
    /\ \/ /\ runtimeErrCh
          /\ runtimeErrCh' = FALSE
          /\ failed' = TRUE
          /\ Goto("drain")
          /\ UNCHANGED <<reasonCh, awaiter>>
       \/ /\ reasonCh = "reload"
          /\ reasonCh' = "none" /\ awaiter' = "waiting"
          /\ UNCHANGED <<runPc, failed, runtimeErrCh>>
       \/ /\ reasonCh \in {"terminated", "ctx_done"}
          /\ reasonCh' = "none"
          /\ Goto("drain")
          /\ UNCHANGED <<failed, awaiter, runtimeErrCh>>
    /\ UNCHANGED <<next, comp, storeVars, drainCause, sigVars, startVars, allocate>>
-----------------------------------------------------------------------------
(* drainComponents and stopComponents, in reverse order. *)

Result(ok) == failed' = (failed \/ ~ok)

QuiesceComponent ==
    /\ runPc = "quiesce"
    /\ IF next = 0
       THEN Goto("drainEach") /\ next' = N /\ UNCHANGED <<comp, failed>>
       ELSE /\ comp' = [comp EXCEPT ![next] = "quiesced"]
            /\ next' = next - 1
            /\ \E ok \in BOOLEAN : Result(ok)
            /\ UNCHANGED runPc
    /\ UNCHANGED <<storeVars, drainCause, sigVars, startVars, serveVars, allocate>>

\* After the last Drain the cause of drainCtx is an error, too.
DrainComponent ==
    /\ runPc = "drainEach"
    /\ IF next = 0
       THEN Goto("drainEnd") /\ Result(drainCause = "none") /\ UNCHANGED <<comp, next>>
       ELSE /\ comp' = [comp EXCEPT ![next] = "drained"]
            /\ next' = next - 1
            /\ \E ok \in BOOLEAN : Result(ok)
            /\ UNCHANGED runPc
    /\ UNCHANGED <<storeVars, drainCause, sigVars, startVars, serveVars, allocate>>

DrainCtxDone ==
    /\ runPc \in {"quiesce", "drainEach"} /\ drainCause = "none"
    /\ \/ drainCause' = "timeout"
       \/ secondCh /\ drainCause' = "escalated"
    /\ UNCHANGED <<storeVars, runVars, sigVars, startVars, serveVars, allocate>>

\* stopComponents; its end after a failed startup, and after a drain.
StopComponent ==
    /\ runPc \in {"stop", "rollback"}
    /\ IF next = 0
       THEN Goto("final") /\ UNCHANGED <<comp, next, failed>>
       ELSE /\ comp' = [comp EXCEPT ![next] = "stopped"]
            /\ next' = next - 1
            /\ \E ok \in BOOLEAN : Result(ok)
            /\ UNCHANGED runPc
    /\ UNCHANGED <<storeVars, drainCause, sigVars, startVars, serveVars, allocate>>
-----------------------------------------------------------------------------
(* Signals, the parent context, and runtime errors. *)

\* raw holds one signal; further ones are dropped.
Signal ==
    /\ sent < MaxSignals /\ runPc # "returned"
    /\ sent' = sent + 1
    /\ raw' = TRUE
    /\ UNCHANGED <<storeVars, runVars, drainCause, count, termCh, secondCh, reloads, reloadCh,
                   startVars, serveVars, allocate>>

Dispatch ==
    /\ raw /\ runPc # "returned"
    /\ raw' = FALSE
    /\ count' = count + 1
    /\ termCh' = (termCh \/ count = 0)
    /\ secondCh' = (secondCh \/ count > 0)
    /\ UNCHANGED <<storeVars, runVars, drainCause, sent, reloads, reloadCh, startVars, serveVars, allocate>>

ReloadSignal ==
    /\ reloads < MaxReloads /\ runPc # "returned"
    /\ reloads' = reloads + 1
    /\ reloadCh' = TRUE
    /\ UNCHANGED <<storeVars, runVars, drainCause, sent, raw, count, termCh, secondCh, startVars,
                   serveVars, allocate>>

CancelParent ==
    /\ ~parentDone /\ runPc # "returned"
    /\ parentDone' = TRUE
    /\ UNCHANGED <<storeVars, runVars, drainCause, sigVars, cancelled, startupDone, supervisor,
                   serveVars, allocate>>

\* A component's RuntimeErrors, through its watcher.
RuntimeError ==
    /\ runPc = "serve" /\ ~runtimeErrCh
    /\ runtimeErrCh' = TRUE
    /\ UNCHANGED <<storeVars, runVars, drainCause, sigVars, startVars, awaiter, reasonCh, allocate>>
-----------------------------------------------------------------------------
Startup  == LoadConfig \/ StartComponent \/ CloseStartupDone \/ CheckCause \/ EnterReady \/ ReadyObserved
Draining == EnterDraining \/ DrainObserved \/ QuiesceComponent \/ DrainComponent
Stopping == EnterStopping \/ StopObserved \/ StopComponent \/ MarkEnd \/ EndObserved
RunStep  == Startup \/ ServeReady \/ Draining \/ Stopping

Allocate(a) == AllocateReads(a) \/ AllocateLocks(a) \/ AllocateObserved(a)

Environment == Signal \/ ReloadSignal \/ CancelParent \/ RuntimeError \/ DrainCtxDone

Next ==
    \/ RunStep \/ SuperviseStartup \/ AwaitRunReason \/ Dispatch
    \/ \E a \in Callers : Allocate(a)
    \/ Environment

Spec == Init /\ [][Next]_vars

(* Every goroutine runs; components return from Start, Quiesce, Drain and Stop, *)
(* as their contexts make them.  Signals, errors and reloads need not come.    *)
Fairness ==
    /\ WF_vars(RunStep) /\ WF_vars(SuperviseStartup) /\ WF_vars(AwaitRunReason) /\ WF_vars(Dispatch)
    /\ \A a \in Callers : WF_vars(Allocate(a))

FairSpec == Spec /\ Fairness
-----------------------------------------------------------------------------
(* Properties. *)

TypeOK ==
    /\ state \in States
    /\ transitionMu \in Callers \cup {Free, Run}
    /\ runPc \in RunPcs /\ next \in 0 .. N + 1
    /\ comp \in [Components -> {"new", "started", "start_failed", "quiesced", "drained", "stopped"}]
    /\ failed \in BOOLEAN
    /\ drainCause \in {"none", "timeout", "escalated"}
    /\ sent \in Nat /\ count \in Nat /\ reloads \in Nat
    /\ {raw, termCh, secondCh, reloadCh, parentDone, cancelled, startupDone, runtimeErrCh} \subseteq BOOLEAN
    /\ supervisor \in {"waiting", "took", "exited"}
    /\ awaiter \in {"none", "waiting"}
    /\ reasonCh \in {"none", "terminated", "ctx_done", "reload"}
    /\ allocate \in [Callers -> {"called", "transition", "observing", "ok", "error"}]

Serving == {"ready", "allocated"}
Ended   == {"stopped", "failed"}

\* Serving ends for good: no observer or Allocate that decided earlier brings the
\* state back after Draining (state.go, transitionMu), and an end is final.
NeverBack ==
    [][/\ state \notin Serving \cup {"starting"} => state' \notin Serving
       /\ state \in Ended => state' = state]_vars

\* While the store says Ready or Allocated every component is started and none
\* is being quiesced, drained or stopped (readyz, run.go).
ReadyMeansStarted ==
    state \in Serving => \A c \in Components : comp[c] = "started"

\* Start and Stop nest: a component is stopped only if all that started after it
\* are stopped already, and one whose Start failed is never stopped.
StopInReverse ==
    \A c, d \in Components : (c < d /\ comp[c] = "stopped") =>
        comp[d] \in {"stopped", "new", "start_failed"}

\* Run returns with everything it started stopped, in an end state, and the
\* state is "stopped" only when it has no error to return.
ReturnedMeansEnded ==
    runPc = "returned" =>
        /\ \A c \in Components : comp[c] \notin {"started", "quiesced", "drained"}
        /\ state = IF failed THEN "failed" ELSE "stopped"
        /\ transitionMu # Run

\* A startup that was cancelled never serves (run.go, the cause check).
InterruptedStartFails ==
    ((cancelled \/ parentDone) /\ runPc \in {"load", "start", "cause"}) ~> (runPc = "returned" /\ state = "failed")

\* Once the supervisor has handed termCh over, a termination signal, the parent
\* context or a runtime error ends the run.
StopRequestEndsRun ==
    (\/ runPc = "serve" /\ (parentDone \/ runtimeErrCh)
     \/ runPc = "serve" /\ termCh /\ supervisor = "exited") ~> (runPc = "returned")

\* Refuted: every termination signal ends the run (run.go, step 4 of Run).
SignalEndsRun == (sent > 0) ~> (runPc = "returned")
=============================================================================
