--------------------------- MODULE LifecycleProofs ---------------------------
(***************************************************************************)
(* Proofs for Lifecycle, for any number of components, callers of Allocate *)
(* and signals.                                                            *)
(*                                                                         *)
(* The inductive invariant says, for each position of Run, what state the  *)
(* store is in and how far each component got, and who holds transitionMu. *)
(***************************************************************************)
EXTENDS Lifecycle, TLAPS

\* Components up to n are at one point, those behind it at another.
UpTo(n, done, rest) == \A c \in Components : comp[c] = IF c <= n THEN done ELSE rest

Over == {"stopped", "new", "start_failed"}
AllOver == \A c \in Components : comp[c] \in Over

\* Before Ready, and while the components that were started are rolled back.
StartupPart ==
    /\ runPc \in {"load", "start", "cause", "ready", "readyObs"} => state = "starting" /\ ~failed
    /\ runPc = "load" => next = 1 /\ UpTo(N, "new", "new")
    /\ runPc = "start" => next \in 1 .. N + 1 /\ UpTo(next - 1, "started", "new")
    /\ runPc \in {"cause", "ready", "readyObs"} => next = N /\ UpTo(N, "started", "new")
    /\ runPc = "rollback" =>
        /\ state = "starting" /\ failed /\ next \in 0 .. N
        /\ \A c \in Components : IF c <= next THEN comp[c] = "started" ELSE comp[c] \in Over

ServePart ==
    /\ runPc \in {"serve", "drain"} => state \in Serving
    /\ runPc = "drainObs" => state = "draining"
    /\ runPc \in {"serve", "drain", "drainObs"} => next = N /\ UpTo(N, "started", "new")

StopPart ==
    /\ runPc \in {"quiesce", "drainEach", "drainEnd"} => state = "draining" /\ next \in 0 .. N
    /\ runPc = "quiesce" => UpTo(next, "started", "quiesced")
    /\ runPc = "drainEach" => UpTo(next, "quiesced", "drained")
    /\ runPc \in {"drainEnd", "stopObs"} => UpTo(0, "quiesced", "drained")
    /\ runPc \in {"stopObs", "stop"} => state = "stopping" /\ next \in 0 .. N
    /\ runPc = "stop" => UpTo(next, "drained", "stopped")
    /\ runPc \in {"final", "finalObs", "returned"} => AllOver
    /\ runPc = "final" => state \in {"starting", "stopping"} /\ (state = "starting" => failed)
    /\ runPc \in {"finalObs", "returned"} => state = IF failed THEN "failed" ELSE "stopped"

\* The store does not change under an observer of Allocate.
MutexPart ==
    /\ (transitionMu = Run) <=> (runPc \in {"readyObs", "drainObs", "stopObs", "finalObs"})
    /\ \A a \in Callers : allocate[a] = "observing" <=> transitionMu = a
    /\ transitionMu \in Callers => state = "ready"

\* The inductive invariant: each part fixes, for some positions of Run, what the others leave open.
IInv == TypeOK /\ StartupPart /\ ServePart /\ StopPart /\ MutexPart

\* A function stays in its type when a value of the type replaces one of its values.
LEMMA Update == ASSUME NEW S, NEW T, NEW f \in [S -> T], NEW x, NEW v \in T
                PROVE  [f EXCEPT ![x] = v] \in [S -> T]
  OBVIOUS

-----------------------------------------------------------------------------
(* Run: one lemma per action. *)

LEMMA LoadConfigStep == ASSUME IInv, LoadConfig PROVE IInv'
<1> USE LifecycleAssumption DEF IInv, LoadConfig, Goto, storeVars, sigVars, startVars, serveVars, runVars
<1>1. TypeOK' BY DEF TypeOK, StartupPart, StopPart, Components, States, RunPcs
<1>2. StartupPart' BY DEF TypeOK, StartupPart, ServePart, StopPart, UpTo, Over, Components
<1>3. ServePart' BY DEF TypeOK, StartupPart, ServePart, UpTo, Serving, Components
<1>4. StopPart' BY DEF TypeOK, StartupPart, ServePart, StopPart, UpTo, Over, AllOver, Serving, Components
<1>5. MutexPart' BY DEF TypeOK, StartupPart, ServePart, StopPart, MutexPart
<1> QED BY <1>1, <1>2, <1>3, <1>4, <1>5

LEMMA StartComponentStep == ASSUME IInv, StartComponent PROVE IInv'
<1> USE LifecycleAssumption DEF IInv, StartComponent, Goto, storeVars, sigVars, startVars, serveVars, runVars
<1>1. TypeOK'
  <2>1. comp' \in [Components -> {"new", "started", "start_failed", "quiesced", "drained", "stopped"}]
    BY Update DEF TypeOK
  <2>2. next' \in 0 .. N + 1 BY DEF TypeOK, StartupPart, StopPart
  <2>3. failed' \in BOOLEAN BY DEF TypeOK
  <2>4. QED BY <2>1, <2>2, <2>3 DEF TypeOK, RunPcs
<1>2. StartupPart' BY DEF TypeOK, StartupPart, ServePart, StopPart, UpTo, Over, Components
<1>3. ServePart' BY DEF TypeOK, StartupPart, ServePart, UpTo, Serving, Components
<1>4. StopPart' BY DEF TypeOK, StartupPart, ServePart, StopPart, UpTo, Over, AllOver, Serving, Components
<1>5. MutexPart' BY DEF TypeOK, StartupPart, ServePart, StopPart, MutexPart
<1> QED BY <1>1, <1>2, <1>3, <1>4, <1>5

LEMMA CloseStartupDoneStep == ASSUME IInv, CloseStartupDone PROVE IInv'
<1> USE LifecycleAssumption DEF IInv, CloseStartupDone, Goto, storeVars, sigVars, startVars, serveVars, runVars
<1>1. TypeOK' BY DEF TypeOK, StartupPart, StopPart, Components, States, RunPcs
<1>2. StartupPart' BY DEF TypeOK, StartupPart, ServePart, StopPart, UpTo, Over, Components
<1>3. ServePart' BY DEF TypeOK, StartupPart, ServePart, UpTo, Serving, Components
<1>4. StopPart' BY DEF TypeOK, StartupPart, ServePart, StopPart, UpTo, Over, AllOver, Serving, Components
<1>5. MutexPart' BY DEF TypeOK, StartupPart, ServePart, StopPart, MutexPart
<1> QED BY <1>1, <1>2, <1>3, <1>4, <1>5

LEMMA CheckCauseStep == ASSUME IInv, CheckCause PROVE IInv'
<1> USE LifecycleAssumption DEF IInv, CheckCause, Goto, Interrupted, storeVars, sigVars, startVars, serveVars, runVars
<1>1. TypeOK' BY DEF TypeOK, StartupPart, StopPart, Components, States, RunPcs
<1>2. StartupPart' BY DEF TypeOK, StartupPart, ServePart, StopPart, UpTo, Over, Components
<1>3. ServePart' BY DEF TypeOK, StartupPart, ServePart, UpTo, Serving, Components
<1>4. StopPart' BY DEF TypeOK, StartupPart, ServePart, StopPart, UpTo, Over, AllOver, Serving, Components
<1>5. MutexPart' BY DEF TypeOK, StartupPart, ServePart, StopPart, MutexPart
<1> QED BY <1>1, <1>2, <1>3, <1>4, <1>5

LEMMA EnterReadyStep == ASSUME IInv, EnterReady PROVE IInv'
<1> USE LifecycleAssumption DEF IInv, EnterReady, Goto, storeVars, sigVars, startVars, serveVars, runVars
<1>1. TypeOK' BY DEF TypeOK, StartupPart, StopPart, Components, States, RunPcs
<1>2. StartupPart' BY DEF TypeOK, StartupPart, ServePart, StopPart, UpTo, Over, Components
<1>3. ServePart' BY DEF TypeOK, StartupPart, ServePart, UpTo, Serving, Components
<1>4. StopPart' BY DEF TypeOK, StartupPart, ServePart, StopPart, UpTo, Over, AllOver, Serving, Components
<1>5. MutexPart' BY DEF TypeOK, StartupPart, ServePart, StopPart, MutexPart
<1> QED BY <1>1, <1>2, <1>3, <1>4, <1>5

LEMMA ReadyObservedStep == ASSUME IInv, ReadyObserved PROVE IInv'
<1> USE LifecycleAssumption DEF IInv, ReadyObserved, Goto, Unlock, storeVars, sigVars, startVars, serveVars, runVars
<1>1. TypeOK' BY DEF TypeOK, StartupPart, StopPart, Components, States, RunPcs
<1>2. StartupPart' BY DEF TypeOK, StartupPart, ServePart, StopPart, UpTo, Over, Components
<1>3. ServePart' BY DEF TypeOK, StartupPart, ServePart, UpTo, Serving, Components
<1>4. StopPart' BY DEF TypeOK, StartupPart, ServePart, StopPart, UpTo, Over, AllOver, Serving, Components
<1>5. MutexPart' BY DEF TypeOK, StartupPart, ServePart, StopPart, MutexPart
<1> QED BY <1>1, <1>2, <1>3, <1>4, <1>5

LEMMA ServeReadyStep == ASSUME IInv, ServeReady PROVE IInv'
<1> USE LifecycleAssumption DEF IInv, ServeReady, Goto, storeVars, sigVars, startVars, serveVars, runVars
<1>1. TypeOK'
  <2>1. failed' \in BOOLEAN /\ runtimeErrCh' \in BOOLEAN BY DEF TypeOK
  <2>2. QED BY <2>1 DEF TypeOK, RunPcs
<1>2. StartupPart' BY DEF TypeOK, StartupPart, ServePart, StopPart, UpTo, Over, Components
<1>3. ServePart' BY DEF TypeOK, StartupPart, ServePart, UpTo, Serving, Components
<1>4. StopPart' BY DEF TypeOK, StartupPart, ServePart, StopPart, UpTo, Over, AllOver, Serving, Components
<1>5. MutexPart' BY DEF TypeOK, StartupPart, ServePart, StopPart, MutexPart
<1> QED BY <1>1, <1>2, <1>3, <1>4, <1>5

LEMMA EnterDrainingStep == ASSUME IInv, EnterDraining PROVE IInv'
<1> USE LifecycleAssumption DEF IInv, EnterDraining, Goto, Shutdown, legalTransitions, storeVars, sigVars, startVars, serveVars, runVars
<1>1. TypeOK' BY DEF TypeOK, StartupPart, StopPart, Components, States, RunPcs
<1>2. StartupPart' BY DEF TypeOK, StartupPart, ServePart, StopPart, UpTo, Over, Components
<1>3. ServePart' BY DEF TypeOK, StartupPart, ServePart, UpTo, Serving, Components
<1>4. StopPart' BY DEF TypeOK, StartupPart, ServePart, StopPart, UpTo, Over, AllOver, Serving, Components
<1>5. MutexPart' BY DEF TypeOK, StartupPart, ServePart, StopPart, MutexPart, Serving
<1> QED BY <1>1, <1>2, <1>3, <1>4, <1>5

LEMMA DrainObservedStep == ASSUME IInv, DrainObserved PROVE IInv'
<1> USE LifecycleAssumption DEF IInv, DrainObserved, Goto, Observed, Unlock, storeVars, sigVars, startVars, serveVars, runVars
<1>1. TypeOK' BY DEF TypeOK, StartupPart, StopPart, Components, States, RunPcs
<1>2. StartupPart' BY DEF TypeOK, StartupPart, ServePart, StopPart, UpTo, Over, Components
<1>3. ServePart' BY DEF TypeOK, StartupPart, ServePart, UpTo, Serving, Components
<1>4. StopPart' BY DEF TypeOK, StartupPart, ServePart, StopPart, UpTo, Over, AllOver, Serving, Components
<1>5. MutexPart' BY DEF TypeOK, StartupPart, ServePart, StopPart, MutexPart
<1> QED BY <1>1, <1>2, <1>3, <1>4, <1>5

LEMMA QuiesceComponentStep == ASSUME IInv, QuiesceComponent PROVE IInv'
<1> USE LifecycleAssumption DEF IInv, QuiesceComponent, Goto, Result, storeVars, sigVars, startVars, serveVars, runVars
<1>1. TypeOK'
  <2>1. comp' \in [Components -> {"new", "started", "start_failed", "quiesced", "drained", "stopped"}]
    BY Update DEF TypeOK
  <2>2. next' \in 0 .. N + 1 BY DEF TypeOK, StartupPart, StopPart
  <2>3. failed' \in BOOLEAN BY DEF TypeOK
  <2>4. QED BY <2>1, <2>2, <2>3 DEF TypeOK, RunPcs
<1>2. StartupPart' BY DEF TypeOK, StartupPart, ServePart, StopPart, UpTo, Over, Components
<1>3. ServePart' BY DEF TypeOK, StartupPart, ServePart, UpTo, Serving, Components
<1>4. StopPart' BY DEF TypeOK, StartupPart, ServePart, StopPart, UpTo, Over, AllOver, Serving, Components
<1>5. MutexPart' BY DEF TypeOK, StartupPart, ServePart, StopPart, MutexPart
<1> QED BY <1>1, <1>2, <1>3, <1>4, <1>5

LEMMA DrainComponentStep == ASSUME IInv, DrainComponent PROVE IInv'
<1> USE LifecycleAssumption DEF IInv, DrainComponent, Goto, Result, storeVars, sigVars, startVars, serveVars, runVars
<1>1. TypeOK'
  <2>1. comp' \in [Components -> {"new", "started", "start_failed", "quiesced", "drained", "stopped"}]
    BY Update DEF TypeOK
  <2>2. next' \in 0 .. N + 1 BY DEF TypeOK, StartupPart, StopPart
  <2>3. failed' \in BOOLEAN BY DEF TypeOK
  <2>4. QED BY <2>1, <2>2, <2>3 DEF TypeOK, RunPcs
<1>2. StartupPart' BY DEF TypeOK, StartupPart, ServePart, StopPart, UpTo, Over, Components
<1>3. ServePart' BY DEF TypeOK, StartupPart, ServePart, UpTo, Serving, Components
<1>4. StopPart' BY DEF TypeOK, StartupPart, ServePart, StopPart, UpTo, Over, AllOver, Serving, Components
<1>5. MutexPart' BY DEF TypeOK, StartupPart, ServePart, StopPart, MutexPart
<1> QED BY <1>1, <1>2, <1>3, <1>4, <1>5

LEMMA EnterStoppingStep == ASSUME IInv, EnterStopping PROVE IInv'
<1> USE LifecycleAssumption DEF IInv, EnterStopping, Goto, Shutdown, legalTransitions, storeVars, sigVars, startVars, serveVars, runVars
<1>1. TypeOK' BY DEF TypeOK, StartupPart, StopPart, Components, States, RunPcs
<1>2. StartupPart' BY DEF TypeOK, StartupPart, ServePart, StopPart, UpTo, Over, Components
<1>3. ServePart' BY DEF TypeOK, StartupPart, ServePart, UpTo, Serving, Components
<1>4. StopPart' BY DEF TypeOK, StartupPart, ServePart, StopPart, UpTo, Over, AllOver, Serving, Components
<1>5. MutexPart' BY DEF TypeOK, StartupPart, ServePart, StopPart, MutexPart
<1> QED BY <1>1, <1>2, <1>3, <1>4, <1>5

LEMMA StopObservedStep == ASSUME IInv, StopObserved PROVE IInv'
<1> USE LifecycleAssumption DEF IInv, StopObserved, Goto, Observed, Unlock, storeVars, sigVars, startVars, serveVars, runVars
<1>1. TypeOK' BY DEF TypeOK, StartupPart, StopPart, Components, States, RunPcs
<1>2. StartupPart' BY DEF TypeOK, StartupPart, ServePart, StopPart, UpTo, Over, Components
<1>3. ServePart' BY DEF TypeOK, StartupPart, ServePart, UpTo, Serving, Components
<1>4. StopPart' BY DEF TypeOK, StartupPart, ServePart, StopPart, UpTo, Over, AllOver, Serving, Components
<1>5. MutexPart' BY DEF TypeOK, StartupPart, ServePart, StopPart, MutexPart
<1> QED BY <1>1, <1>2, <1>3, <1>4, <1>5

LEMMA StopComponentStep == ASSUME IInv, StopComponent PROVE IInv'
<1> USE LifecycleAssumption DEF IInv, StopComponent, Goto, Result, storeVars, sigVars, startVars, serveVars, runVars
<1>1. TypeOK'
  <2>1. comp' \in [Components -> {"new", "started", "start_failed", "quiesced", "drained", "stopped"}]
    BY Update DEF TypeOK
  <2>2. next' \in 0 .. N + 1 BY DEF TypeOK, StartupPart, StopPart
  <2>3. failed' \in BOOLEAN BY DEF TypeOK
  <2>4. QED BY <2>1, <2>2, <2>3 DEF TypeOK, RunPcs
<1>2. StartupPart' BY DEF TypeOK, StartupPart, ServePart, StopPart, UpTo, Over, Components
<1>3. ServePart' BY DEF TypeOK, StartupPart, ServePart, UpTo, Serving, Components
<1>4. StopPart' BY DEF TypeOK, StartupPart, ServePart, StopPart, UpTo, Over, AllOver, Serving, Components
<1>5. MutexPart' BY DEF TypeOK, StartupPart, ServePart, StopPart, MutexPart
<1> QED BY <1>1, <1>2, <1>3, <1>4, <1>5

LEMMA MarkEndStep == ASSUME IInv, MarkEnd PROVE IInv'
<1> USE LifecycleAssumption DEF IInv, MarkEnd, Goto, Shutdown, legalTransitions, storeVars, sigVars, startVars, serveVars, runVars
<1>1. TypeOK' BY DEF TypeOK, StartupPart, StopPart, Components, States, RunPcs
<1>2. StartupPart' BY DEF TypeOK, StartupPart, ServePart, StopPart, UpTo, Over, Components
<1>3. ServePart' BY DEF TypeOK, StartupPart, ServePart, UpTo, Serving, Components
<1>4. StopPart' BY DEF TypeOK, StartupPart, ServePart, StopPart, UpTo, Over, AllOver, Serving, Components
<1>5. MutexPart' BY DEF TypeOK, StartupPart, ServePart, StopPart, MutexPart
<1> QED BY <1>1, <1>2, <1>3, <1>4, <1>5

LEMMA EndObservedStep == ASSUME IInv, EndObserved PROVE IInv'
<1> USE LifecycleAssumption DEF IInv, EndObserved, Goto, Observed, Unlock, storeVars, sigVars, startVars, serveVars, runVars
<1>1. TypeOK' BY DEF TypeOK, StartupPart, StopPart, Components, States, RunPcs
<1>2. StartupPart' BY DEF TypeOK, StartupPart, ServePart, StopPart, UpTo, Over, Components
<1>3. ServePart' BY DEF TypeOK, StartupPart, ServePart, UpTo, Serving, Components
<1>4. StopPart' BY DEF TypeOK, StartupPart, ServePart, StopPart, UpTo, Over, AllOver, Serving, Components
<1>5. MutexPart' BY DEF TypeOK, StartupPart, ServePart, StopPart, MutexPart
<1> QED BY <1>1, <1>2, <1>3, <1>4, <1>5

-----------------------------------------------------------------------------
(* The callers of Allocate. *)

LEMMA AllocateReadsStep == ASSUME IInv, NEW a \in Callers, AllocateReads(a) PROVE IInv'
<1> USE LifecycleAssumption DEF IInv, AllocateReads, Goto, storeVars, sigVars, startVars, serveVars, runVars
<1>1. TypeOK'
  <2>1. allocate' \in [Callers -> {"called", "transition", "observing", "ok", "error"}]
    BY Update DEF TypeOK
  <2>2. QED BY <2>1 DEF TypeOK, States, RunPcs
<1>2. StartupPart' BY DEF TypeOK, StartupPart, ServePart, StopPart, UpTo, Over, Components
<1>3. ServePart' BY DEF TypeOK, StartupPart, ServePart, UpTo, Serving, Components
<1>4. StopPart' BY DEF TypeOK, StartupPart, ServePart, StopPart, UpTo, Over, AllOver, Serving, Components
<1>5. MutexPart' BY DEF TypeOK, StartupPart, ServePart, StopPart, MutexPart
<1> QED BY <1>1, <1>2, <1>3, <1>4, <1>5

LEMMA AllocateLocksStep == ASSUME IInv, NEW a \in Callers, AllocateLocks(a) PROVE IInv'
<1> USE LifecycleAssumption DEF IInv, AllocateLocks, Goto, legalTransitions, storeVars, sigVars, startVars, serveVars, runVars
<1>1. TypeOK'
  <2>1. allocate' \in [Callers -> {"called", "transition", "observing", "ok", "error"}]
    BY Update DEF TypeOK
  <2>2. QED BY <2>1 DEF TypeOK, States, RunPcs
<1>2. StartupPart' BY DEF TypeOK, StartupPart, ServePart, StopPart, UpTo, Over, Components
<1>3. ServePart' BY DEF TypeOK, StartupPart, ServePart, UpTo, Serving, Components
<1>4. StopPart' BY DEF TypeOK, StartupPart, ServePart, StopPart, UpTo, Over, AllOver, Serving, Components
<1>5. MutexPart'
  <2>1. CASE "allocated" \in legalTransitions[state]
    <3>1. state = "ready" BY <2>1 DEF TypeOK, States
    <3>2. \A b \in Callers : allocate'[b] = "observing" <=> transitionMu' = b
      BY <2>1 DEF TypeOK, MutexPart
    <3>3. QED BY <2>1, <3>1, <3>2 DEF MutexPart
  <2>2. CASE "allocated" \notin legalTransitions[state]
    <3>1. \A b \in Callers : allocate'[b] = "observing" <=> allocate[b] = "observing"
      BY <2>2 DEF TypeOK
    <3>2. QED BY <2>2, <3>1 DEF MutexPart
  <2>3. QED BY <2>1, <2>2
<1> QED BY <1>1, <1>2, <1>3, <1>4, <1>5

LEMMA AllocateObservedStep == ASSUME IInv, NEW a \in Callers, AllocateObserved(a) PROVE IInv'
<1> USE LifecycleAssumption DEF IInv, AllocateObserved, Goto, Unlock, storeVars, sigVars, startVars, serveVars, runVars
<1>0. state = "ready" /\ runPc \in {"serve", "drain"}
  BY DEF TypeOK, StartupPart, ServePart, StopPart, MutexPart, RunPcs
<1>1. TypeOK'
  <2>1. allocate' \in [Callers -> {"called", "transition", "observing", "ok", "error"}]
    BY Update DEF TypeOK
  <2>2. QED BY <2>1 DEF TypeOK, States, RunPcs
<1>2. StartupPart' BY <1>0 DEF TypeOK, StartupPart, ServePart, StopPart, UpTo, Over, Components
<1>3. ServePart' BY <1>0 DEF TypeOK, StartupPart, ServePart, UpTo, Serving, Components
<1>4. StopPart' BY <1>0 DEF TypeOK, StartupPart, ServePart, StopPart, UpTo, Over, AllOver, Serving, Components
<1>5. MutexPart' BY DEF TypeOK, StartupPart, ServePart, StopPart, MutexPart
<1> QED BY <1>1, <1>2, <1>3, <1>4, <1>5

\* The steps of the other goroutines and of the environment touch none of the parts.
LEMMA OutsideStep ==
  ASSUME IInv, \/ SuperviseStartup \/ AwaitRunReason \/ Dispatch \/ Environment \/ UNCHANGED vars
  PROVE  IInv'
<1>1. UNCHANGED <<storeVars, runVars, allocate>>
  BY DEF SuperviseStartup, AwaitRunReason, Dispatch, Environment, Signal, ReloadSignal, CancelParent,
     RuntimeError, DrainCtxDone, vars
<1>2. TypeOK'
  <2> USE <1>1 DEF IInv, TypeOK, storeVars, runVars, sigVars, startVars, serveVars
  <2>1. CASE SuperviseStartup BY <2>1 DEF SuperviseStartup
  <2>2. CASE AwaitRunReason BY <2>2 DEF AwaitRunReason
  <2>3. CASE Dispatch
    <3>1. /\ termCh' = (termCh \/ count = 0)
          /\ secondCh' = (secondCh \/ count > 0)
      BY <2>3 DEF Dispatch
    <3>2. termCh' \in BOOLEAN /\ secondCh' \in BOOLEAN BY <3>1, Zenon
    <3>3. raw' = FALSE BY <2>3 DEF Dispatch
    <3>4. count' = count + 1 BY <2>3 DEF Dispatch
    <3>5. count' \in Nat BY <3>4
    <3>6. UNCHANGED <<storeVars, runVars, drainCause, sent, reloads, reloadCh, startVars, serveVars, allocate>>
      BY <2>3 DEF Dispatch
    <3>7. QED BY <3>2, <3>3, <3>5, <3>6
  <2>4. CASE Signal BY <2>4 DEF Signal
  <2>5. CASE ReloadSignal BY <2>5 DEF ReloadSignal
  <2>6. CASE CancelParent BY <2>6 DEF CancelParent
  <2>7. CASE RuntimeError BY <2>7 DEF RuntimeError
  <2>8. CASE DrainCtxDone BY <2>8 DEF DrainCtxDone
  <2>9. CASE UNCHANGED vars BY <2>9 DEF vars
  <2>10. QED BY <2>1, <2>2, <2>3, <2>4, <2>5, <2>6, <2>7, <2>8, <2>9 DEF Environment
<1>3. QED
  BY <1>1, <1>2 DEF IInv, StartupPart, ServePart, StopPart, MutexPart, UpTo, AllOver, storeVars, runVars

\* Every step preserves the invariant.
LEMMA Inductive == IInv /\ [Next]_vars => IInv'
<1>1. ASSUME IInv, RunStep PROVE IInv'
  BY <1>1, LoadConfigStep, StartComponentStep, CloseStartupDoneStep, CheckCauseStep, EnterReadyStep,
     ReadyObservedStep, ServeReadyStep, EnterDrainingStep, DrainObservedStep, QuiesceComponentStep,
     DrainComponentStep, EnterStoppingStep, StopObservedStep, StopComponentStep, MarkEndStep,
     EndObservedStep DEF RunStep, Startup, Draining, Stopping
<1>2. ASSUME IInv, NEW a \in Callers, Allocate(a) PROVE IInv'
  BY <1>2, AllocateReadsStep, AllocateLocksStep, AllocateObservedStep DEF Allocate
<1>3. QED BY <1>1, <1>2, OutsideStep DEF Next

\* The invariant holds in every reachable state.
LEMMA Invariance == Spec => []IInv
<1>1. Init => IInv
  <2> SUFFICES ASSUME Init PROVE IInv
    OBVIOUS
  <2> USE LifecycleAssumption DEF Init
  <2>1. TypeOK
    <3>1. comp \in [Components -> {"new", "started", "start_failed", "quiesced", "drained", "stopped"}]
      OBVIOUS
    <3>2. next \in 0 .. N + 1 OBVIOUS
    <3>3. QED BY <3>1, <3>2 DEF TypeOK, States, RunPcs
  <2>2. StartupPart /\ ServePart /\ StopPart BY DEF StartupPart, ServePart, StopPart, UpTo, Components
  <2>3. MutexPart BY DEF MutexPart
  <2>4. QED BY <2>1, <2>2, <2>3 DEF IInv
<1>2. QED BY <1>1, Inductive, PTL DEF Spec
-----------------------------------------------------------------------------
\* The store, Run, the components, the signal path and Allocate stay in their types.
THEOREM TypeCorrect == Spec => []TypeOK
  BY Invariance, PTL DEF IInv

\* For any number of components and of concurrent Allocate calls, a store that says
\* Ready or Allocated has every component started (run.go, App.Run; readyz).
THEOREM ReadyStarted == Spec => []ReadyMeansStarted
<1>1. IInv => ReadyMeansStarted
  <2> SUFFICES ASSUME IInv, state \in Serving PROVE \A c \in Components : comp[c] = "started"
    BY DEF ReadyMeansStarted
  <2>1. runPc \in {"serve", "drain"}
    BY DEF IInv, TypeOK, StartupPart, ServePart, StopPart, Serving, RunPcs
  <2>2. QED BY <2>1, LifecycleAssumption DEF IInv, ServePart, UpTo, Components
<1>2. QED BY <1>1, Invariance, PTL

\* However far the start-up got and whichever Quiesce, Drain or Stop failed, a
\* component is stopped only behind finished ones (run.go, stopComponents).
THEOREM StopsInReverse == Spec => []StopInReverse
<1>1. IInv => StopInReverse
  <2> SUFFICES ASSUME IInv, NEW c \in Components, NEW d \in Components, c < d, comp[c] = "stopped"
               PROVE  comp[d] \in Over
    BY DEF StopInReverse, Over
  <2>1. runPc \in {"rollback", "stop", "final", "finalObs", "returned"}
    BY LifecycleAssumption DEF IInv, TypeOK, StartupPart, ServePart, StopPart, UpTo, Components, RunPcs
  <2>2. QED
    BY <2>1, LifecycleAssumption DEF IInv, TypeOK, StartupPart, StopPart, UpTo, Over, AllOver, Components
<1>2. QED BY <1>1, Invariance, PTL

\* Run never returns with a component running, with transitionMu held, or with a state
\* that disagrees with its result (run.go, App.Run).
THEOREM ReturnEnded == Spec => []ReturnedMeansEnded
<1>1. IInv => ReturnedMeansEnded
  BY DEF IInv, StopPart, MutexPart, AllOver, Over, ReturnedMeansEnded
<1>2. QED BY <1>1, Invariance, PTL

\* No interleaving of Run with callers of Allocate brings a draining or ended App back
\* to service: an Allocate that is past its check holds transitionMu (state.go).
THEOREM NoWayBack == Spec => NeverBack
<1> DEFINE Forward == /\ state \notin Serving \cup {"starting"} => state' \notin Serving
                      /\ state \in Ended => state' = state
<1>1. IInv /\ [Next]_vars => [Forward]_vars
  <2> SUFFICES ASSUME IInv, Next PROVE Forward
    BY DEF vars, storeVars
  <2>1. CASE RunStep
    <3> USE DEF IInv, TypeOK, Serving, Ended, States
    <3>1. CASE ReadyObserved BY <3>1 DEF ReadyObserved, StartupPart
    <3>2. CASE EnterDraining BY <3>2 DEF EnterDraining, Shutdown, legalTransitions
    <3>3. CASE EnterStopping BY <3>3 DEF EnterStopping, Shutdown, legalTransitions
    <3>4. CASE MarkEnd BY <3>4 DEF MarkEnd, Shutdown, legalTransitions
    <3>5. CASE UNCHANGED state BY <3>5
    <3>6. QED
      BY <2>1, <3>1, <3>2, <3>3, <3>4, <3>5 DEF RunStep, Startup, Draining, Stopping, LoadConfig,
         StartComponent, CloseStartupDone, CheckCause, EnterReady, ServeReady, DrainObserved, Observed,
         QuiesceComponent, DrainComponent, StopObserved, StopComponent, EndObserved, storeVars
  <2>2. ASSUME NEW a \in Callers, Allocate(a) PROVE Forward
    BY <2>2 DEF IInv, MutexPart, Allocate, AllocateReads, AllocateLocks, AllocateObserved, Serving, Ended,
       storeVars
  <2>3. CASE SuperviseStartup \/ AwaitRunReason \/ Dispatch \/ Environment
    BY <2>3 DEF SuperviseStartup, AwaitRunReason, Dispatch, Environment, Signal, ReloadSignal, CancelParent,
       RuntimeError, DrainCtxDone, storeVars
  <2>4. QED BY <2>1, <2>2, <2>3 DEF Next
<1>2. QED BY <1>1, Invariance, PTL DEF Spec, NeverBack
==============================================================================
