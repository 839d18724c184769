------------------------------ MODULE Executor ------------------------------
(***************************************************************************)
(* What the transaction manager promises to the handlers it runs: requests *)
(* of one key stand in line, one at a time is served, in the order of the  *)
(* line, and at most Capacity of all requests are served at once.  Nothing *)
(* is said here of shards, channels, queues and ids, nor of Close.         *)
(***************************************************************************)
EXTENDS Integers, Sequences, FiniteSets

CONSTANTS Requests, Key, NoKey, Capacity

VARIABLES
    state,      \* request -> what has become of it
    line        \* key -> its requests, in the order in which they joined

vars == <<state, line>>

Keys == {Key[r] : r \in Requests} \ {NoKey}
Running == {r \in Requests : state[r] = "running"}

\* r's predecessors in its line, none if it has no key.
Before(r) ==
    IF Key[r] = NoKey THEN {}
    ELSE {q \in Requests : \E j \in DOMAIN line[Key[r]] : \E i \in 1 .. j - 1 :
              line[Key[r]][i] = q /\ line[Key[r]][j] = r}
-----------------------------------------------------------------------------
Init ==
    /\ state = [r \in Requests |-> "new"]
    /\ line = [k \in Keys |-> <<>>]

Join(r) ==
    /\ state[r] = "new"
    /\ state' = [state EXCEPT ![r] = "waiting"]
    /\ line' = IF Key[r] = NoKey THEN line ELSE [line EXCEPT ![Key[r]] = Append(@, r)]

\* At the door or out of the line: the caller finds out, the handler never does.
Refuse(r) ==
    /\ state[r] \in {"new", "waiting"}
    /\ state' = [state EXCEPT ![r] = "refused"]
    /\ UNCHANGED line

Serve(r) ==
    /\ state[r] = "waiting"
    /\ \A q \in Before(r) : state[q] # "waiting"
    /\ Key[r] # NoKey => \A q \in Running : Key[q] # Key[r]
    /\ Cardinality(Running) < Capacity
    /\ state' = [state EXCEPT ![r] = "running"]
    /\ UNCHANGED line

Finish(r) ==
    /\ state[r] = "running"
    /\ state' = [state EXCEPT ![r] = "done"]
    /\ UNCHANGED line

Next == \E r \in Requests : Join(r) \/ Refuse(r) \/ Serve(r) \/ Finish(r)

Spec == Init /\ [][Next]_vars
=============================================================================
