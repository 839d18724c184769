------------------------------ MODULE Discovery ------------------------------
(***************************************************************************)
(* Service discovery: ServerInstanceMgr keeps the table of the servers     *)
(* that are online.  A goroutine of the registry (resolve) follows the     *)
(* children of a ZooKeeper node with one-shot watches and hands snapshots  *)
(* over through an atomic value and a channel of one place; runWatch takes *)
(* them and refreshes the table; Close may come at any time.  The          *)
(* ZooKeeper client never fails a Watch, and the manager watches once.     *)
(***************************************************************************)
EXTENDS Naturals

CONSTANTS
    Servers,
    Self,           \* one of Servers: this process
    MaxChanges      \* bound: how often the other servers come and go

VARIABLES
    online,     \* the children of the node, in ZooKeeper
    changes,
    watch,      \* the one-shot watch on them
    resolver,   \* where resolve is; "stale": it waits after a read that failed
    children,   \* the names it has listed
    services,   \* serviceSet.services
    watching,   \* is the watcher in serviceSet.watcher
    event,      \* watcher.event
    pc,         \* where runWatch is
    snapshot,   \* what Next returned
    table,      \* mapSvrTypeToIns
    stopWatch,  \* is the cancel function set
    cancelled,  \* was it called
    watcher,    \* is s.watcher set
    close       \* where Close is

zooVars == <<online, changes, watch>>
registryVars == <<resolver, children, services, watching, event>>
managerVars == <<pc, snapshot, table, stopWatch, cancelled, watcher>>
vars == <<zooVars, registryVars, managerVars, close>>

TypeOK ==
    /\ online \subseteq Servers /\ changes \in 0 .. MaxChanges
    /\ watch \in {"none", "armed", "fired"}
    /\ resolver \in {"off", "check", "arm", "list", "get", "store", "notify", "wait", "stale", "gone"}
    /\ children \subseteq Servers /\ services \subseteq Servers /\ snapshot \subseteq Servers
    /\ table \subseteq Servers
    /\ pc \in {"off", "start", "loop", "watch", "watched", "next", "failed", "load", "refresh", "done"}
    /\ {watching, event, stopWatch, cancelled, watcher} \subseteq BOOLEAN
    /\ close \in {"idle", "join", "done"}

closed == close # "idle"

Init ==
    /\ online \in SUBSET (Servers \ {Self}) /\ changes = 0 /\ watch = "none"
    /\ resolver = "off" /\ children = {} /\ services = {} /\ watching = FALSE /\ event = FALSE
    /\ pc = "off" /\ snapshot = {} /\ table = {}
    /\ stopWatch = FALSE /\ cancelled = FALSE /\ watcher = FALSE
    /\ close = "idle"
-----------------------------------------------------------------------------
(* ZooKeeper. *)

Fired == IF watch = "armed" THEN "fired" ELSE watch

\* Another server registers, or its node ends with its session.
ServerChanges(s) ==
    /\ s # Self /\ changes < MaxChanges
    /\ changes' = changes + 1
    /\ online' = (online \ {s}) \cup ({s} \ online)
    /\ watch' = Fired
    /\ UNCHANGED <<registryVars, managerVars, close>>
-----------------------------------------------------------------------------
(* resolve: it stops when nobody watches, arms the watch, then reads. *)

\* mutant of After: the watch is armed when the children have been read.
AfterReading == [check |-> "list", arm |-> "store", list |-> "get", get |-> "arm",
                 store |-> "notify", notify |-> "wait", wait |-> "check", stale |-> "check"]

After == [check |-> "arm", arm |-> "list", list |-> "get", get |-> "store",
          store |-> "notify", notify |-> "wait", wait |-> "check", stale |-> "check"]

\* The names come from one request, the data of each from another.
ResolverStep(at) == resolver = at /\ resolver' = After[at]

Check ==
    /\ resolver = "check"
    /\ resolver' = IF watching THEN After["check"] ELSE "gone"
    /\ UNCHANGED <<zooVars, children, services, watching, event, managerVars, close>>

\* A closed connection or a failed request: resolve waits and begins again.
ArmFails ==
    /\ resolver = "arm" /\ resolver' = "check"
    /\ UNCHANGED <<zooVars, children, services, watching, event, managerVars, close>>

Connected == close # "done"

Arm ==
    /\ ResolverStep("arm") /\ Connected
    /\ watch' = "armed"
    /\ UNCHANGED <<online, changes, children, services, watching, event, managerVars, close>>

List ==
    /\ ResolverStep("list") /\ Connected
    /\ children' = online
    /\ UNCHANGED <<zooVars, services, watching, event, managerVars, close>>

Get ==
    /\ ResolverStep("get") /\ children \subseteq online
    /\ children = {} \/ Connected
    /\ UNCHANGED <<zooVars, children, services, watching, event, managerVars, close>>

\* Either request may fail: a child that was listed is gone, the connection is
\* closed, or just this once.  Nothing is broadcast and nothing is tried again
\* before the watch fires.
ReadFails ==
    /\ resolver \in {"list", "get"}
    /\ resolver' = "stale" /\ children' = {}
    /\ UNCHANGED <<zooVars, services, watching, event, managerVars, close>>

Store ==
    /\ ResolverStep("store")
    /\ services' = children /\ children' = {}
    /\ UNCHANGED <<zooVars, watching, event, managerVars, close>>

\* A full channel keeps the token it has.
Notify ==
    /\ ResolverStep("notify")
    /\ event' = (event \/ watching)
    /\ UNCHANGED <<zooVars, children, services, watching, managerVars, close>>

WatchFires ==
    /\ ResolverStep("wait") \/ ResolverStep("stale")
    /\ watch = "fired"
    /\ watch' = "none"
    /\ UNCHANGED <<online, changes, children, services, watching, event, managerVars, close>>

Resolve ==
    \/ Check \/ Arm \/ List \/ Get \/ ReadFails
    \/ Store \/ Notify \/ WatchFires
-----------------------------------------------------------------------------
(* runWatch.  What it does under closeMu is one step. *)

InitAndRun ==
    /\ pc = "off" /\ pc' = "start"
    /\ online' = online \cup {Self}
    /\ UNCHANGED <<changes, watch, registryVars, snapshot, table, stopWatch, cancelled, watcher, close>>

KeepCancel ==
    /\ pc = "start" /\ pc' = "loop"
    /\ stopWatch' = TRUE
    /\ UNCHANGED <<zooVars, registryVars, snapshot, table, cancelled, watcher, close>>

LookAtClosed ==
    /\ pc = "loop"
    /\ pc' = IF closed THEN "done" ELSE "watch"
    /\ UNCHANGED <<zooVars, registryVars, snapshot, table, stopWatch, cancelled, watcher, close>>

\* No snapshot is there yet, so none is pushed; resolve starts.
Watch ==
    /\ pc = "watch" /\ pc' = "watched"
    /\ watching' = TRUE
    /\ resolver' = "check"
    /\ UNCHANGED <<zooVars, children, services, event, snapshot, table, stopWatch, cancelled, watcher, close>>

\* The second look at closed, now that there is a watcher to stop.
KeepWatcher ==
    /\ pc = "watched"
    /\ IF closed
       THEN pc' = "done" /\ watching' = FALSE /\ watcher' = watcher
       ELSE pc' = "next" /\ watching' = watching /\ watcher' = TRUE
    /\ UNCHANGED <<zooVars, resolver, children, services, event, snapshot, table, stopWatch, cancelled, close>>

NextGetsEvent ==
    /\ pc = "next" /\ event
    /\ event' = FALSE /\ pc' = "load"
    /\ UNCHANGED <<zooVars, resolver, children, services, watching, snapshot, table, stopWatch, cancelled,
                   watcher, close>>

\* The context ends only with Close, so runWatch returns and does not retry.
NextFails ==
    /\ pc = "next" /\ (cancelled \/ ~watching)
    /\ pc' = "failed"
    /\ UNCHANGED <<zooVars, registryVars, snapshot, table, stopWatch, cancelled, watcher, close>>

DropWatcher ==
    /\ pc = "failed" /\ pc' = "done"
    /\ watching' = (watching /\ ~watcher) /\ watcher' = FALSE
    /\ UNCHANGED <<zooVars, resolver, children, services, event, snapshot, table, stopWatch, cancelled, close>>

LoadServices ==
    /\ pc = "load" /\ pc' = "refresh"
    /\ snapshot' = services
    /\ UNCHANGED <<zooVars, registryVars, table, stopWatch, cancelled, watcher, close>>

RefreshServices ==
    /\ pc = "refresh" /\ pc' = "next"
    /\ table' = snapshot /\ snapshot' = {}
    /\ UNCHANGED <<zooVars, registryVars, stopWatch, cancelled, watcher, close>>

RunWatch ==
    \/ KeepCancel \/ LookAtClosed \/ Watch \/ KeepWatcher
    \/ NextGetsEvent \/ NextFails \/ DropWatcher \/ LoadServices \/ RefreshServices
-----------------------------------------------------------------------------
(* Close. *)

CloseBegins ==
    /\ close = "idle" /\ pc # "off"
    /\ close' = "join"
    /\ cancelled' = stopWatch /\ stopWatch' = FALSE
    /\ watching' = (watching /\ ~watcher) /\ watcher' = FALSE
    /\ UNCHANGED <<zooVars, resolver, children, services, event, pc, snapshot, table>>

\* The client closes: the node of this server goes, and every watch fires.
CloseEnds ==
    /\ close = "join" /\ pc = "done"
    /\ close' = "done"
    /\ online' = online \ {Self}
    /\ watch' = Fired
    /\ UNCHANGED <<changes, registryVars, managerVars>>

Next ==
    \/ \E s \in Servers : ServerChanges(s)
    \/ Resolve \/ ArmFails
    \/ InitAndRun \/ RunWatch
    \/ CloseBegins \/ CloseEnds

\* Both goroutines go on.  ChildrenW is tried again until it succeeds or the
\* connection is closed; of the reads, which are tried once, nothing is assumed.
Fairness ==
    /\ WF_vars(Resolve \/ (~Connected /\ ArmFails)) /\ SF_vars(Arm)
    /\ WF_vars(RunWatch \/ CloseEnds)

Spec == Init /\ [][Next]_vars /\ Fairness
-----------------------------------------------------------------------------
(* Properties. *)

\* The table is the set of the servers that are online.
TableCurrent == pc = "off" \/ closed \/ table = online

\* Close has returned and no goroutine is left behind.
NothingLeft == close = "done" /\ resolver \in {"off", "gone"}

\* The last read failed and its watch has not fired: the change that it should
\* have shown is missed until the next one (register.go:205-217 does not retry).
ReadMissed == resolver = "stale" /\ watch = "armed"

\* When the servers stop coming and going, either the table becomes the set of
\* those that are online, whichever changes fell between the watch, the two reads,
\* the store and the refresh, or resolve waits after a read that failed: no other
\* order of events leaves the table behind.  Close returns wherever runWatch is,
\* and stops both goroutines, also after a failed read.
DiscoveryLive == <>[]((TableCurrent \/ ReadMissed) /\ (closed => NothingLeft))
=============================================================================
