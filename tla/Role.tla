-------------------------------- MODULE Role --------------------------------
(***************************************************************************)
(* One player's role in mainsvr: the object in RoleMgr, its hash in Redis  *)
(* and the copy that the client builds from the messages sent to it.       *)
(*                                                                         *)
(* A cell is what one mutation changes: an entry of a section that can be  *)
(* patched (an item of the inventory), or all of another section.  The     *)
(* handlers of one uid run one after the other, as the TransactionMgr      *)
(* guarantees; the tick, the shutdown, Redis, the bus and a crash come     *)
(* between their steps.                                                    *)
(***************************************************************************)
EXTENDS Naturals

CONSTANTS
    Cells,
    Sections,
    SectionOf,      \* cell -> section
    Patchable,      \* sections of which single entries can be sent
    Untracked,      \* sections changed without a mark: the login times
    Register,       \* the section that every stored role must have
    Rank,           \* section -> its place in the order of the HSETs
    Vals,
    Gone,           \* the value of an entry that does not exist
    Blank,          \* cell -> what RoleInitField fills in
    Starter,        \* cell -> what a new role has
    GmRoles         \* bound: what a GM sets a role to

ASSUME RoleAssumption ==
    /\ SectionOf \in [Cells -> Sections]
    /\ Patchable \cup Untracked \cup {Register} \subseteq Sections
    /\ Patchable \cap Untracked = {}
    /\ Rank \in [Sections -> Nat]
    /\ Gone \in Vals
    /\ Blank \in [Cells -> Vals] /\ Starter \in [Cells -> Vals]
    /\ GmRoles \subseteq [Cells -> Vals]

VARIABLES
    phase,      \* of the process
    cached,     \* is the role in the map
    mem,        \* PbRole
    full,       \* pendingFullSyncMask
    patch,      \* pendingPatchMask
    upserts,    \* cells in the ...Upserts
    deletes,    \* cells in the ...Deletes
    mask,       \* persistDirtyMask
    need,       \* needPersist
    online,     \* ConnSvrInfo.BusId # 0
    pc,         \* where the handler of this uid is
    force,      \* forcePersist of that handler
    stale,      \* no heartbeat for more than the expiry threshold
    posted,     \* a logout of the tick waits for its turn
    fields,     \* sections that the hash has
    stored,     \* what the hash holds
    client,     \* what the messages since the login add up to, for the role in the map
    unmarked,   \* sections changed since they were written, with no mark for it
    failed      \* did the final flush fail

roleVars == <<mem, full, patch, upserts, deletes, mask, need, online>>
procVars == <<phase, failed>>
hashVars == <<fields, stored>>
vars == <<procVars, cached, roleVars, pc, force, stale, posted, hashVars, client, unmarked>>

Values == [Cells -> Vals]
InUse == {SectionOf[c] : c \in Cells}
CellsOf(S) == {c \in Cells : SectionOf[c] \in S}

RoleTypeOK ==
    /\ phase \in {"up", "drained", "flushed", "down"}
    /\ failed \in BOOLEAN /\ cached \in BOOLEAN /\ need \in BOOLEAN /\ online \in BOOLEAN
    /\ mem \in Values /\ stored \in Values /\ client \in Values
    /\ full \subseteq Sections /\ patch \subseteq Patchable \ full
    /\ upserts \subseteq CellsOf(Patchable) /\ deletes \subseteq CellsOf(Patchable)
    /\ upserts \cap deletes = {}
    /\ mask \subseteq Sections /\ unmarked \subseteq Sections /\ fields \subseteq Sections
    /\ pc \in {"idle", "login", "request", "gm", "sync", "persist"}
    /\ force \in BOOLEAN /\ stale \in BOOLEAN /\ posted \in BOOLEAN
    /\ pc # "idle" => cached
-----------------------------------------------------------------------------
(* Writing the hash. *)

\* A mask of no section stands for all of them.
WriteMask(all) == IF all \/ mask = {} THEN Sections ELSE mask

\* What the HSETs may have written of T when they stop at an error.
Prefixes(T) == {W \in SUBSET T : \A s \in W, t \in T : Rank[t] < Rank[s] => t \in W}

Write(W, values) ==
    /\ fields' = fields \cup W
    /\ stored' = [c \in Cells |-> IF SectionOf[c] \in W THEN values[c] ELSE stored[c]]

SaveSucceeds(all) ==
    /\ Write(WriteMask(all), mem)
    /\ mask' = {}
    /\ unmarked' = unmarked \ WriteMask(all)

\* mutant of SaveFails: the mask is cleared before the error is seen.
SaveFailsCleared(all) ==
    \E W \in Prefixes(WriteMask(all)) :
        /\ Write(W, mem)
        /\ mask' = {}
        /\ unmarked' = unmarked \ W

\* What was written stays marked.
SaveFails(all) ==
    \E W \in Prefixes(WriteMask(all)) :
        /\ Write(W, mem)
        /\ mask' = mask
        /\ unmarked' = unmarked \ W

\* The object is no longer referred to.
Forget ==
    /\ cached' = FALSE
    /\ mem' = Blank
    /\ full' = {} /\ patch' = {} /\ upserts' = {} /\ deletes' = {}
    /\ need' = FALSE /\ online' = FALSE
    /\ client' = Blank
-----------------------------------------------------------------------------
Init ==
    /\ phase = "up" /\ failed = FALSE
    /\ cached = FALSE /\ mem = Blank
    /\ full = {} /\ patch = {} /\ upserts = {} /\ deletes = {}
    /\ mask = {} /\ need = FALSE /\ online = FALSE
    /\ pc = "idle" /\ force = FALSE
    /\ stale = FALSE /\ posted = FALSE
    /\ fields = {} /\ stored = Blank
    /\ client = Blank
    /\ unmarked = {}

\* The TransactionMgr takes new packets.
Accepting == phase = "up"

Kinds == {"login", "request", "gm"}

\* obtainRole finds the role in the map.
FindRole(k) ==
    /\ Accepting /\ pc = "idle" /\ cached
    /\ pc' = k
    /\ UNCHANGED <<procVars, cached, roleVars, force, stale, posted, hashVars, client, unmarked>>

\* The sections that the hash lacks are filled in; without the register section
\* loadRole panics and the request ends.  The heartbeat is as old as the hash.
LoadRole(k) ==
    /\ Accepting /\ pc = "idle" /\ ~cached
    /\ Register \in fields
    /\ cached' = TRUE
    /\ mem' = stored
    /\ stale' \in BOOLEAN
    /\ pc' = k
    /\ UNCHANGED <<procVars, full, patch, upserts, deletes, mask, need, online, force, posted,
                   hashVars, client, unmarked>>

\* Only Login creates.  The starter items are not marked, and the error of the
\* first save is ignored.
CreateRole ==
    /\ Accepting /\ pc = "idle" /\ ~cached
    /\ fields = {}
    /\ cached' = TRUE
    /\ mem' = Starter
    /\ stale' = TRUE
    /\ pc' = "login"
    /\ \E W \in Prefixes(Sections) :
        /\ Write(W, Starter)
        /\ unmarked' = InUse \ W
    /\ UNCHANGED <<procVars, full, patch, upserts, deletes, mask, need, online, force, posted, client>>
-----------------------------------------------------------------------------
(* The handlers' changes and their marks. *)

MarkPersist(s) == mask' = mask \cup {s} /\ need' = TRUE

\* mutant of MarkIds: a deleted entry that comes back stays among the deletes.
MarkIdsBoth(C, existing) ==
    /\ upserts' = upserts \cup (C \cap existing)
    /\ deletes' = deletes \cup (C \ existing)

\* An id is in one of the two sets, or the patch contradicts itself.
MarkIds(C, existing) ==
    /\ upserts' = (upserts \ C) \cup (C \cap existing)
    /\ deletes' = (deletes \ C) \cup (C \ existing)

MarkPatchSection(s) == IF s \in full THEN patch ELSE patch \cup {s}

\* MarkInventoryDirty, MarkMallDirty, MarkIconDirty and MarkFrameDirty.
ChangeEntry(c, v) ==
    LET s == SectionOf[c]
    IN  /\ pc = "request" /\ s \in Patchable
        /\ mem' = [mem EXCEPT ![c] = v]
        /\ MarkIds({c}, IF v = Gone THEN {} ELSE {c})
        /\ patch' = MarkPatchSection(s)
        /\ MarkPersist(s)
        /\ UNCHANGED <<procVars, cached, full, online, pc, force, stale, posted, hashVars, client, unmarked>>

\* TouchBasicInfo, TouchGameInfo and the like: the section goes out as a whole.
ChangeSection(c, v) ==
    LET s == SectionOf[c]
    IN  /\ pc = "request" /\ s \notin Patchable \cup Untracked
        /\ mem' = [mem EXCEPT ![c] = v]
        /\ full' = full \cup {s} /\ patch' = patch \ {s}
        /\ MarkPersist(s)
        /\ UNCHANGED <<procVars, cached, upserts, deletes, online, pc, force, stale, posted, hashVars,
                       client, unmarked>>

\* MallDailyRefresh resets every entry, then OnClientHeartbeat marks the section.
DailyRefresh(s, values) ==
    LET C == {c \in CellsOf({s}) : mem[c] # Gone}
    IN  /\ pc \in {"request", "login"} /\ s \in Patchable /\ C # {}
        /\ \A c \in C : values[c] # Gone
        /\ mem' = [c \in Cells |-> IF c \in C THEN values[c] ELSE mem[c]]
        /\ MarkIds(C, C)
        /\ full' = full \cup {s} /\ patch' = patch \ {s}
        /\ MarkPersist(s)
        /\ UNCHANGED <<procVars, cached, online, pc, force, stale, posted, hashVars, client, unmarked>>

\* The times in the login section are not marked.
NewTimes(values) ==
    /\ mem' = [c \in Cells |-> IF SectionOf[c] \in Untracked THEN values[c] ELSE mem[c]]
    /\ unmarked' = unmarked \cup Untracked

Heartbeat(values) ==
    /\ pc = "request"
    /\ NewTimes(values)
    /\ stale' = FALSE
    /\ UNCHANGED <<procVars, cached, full, patch, upserts, deletes, mask, need, online, pc, force,
                   posted, hashVars, client>>

\* The answer carries the whole role.
Login(values) ==
    /\ pc = "login" /\ pc' = "sync"
    /\ NewTimes(values)
    /\ stale' = FALSE
    /\ online' = TRUE
    /\ client' = mem'
    /\ UNCHANGED <<procVars, cached, full, patch, upserts, deletes, mask, need, force, posted, hashVars>>

\* GmSetRole replaces everything but records no section as dirty.
GmSetRole(values) ==
    /\ pc = "gm" /\ pc' = "sync"
    /\ force' = TRUE
    /\ mem' = values
    /\ full' = Sections /\ patch' = {}
    /\ need' = TRUE
    /\ unmarked' = InUse
    /\ UNCHANGED <<procVars, cached, upserts, deletes, mask, online, stale, posted, hashVars, client>>
-----------------------------------------------------------------------------
(* FlushPending: first the client, then the hash. *)

\* clearSyncedState, of the sections sent as a whole and of those patched.
ClearSynced(f, p) ==
    /\ full' = full \ f
    /\ patch' = patch \ (p \cup f)
    /\ upserts' = upserts \ CellsOf(f \cup p)
    /\ deletes' = deletes \ CellsOf(f \cup p)

\* Whole sections f, patches of p.
Received(f, p) == [c \in Cells |->
    CASE SectionOf[c] \in f -> mem[c]
      [] SectionOf[c] \in p /\ c \in deletes -> Gone
      [] SectionOf[c] \in p /\ c \in upserts \ deletes /\ mem[c] # Gone -> mem[c]
      [] OTHER -> client[c]]

\* The configuration may turn the patches on and off at any time.
Send(usePatch) ==
    LET f == IF usePatch THEN full ELSE full \cup patch
        p == IF usePatch THEN patch \ full ELSE {}
    IN  /\ online
        /\ client' = Received(f, p)
        /\ ClearSynced(f, p)

FlushClientSync ==
    /\ pc \in {"request", "sync"} /\ pc' = "persist"
    /\ \/ \E usePatch \in BOOLEAN : Send(usePatch)
       \/ UNCHANGED <<full, patch, upserts, deletes, client>>    \* offline, or the bus reports an error
    /\ UNCHANGED <<procVars, cached, mem, mask, need, online, force, stale, posted, hashVars, unmarked>>

\* Nothing to write, or not yet: the debounce time is not over.
PersistLater ==
    /\ pc = "persist" /\ pc' = "idle"
    /\ ~need \/ ~force
    /\ force' = FALSE
    /\ UNCHANGED <<procVars, cached, roleVars, stale, posted, hashVars, client, unmarked>>

Persist ==
    /\ pc = "persist" /\ pc' = "idle"
    /\ need
    /\ force' = FALSE
    /\ \/ SaveSucceeds(FALSE) /\ need' = FALSE
       \/ SaveFails(FALSE) /\ need' = TRUE
    /\ UNCHANGED <<procVars, cached, mem, full, patch, upserts, deletes, online, stale, posted, client>>
-----------------------------------------------------------------------------
(* Expiry and logout. *)

HeartbeatLapses ==
    /\ cached /\ ~stale
    /\ stale' = TRUE
    /\ UNCHANGED <<procVars, cached, roleVars, pc, force, posted, hashVars, client, unmarked>>

\* mutant of MayExpire: the logout is posted only while somebody listens.
MayExpireOnline == stale /\ online

\* HeartBeatExpiryTime holds a logout back for two seconds, which is less than
\* the period of the tick.
MayExpire == stale

\* removeExpiredRoles posts a logout for the uid, which runs in its turn whatever
\* happens until then.  A full queue drops it, and the next tick tries again.
PostLogout ==
    /\ phase # "down"
    /\ cached /\ MayExpire
    /\ posted' = TRUE
    /\ UNCHANGED <<procVars, cached, roleVars, pc, force, stale, hashVars, client, unmarked>>

\* Logout of the client or of the tick.  The error of the save is ignored.
DropRole ==
    /\ Accepting /\ pc = "idle" /\ cached
    /\ \E W \in Prefixes(WriteMask(FALSE)) : Write(W, mem)
    /\ Forget /\ mask' = {} /\ unmarked' = {}
    /\ stale' = FALSE
    /\ UNCHANGED <<procVars, pc, force>>

LogoutOfClient == DropRole /\ UNCHANGED posted
LogoutOfTick == posted /\ posted' = FALSE /\ DropRole

\* Already logged out.
LogoutTooLate ==
    /\ Accepting /\ pc = "idle" /\ posted /\ ~cached
    /\ posted' = FALSE
    /\ UNCHANGED <<procVars, cached, roleVars, pc, force, stale, hashVars, client, unmarked>>
-----------------------------------------------------------------------------
(* The process: transMgr drains before role_flush. *)

unchangedByShutdown == <<cached, mem, full, patch, upserts, deletes, online, pc, force, stale, posted, client>>

\* A handler at work and a logout that waits are finished first.
Drained ==
    /\ phase = "up" /\ pc = "idle" /\ ~posted
    /\ phase' = "drained"
    /\ UNCHANGED <<failed, mask, need, hashVars, unmarked, unchangedByShutdown>>

\* mutant of MayFlush: role_flush was registered after the TransactionMgr, so
\* that it drains first.
MayFlushFirst == phase \in {"up", "drained"}

MayFlush == phase = "drained"

FlushAllToDB ==
    /\ MayFlush
    /\ phase' = "flushed"
    /\ IF cached
       THEN \/ SaveSucceeds(TRUE) /\ need' = FALSE /\ UNCHANGED failed
            \/ SaveFails(TRUE) /\ need' = need /\ failed' = TRUE
       ELSE UNCHANGED <<mask, need, hashVars, unmarked, failed>>
    /\ UNCHANGED unchangedByShutdown

Terminate ==
    /\ phase' = "down" /\ failed' = FALSE
    /\ Forget /\ mask' = {} /\ unmarked' = {}
    /\ pc' = "idle" /\ force' = FALSE
    /\ stale' = FALSE /\ posted' = FALSE
    /\ UNCHANGED hashVars

Stop == phase = "flushed" /\ Terminate
Crash == phase # "down" /\ Terminate

Restart ==
    /\ phase = "down" /\ phase' = "up"
    /\ UNCHANGED <<failed, mask, need, hashVars, unmarked, unchangedByShutdown>>

Handler ==
    \/ \E k \in Kinds : FindRole(k) \/ LoadRole(k)
    \/ CreateRole
    \/ \E c \in Cells, v \in Vals : ChangeEntry(c, v) \/ ChangeSection(c, v)
    \/ \E values \in Values : Heartbeat(values) \/ Login(values)
    \/ \E values \in GmRoles : GmSetRole(values)
    \/ \E s \in Patchable, values \in Values : DailyRefresh(s, values)
    \/ FlushClientSync \/ Persist \/ PersistLater

Tick == HeartbeatLapses \/ PostLogout \/ LogoutTooLate \/ LogoutOfClient \/ LogoutOfTick

Process ==
    Drained \/ FlushAllToDB \/ Stop \/ Crash \/ Restart

Next == Handler \/ Tick \/ Process

HandlerGoesOn ==
    \/ \E values \in Values : Login(values)
    \/ \E values \in GmRoles : GmSetRole(values)
    \/ FlushClientSync \/ Persist \/ PersistLater

\* A handler goes on, the tick and the shutdown run; the message to itself is not
\* dropped every time, and in its queue not overtaken for ever.
Fairness ==
    /\ WF_vars(HandlerGoesOn)
    /\ WF_vars(PostLogout) /\ SF_vars(LogoutOfTick)
    /\ WF_vars(FlushAllToDB \/ Stop)

FairSpec == Init /\ [][Next]_vars /\ Fairness
-----------------------------------------------------------------------------
(* Properties. *)

\* A section that persistDirtyMask does not name is in Redis as it is in memory,
\* through failed and partial writes, reloads and logouts, unless it was changed
\* without a mark: the login times, GmSetRole, and a new role whose first save
\* failed.  So an incremental save leaves nothing behind.
SavedUnlessDirty ==
    cached => \A c \in Cells : SectionOf[c] \in mask \cup unmarked \/ stored[c] = mem[c]

\* A cell that waits for no message is on the client as it is in memory, through
\* failed sends, switches between whole sections and patches, and entries that
\* are deleted and come back.  For a client that has logged in since the role was
\* loaded; the login times are only sent at login.
SyncedUnlessPending ==
    cached /\ online => \A c \in Cells :
        \/ SectionOf[c] \in full \cup Untracked
        \/ SectionOf[c] \in patch /\ c \in upserts \cup deletes
        \/ client[c] = mem[c]

\* After an orderly drain and a flush without errors Redis has everything that is
\* in memory, marked or not, and no handler changes it any more.
FlushedIsSaved ==
    phase = "flushed" /\ ~failed /\ cached => \A c \in Cells : stored[c] = mem[c]

\* A role without heartbeat leaves the memory in the end, also when the message
\* for its logout is lost, the handlers go on, or the client is not connected.
ExpiredIsDropped == []<>~(cached /\ stale)
=============================================================================
