----------------------------- MODULE RoleProofs -----------------------------
(***************************************************************************)
(* Proofs about Role, for any cells, sections and values: what the hash in *)
(* Redis and the copy of the client have in common with the role in        *)
(* memory.                                                                 *)
(***************************************************************************)
EXTENDS Role, TLAPS

\* Outside the map nothing is pending, and after the drain no handler runs.
PhaseInv ==
    /\ ~cached => ~online /\ upserts = {} /\ deletes = {}
    /\ phase # "up" => pc = "idle"

\* The ids of a section that goes out as a patch are sorted by what is in memory.
\* Where the whole section goes out they need not be: GmSetRole leaves them.
SortedIds ==
    \A c \in Cells : SectionOf[c] \notin full =>
        /\ c \in deletes => mem[c] = Gone
        /\ c \in upserts => mem[c] # Gone

IInv ==
    RoleTypeOK /\ PhaseInv /\ SortedIds /\ SavedUnlessDirty /\ SyncedUnlessPending /\ FlushedIsSaved

LEMMA InitInv == Init => IInv
  <1> SUFFICES ASSUME Init PROVE IInv
    OBVIOUS
  <1>1. RoleTypeOK
    BY RoleAssumption DEF Init, RoleTypeOK, Values, CellsOf
  <1>2. PhaseInv /\ SortedIds /\ SavedUnlessDirty /\ SyncedUnlessPending /\ FlushedIsSaved
    BY DEF Init, PhaseInv, SortedIds, SavedUnlessDirty, SyncedUnlessPending, FlushedIsSaved
  <1> QED BY <1>1, <1>2 DEF IInv

-----------------------------------------------------------------------------
(* Writing the hash. *)

LEMMA MaskType == ASSUME NEW all, mask \subseteq Sections PROVE WriteMask(all) \subseteq Sections
  BY DEF WriteMask

\* Writing W of the values keeps the types and makes the cells of W equal.
LEMMA WriteFact ==
    ASSUME RoleTypeOK, NEW W \in SUBSET Sections, NEW values \in Values, Write(W, values)
    PROVE  /\ fields' \subseteq Sections /\ stored' \in Values
           /\ \A c \in Cells : stored'[c] = IF SectionOf[c] \in W THEN values[c] ELSE stored[c]
  BY RoleAssumption DEF RoleTypeOK, Values, Write

\* After a save, complete or not, each cell of a section with neither mark nor
\* ghost mark is in Redis.
LEMMA SaveFact ==
    ASSUME RoleTypeOK, NEW all \in BOOLEAN, SaveSucceeds(all) \/ SaveFails(all)
    PROVE  /\ fields' \subseteq Sections /\ stored' \in Values
           /\ mask' \subseteq Sections /\ unmarked' \subseteq Sections
           /\ \A c \in Cells :
                stored[c] = mem[c] \/ SectionOf[c] \in mask \cup unmarked
                    => stored'[c] = mem[c] \/ SectionOf[c] \in mask' \cup unmarked'
           /\ SaveSucceeds(all) /\ all => \A c \in Cells : stored'[c] = mem[c]
  <1>1. /\ mask \subseteq Sections /\ unmarked \subseteq Sections /\ mem \in Values
        /\ WriteMask(all) \subseteq Sections
        /\ \A c \in Cells : SectionOf[c] \in Sections
    BY RoleAssumption, MaskType DEF RoleTypeOK
  <1>2. CASE SaveSucceeds(all)
    <2>1. /\ fields' \subseteq Sections /\ stored' \in Values
          /\ \A c \in Cells : stored'[c] = IF SectionOf[c] \in WriteMask(all) THEN mem[c] ELSE stored[c]
      BY <1>1, <1>2, WriteFact DEF SaveSucceeds
    <2>2. mask' = {} /\ unmarked' = unmarked \ WriteMask(all)
      BY <1>2 DEF SaveSucceeds
    <2>3. \A c \in Cells : SectionOf[c] \in mask => SectionOf[c] \in WriteMask(all)
      BY <1>1 DEF WriteMask
    <2>4. all => \A c \in Cells : SectionOf[c] \in WriteMask(all)
      BY <1>1 DEF WriteMask
    <2> QED BY <1>1, <2>1, <2>2, <2>3, <2>4
  <1>3. CASE SaveFails(all) /\ ~SaveSucceeds(all)
    <2>1. PICK W \in Prefixes(WriteMask(all)) :
            Write(W, mem) /\ mask' = mask /\ unmarked' = unmarked \ W
      BY <1>3 DEF SaveFails
    <2>2. W \in SUBSET Sections
      BY <1>1 DEF Prefixes
    <2>3. /\ fields' \subseteq Sections /\ stored' \in Values
          /\ \A c \in Cells : stored'[c] = IF SectionOf[c] \in W THEN mem[c] ELSE stored[c]
      BY <1>1, <2>1, <2>2, WriteFact
    <2> QED BY <1>1, <1>3, <2>1, <2>3
  <1> QED BY <1>2, <1>3

-----------------------------------------------------------------------------
(* Marks. *)

\* MarkIds keeps the two sets apart, within the cells that can be patched, and
\* adds every cell of C to the right one.
LEMMA MarkIdsFact ==
    ASSUME RoleTypeOK, NEW C \in SUBSET CellsOf(Patchable), NEW E, MarkIds(C, E)
    PROVE  /\ upserts' \subseteq CellsOf(Patchable) /\ deletes' \subseteq CellsOf(Patchable)
           /\ upserts' \cap deletes' = {}
           /\ \A c \in Cells : IF c \in C
                THEN (c \in upserts' <=> c \in E) /\ (c \in deletes' <=> c \notin E)
                ELSE (c \in upserts' <=> c \in upserts) /\ (c \in deletes' <=> c \in deletes)
  <1>1. /\ upserts \subseteq CellsOf(Patchable) /\ deletes \subseteq CellsOf(Patchable)
        /\ upserts \cap deletes = {}
    BY DEF RoleTypeOK
  <1>2. /\ upserts' = (upserts \ C) \cup (C \cap E)
        /\ deletes' = (deletes \ C) \cup (C \ E)
    BY DEF MarkIds
  <1> QED BY <1>1, <1>2

(* Steps. *)

\* A step that changes neither the role, nor its hash, nor the client's copy.
LEMMA OutsideStep ==
    ASSUME IInv, UNCHANGED <<cached, roleVars, hashVars, client, unmarked>>,
           phase' \in {"up", "drained", "flushed", "down"}, failed' \in BOOLEAN,
           pc' \in {"idle", "login", "request", "gm", "sync", "persist"},
           force' \in BOOLEAN, stale' \in BOOLEAN, posted' \in BOOLEAN,
           pc' # "idle" => cached, phase' # "up" => pc' = "idle",
           phase' = "flushed" => phase = "flushed" /\ failed' = failed
    PROVE  IInv'
  <1>1. /\ UNCHANGED <<cached, mem, full, patch, upserts, deletes, mask, need, online>>
        /\ UNCHANGED <<fields, stored, client, unmarked>>
    BY DEF roleVars, hashVars
  <1>2. RoleTypeOK'
    BY <1>1 DEF IInv, RoleTypeOK
  <1>3. PhaseInv' /\ SortedIds'
    BY <1>1 DEF IInv, PhaseInv, SortedIds
  <1>4. SavedUnlessDirty' /\ SyncedUnlessPending'
    BY <1>1 DEF IInv, SavedUnlessDirty, SyncedUnlessPending
  <1>5. FlushedIsSaved'
    BY <1>1 DEF IInv, FlushedIsSaved
  <1> QED BY <1>2, <1>3, <1>4, <1>5 DEF IInv

\* The role comes into the map, with cells m of which the hash has those that are
\* not in a section of U.  Nobody has logged in.
LEMMA EnterStep ==
    ASSUME IInv, ~cached, phase = "up", NEW m \in Values, mem' = m, cached' = TRUE,
           fields' \subseteq Sections, stored' \in Values, unmarked' \subseteq Sections,
           pc' \in {"login", "request", "gm"}, stale' \in BOOLEAN,
           \A c \in Cells : SectionOf[c] \in unmarked' \/ stored'[c] = m[c],
           UNCHANGED <<procVars, full, patch, upserts, deletes, mask, need, online, force, posted, client>>
    PROVE  IInv'
  <1>1. UNCHANGED <<phase, failed>> /\ UNCHANGED <<full, patch, upserts, deletes, mask, need>>
        /\ UNCHANGED <<online, force, posted, client>>
    BY DEF procVars
  <1>2. upserts = {} /\ deletes = {} /\ ~online
    BY DEF IInv, PhaseInv
  <1>3. RoleTypeOK'
    BY <1>1 DEF IInv, RoleTypeOK
  <1>4. PhaseInv' /\ SortedIds' /\ SyncedUnlessPending' /\ FlushedIsSaved'
    BY <1>1, <1>2 DEF PhaseInv, SortedIds, SyncedUnlessPending, FlushedIsSaved
  <1>5. SavedUnlessDirty'
    BY <1>1 DEF SavedUnlessDirty
  <1> QED BY <1>3, <1>4, <1>5 DEF IInv

LEMMA LoadStep == ASSUME IInv, NEW k \in Kinds, LoadRole(k) PROVE IInv'
  <1>1. /\ ~cached /\ phase = "up" /\ mem' = stored /\ cached' = TRUE
        /\ pc' \in {"login", "request", "gm"} /\ stale' \in BOOLEAN
        /\ UNCHANGED <<fields, stored, unmarked>>
        /\ UNCHANGED <<procVars, full, patch, upserts, deletes, mask, need, online, force, posted, client>>
    BY DEF LoadRole, Accepting, Kinds, hashVars
  <1>2. stored \in Values /\ fields \subseteq Sections /\ unmarked \subseteq Sections
    BY DEF IInv, RoleTypeOK
  <1> QED BY <1>1, <1>2, EnterStep

LEMMA CreateStep == ASSUME IInv, CreateRole PROVE IInv'
  <1>1. PICK W \in Prefixes(Sections) : Write(W, Starter) /\ unmarked' = InUse \ W
    BY DEF CreateRole
  <1>2. W \in SUBSET Sections /\ Starter \in Values /\ InUse \subseteq Sections
    BY RoleAssumption DEF Prefixes, Values, InUse
  <1>3. /\ fields' \subseteq Sections /\ stored' \in Values
        /\ \A c \in Cells : stored'[c] = IF SectionOf[c] \in W THEN Starter[c] ELSE stored[c]
    BY <1>1, <1>2, WriteFact DEF IInv
  <1>4. \A c \in Cells : SectionOf[c] \in InUse
    BY DEF InUse
  <1>5. /\ ~cached /\ phase = "up" /\ mem' = Starter /\ cached' = TRUE
        /\ pc' = "login" /\ stale' = TRUE
        /\ UNCHANGED <<procVars, full, patch, upserts, deletes, mask, need, online, force, posted, client>>
    BY DEF CreateRole, Accepting
  <1>6. \A c \in Cells : SectionOf[c] \in unmarked' \/ stored'[c] = Starter[c]
    BY <1>1, <1>3, <1>4
  <1>7. unmarked' \subseteq Sections
    BY <1>1, <1>2
  <1> QED BY <1>2, <1>3, <1>5, <1>6, <1>7, EnterStep

\* The role leaves the map.
LEMMA ForgetStep ==
    ASSUME IInv, Forget, mask' = {}, unmarked' = {},
           fields' \subseteq Sections, stored' \in Values,
           phase' \in {"up", "drained", "flushed", "down"}, failed' \in BOOLEAN, pc' = "idle",
           force' \in BOOLEAN, stale' \in BOOLEAN, posted' \in BOOLEAN
    PROVE  IInv'
  <1>1. RoleTypeOK'
    BY RoleAssumption DEF Forget, RoleTypeOK, Values, CellsOf
  <1>2. PhaseInv' /\ SavedUnlessDirty' /\ SyncedUnlessPending' /\ FlushedIsSaved'
    BY DEF Forget, PhaseInv, SavedUnlessDirty, SyncedUnlessPending, FlushedIsSaved
  <1>3. SortedIds'
    BY DEF Forget, SortedIds
  <1> QED BY <1>1, <1>2, <1>3 DEF IInv

LEMMA DropStep == ASSUME IInv, DropRole, posted' \in BOOLEAN PROVE IInv'
  <1>1. PICK W \in Prefixes(WriteMask(FALSE)) : Write(W, mem)
    BY DEF DropRole
  <1>2. mem \in Values /\ mask \subseteq Sections
    BY DEF IInv, RoleTypeOK
  <1>3. W \in SUBSET Sections
    BY <1>2, MaskType DEF Prefixes
  <1>4. fields' \subseteq Sections /\ stored' \in Values
    BY <1>1, <1>2, <1>3, WriteFact DEF IInv
  <1>5. /\ Forget /\ mask' = {} /\ unmarked' = {} /\ pc' = "idle" /\ stale' = FALSE
        /\ phase' = phase /\ failed' = failed /\ force' = force
    BY DEF DropRole, procVars
  <1>6. phase \in {"up", "drained", "flushed", "down"} /\ failed \in BOOLEAN /\ force \in BOOLEAN
    BY DEF IInv, RoleTypeOK
  <1> QED BY <1>4, <1>5, <1>6, ForgetStep

-----------------------------------------------------------------------------
(* The handlers' changes. *)

\* A handler is at work only before the drain and on a role in the map.
LEMMA AtWork ==
    ASSUME IInv, pc # "idle"
    PROVE  /\ phase = "up" /\ cached /\ mem \in Values
           /\ \A c \in Cells : SectionOf[c] \in Sections
  BY RoleAssumption DEF IInv, PhaseInv, RoleTypeOK

\* What changes in memory is marked.
LEMMA MarkedChange ==
    ASSUME IInv, pc # "idle", UNCHANGED <<phase, cached, hashVars>>,
           mask \subseteq mask', unmarked \subseteq unmarked',
           \A c \in Cells : mem'[c] = mem[c] \/ SectionOf[c] \in mask' \cup unmarked'
    PROVE  SavedUnlessDirty' /\ FlushedIsSaved'
  <1>1. phase' = "up" /\ stored' = stored
    BY AtWork DEF hashVars
  <1> QED BY <1>1, AtWork DEF IInv, SavedUnlessDirty, FlushedIsSaved

LEMMA ChangeEntryStep == ASSUME IInv, NEW c \in Cells, NEW v \in Vals, ChangeEntry(c, v) PROVE IInv'
  <1> DEFINE s == SectionOf[c]
             E == IF v = Gone THEN {} ELSE {c}
  <1>1. /\ pc = "request" /\ s \in Patchable
        /\ mem' = [mem EXCEPT ![c] = v]
        /\ MarkIds({c}, E)
        /\ patch' = (IF s \in full THEN patch ELSE patch \cup {s})
        /\ mask' = mask \cup {s} /\ need' = TRUE
        /\ UNCHANGED <<phase, failed, cached, full, online, pc, force, stale, posted>>
        /\ UNCHANGED <<hashVars, client, unmarked>>
    BY DEF ChangeEntry, MarkPersist, MarkPatchSection, procVars
  <1>2. RoleTypeOK /\ SortedIds /\ SyncedUnlessPending /\ PhaseInv
    BY DEF IInv
  <1>3. {c} \in SUBSET CellsOf(Patchable)
    BY <1>1 DEF CellsOf
  <1>4. /\ upserts' \subseteq CellsOf(Patchable) /\ deletes' \subseteq CellsOf(Patchable)
        /\ upserts' \cap deletes' = {}
        /\ (c \in upserts' <=> v # Gone) /\ (c \in deletes' <=> v = Gone)
        /\ \A d \in Cells \ {c} :
            (d \in upserts' <=> d \in upserts) /\ (d \in deletes' <=> d \in deletes)
    BY <1>1, <1>2, <1>3, MarkIdsFact
  <1>5. /\ mem' \in Values /\ mem'[c] = v
        /\ \A d \in Cells \ {c} : mem'[d] = mem[d]
    BY <1>1, AtWork DEF Values
  <1>6. RoleTypeOK'
    <2>1. patch' \subseteq Patchable \ full' /\ full' \subseteq Sections /\ mask' \subseteq Sections
      BY <1>1, <1>2, AtWork DEF RoleTypeOK
    <2>2. fields' = fields /\ stored' = stored
      BY <1>1 DEF hashVars
    <2> HIDE DEF s, E
    <2> QED BY <1>1, <1>2, <1>4, <1>5, <2>1, <2>2 DEF RoleTypeOK
  <1>7. PhaseInv'
    BY <1>1, <1>2, AtWork DEF PhaseInv
  <1>8. SortedIds'
    BY <1>1, <1>2, <1>4, <1>5 DEF SortedIds
  <1>9. SavedUnlessDirty' /\ FlushedIsSaved'
    BY <1>1, <1>5, MarkedChange
  <1>10. SyncedUnlessPending'
    <2>1. c \in upserts' \cup deletes' /\ (s \in full' \/ s \in patch')
      BY <1>1, <1>4
    <2>2. \A d \in Cells \ {c} :
            SectionOf[d] \in full' \cup Untracked
            \/ (SectionOf[d] \in patch' /\ d \in upserts' \cup deletes')
            \/ client'[d] = mem'[d] \/ ~online'
      BY <1>1, <1>2, <1>4, <1>5, AtWork DEF SyncedUnlessPending
    <2> QED BY <2>1, <2>2 DEF SyncedUnlessPending
  <1> QED BY <1>6, <1>7, <1>8, <1>9, <1>10 DEF IInv

LEMMA ChangeSectionStep == ASSUME IInv, NEW c \in Cells, NEW v \in Vals, ChangeSection(c, v) PROVE IInv'
  <1> DEFINE s == SectionOf[c]
  <1>1. /\ pc = "request" /\ s \notin Patchable
        /\ mem' = [mem EXCEPT ![c] = v]
        /\ full' = full \cup {s} /\ patch' = patch \ {s}
        /\ mask' = mask \cup {s} /\ need' = TRUE
        /\ UNCHANGED <<phase, failed, cached, upserts, deletes, online, pc, force, stale, posted>>
        /\ UNCHANGED <<hashVars, client, unmarked>>
    BY DEF ChangeSection, MarkPersist, procVars
  <1>2. RoleTypeOK /\ SortedIds /\ SyncedUnlessPending /\ PhaseInv
    BY DEF IInv
  <1>3. /\ mem' \in Values
        /\ \A d \in Cells \ {c} : mem'[d] = mem[d]
    BY <1>1, AtWork DEF Values
  <1>4. RoleTypeOK'
    <2>1. patch' \subseteq Patchable \ full' /\ full' \subseteq Sections /\ mask' \subseteq Sections
      BY <1>1, <1>2, AtWork DEF RoleTypeOK
    <2>2. fields' = fields /\ stored' = stored
      BY <1>1 DEF hashVars
    <2> QED BY <1>1, <1>2, <1>3, <2>1, <2>2 DEF RoleTypeOK
  <1>5. PhaseInv'
    BY <1>1, <1>2, AtWork DEF PhaseInv
  <1>6. SortedIds'
    BY <1>1, <1>2, <1>3 DEF SortedIds
  <1>7. SavedUnlessDirty' /\ FlushedIsSaved'
    BY <1>1, <1>3, MarkedChange
  <1>8. SyncedUnlessPending'
    BY <1>1, <1>2, <1>3, AtWork DEF SyncedUnlessPending
  <1> QED BY <1>4, <1>5, <1>6, <1>7, <1>8 DEF IInv

LEMMA RefreshStep ==
    ASSUME IInv, NEW s \in Patchable, NEW values \in Values, DailyRefresh(s, values) PROVE IInv'
  <1> DEFINE C == {c \in CellsOf({s}) : mem[c] # Gone}
  <1>1. /\ pc \in {"request", "login"}
        /\ \A c \in C : values[c] # Gone
        /\ mem' = [c \in Cells |-> IF c \in C THEN values[c] ELSE mem[c]]
        /\ MarkIds(C, C)
        /\ full' = full \cup {s} /\ patch' = patch \ {s}
        /\ mask' = mask \cup {s} /\ need' = TRUE
        /\ UNCHANGED <<phase, failed, cached, online, pc, force, stale, posted>>
        /\ UNCHANGED <<hashVars, client, unmarked>>
    BY DEF DailyRefresh, MarkPersist, procVars
  <1>2. RoleTypeOK /\ SortedIds /\ SyncedUnlessPending /\ PhaseInv
    BY DEF IInv
  <1>3. C \in SUBSET CellsOf(Patchable) /\ s \in Sections
        /\ \A c \in C : SectionOf[c] = s
    BY RoleAssumption DEF CellsOf
  <1>4. /\ upserts' \subseteq CellsOf(Patchable) /\ deletes' \subseteq CellsOf(Patchable)
        /\ upserts' \cap deletes' = {}
        /\ \A c \in Cells \ C :
            (c \in upserts' <=> c \in upserts) /\ (c \in deletes' <=> c \in deletes)
    <2> HIDE DEF C
    <2> QED BY <1>1, <1>2, <1>3, MarkIdsFact
  <1>5. mem' \in Values /\ \A c \in Cells \ C : mem'[c] = mem[c]
    BY <1>1, AtWork DEF Values
  <1> HIDE DEF C
  <1>6. RoleTypeOK'
    <2>1. patch' \subseteq Patchable \ full' /\ full' \subseteq Sections /\ mask' \subseteq Sections
      BY <1>1, <1>2, <1>3 DEF RoleTypeOK
    <2>2. fields' = fields /\ stored' = stored
      BY <1>1 DEF hashVars
    <2> QED BY <1>1, <1>2, <1>4, <1>5, <2>1, <2>2 DEF RoleTypeOK
  <1>7. PhaseInv'
    BY <1>1, <1>2, AtWork DEF PhaseInv
  <1>8. SortedIds'
    BY <1>1, <1>2, <1>3, <1>4, <1>5 DEF SortedIds
  <1>9. SavedUnlessDirty' /\ FlushedIsSaved'
    <2>1. \A c \in Cells : mem'[c] = mem[c] \/ SectionOf[c] \in mask' \cup unmarked'
      BY <1>1, <1>3, <1>5
    <2> QED BY <1>1, <2>1, MarkedChange
  <1>10. SyncedUnlessPending'
    BY <1>1, <1>2, <1>3, <1>4, <1>5, AtWork DEF SyncedUnlessPending
  <1> QED BY <1>6, <1>7, <1>8, <1>9, <1>10 DEF IInv

\* The login times change no section that can be patched.
LEMMA TimesFact ==
    ASSUME IInv, pc # "idle", NEW values \in Values, NewTimes(values)
    PROVE  /\ mem' \in Values /\ unmarked' = unmarked \cup Untracked /\ unmarked' \subseteq Sections
           /\ \A c \in Cells : SectionOf[c] \notin Untracked => mem'[c] = mem[c]
           /\ \A c \in upserts \cup deletes : c \in Cells /\ mem'[c] = mem[c]
  <1>1. /\ mem' = [c \in Cells |-> IF SectionOf[c] \in Untracked THEN values[c] ELSE mem[c]]
        /\ unmarked' = unmarked \cup Untracked
    BY DEF NewTimes
  <1>2. mem' \in Values /\ \A c \in Cells : SectionOf[c] \notin Untracked => mem'[c] = mem[c]
    BY <1>1, AtWork DEF Values
  <1>3. \A c \in upserts \cup deletes : c \in Cells /\ SectionOf[c] \notin Untracked
    BY RoleAssumption DEF IInv, RoleTypeOK, CellsOf
  <1>4. unmarked' \subseteq Sections
    BY <1>1, RoleAssumption DEF IInv, RoleTypeOK
  <1> QED BY <1>1, <1>2, <1>3, <1>4

LEMMA HeartbeatStep == ASSUME IInv, NEW values \in Values, Heartbeat(values) PROVE IInv'
  <1>1. /\ pc = "request" /\ NewTimes(values) /\ stale' = FALSE
        /\ UNCHANGED <<phase, failed, cached, full, patch, upserts, deletes, mask, need, online>>
        /\ UNCHANGED <<pc, force, posted, hashVars, client>>
    BY DEF Heartbeat, procVars
  <1>2. RoleTypeOK /\ SortedIds /\ SyncedUnlessPending /\ PhaseInv
    BY DEF IInv
  <1>3. /\ mem' \in Values /\ unmarked' = unmarked \cup Untracked /\ unmarked' \subseteq Sections
        /\ \A c \in Cells : SectionOf[c] \notin Untracked => mem'[c] = mem[c]
        /\ \A c \in upserts \cup deletes : c \in Cells /\ mem'[c] = mem[c]
    BY <1>1, TimesFact
  <1>4. RoleTypeOK'
    BY <1>1, <1>2, <1>3 DEF RoleTypeOK, hashVars
  <1>5. PhaseInv' /\ SortedIds' /\ SyncedUnlessPending'
    BY <1>1, <1>2, <1>3 DEF PhaseInv, SortedIds, SyncedUnlessPending
  <1>6. SavedUnlessDirty' /\ FlushedIsSaved'
    BY <1>1, <1>3, MarkedChange
  <1> QED BY <1>4, <1>5, <1>6 DEF IInv

LEMMA LoginStep == ASSUME IInv, NEW values \in Values, Login(values) PROVE IInv'
  <1>1. /\ pc = "login" /\ pc' = "sync" /\ NewTimes(values) /\ stale' = FALSE
        /\ online' = TRUE /\ client' = mem'
        /\ UNCHANGED <<phase, failed, cached, full, patch, upserts, deletes, mask, need>>
        /\ UNCHANGED <<force, posted, hashVars>>
    BY DEF Login, procVars
  <1>2. RoleTypeOK /\ SortedIds /\ PhaseInv /\ cached /\ phase = "up"
    BY <1>1, AtWork DEF IInv
  <1>3. /\ mem' \in Values /\ unmarked' = unmarked \cup Untracked /\ unmarked' \subseteq Sections
        /\ \A c \in Cells : SectionOf[c] \notin Untracked => mem'[c] = mem[c]
        /\ \A c \in upserts \cup deletes : c \in Cells /\ mem'[c] = mem[c]
    BY <1>1, TimesFact
  <1>4. RoleTypeOK'
    BY <1>1, <1>2, <1>3 DEF RoleTypeOK, hashVars
  <1>5. PhaseInv' /\ SortedIds' /\ SyncedUnlessPending'
    BY <1>1, <1>2, <1>3 DEF PhaseInv, SortedIds, SyncedUnlessPending
  <1>6. SavedUnlessDirty' /\ FlushedIsSaved'
    BY <1>1, <1>3, MarkedChange
  <1> QED BY <1>4, <1>5, <1>6 DEF IInv

LEMMA GmStep == ASSUME IInv, NEW values \in GmRoles, GmSetRole(values) PROVE IInv'
  <1>1. /\ pc = "gm" /\ pc' = "sync" /\ force' = TRUE /\ mem' = values
        /\ full' = Sections /\ patch' = {} /\ need' = TRUE /\ unmarked' = InUse
        /\ UNCHANGED <<phase, failed, cached, upserts, deletes, mask, online, stale, posted>>
        /\ UNCHANGED <<hashVars, client>>
    BY DEF GmSetRole, procVars
  <1>2. RoleTypeOK /\ PhaseInv /\ cached /\ phase = "up"
    BY <1>1, AtWork DEF IInv
  <1>3. /\ \A c \in Cells : SectionOf[c] \in InUse /\ SectionOf[c] \in Sections
        /\ InUse \subseteq Sections /\ values \in Values
    BY RoleAssumption DEF InUse, Values
  <1>4. RoleTypeOK'
    BY <1>1, <1>2, <1>3 DEF RoleTypeOK, hashVars
  <1>5. PhaseInv' /\ SortedIds' /\ SyncedUnlessPending' /\ SavedUnlessDirty' /\ FlushedIsSaved'
    BY <1>1, <1>2, <1>3 DEF PhaseInv, SortedIds, SyncedUnlessPending, SavedUnlessDirty, FlushedIsSaved
  <1> QED BY <1>4, <1>5 DEF IInv

-----------------------------------------------------------------------------
(* FlushPending. *)

\* A message takes every section that waits for one, whole or as a patch, and the
\* client then has what is in memory.
LEMMA SendFact ==
    ASSUME IInv, cached, NEW usePatch \in BOOLEAN, Send(usePatch)
    PROVE  /\ full' = {} /\ patch' = {}
           /\ upserts' \subseteq upserts /\ deletes' \subseteq deletes
           /\ client' \in Values
           /\ \A c \in Cells : SectionOf[c] \in Untracked \/ client'[c] = mem[c]
                               \/ SectionOf[c] \in full
           /\ \A c \in Cells : SectionOf[c] \in full =>
                client'[c] = mem[c] /\ c \notin upserts' \cup deletes'
  <1> DEFINE f == IF usePatch THEN full ELSE full \cup patch
             p == IF usePatch THEN patch \ full ELSE {}
  <1>1. /\ online /\ client' = Received(f, p)
        /\ full' = full \ f /\ patch' = patch \ (p \cup f)
        /\ upserts' = upserts \ CellsOf(f \cup p) /\ deletes' = deletes \ CellsOf(f \cup p)
    BY DEF Send, ClearSynced
  <1>2. /\ full \subseteq f /\ f \subseteq full \cup patch /\ p \subseteq patch \ full
        /\ patch \subseteq f \cup p /\ f \cap p = {}
    OBVIOUS
  <1> HIDE DEF f, p
  <1>3. RoleTypeOK /\ SortedIds /\ SyncedUnlessPending
    BY DEF IInv
  <1>4. /\ upserts \cap deletes = {} /\ mem \in Values /\ client \in Values /\ Gone \in Vals
    BY <1>3, RoleAssumption DEF RoleTypeOK
  <1>5. ASSUME NEW c \in Cells
        PROVE  /\ SectionOf[c] \in f => client'[c] = mem[c]
               /\ SectionOf[c] \in p /\ c \in deletes => client'[c] = Gone
               /\ SectionOf[c] \in p /\ c \in upserts /\ mem[c] # Gone => client'[c] = mem[c]
               /\ SectionOf[c] \notin f \cup p \/ c \notin upserts \cup deletes =>
                    client'[c] = client[c] \/ SectionOf[c] \in f
               /\ client'[c] \in {mem[c], Gone, client[c]}
    <2>1. client'[c] = CASE SectionOf[c] \in f -> mem[c]
                         [] SectionOf[c] \in p /\ c \in deletes -> Gone
                         [] SectionOf[c] \in p /\ c \in upserts \ deletes /\ mem[c] # Gone -> mem[c]
                         [] OTHER -> client[c]
      BY <1>1 DEF Received
    <2>2. SectionOf[c] \in f => SectionOf[c] \notin p
      BY <1>2
    <2> QED BY <1>4, <2>1, <2>2
  <1>6. client' \in Values
    <2>1. client' = [c \in Cells |-> client'[c]]
      BY <1>1 DEF Received
    <2>2. \A c \in Cells : client'[c] \in Vals
      BY <1>4, <1>5 DEF Values
    <2> QED BY <2>1, <2>2 DEF Values
  <1>7. ASSUME NEW c \in Cells
        PROVE  SectionOf[c] \in Untracked \/ client'[c] = mem[c] \/ SectionOf[c] \in full
    <2>1. CASE SectionOf[c] \in f
      BY <1>5, <2>1
    <2>2. CASE SectionOf[c] \in p /\ c \in upserts \cup deletes
      BY <1>2, <1>3, <1>4, <1>5, <2>2 DEF SortedIds
    <2>3. CASE SectionOf[c] \in p /\ c \notin upserts \cup deletes /\ SectionOf[c] \notin f
      BY <1>1, <1>2, <1>3, <1>5, <2>3 DEF SyncedUnlessPending
    <2>4. CASE SectionOf[c] \notin f \cup p
      BY <1>1, <1>2, <1>3, <1>5, <2>4 DEF SyncedUnlessPending
    <2> QED BY <2>1, <2>2, <2>3, <2>4
  <1>8. ASSUME NEW c \in Cells, SectionOf[c] \in full
        PROVE  client'[c] = mem[c] /\ c \notin upserts' \cup deletes'
    BY <1>1, <1>2, <1>5, <1>8 DEF CellsOf
  <1> QED BY <1>1, <1>2, <1>6, <1>7, <1>8

LEMMA FlushClientStep == ASSUME IInv, FlushClientSync PROVE IInv'
  <1>1. /\ pc \in {"request", "sync"} /\ pc' = "persist"
        /\ UNCHANGED <<phase, failed, cached, mem, mask, need, online, force, stale, posted>>
        /\ UNCHANGED <<hashVars, unmarked>>
    BY DEF FlushClientSync, procVars
  <1>2. RoleTypeOK /\ PhaseInv /\ SortedIds /\ SyncedUnlessPending /\ cached /\ phase = "up"
    BY <1>1, AtWork DEF IInv
  <1>3. SavedUnlessDirty' /\ FlushedIsSaved'
    BY <1>1, MarkedChange
  <1>4. CASE UNCHANGED <<full, patch, upserts, deletes, client>>
    <2>1. RoleTypeOK'
      BY <1>1, <1>2, <1>4 DEF RoleTypeOK, hashVars
    <2>2. PhaseInv' /\ SortedIds' /\ SyncedUnlessPending'
      BY <1>1, <1>2, <1>4 DEF PhaseInv, SortedIds, SyncedUnlessPending
    <2> QED BY <1>3, <2>1, <2>2 DEF IInv
  <1>5. ASSUME NEW usePatch \in BOOLEAN, Send(usePatch) PROVE IInv'
    <2>1. /\ full' = {} /\ patch' = {}
          /\ upserts' \subseteq upserts /\ deletes' \subseteq deletes
          /\ client' \in Values
          /\ \A c \in Cells : SectionOf[c] \in Untracked \/ client'[c] = mem[c]
                              \/ SectionOf[c] \in full
          /\ \A c \in Cells : SectionOf[c] \in full =>
               client'[c] = mem[c] /\ c \notin upserts' \cup deletes'
      BY <1>2, <1>5, SendFact
    <2>2. RoleTypeOK'
      BY <1>1, <1>2, <2>1 DEF RoleTypeOK, hashVars
    <2>3. PhaseInv'
      BY <1>1, <1>2 DEF PhaseInv
    <2>4. SortedIds'
      BY <1>1, <1>2, <2>1 DEF SortedIds
    <2>5. SyncedUnlessPending'
      BY <1>1, <2>1 DEF SyncedUnlessPending
    <2> QED BY <1>3, <2>2, <2>3, <2>4, <2>5 DEF IInv
  <1> QED BY <1>4, <1>5 DEF FlushClientSync

LEMMA PersistStep == ASSUME IInv, Persist PROVE IInv'
  <1>1. /\ pc = "persist" /\ pc' = "idle" /\ force' = FALSE /\ need' \in BOOLEAN
        /\ SaveSucceeds(FALSE) \/ SaveFails(FALSE)
        /\ UNCHANGED <<phase, failed, cached, mem, full, patch, upserts, deletes, online>>
        /\ UNCHANGED <<stale, posted, client>>
    BY DEF Persist, procVars
  <1>2. RoleTypeOK /\ PhaseInv /\ SortedIds /\ SyncedUnlessPending /\ SavedUnlessDirty
        /\ cached /\ phase = "up"
    BY <1>1, AtWork DEF IInv
  <1>3. /\ fields' \subseteq Sections /\ stored' \in Values
        /\ mask' \subseteq Sections /\ unmarked' \subseteq Sections
        /\ \A c \in Cells :
             stored[c] = mem[c] \/ SectionOf[c] \in mask \cup unmarked
                 => stored'[c] = mem[c] \/ SectionOf[c] \in mask' \cup unmarked'
    BY <1>1, <1>2, SaveFact
  <1>4. RoleTypeOK'
    BY <1>1, <1>2, <1>3 DEF RoleTypeOK
  <1>5. PhaseInv' /\ SortedIds' /\ SyncedUnlessPending'
    BY <1>1, <1>2 DEF PhaseInv, SortedIds, SyncedUnlessPending
  <1>6. SavedUnlessDirty' /\ FlushedIsSaved'
    BY <1>1, <1>2, <1>3 DEF SavedUnlessDirty, FlushedIsSaved
  <1> QED BY <1>4, <1>5, <1>6 DEF IInv

-----------------------------------------------------------------------------
(* The process. *)

LEMMA FlushAllStep == ASSUME IInv, FlushAllToDB PROVE IInv'
  <1>1. /\ phase = "drained" /\ phase' = "flushed"
        /\ UNCHANGED <<cached, mem, full, patch, upserts, deletes, online, pc, force, stale, posted, client>>
    BY DEF FlushAllToDB, MayFlush, unchangedByShutdown
  <1>2. RoleTypeOK /\ PhaseInv /\ SortedIds /\ SyncedUnlessPending /\ SavedUnlessDirty
    BY DEF IInv
  <1>3. PhaseInv' /\ SortedIds' /\ SyncedUnlessPending'
    BY <1>1, <1>2 DEF PhaseInv, SortedIds, SyncedUnlessPending
  <1>4. CASE cached
    <2>1. \/ SaveSucceeds(TRUE) /\ need' = FALSE /\ failed' = failed
          \/ SaveFails(TRUE) /\ need' = need /\ failed' = TRUE
      BY <1>4 DEF FlushAllToDB
    <2>2. /\ fields' \subseteq Sections /\ stored' \in Values
          /\ mask' \subseteq Sections /\ unmarked' \subseteq Sections
          /\ \A c \in Cells :
               stored[c] = mem[c] \/ SectionOf[c] \in mask \cup unmarked
                   => stored'[c] = mem[c] \/ SectionOf[c] \in mask' \cup unmarked'
          /\ SaveSucceeds(TRUE) => \A c \in Cells : stored'[c] = mem[c]
      BY <1>2, <2>1, SaveFact
    <2>3. RoleTypeOK'
      BY <1>1, <1>2, <2>1, <2>2 DEF RoleTypeOK
    <2>4. SavedUnlessDirty' /\ FlushedIsSaved'
      BY <1>1, <1>2, <2>1, <2>2 DEF SavedUnlessDirty, FlushedIsSaved
    <2> QED BY <1>3, <2>3, <2>4 DEF IInv
  <1>5. CASE ~cached
    <2>1. UNCHANGED <<mask, need, fields, stored, unmarked, failed>>
      BY <1>5 DEF FlushAllToDB, hashVars
    <2>2. RoleTypeOK'
      BY <1>1, <1>2, <2>1 DEF RoleTypeOK
    <2>3. SavedUnlessDirty' /\ FlushedIsSaved'
      BY <1>1, <1>5 DEF SavedUnlessDirty, FlushedIsSaved
    <2> QED BY <1>3, <2>2, <2>3 DEF IInv
  <1> QED BY <1>4, <1>5

LEMMA ProcessStep == ASSUME IInv, Process PROVE IInv'
  <1>1. RoleTypeOK /\ PhaseInv
    BY DEF IInv
  <1>2. CASE Drained
    BY <1>1, <1>2, OutsideStep DEF Drained, unchangedByShutdown, roleVars, RoleTypeOK
  <1>3. CASE Terminate
    <2>1. /\ Forget /\ mask' = {} /\ unmarked' = {} /\ phase' = "down" /\ failed' = FALSE
          /\ pc' = "idle" /\ force' = FALSE /\ stale' = FALSE /\ posted' = FALSE
          /\ fields' = fields /\ stored' = stored
      BY <1>3 DEF Terminate, hashVars
    <2>2. fields \subseteq Sections /\ stored \in Values
      BY <1>1 DEF RoleTypeOK
    <2> QED BY <2>1, <2>2, ForgetStep
  <1>4. CASE Restart
    BY <1>1, <1>4, OutsideStep DEF Restart, unchangedByShutdown, roleVars, RoleTypeOK
  <1> QED BY <1>2, <1>3, <1>4, FlushAllStep DEF Process, Stop, Crash

LEMMA TickStep == ASSUME IInv, Tick PROVE IInv'
  <1>1. RoleTypeOK /\ PhaseInv
    BY DEF IInv
  <1>2. CASE HeartbeatLapses
    BY <1>1, <1>2, OutsideStep DEF HeartbeatLapses, procVars, RoleTypeOK, PhaseInv
  <1>3. CASE PostLogout
    BY <1>1, <1>3, OutsideStep DEF PostLogout, procVars, RoleTypeOK, PhaseInv
  <1>4. CASE LogoutTooLate
    BY <1>1, <1>4, OutsideStep DEF LogoutTooLate, procVars, RoleTypeOK, PhaseInv
  <1>5. CASE LogoutOfClient \/ LogoutOfTick
    BY <1>1, <1>5, DropStep DEF LogoutOfClient, LogoutOfTick, RoleTypeOK
  <1> QED BY <1>2, <1>3, <1>4, <1>5 DEF Tick

LEMMA HandlerStep == ASSUME IInv, Handler PROVE IInv'
  <1>1. RoleTypeOK /\ PhaseInv
    BY DEF IInv
  <1>2. ASSUME NEW k \in Kinds, FindRole(k) PROVE IInv'
    BY <1>1, <1>2, OutsideStep DEF FindRole, Kinds, Accepting, procVars, RoleTypeOK
  <1>3. CASE PersistLater
    BY <1>1, <1>3, OutsideStep DEF PersistLater, procVars, RoleTypeOK
  <1> QED BY <1>2, <1>3, LoadStep, CreateStep, ChangeEntryStep, ChangeSectionStep, HeartbeatStep,
             LoginStep, GmStep, RefreshStep, FlushClientStep, PersistStep DEF Handler

LEMMA StutterStep == ASSUME IInv, UNCHANGED vars PROVE IInv'
  <1>1. RoleTypeOK /\ PhaseInv
    BY DEF IInv
  <1> QED BY <1>1, OutsideStep DEF vars, procVars, RoleTypeOK, PhaseInv

THEOREM RoleInvariance == FairSpec => []IInv
  <1>1. IInv /\ [Next]_vars => IInv'
    BY HandlerStep, TickStep, ProcessStep, StutterStep DEF Next
  <1> QED BY <1>1, InitInv, PTL DEF FairSpec

\* Every variable of the role keeps its type; in particular no entry is both
\* upserted and deleted, and no section waits to be sent both whole and patched.
THEOREM RoleTypes == FairSpec => []RoleTypeOK
  <1>1. IInv => RoleTypeOK
    BY DEF IInv
  <1> QED BY <1>1, RoleInvariance, PTL

\* persistDirtyMask misses no change that was marked, so that an incremental
\* save leaves nothing behind, for any sections and any order of failures.
THEOREM DirtyMaskSuffices == FairSpec => []SavedUnlessDirty
  <1>1. IInv => SavedUnlessDirty
    BY DEF IInv
  <1> QED BY <1>1, RoleInvariance, PTL

\* The messages of buildSyncDataV2 and of the patches bring the client to what is
\* in memory, except for what still waits to be sent.
THEOREM ClientFollows == FairSpec => []SyncedUnlessPending
  <1>1. IInv => SyncedUnlessPending
    BY DEF IInv
  <1> QED BY <1>1, RoleInvariance, PTL

\* FlushAllToDB after the drain leaves the whole role in Redis.
THEOREM FlushSavesRole == FairSpec => []FlushedIsSaved
  <1>1. IInv => FlushedIsSaved
    BY DEF IInv
  <1> QED BY <1>1, RoleInvariance, PTL
=============================================================================
