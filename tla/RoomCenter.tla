----------------------------- MODULE RoomCenter -----------------------------
(***************************************************************************)
(* The room center of one zone (TexasRoomCenterMgr): per stage a table of  *)
(* rooms with their number of players, its snapshots in Redis, and the     *)
(* callers of QuickStart in mainsvr.                                       *)
(*                                                                         *)
(* A step is one critical section of the manager's lock, as base.go asks:  *)
(* the serial key of the zone is not relied upon, so two requests may be   *)
(* between their two phases at once.  Savers hold the read lock while they *)
(* write to Redis, which takes several steps.                              *)
(***************************************************************************)
EXTENDS Integers, FiniteSets, Sequences

CONSTANTS
    RoomIds,        \* ids the generator may hand out, natural numbers
    Players,
    Stages,
    Wanted,         \* player -> the stage it asks for
    Coin,           \* the coin type, which is part of the zone's index
    Configured,     \* <<stage, coin>> pairs that the game data knows
    MaxPlayer,
    MaxTries,       \* 3 in OnMainQuickStart
    MaxRestarts,    \* bound on how often the process starts again
    Reported,       \* numbers of players in the messages of gamesvr
    MaxReports,     \* bound on the messages of gamesvr
    Mortal,         \* rooms whose EndTime may pass in the time looked at
    Absent,         \* in place of a number of players: no such room
    NoBase

ASSUME RoomCenterAssumption ==
    /\ RoomIds \subseteq Nat /\ Mortal \subseteq RoomIds
    /\ IsFiniteSet(Players) /\ Wanted \in [Players -> Stages]
    /\ MaxPlayer \in Nat \ {0} /\ Reported \subseteq Nat
    /\ MaxTries \in Nat \ {0} /\ MaxRestarts \in Nat /\ MaxReports \in Nat
    /\ Absent \notin Nat
    /\ Configured \subseteq Nat \X Nat
    /\ Stages \cup {Coin} \subseteq Nat
    /\ NoBase \notin [stage : Nat, coin : Nat]

VARIABLES
    phase,      \* of the process
    late,       \* did the drain of the TransactionMgr time out
    restarts,
    reports,    \* what gamesvr has said so far: <<room, players>>, 0 if it is gone
    created,    \* the stages in TexasMap
    rooms,      \* stage -> room id -> CurPlayerNum, or Absent
    dirty,      \* stages with isChange set
    snapshot,   \* what Redis holds
    unread,     \* stages whose snapshot could not be read and is not yet replaced
    failed,     \* stages that the final flush could not write
    saver,      \* the persistence task or the final flush, at work
    base,       \* room id -> stage and coin type given to gamesvr
    expired,    \* rooms whose EndTime has passed
    jobs,       \* rooms that the tick is about to create: stage and coin type
    req,        \* QuickStart requests, one per player and try, with the room granted
    call,       \* OnMainQuickStart of each player
    foreign     \* rooms whose number was set by a report or by a snapshot

tableVars == <<created, rooms, dirty, unread, foreign>>
storeVars == <<snapshot, failed, saver>>
lifeVars == <<phase, late, restarts, reports>>
vars == <<lifeVars, tableVars, storeVars, base, expired, jobs, req, call>>

Tickets == Players \X (1 .. MaxTries)
Table == [RoomIds -> Nat \cup {Absent}]
NoRooms == [r \in RoomIds |-> Absent]
Idle == [who |-> "nobody", todo |-> {}, wrote |-> {}]
StageOf(t) == Wanted[t[1]]

TypeOK ==
    /\ phase \in {"up", "draining", "drained", "flushed", "down"}
    /\ late \in BOOLEAN /\ restarts \in 0 .. MaxRestarts
    /\ reports \in Seq(RoomIds \X Nat) /\ Len(reports) <= MaxReports
    /\ created \subseteq Stages /\ dirty \subseteq created
    /\ unread \subseteq created /\ failed \subseteq Stages
    /\ rooms \in [Stages -> Table] /\ snapshot \in [Stages -> Table]
    /\ saver \in [who : {"nobody", "persist", "flush"}, todo : SUBSET Stages, wrote : SUBSET Stages]
    /\ base \in [RoomIds -> [stage : Nat, coin : Nat] \cup {NoBase}]
    /\ expired \subseteq RoomIds /\ foreign \subseteq Stages \X RoomIds
    /\ jobs \subseteq Nat \X Nat
    /\ req \in [Tickets -> [st : {"none", "sent", "creating", "granted", "over", "returning"},
                            room : RoomIds \cup {Absent}]]
    /\ call \in [Players -> [pc : {"idle", "asking", "joining", "done"},
                             try : 0 .. MaxTries]]
-----------------------------------------------------------------------------
(* The lock, the tables and the factory. *)

\* mutant of CanLock: writers do not take the lock.
CanLockAlways == TRUE

\* A writer waits for the reader that is saving.
CanLock == saver.who = "nobody"

\* The TransactionMgr takes new packets.
Accepting == phase \in {"up", "draining"} \/ (late /\ phase # "down")

Listed(s) == {r \in RoomIds : rooms[s][r] # Absent}
\* mutant of HasSeat: the comparison is off by one.
HasSeatOrFull(n) == n # Absent /\ n <= MaxPlayer

HasSeat(n) == n # Absent /\ n < MaxPlayer

Open(s) == {r \in RoomIds : HasSeat(rooms[s][r])}

GiveBack(n) == IF n > 0 THEN n - 1 ELSE n

\* mutant of FirstSeat: registered without the player.
NoFirstSeat == 0

\* The seat of the player for whom a room is registered.
FirstSeat == 1

\* Write n into the table of stage s and mark the table.
SetRoom(s, r, n) ==
    /\ rooms' = [rooms EXCEPT ![s][r] = n]
    /\ dirty' = dirty \cup {s}

\* OnAiCreateRoom: a new id, whose base goes to gamesvr.
CreateRoom(r, stage, coin) ==
    /\ base[r] = NoBase
    /\ <<stage, coin>> \in Configured
    /\ base' = [base EXCEPT ![r] = [stage |-> stage, coin |-> coin]]
-----------------------------------------------------------------------------
Init ==
    /\ phase = "up" /\ late = FALSE /\ restarts = 0 /\ reports = <<>>
    /\ created = {} /\ dirty = {} /\ unread = {} /\ failed = {} /\ foreign = {}
    /\ rooms = [s \in Stages |-> NoRooms]
    /\ snapshot = [s \in Stages |-> NoRooms]
    /\ saver = Idle
    /\ base = [r \in RoomIds |-> NoBase]
    /\ expired = {}
    /\ jobs = {}
    /\ req = [t \in Tickets |-> [st |-> "none", room |-> Absent]]
    /\ call = [p \in Players |-> [pc |-> "idle", try |-> 0]]

\* GetTexasObj of whatever handler comes first, RoomListPage included.  The
\* snapshot is restored under the write lock; a read that fails leaves an empty
\* table that is not marked.
GetTexasObj(s) ==
    /\ Accepting /\ CanLock
    /\ s \in Stages \ created
    /\ created' = created \cup {s}
    /\ \/ /\ rooms' = [rooms EXCEPT ![s] = snapshot[s]]
          /\ foreign' = foreign \cup {<<s, r>> : r \in {q \in RoomIds : snapshot[s][q] # Absent}}
          /\ UNCHANGED unread
       \/ /\ unread' = unread \cup {s}
          /\ UNCHANGED <<rooms, foreign>>
    /\ UNCHANGED <<dirty, lifeVars, storeVars, base, expired, jobs, req, call>>

\* The open room with the smallest id, under the lock.
QuickStartPick(t) ==
    /\ Accepting /\ CanLock
    /\ req[t].st = "sent"
    /\ StageOf(t) \in created
    /\ \E r \in Open(StageOf(t)) :
        /\ \A q \in Open(StageOf(t)) : r <= q
        /\ SetRoom(StageOf(t), r, rooms[StageOf(t)][r] + 1)
        /\ req' = [req EXCEPT ![t] = [st |-> "granted", room |-> r]]
    /\ UNCHANGED <<created, unread, foreign, lifeVars, storeVars, base, expired, jobs, call>>

\* No room is open.  QuickStart passes the coin type where createRoomFn expects
\* the stage and the stage where it expects the coin type.
QuickStartCreate(t) ==
    /\ Accepting /\ CanLock
    /\ req[t].st = "sent"
    /\ StageOf(t) \in created /\ Open(StageOf(t)) = {}
    /\ \/ \E r \in RoomIds :
            /\ CreateRoom(r, Coin, StageOf(t))
            /\ req' = [req EXCEPT ![t] = [st |-> "creating", room |-> r]]
       \/ /\ req' = [req EXCEPT ![t].st = "over"]
          /\ UNCHANGED base
    /\ UNCHANGED <<lifeVars, tableVars, storeVars, expired, jobs, call>>

\* The second critical section: a report may have come first, and then the room
\* may be full, which the caller is not told.
QuickStartRegister(t) ==
    LET s == StageOf(t)
        r == req[t].room
    IN  /\ phase # "down" /\ CanLock
        /\ req[t].st = "creating"
        /\ IF rooms[s][r] = Absent THEN SetRoom(s, r, FirstSeat)
           ELSE IF HasSeat(rooms[s][r]) THEN SetRoom(s, r, rooms[s][r] + 1)
           ELSE UNCHANGED <<rooms, dirty>>
        /\ req' = [req EXCEPT ![t].st = "granted"]
        /\ UNCHANGED <<created, unread, foreign, lifeVars, storeVars, base, expired, jobs, call>>

\* The one-way message names the room, not the ticket.
QuickStartRollback(t) ==
    LET s == StageOf(t)
        n == rooms[s][req[t].room]
    IN  /\ Accepting /\ CanLock
        /\ req[t].st = "returning"
        /\ s \in created
        /\ req' = [req EXCEPT ![t] = [st |-> "over", room |-> Absent]]
        /\ IF n # Absent /\ GiveBack(n) # n
           THEN SetRoom(s, req[t].room, GiveBack(n))
           ELSE UNCHANGED <<rooms, dirty>>
        /\ UNCHANGED <<created, unread, foreign, lifeVars, storeVars, base, expired, jobs, call>>

\* The seat stays taken, as it does when the answer to a grant is lost.
RollbackLost(t) ==
    /\ req[t].st = "returning"
    /\ req' = [req EXCEPT ![t].st = "granted"]
    /\ UNCHANGED <<lifeVars, tableVars, storeVars, base, expired, jobs, call>>

\* One more message of gamesvr.
Say(r, n) == Len(reports) < MaxReports /\ reports' = Append(reports, <<r, n>>)

\* gamesvr reports a room that it was asked to create, early or late.  The number
\* is stored as it comes, MaxPlayer or not.  The report goes to the zone of the
\* room's coin type and to the table of the room's stage.
UpdateRoomInfo(r, n) ==
    /\ Accepting /\ CanLock
    /\ Say(r, n)
    /\ base[r] # NoBase /\ base[r].coin = Coin /\ base[r].stage \in created
    /\ SetRoom(base[r].stage, r, n)
    /\ foreign' = foreign \cup {<<base[r].stage, r>>}
    /\ UNCHANGED <<created, unread, phase, late, restarts, storeVars, base, expired, jobs, req, call>>

DelRoomInfo(r) ==
    /\ Accepting /\ CanLock
    /\ Say(r, 0)
    /\ base[r] # NoBase /\ base[r].coin = Coin /\ base[r].stage \in created
    /\ rooms[base[r].stage][r] # Absent
    /\ SetRoom(base[r].stage, r, Absent)
    /\ UNCHANGED <<created, unread, foreign, phase, late, restarts, storeVars, base, expired, jobs, req, call>>

EndTimePasses(r) ==
    /\ r \in Mortal \ expired /\ base[r] # NoBase
    /\ expired' = expired \cup {r}
    /\ UNCHANGED <<lifeVars, tableVars, storeVars, base, jobs, req, call>>
-----------------------------------------------------------------------------
(* The tick: expired rooms go, a stage without an open room gets a new one. *)

Overdue(s, r) == rooms[s][r] # Absent /\ r \in expired

Kept(s) == {r \in Listed(s) : ~Overdue(s, r)}
AllFull(s) == Kept(s) # {} /\ \A r \in Kept(s) : ~HasSeat(rooms[s][r])

CheckAndCreateRooms ==
    /\ Accepting /\ CanLock
    /\ jobs = {}
    /\ rooms' = [s \in Stages |-> [r \in RoomIds |->
                    IF Overdue(s, r) THEN Absent ELSE rooms[s][r]]]
    /\ dirty' = dirty \cup {s \in created : \E r \in RoomIds : Overdue(s, r)}
    /\ \E sample \in [{s \in created : AllFull(s)} -> RoomIds] :
        /\ \A s \in DOMAIN sample : sample[s] \in Kept(s) /\ base[sample[s]] # NoBase
        /\ jobs' = {<<base[sample[s]].stage, base[sample[s]].coin>> : s \in DOMAIN sample}
    /\ UNCHANGED <<created, unread, foreign, lifeVars, storeVars, base, expired, req, call>>

\* Outside the lock: nothing is registered here, the room is listed once gamesvr
\* reports it.
CreateRoomOf(j) ==
    /\ phase # "down"
    /\ j \in jobs
    /\ jobs' = jobs \ {j}
    /\ \/ \E r \in RoomIds : CreateRoom(r, j[1], j[2])
       \/ UNCHANGED base
    /\ UNCHANGED <<lifeVars, tableVars, storeVars, expired, req, call>>

\* A goroutine of the startup creates a room of each configured kind.
OnAiInitRoom ==
    /\ phase # "down"
    /\ \E c \in Configured, r \in RoomIds : CreateRoom(r, c[1], c[2])
    /\ UNCHANGED <<lifeVars, tableVars, storeVars, expired, jobs, req, call>>
-----------------------------------------------------------------------------
(* Snapshots: SaveRoomDataToDB of the task, FlushAllRoomsToDB at shutdown.   *)
(* Both hold the read lock from SaveBegins to SaveEnds.                      *)

\* mutant of MayFlush: the flush does not wait for the TransactionMgr.
MayFlushUndrained == phase \in {"draining", "drained"}

MayFlush == phase = "drained"

\* Two readers would find and write the same tables: one at a time is enough.
SaveBegins(w) ==
    /\ phase # "down" /\ saver.who = "nobody"
    /\ w = "flush" => MayFlush
    /\ w = "persist" => created \cap dirty # {}
    /\ saver' = [Idle EXCEPT !.who = w, !.todo = created]
    /\ UNCHANGED <<snapshot, failed, lifeVars, tableVars, base, expired, jobs, req, call>>

\* The task passes over a stage that is not marked.
Due(s) == s \in saver.todo /\ saver.wrote = {} /\ (saver.who = "flush" \/ s \in dirty)

WriteSnapshot(s) ==
    /\ Due(s)
    /\ snapshot' = [snapshot EXCEPT ![s] = rooms[s]]
    /\ saver' = [saver EXCEPT !.wrote = {s}]
    /\ UNCHANGED <<failed, lifeVars, tableVars, base, expired, jobs, req, call>>

\* Redis reports an error, and may have stored the value all the same.
WriteFails(s) ==
    /\ Due(s)
    /\ snapshot' \in {snapshot, [snapshot EXCEPT ![s] = rooms[s]]}
    /\ failed' = IF saver.who = "flush" THEN failed \cup {s} ELSE failed
    /\ saver' = [saver EXCEPT !.todo = @ \ {s}]
    /\ UNCHANGED <<lifeVars, tableVars, base, expired, jobs, req, call>>

MarkSaved(s) ==
    /\ saver.wrote = {s}
    /\ dirty' = dirty \ {s} /\ unread' = unread \ {s}
    /\ saver' = [saver EXCEPT !.todo = @ \ {s}, !.wrote = {}]
    /\ UNCHANGED <<created, rooms, foreign, snapshot, failed, lifeVars, base, expired, jobs, req, call>>

SaveEnds ==
    /\ saver.who # "nobody"
    /\ saver.wrote = {} /\ \A s \in Stages : ~Due(s)
    /\ saver' = Idle
    /\ phase' = IF saver.who = "flush" THEN "flushed" ELSE phase
    /\ UNCHANGED <<late, restarts, reports, snapshot, failed, tableVars, base, expired, jobs, req, call>>

SaveStep ==
    \/ SaveEnds
    \/ \E s \in Stages : WriteSnapshot(s) \/ WriteFails(s) \/ MarkSaved(s)
-----------------------------------------------------------------------------
(* The process.  Components drain in reverse order of registration: the      *)
(* TransactionMgr, then room_flush.                                          *)

InHandler == (\E t \in Tickets : req[t].st = "creating") \/ jobs # {}

BeginDrain ==
    /\ phase = "up" /\ phase' = "draining"
    /\ UNCHANGED <<late, restarts, reports, tableVars, storeVars, base, expired, jobs, req, call>>

Drained ==
    /\ phase = "draining" /\ ~InHandler
    /\ phase' = "drained"
    /\ UNCHANGED <<late, restarts, reports, tableVars, storeVars, base, expired, jobs, req, call>>

DrainTimesOut ==
    /\ phase = "draining"
    /\ phase' = "drained" /\ late' = TRUE
    /\ UNCHANGED <<restarts, reports, tableVars, storeVars, base, expired, jobs, req, call>>

\* The process ends, after Stop or by a crash: only Redis remains.
Terminate ==
    /\ phase' = "down" /\ late' = FALSE
    /\ created' = {} /\ dirty' = {} /\ unread' = {} /\ failed' = {} /\ foreign' = {}
    /\ rooms' = [s \in Stages |-> NoRooms]
    /\ saver' = Idle
    /\ jobs' = {}
    /\ req' = [t \in Tickets |->
                IF req[t].st = "creating" THEN [st |-> "over", room |-> Absent] ELSE req[t]]
    /\ UNCHANGED <<restarts, reports, snapshot, base, expired, call>>

Stop == phase = "flushed" /\ Terminate
Crash == phase # "down" /\ Terminate

Restart ==
    /\ phase = "down" /\ restarts < MaxRestarts
    /\ phase' = "up" /\ restarts' = restarts + 1
    /\ UNCHANGED <<late, reports, tableVars, storeVars, base, expired, jobs, req, call>>
-----------------------------------------------------------------------------
(* OnMainQuickStart: up to MaxTries times, ask for a seat and join the room. *)

Ticket(p) == <<p, call[p].try>>

\* The next round of the loop, with the requests as given.
NextTry(p, reqs) ==
    IF call[p].try < MaxTries
    THEN /\ call' = [call EXCEPT ![p] = [pc |-> "asking", try |-> call[p].try + 1]]
         /\ req' = [reqs EXCEPT ![<<p, call[p].try + 1>>].st = "sent"]
    ELSE /\ call' = [call EXCEPT ![p].pc = "done"]
         /\ req' = reqs

elsewhere == <<lifeVars, tableVars, storeVars, base, expired, jobs>>

Ask(p) ==
    /\ call[p].pc = "idle"
    /\ NextTry(p, req)
    /\ UNCHANGED elsewhere

Answered(p) ==
    /\ call[p].pc = "asking"
    /\ \/ /\ req[Ticket(p)].st = "granted"
          /\ call' = [call EXCEPT ![p].pc = "joining"]
          /\ UNCHANGED req
       \/ /\ req[Ticket(p)].st = "over"
          /\ NextTry(p, req)
    /\ UNCHANGED elsewhere

\* The call ends without an answer.  The request may still be executed: then the
\* seat is taken for nobody, and no rollback is sent.
AskTimesOut(p) ==
    /\ call[p].pc = "asking"
    /\ NextTry(p, req)
    /\ UNCHANGED elsewhere

Joined(p) ==
    /\ call[p].pc = "joining"
    /\ call' = [call EXCEPT ![p].pc = "done"]
    /\ UNCHANGED <<req, elsewhere>>

JoinFails(p) ==
    /\ call[p].pc = "joining"
    /\ NextTry(p, [req EXCEPT ![Ticket(p)].st = "returning"])
    /\ UNCHANGED elsewhere

QuickStart == \E t \in Tickets :
    QuickStartPick(t) \/ QuickStartCreate(t) \/ QuickStartRegister(t)
        \/ QuickStartRollback(t) \/ RollbackLost(t)

Gamesvr == \E r \in RoomIds :
    \/ DelRoomInfo(r) \/ EndTimePasses(r)
    \/ \E n \in Reported : UpdateRoomInfo(r, n)

OnMainQuickStart == \E p \in Players :
    Ask(p) \/ Answered(p) \/ AskTimesOut(p) \/ Joined(p) \/ JoinFails(p)

Next ==
    \/ QuickStart \/ Gamesvr \/ OnMainQuickStart
    \/ \E s \in Stages : GetTexasObj(s)
    \/ CheckAndCreateRooms \/ OnAiInitRoom \/ \E j \in jobs : CreateRoomOf(j)
    \/ SaveBegins("persist") \/ SaveBegins("flush") \/ SaveStep
    \/ BeginDrain \/ Drained \/ DrainTimesOut \/ Stop \/ Crash \/ Restart

Spec == Init /\ [][Next]_vars
-----------------------------------------------------------------------------
(* Properties. *)

\* n players are within the seats of room r, or gamesvr itself has reported as many.
Attested(r, n) ==
    n <= MaxPlayer \/ \E i \in DOMAIN reports : reports[i][1] = r /\ n <= reports[i][2]

\* A room is listed with more players than it has seats only if gamesvr reported
\* at least as many of that room: QuickStart, its rollbacks, the snapshots and the
\* restarts never add a player to a room that is full.
NoOverfill ==
    \A s \in Stages : \A r \in Listed(s) : Attested(r, rooms[s][r])

Holders(s, r) == {t \in Tickets :
    StageOf(t) = s /\ req[t].room = r /\ req[t].st \in {"granted", "returning"}}

\* Until a report or a snapshot replaces it, the number of players of a room is
\* the number of granted seats not yet given back: tries that time out, rollbacks
\* and registrations neither lose a seat nor count one twice.
SeatsAreHeld ==
    \A s \in Stages : \A r \in Listed(s) :
        <<s, r>> \in foreign \/ rooms[s][r] = Cardinality(Holders(s, r))

\* A table that is not marked is the one in Redis, unless its snapshot could not
\* be read: what a crash can lose is marked.  For the moment between the write
\* and MarkSaved this relies on the read lock.
CleanIsSaved ==
    \A s \in created : s \in dirty \/ s \in unread \/ snapshot[s] = rooms[s]

\* When the flush of an orderly shutdown is over, Redis holds every table that it
\* could write, and nothing changes the tables any more.
DrainedIsSaved ==
    phase = "flushed" /\ ~late =>
        \A s \in created : s \in failed \/ snapshot[s] = rooms[s]
=============================================================================
