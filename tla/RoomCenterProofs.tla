-------------------------- MODULE RoomCenterProofs --------------------------
(* Theorems about RoomCenter, for any number of rooms, stages, players and tries. *)
EXTENDS RoomCenter, FiniteSetTheorems, TLAPS

\* Requests that have a room.
Seated == {"creating", "granted", "returning"}

ReqInv ==
    \A t \in Tickets :
        /\ req[t].st \in Seated => req[t].room \in RoomIds
        /\ req[t].st = "creating" => StageOf(t) \in created /\ phase # "down"

CallInv ==
    \A p \in Players :
        /\ call[p].pc \in {"asking", "joining"} => call[p].try # 0
        /\ call[p].pc = "joining" => req[<<p, call[p].try>>].st = "granted"
        /\ \A k \in 1 .. MaxTries : k > call[p].try => req[<<p, k>>].st = "none"

TypeInv == TypeOK /\ ReqInv /\ CallInv
-----------------------------------------------------------------------------
(* Typing, one part for each group of variables. *)

ReqType == [st : {"none", "sent", "creating", "granted", "over", "returning"},
            room : RoomIds \cup {Absent}]
CallType == [pc : {"idle", "asking", "joining", "done"}, try : 0 .. MaxTries]

LifeTyped ==
    /\ phase \in {"up", "draining", "drained", "flushed", "down"}
    /\ late \in BOOLEAN /\ restarts \in 0 .. MaxRestarts
    /\ reports \in Seq(RoomIds \X Nat) /\ Len(reports) <= MaxReports
TableTyped ==
    /\ created \subseteq Stages /\ dirty \subseteq created /\ unread \subseteq created
    /\ rooms \in [Stages -> Table]
    /\ foreign \subseteq Stages \X RoomIds
StoreTyped ==
    /\ snapshot \in [Stages -> Table] /\ failed \subseteq Stages
    /\ saver \in [who : {"nobody", "persist", "flush"}, todo : SUBSET Stages, wrote : SUBSET Stages]
BaseTyped ==
    /\ base \in [RoomIds -> [stage : Nat, coin : Nat] \cup {NoBase}]
    /\ expired \subseteq RoomIds
    /\ jobs \subseteq Nat \X Nat
CallsTyped == req \in [Tickets -> ReqType] /\ call \in [Players -> CallType]

LEMMA TypeParts ==
    TypeOK <=> LifeTyped /\ TableTyped /\ StoreTyped /\ BaseTyped /\ CallsTyped
  BY DEF TypeOK, LifeTyped, TableTyped, StoreTyped, BaseTyped, CallsTyped, ReqType, CallType

LEMMA TypePartsNext ==
    LifeTyped' /\ TableTyped' /\ StoreTyped' /\ BaseTyped' /\ CallsTyped' => TypeOK'
  BY DEF TypeOK, LifeTyped, TableTyped, StoreTyped, BaseTyped, CallsTyped, ReqType, CallType

LEMMA TypesStay ==
    ASSUME TypeOK
    PROVE  /\ UNCHANGED lifeVars => LifeTyped'
           /\ UNCHANGED tableVars => TableTyped'
           /\ UNCHANGED storeVars => StoreTyped'
           /\ UNCHANGED <<base, expired, jobs>> => BaseTyped'
           /\ UNCHANGED <<req, call>> => CallsTyped'
  <1>1. LifeTyped /\ TableTyped /\ StoreTyped /\ BaseTyped /\ CallsTyped
    BY TypeParts
  <1>2. UNCHANGED lifeVars => LifeTyped'
    BY <1>1 DEF lifeVars, LifeTyped
  <1>3. UNCHANGED tableVars => TableTyped'
    BY <1>1 DEF tableVars, TableTyped
  <1>4. UNCHANGED storeVars => StoreTyped'
    BY <1>1 DEF storeVars, StoreTyped
  <1>5. UNCHANGED <<base, expired, jobs>> => BaseTyped'
    BY <1>1 DEF BaseTyped
  <1>6. UNCHANGED <<req, call>> => CallsTyped'
    BY <1>1 DEF CallsTyped
  <1> QED BY <1>2, <1>3, <1>4, <1>5, <1>6

LEMMA InitTypes == Init => TypeInv
  <1> SUFFICES ASSUME Init PROVE TypeInv
    OBVIOUS
  <1>1. TypeOK
    <2>1. rooms \in [Stages -> Table] /\ snapshot \in [Stages -> Table]
      BY DEF Init, Table, NoRooms
    <2>2. base \in [RoomIds -> [stage : Nat, coin : Nat] \cup {NoBase}]
      BY DEF Init
    <2>3. req \in [Tickets -> ReqType] /\ call \in [Players -> CallType]
      BY RoomCenterAssumption DEF Init, ReqType, CallType
    <2>4. saver \in [who : {"nobody", "persist", "flush"}, todo : SUBSET Stages, wrote : SUBSET Stages]
      BY DEF Init, Idle
    <2>5. /\ phase = "up" /\ late = FALSE /\ restarts = 0 /\ reports = <<>>
          /\ created = {} /\ dirty = {} /\ unread = {} /\ failed = {} /\ foreign = {}
          /\ expired = {} /\ jobs = {}
      BY DEF Init
    <2>6. /\ 0 \in 0 .. MaxRestarts
          /\ <<>> \in Seq(RoomIds \X Nat) /\ Len(<<>>) <= MaxReports
      BY RoomCenterAssumption
    <2> QED BY <2>1, <2>2, <2>3, <2>4, <2>5, <2>6 DEF TypeOK, ReqType, CallType
  <1>2. ReqInv /\ CallInv
    BY DEF Init, ReqInv, CallInv, Seated, Tickets
  <1> QED BY <1>1, <1>2 DEF TypeInv

LEMMA SetRoomTypes ==
    ASSUME TypeOK, NEW s \in created, NEW r \in RoomIds, NEW n \in Nat \cup {Absent}, SetRoom(s, r, n)
    PROVE  /\ rooms' \in [Stages -> Table]
           /\ dirty' \subseteq created
           /\ rooms'[s][r] = n
           /\ \A z \in Stages, q \in RoomIds : <<z, q>> # <<s, r>> => rooms'[z][q] = rooms[z][q]
           /\ \A z \in Stages : z \notin dirty' => rooms'[z] = rooms[z]
           /\ dirty \subseteq dirty'
  BY DEF TypeOK, SetRoom, Table

LEMMA CreateRoomTypes ==
    ASSUME TypeOK, NEW r \in RoomIds, NEW stage, NEW coin, CreateRoom(r, stage, coin)
    PROVE  /\ base' \in [RoomIds -> [stage : Nat, coin : Nat] \cup {NoBase}]
           /\ base[r] = NoBase /\ base'[r] # NoBase
           /\ \A q \in RoomIds : q # r => base'[q] = base[q]
  BY RoomCenterAssumption DEF TypeOK, CreateRoom

LEMMA TicketTypes ==
    ASSUME TypeInv, NEW t \in Tickets
    PROVE  /\ StageOf(t) \in Stages
           /\ req[t] \in ReqType
           /\ req[t].st \in Seated => req[t].room \in RoomIds /\ req[t].room # Absent
  BY RoomCenterAssumption DEF TypeInv, TypeOK, ReqInv, Tickets, StageOf, ReqType, Seated

\* A request takes another state, with the room that it has or another one.
LEMMA ReqStep ==
    ASSUME TypeInv, NEW t \in Tickets, NEW v \in ReqType,
           req' = [req EXCEPT ![t] = v], UNCHANGED call,
           created \subseteq created', UNCHANGED phase,
           req[t].st # "none", req[t].st # "granted",
           v.st \in Seated => v.room \in RoomIds,
           v.st = "creating" => StageOf(t) \in created /\ phase # "down"
    PROVE  CallsTyped' /\ ReqInv' /\ CallInv'
  <1>1. /\ req \in [Tickets -> ReqType] /\ call \in [Players -> CallType]
        /\ ReqInv /\ CallInv
    BY DEF TypeInv, TypeOK, ReqType, CallType
  <1>2. CallsTyped'
    BY <1>1 DEF CallsTyped
  <1>3. ReqInv'
    BY <1>1 DEF ReqInv, StageOf
  <1>4. CallInv'
    BY <1>1 DEF CallInv, Tickets, CallType
  <1> QED BY <1>2, <1>3, <1>4

LEMMA PickTypes == ASSUME TypeInv, NEW t \in Tickets, QuickStartPick(t) PROVE TypeInv'
  <1>1. PICK r \in Open(StageOf(t)) :
            /\ SetRoom(StageOf(t), r, rooms[StageOf(t)][r] + 1)
            /\ req' = [req EXCEPT ![t] = [st |-> "granted", room |-> r]]
    BY DEF QuickStartPick
  <1>2. /\ TypeOK /\ StageOf(t) \in created /\ StageOf(t) \in Stages
        /\ r \in RoomIds /\ rooms[StageOf(t)][r] \in Nat
    BY TicketTypes DEF TypeInv, TypeOK, Table, QuickStartPick, Open, HasSeat
  <1>3. rooms' \in [Stages -> Table] /\ dirty' \subseteq created
    BY <1>1, <1>2, SetRoomTypes
  <1>4. TableTyped'
    BY <1>2, <1>3, TypeParts DEF QuickStartPick, TableTyped
  <1>5. CallsTyped' /\ ReqInv' /\ CallInv'
    <2> DEFINE v == [st |-> "granted", room |-> r]
    <2>1. v \in ReqType /\ v.st = "granted" /\ v.room \in RoomIds
      BY <1>2 DEF ReqType
    <2>2. req[t].st = "sent" /\ req' = [req EXCEPT ![t] = v]
      BY <1>1 DEF QuickStartPick
    <2>3. created' = created /\ phase' = phase /\ call' = call
      BY DEF QuickStartPick, lifeVars
    <2> HIDE DEF v
    <2> QED BY <2>1, <2>2, <2>3, ReqStep
  <1> QED BY <1>2, <1>4, <1>5, TypesStay, TypePartsNext DEF QuickStartPick, TypeInv

LEMMA CreateTypes == ASSUME TypeInv, NEW t \in Tickets, QuickStartCreate(t) PROVE TypeInv'
  <1>1. /\ TypeOK /\ req[t].st = "sent" /\ req[t] \in ReqType
        /\ created' = created /\ phase' = phase /\ call' = call
        /\ UNCHANGED <<lifeVars, tableVars, storeVars, expired, jobs>>
        /\ StageOf(t) \in created /\ phase # "down"
    BY TicketTypes DEF TypeInv, QuickStartCreate, lifeVars, tableVars, Accepting
  <1>2. CASE \E r \in RoomIds :
            /\ CreateRoom(r, Coin, StageOf(t))
            /\ req' = [req EXCEPT ![t] = [st |-> "creating", room |-> r]]
    <2>1. PICK r \in RoomIds :
            /\ CreateRoom(r, Coin, StageOf(t))
            /\ req' = [req EXCEPT ![t] = [st |-> "creating", room |-> r]]
      BY <1>2
    <2> DEFINE v == [st |-> "creating", room |-> r]
    <2>2. v \in ReqType /\ v.st = "creating" /\ v.room \in RoomIds
      BY DEF ReqType
    <2>3. req' = [req EXCEPT ![t] = v]
      BY <2>1
    <2> HIDE DEF v
    <2>4. CallsTyped' /\ ReqInv' /\ CallInv'
      BY <1>1, <2>2, <2>3, ReqStep
    <2>5. BaseTyped'
      BY <1>1, <2>1, CreateRoomTypes, TypeParts DEF BaseTyped
    <2> QED BY <1>1, <2>4, <2>5, TypesStay, TypePartsNext DEF TypeInv
  <1>3. CASE req' = [req EXCEPT ![t].st = "over"] /\ UNCHANGED base
    <2> DEFINE v == [req[t] EXCEPT !.st = "over"]
    <2>1. v \in ReqType /\ v.st = "over"
      BY <1>1 DEF ReqType
    <2>2. req' = [req EXCEPT ![t] = v]
      BY <1>3
    <2> HIDE DEF v
    <2>3. CallsTyped' /\ ReqInv' /\ CallInv'
      BY <1>1, <2>1, <2>2, ReqStep DEF Seated
    <2> QED BY <1>1, <1>3, <2>3, TypesStay, TypePartsNext DEF TypeInv
  <1> QED BY <1>2, <1>3 DEF QuickStartCreate

LEMMA RegisterTypes == ASSUME TypeInv, NEW t \in Tickets, QuickStartRegister(t) PROVE TypeInv'
  <1> DEFINE s == StageOf(t)
             r == req[t].room
             v == [req[t] EXCEPT !.st = "granted"]
  <1>1. /\ TypeOK /\ req[t].st = "creating" /\ req[t] \in ReqType
        /\ s \in created /\ s \in Stages /\ r \in RoomIds
        /\ rooms[s][r] \in Nat \cup {Absent}
    BY TicketTypes DEF TypeInv, TypeOK, ReqInv, Table, QuickStartRegister, Seated
  <1>2. v \in ReqType /\ v.st = "granted" /\ v.room \in RoomIds
    BY <1>1 DEF ReqType
  <1>3. /\ req' = [req EXCEPT ![t] = v]
        /\ created' = created /\ phase' = phase /\ call' = call
        /\ UNCHANGED <<lifeVars, storeVars, base, expired, jobs, created, unread, foreign>>
    BY DEF QuickStartRegister, lifeVars
  <1>4. \/ \E n \in Nat : SetRoom(s, r, n)
        \/ UNCHANGED <<rooms, dirty>>
    <2>1. CASE rooms[s][r] = Absent
      BY <2>1 DEF QuickStartRegister, FirstSeat
    <2>2. CASE rooms[s][r] # Absent /\ HasSeat(rooms[s][r])
      <3>1. rooms[s][r] + 1 \in Nat
        BY <1>1, <2>2
      <3> QED BY <2>2, <3>1 DEF QuickStartRegister
    <2> QED BY <2>1, <2>2 DEF QuickStartRegister
  <1>5. rooms' \in [Stages -> Table] /\ dirty' \subseteq created
    BY <1>1, <1>4, SetRoomTypes DEF TypeOK
  <1>6. TableTyped'
    BY <1>1, <1>3, <1>5, TypeParts DEF TableTyped
  <1> HIDE DEF s, r, v
  <1>7. CallsTyped' /\ ReqInv' /\ CallInv'
    BY <1>1, <1>2, <1>3, ReqStep
  <1> QED BY <1>1, <1>3, <1>6, <1>7, TypesStay, TypePartsNext DEF TypeInv

LEMMA RollbackTypes == ASSUME TypeInv, NEW t \in Tickets, QuickStartRollback(t) PROVE TypeInv'
  <1> DEFINE s == StageOf(t)
             r == req[t].room
             v == [st |-> "over", room |-> Absent]
  <1>1. /\ TypeOK /\ req[t].st = "returning"
        /\ s \in created /\ s \in Stages /\ r \in RoomIds
        /\ rooms[s][r] \in Nat \cup {Absent}
    BY TicketTypes DEF TypeInv, TypeOK, Table, QuickStartRollback, Seated
  <1>2. v \in ReqType /\ v.st = "over"
    BY DEF ReqType
  <1>3. /\ req' = [req EXCEPT ![t] = v]
        /\ created' = created /\ phase' = phase /\ call' = call
        /\ UNCHANGED <<lifeVars, storeVars, base, expired, jobs, created, unread, foreign>>
    BY DEF QuickStartRollback, lifeVars
  <1>4. \/ \E n \in Nat : SetRoom(s, r, n)
        \/ UNCHANGED <<rooms, dirty>>
    <2>1. CASE rooms[s][r] # Absent /\ GiveBack(rooms[s][r]) # rooms[s][r]
      <3>1. GiveBack(rooms[s][r]) \in Nat
        BY <1>1, <2>1 DEF GiveBack
      <3> QED BY <2>1, <3>1 DEF QuickStartRollback
    <2> QED BY <2>1 DEF QuickStartRollback
  <1>5. rooms' \in [Stages -> Table] /\ dirty' \subseteq created
    BY <1>1, <1>4, SetRoomTypes DEF TypeOK
  <1>6. TableTyped'
    BY <1>1, <1>3, <1>5, TypeParts DEF TableTyped
  <1> HIDE DEF s, r, v
  <1>7. CallsTyped' /\ ReqInv' /\ CallInv'
    BY <1>1, <1>2, <1>3, ReqStep DEF Seated
  <1> QED BY <1>1, <1>3, <1>6, <1>7, TypesStay, TypePartsNext DEF TypeInv

LEMMA RollbackLostTypes == ASSUME TypeInv, NEW t \in Tickets, RollbackLost(t) PROVE TypeInv'
  <1> DEFINE v == [req[t] EXCEPT !.st = "granted"]
  <1>1. TypeOK /\ req[t].st = "returning" /\ req[t] \in ReqType /\ req[t].room \in RoomIds
    BY TicketTypes DEF TypeInv, RollbackLost, Seated
  <1>2. v \in ReqType /\ v.st = "granted" /\ v.room \in RoomIds
    BY <1>1 DEF ReqType
  <1>3. /\ req' = [req EXCEPT ![t] = v]
        /\ created' = created /\ phase' = phase /\ call' = call
        /\ UNCHANGED <<lifeVars, tableVars, storeVars, base, expired, jobs>>
    BY DEF RollbackLost, lifeVars, tableVars
  <1> HIDE DEF v
  <1>4. CallsTyped' /\ ReqInv' /\ CallInv'
    BY <1>1, <1>2, <1>3, ReqStep
  <1> QED BY <1>1, <1>3, <1>4, TypesStay, TypePartsNext DEF TypeInv

\* The loop of OnMainQuickStart goes on; its last request may have changed too.
LEMMA NextTryTypes ==
    ASSUME TypeInv, NEW p \in Players, NEW reqs \in [Tickets -> ReqType],
           NextTry(p, reqs), UNCHANGED elsewhere,
           \A t \in Tickets : \/ reqs[t] = req[t]
                              \/ /\ t = <<p, call[p].try>>
                                 /\ reqs[t].st = "returning" /\ reqs[t].room \in RoomIds
    PROVE  TypeInv'
  <1>1. /\ TypeOK /\ ReqInv /\ CallInv
        /\ call \in [Players -> CallType] /\ req \in [Tickets -> ReqType]
        /\ call[p].try \in 0 .. MaxTries
        /\ created' = created /\ phase' = phase
        /\ UNCHANGED <<lifeVars, tableVars, storeVars, base, expired, jobs>>
    BY DEF TypeInv, TypeOK, CallType, ReqType, elsewhere, tableVars, lifeVars
  <1>2. CASE call[p].try < MaxTries
    <2> DEFINE k == call[p].try + 1
               c == [pc |-> "asking", try |-> k]
               v == [reqs[<<p, k>>] EXCEPT !.st = "sent"]
    <2>1. k \in 1 .. MaxTries /\ <<p, k>> \in Tickets /\ c \in CallType /\ k = call[p].try + 1
          /\ c.pc = "asking" /\ c.try = k
      BY <1>1, <1>2, RoomCenterAssumption DEF Tickets, CallType
    <2>2. v \in ReqType /\ v.st = "sent"
      BY <2>1 DEF ReqType
    <2>3. call' = [call EXCEPT ![p] = c] /\ req' = [reqs EXCEPT ![<<p, k>>] = v]
      BY <1>2 DEF NextTry
    <2> HIDE DEF c, v, k
    <2>4. CallsTyped'
      BY <1>1, <2>1, <2>2, <2>3 DEF CallsTyped
    <2>5. ReqInv'
      BY <1>1, <2>1, <2>2, <2>3 DEF ReqInv, StageOf, Seated
    <2>6. CallInv'
      <3>1. ASSUME NEW q \in Players, q # p
            PROVE  \A j \in 1 .. MaxTries : req'[<<q, j>>] = req[<<q, j>>]
        BY <1>1, <2>1, <2>3, <3>1 DEF Tickets
      <3>2. \A j \in 1 .. MaxTries : j > k => req'[<<p, j>>] = req[<<p, j>>]
        BY <1>1, <2>1, <2>3 DEF Tickets
      <3>3. \A q \in Players : q # p => call'[q] = call[q]
        BY <1>1, <2>3
      <3>4. call'[p] = c
        BY <1>1, <2>3
      <3>5. ASSUME NEW q \in Players, q # p
            PROVE  /\ call'[q].pc \in {"asking", "joining"} => call'[q].try # 0
                   /\ call'[q].pc = "joining" => req'[<<q, call'[q].try>>].st = "granted"
                   /\ \A j \in 1 .. MaxTries : j > call'[q].try => req'[<<q, j>>].st = "none"
        <4>1. call[q].try \in 0 .. MaxTries
          BY <1>1 DEF CallType
        <4> QED BY <1>1, <3>1, <3>3, <3>5, <4>1 DEF CallInv
      <3>6. /\ c.pc \in {"asking", "joining"} => c.try # 0
            /\ c.pc # "joining"
            /\ \A j \in 1 .. MaxTries : j > c.try => req'[<<p, j>>].st = "none"
        <4>1. ASSUME NEW j \in 1 .. MaxTries, j > k PROVE req'[<<p, j>>].st = "none"
          <5>1. j > call[p].try
            BY <1>1, <2>1, <4>1, RoomCenterAssumption
          <5>2. req[<<p, j>>].st = "none"
            BY <1>1, <4>1, <5>1 DEF CallInv
          <5>3. req'[<<p, j>>] = req[<<p, j>>]
            BY <3>2, <4>1
          <5> QED BY <5>2, <5>3
        <4>2. c.try # 0 /\ c.pc # "joining"
          BY <2>1
        <4> QED BY <2>1, <4>1, <4>2
      <3> QED BY <3>4, <3>5, <3>6 DEF CallInv
    <2> QED BY <1>1, <2>4, <2>5, <2>6, TypesStay, TypePartsNext DEF TypeInv
  <1>3. CASE ~(call[p].try < MaxTries)
    <2> DEFINE c == [call[p] EXCEPT !.pc = "done"]
    <2>1. c \in CallType /\ c.pc = "done" /\ c.try = call[p].try
      BY <1>1 DEF CallType
    <2>2. call' = [call EXCEPT ![p] = c] /\ req' = reqs
      BY <1>3 DEF NextTry
    <2> HIDE DEF c
    <2>3. CallsTyped'
      BY <1>1, <2>1, <2>2 DEF CallsTyped
    <2>4. ReqInv'
      BY <1>1, <2>2 DEF ReqInv, StageOf, Seated
    <2>5. CallInv'
      <3>1. ASSUME NEW q \in Players, q # p
            PROVE  (\A j \in 1 .. MaxTries : req'[<<q, j>>] = req[<<q, j>>]) /\ call'[q] = call[q]
        BY <1>1, <2>2, <3>1 DEF Tickets
      <3>2. call'[p] = c
        BY <1>1, <2>2
      <3>3. ASSUME NEW q \in Players, q # p
            PROVE  /\ call'[q].pc \in {"asking", "joining"} => call'[q].try # 0
                   /\ call'[q].pc = "joining" => req'[<<q, call'[q].try>>].st = "granted"
                   /\ \A j \in 1 .. MaxTries : j > call'[q].try => req'[<<q, j>>].st = "none"
        <4>1. call[q].try \in 0 .. MaxTries
          BY <1>1 DEF CallType
        <4> QED BY <1>1, <3>1, <3>3, <4>1 DEF CallInv
      <3>4. \A j \in 1 .. MaxTries : ~(j > c.try)
        BY <1>1, <1>3, <2>1, RoomCenterAssumption
      <3> QED BY <2>1, <3>2, <3>3, <3>4 DEF CallInv
    <2> QED BY <1>1, <2>3, <2>4, <2>5, TypesStay, TypePartsNext DEF TypeInv
  <1> QED BY <1>2, <1>3

\* The caller takes another place and asks for nothing.
LEMMA CallStep ==
    ASSUME TypeInv, NEW p \in Players, NEW place \in {"joining", "done"},
           call' = [call EXCEPT ![p].pc = place], UNCHANGED <<req, elsewhere>>,
           place = "joining" => call[p].pc = "asking" /\ req[Ticket(p)].st = "granted"
    PROVE  TypeInv'
  <1> DEFINE c == [call[p] EXCEPT !.pc = place]
  <1>1. /\ TypeOK /\ ReqInv /\ CallInv
        /\ call \in [Players -> CallType] /\ req \in [Tickets -> ReqType]
        /\ created' = created /\ phase' = phase /\ req' = req
        /\ UNCHANGED <<lifeVars, tableVars, storeVars, base, expired, jobs>>
    BY DEF TypeInv, TypeOK, CallType, ReqType, elsewhere, tableVars, lifeVars
  <1>2. c \in CallType /\ c.pc = place /\ c.try = call[p].try /\ call' = [call EXCEPT ![p] = c]
    BY <1>1 DEF CallType
  <1> HIDE DEF c
  <1>3. CallsTyped'
    BY <1>1, <1>2 DEF CallsTyped
  <1>4. ReqInv'
    BY <1>1 DEF ReqInv, StageOf
  <1>5. CallInv'
    BY <1>1, <1>2 DEF CallInv, Ticket
  <1> QED BY <1>1, <1>3, <1>4, <1>5, TypesStay, TypePartsNext DEF TypeInv

LEMMA CallerTypes == ASSUME TypeInv, OnMainQuickStart PROVE TypeInv'
  <1>1. PICK p \in Players :
            Ask(p) \/ Answered(p) \/ AskTimesOut(p) \/ Joined(p) \/ JoinFails(p)
    BY DEF OnMainQuickStart
  <1>2. req \in [Tickets -> ReqType] /\ call \in [Players -> CallType]
    BY DEF TypeInv, TypeOK, ReqType, CallType
  <1>3. CASE NextTry(p, req) /\ UNCHANGED elsewhere
    BY <1>2, <1>3, NextTryTypes
  <1>4. CASE Joined(p) \/ Answered(p)
    BY <1>3, <1>4, CallStep DEF Joined, Answered
  <1>5. CASE JoinFails(p)
    <2> DEFINE t == <<p, call[p].try>>
               v == [req[t] EXCEPT !.st = "returning"]
               reqs == [req EXCEPT ![t] = v]
    <2>1. t \in Tickets /\ req[t].st = "granted"
      BY <1>2, <1>5 DEF JoinFails, TypeInv, CallInv, Tickets, CallType
    <2>2. v \in ReqType /\ v.st = "returning" /\ v.room \in RoomIds
      BY <2>1, TicketTypes DEF ReqType, Seated
    <2>3. NextTry(p, reqs) /\ UNCHANGED elsewhere
      BY <1>5 DEF JoinFails, Ticket
    <2> HIDE DEF v
    <2>4. /\ reqs \in [Tickets -> ReqType]
          /\ \A u \in Tickets : reqs[u] = IF u = t THEN v ELSE req[u]
      BY <1>2, <2>1, <2>2
    <2> HIDE DEF reqs
    <2> QED BY <2>2, <2>3, <2>4, NextTryTypes
  <1> QED BY <1>1, <1>3, <1>4, <1>5 DEF Ask, AskTimesOut

\* Requests and calls are left alone, and so is the process, or no request is
\* between its two phases.
LEMMA ReqInvStays ==
    ASSUME TypeInv, UNCHANGED <<req, call>>, created \subseteq created',
           phase' # "down" \/ (phase' = phase)
    PROVE  CallsTyped' /\ ReqInv' /\ CallInv'
  <1>1. CallsTyped'
    BY TypesStay DEF TypeInv
  <1>2. ReqInv' /\ CallInv'
    BY DEF TypeInv, ReqInv, CallInv, StageOf, TypeOK
  <1> QED BY <1>1, <1>2

LEMMA SayTypes ==
    ASSUME TypeOK, NEW r \in RoomIds, NEW n \in Nat, Say(r, n)
    PROVE  /\ reports' \in Seq(RoomIds \X Nat) /\ Len(reports') <= MaxReports
           /\ \A i \in DOMAIN reports : i \in DOMAIN reports' /\ reports'[i] = reports[i]
           /\ \E i \in DOMAIN reports' : reports'[i][1] = r /\ reports'[i][2] = n
  <1>1. reports \in Seq(RoomIds \X Nat) /\ <<r, n>> \in RoomIds \X Nat
    BY DEF TypeOK
  <1>2. /\ reports' \in Seq(RoomIds \X Nat) /\ Len(reports') = Len(reports) + 1
        /\ \A i \in 1 .. Len(reports) : reports'[i] = reports[i]
        /\ reports'[Len(reports) + 1] = <<r, n>>
    BY <1>1 DEF Say
  <1>3. Len(reports) \in Nat /\ Len(reports) < MaxReports /\ MaxReports \in Nat
    BY <1>1, RoomCenterAssumption DEF Say
  <1>4. DOMAIN reports = 1 .. Len(reports) /\ DOMAIN reports' = 1 .. Len(reports')
    BY <1>1, <1>2
  <1>5. Len(reports) + 1 \in DOMAIN reports'
    BY <1>2, <1>3, <1>4
  <1> QED BY <1>2, <1>3, <1>4, <1>5

LEMMA GamesvrTypes == ASSUME TypeInv, Gamesvr PROVE TypeInv'
  <1>1. PICK r \in RoomIds : \/ DelRoomInfo(r) \/ EndTimePasses(r)
                             \/ \E n \in Reported : UpdateRoomInfo(r, n)
    BY DEF Gamesvr
  <1>2. TypeOK
    BY DEF TypeInv
  <1>3. ASSUME NEW n \in Nat \cup {Absent}, SetRoom(base[r].stage, r, n),
               NEW k \in Nat, Say(r, k), Accepting, CanLock,
               base[r] # NoBase, base[r].stage \in created,
               foreign' \in {foreign, foreign \cup {<<base[r].stage, r>>}},
               UNCHANGED <<created, unread, phase, late, restarts, storeVars, base, expired, jobs,
                           req, call>>
        PROVE  TypeInv'
    <2>1. rooms' \in [Stages -> Table] /\ dirty' \subseteq created
      BY <1>2, <1>3, SetRoomTypes
    <2>2. TableTyped'
      BY <1>2, <1>3, <2>1, TypeParts DEF TableTyped
    <2>3. LifeTyped'
      BY <1>2, <1>3, TypeParts, SayTypes DEF LifeTyped
    <2>4. CallsTyped' /\ ReqInv' /\ CallInv'
      BY <1>3, ReqInvStays
    <2> QED BY <1>2, <1>3, <2>2, <2>3, <2>4, TypesStay, TypePartsNext DEF TypeInv
  <1>4. CASE DelRoomInfo(r)
    <2>1. UNCHANGED <<created, unread, phase, late, restarts, storeVars, base, expired, jobs, req, call>>
      BY <1>4 DEF DelRoomInfo
    <2> QED BY <1>3, <1>4, <2>1 DEF DelRoomInfo
  <1>5. ASSUME NEW n \in Reported, UpdateRoomInfo(r, n) PROVE TypeInv'
    <2>1. n \in Nat
      BY RoomCenterAssumption
    <2>2. UNCHANGED <<created, unread, phase, late, restarts, storeVars, base, expired, jobs, req, call>>
      BY <1>5 DEF UpdateRoomInfo
    <2> QED BY <1>3, <1>5, <2>1, <2>2 DEF UpdateRoomInfo
  <1>6. CASE EndTimePasses(r)
    <2>1. BaseTyped'
      BY <1>2, <1>6, TypeParts DEF EndTimePasses, BaseTyped
    <2>2. created' = created /\ phase' = phase
      BY <1>6 DEF EndTimePasses, tableVars, lifeVars
    <2>3. CallsTyped' /\ ReqInv' /\ CallInv'
      BY <1>6, <2>2, ReqInvStays DEF EndTimePasses
    <2> QED BY <1>2, <1>6, <2>1, <2>3, TypesStay, TypePartsNext DEF EndTimePasses, TypeInv
  <1> QED BY <1>1, <1>4, <1>5, <1>6

LEMMA GetTypes == ASSUME TypeInv, NEW s \in Stages, GetTexasObj(s) PROVE TypeInv'
  <1>1. TypeOK /\ snapshot[s] \in Table
    BY DEF TypeInv, TypeOK
  <1>2. rooms' \in [Stages -> Table]
    BY <1>1 DEF GetTexasObj, TypeOK
  <1>3. foreign' \subseteq Stages \X RoomIds /\ unread' \subseteq created'
    BY <1>1 DEF GetTexasObj, TypeOK
  <1>4. TableTyped'
    BY <1>1, <1>2, <1>3 DEF GetTexasObj, TableTyped, TypeOK
  <1>5. created \subseteq created' /\ phase' = phase /\ UNCHANGED <<req, call>>
    BY DEF GetTexasObj, lifeVars
  <1>6. CallsTyped' /\ ReqInv' /\ CallInv'
    BY <1>5, ReqInvStays
  <1> QED BY <1>1, <1>4, <1>6, TypesStay, TypePartsNext DEF GetTexasObj, TypeInv

LEMMA TickTypes == ASSUME TypeInv, CheckAndCreateRooms PROVE TypeInv'
  <1>1. TypeOK
    BY DEF TypeInv
  <1>2. rooms' \in [Stages -> Table]
    <2>1. \A s \in Stages, r \in RoomIds :
              (IF Overdue(s, r) THEN Absent ELSE rooms[s][r]) \in Nat \cup {Absent}
      BY <1>1 DEF TypeOK, Table
    <2> QED BY <2>1 DEF CheckAndCreateRooms, Table
  <1>3. TableTyped'
    BY <1>1, <1>2 DEF CheckAndCreateRooms, TableTyped, TypeOK
  <1>4. jobs' \subseteq Nat \X Nat
    <2>1. PICK sample \in [{s \in created : AllFull(s)} -> RoomIds] :
            /\ \A s \in DOMAIN sample : sample[s] \in Kept(s) /\ base[sample[s]] # NoBase
            /\ jobs' = {<<base[sample[s]].stage, base[sample[s]].coin>> : s \in DOMAIN sample}
      BY DEF CheckAndCreateRooms
    <2>2. ASSUME NEW s \in DOMAIN sample
          PROVE  <<base[sample[s]].stage, base[sample[s]].coin>> \in Nat \X Nat
      <3>1. sample[s] \in RoomIds
        BY <2>1, <2>2
      <3>2. base[sample[s]] \in [stage : Nat, coin : Nat]
        BY <1>1, <2>1, <2>2, <3>1 DEF TypeOK
      <3> QED BY <3>2
    <2> QED BY <2>1, <2>2
  <1>5. BaseTyped'
    BY <1>1, <1>4, TypeParts DEF CheckAndCreateRooms, BaseTyped
  <1>6. created' = created /\ phase' = phase /\ UNCHANGED <<req, call>>
    BY DEF CheckAndCreateRooms, lifeVars
  <1>7. CallsTyped' /\ ReqInv' /\ CallInv'
    BY <1>6, ReqInvStays
  <1> QED BY <1>1, <1>3, <1>5, <1>7, TypesStay, TypePartsNext DEF CheckAndCreateRooms, TypeInv

LEMMA FactoryTypes ==
    ASSUME TypeInv, OnAiInitRoom \/ \E j \in jobs : CreateRoomOf(j) PROVE TypeInv'
  <1>1. /\ TypeOK
        /\ created' = created /\ phase' = phase
        /\ UNCHANGED <<lifeVars, tableVars, storeVars, expired, req, call>>
        /\ jobs' \subseteq jobs
    BY DEF TypeInv, OnAiInitRoom, CreateRoomOf, lifeVars, tableVars
  <1>2. base' \in [RoomIds -> [stage : Nat, coin : Nat] \cup {NoBase}]
    <2>1. \/ UNCHANGED base
          \/ \E r \in RoomIds, stage, coin \in Nat : CreateRoom(r, stage, coin)
      <3>1. \A c \in Configured : c[1] \in Nat /\ c[2] \in Nat
        BY RoomCenterAssumption
      <3>2. \A j \in jobs : j[1] \in Nat /\ j[2] \in Nat
        BY <1>1 DEF TypeOK
      <3> QED BY <3>1, <3>2 DEF OnAiInitRoom, CreateRoomOf
    <2> QED BY <1>1, <2>1, CreateRoomTypes DEF TypeOK
  <1>3. BaseTyped'
    BY <1>1, <1>2, TypeParts DEF BaseTyped
  <1>4. CallsTyped' /\ ReqInv' /\ CallInv'
    BY <1>1, ReqInvStays
  <1> QED BY <1>1, <1>3, <1>4, TypesStay, TypePartsNext DEF TypeInv

Saving == SaveBegins("persist") \/ SaveBegins("flush") \/ SaveStep

LEMMA SavingTypes == ASSUME TypeInv, Saving PROVE TypeInv'
  <1>1. /\ TypeOK
        /\ created' = created /\ rooms' = rooms /\ foreign' = foreign
        /\ phase' \in {phase, "flushed"}
        /\ UNCHANGED <<late, restarts, reports, base, expired, jobs, req, call>>
        /\ dirty' \subseteq dirty /\ unread' \subseteq unread
    BY DEF TypeInv, Saving, SaveStep, SaveBegins, WriteSnapshot, WriteFails, MarkSaved, SaveEnds,
           lifeVars, tableVars
  <1>2. LifeTyped'
    BY <1>1 DEF LifeTyped, TypeOK
  <1>3. TableTyped'
    BY <1>1 DEF TableTyped, TypeOK
  <1>4. StoreTyped'
    <2>1. CASE SaveBegins("persist") \/ SaveBegins("flush")
      BY <1>1, <2>1 DEF SaveBegins, Idle, StoreTyped, TypeOK
    <2>2. ASSUME NEW s \in Stages, WriteSnapshot(s) PROVE StoreTyped'
      <3>1. rooms[s] \in Table /\ saver' = [saver EXCEPT !.wrote = {s}]
        BY <1>1, <2>2 DEF WriteSnapshot, TypeOK
      <3>2. snapshot' \in [Stages -> Table] /\ failed' \subseteq Stages
        BY <1>1, <2>2, <3>1 DEF WriteSnapshot, TypeOK
      <3> QED BY <1>1, <3>1, <3>2 DEF StoreTyped, TypeOK
    <2>3. ASSUME NEW s \in Stages, WriteFails(s) PROVE StoreTyped'
      <3>1. rooms[s] \in Table /\ saver' = [saver EXCEPT !.todo = saver.todo \ {s}]
        BY <1>1, <2>3 DEF WriteFails, TypeOK
      <3>2. snapshot' \in [Stages -> Table]
        BY <1>1, <2>3, <3>1 DEF WriteFails, TypeOK
      <3>3. failed' \subseteq Stages
        BY <1>1, <2>3 DEF WriteFails, TypeOK
      <3> QED BY <1>1, <3>1, <3>2, <3>3 DEF StoreTyped, TypeOK
    <2>4. ASSUME NEW s \in Stages, MarkSaved(s) PROVE StoreTyped'
      BY <1>1, <2>4 DEF MarkSaved, StoreTyped, TypeOK
    <2>5. CASE SaveEnds
      BY <1>1, <2>5 DEF SaveEnds, Idle, StoreTyped, TypeOK
    <2> QED BY <2>1, <2>2, <2>3, <2>4, <2>5 DEF Saving, SaveStep
  <1>5. CallsTyped' /\ ReqInv' /\ CallInv'
    BY <1>1, ReqInvStays
  <1> QED BY <1>1, <1>2, <1>3, <1>4, <1>5, TypesStay, TypePartsNext DEF TypeInv

LEMMA TerminateTypes == ASSUME TypeInv, Terminate PROVE TypeInv'
  <1>1. /\ TypeOK /\ ReqInv /\ CallInv
        /\ req \in [Tickets -> ReqType] /\ call \in [Players -> CallType]
    BY DEF TypeInv, TypeOK, ReqType, CallType
  <1>2. LifeTyped'
    BY <1>1 DEF Terminate, LifeTyped, TypeOK
  <1>3. TableTyped'
    BY <1>1 DEF Terminate, NoRooms, TableTyped, Table
  <1>4. StoreTyped'
    BY <1>1 DEF Terminate, Idle, StoreTyped, TypeOK
  <1>5. BaseTyped'
    BY <1>1 DEF Terminate, BaseTyped, TypeOK
  <1>6. \A t \in Tickets :
            req'[t] = IF req[t].st = "creating" THEN [st |-> "over", room |-> Absent] ELSE req[t]
    BY DEF Terminate
  <1>7. req' \in [Tickets -> ReqType]
    <2>1. [st |-> "over", room |-> Absent] \in ReqType
      BY DEF ReqType
    <2>2. \A t \in Tickets : req'[t] \in ReqType
      BY <1>1, <1>6, <2>1
    <2>3. req' = [t \in Tickets |-> req'[t]]
      BY DEF Terminate
    <2> QED BY <2>2, <2>3
  <1>8. CallsTyped' /\ ReqInv'
    BY <1>1, <1>6, <1>7 DEF Terminate, CallsTyped, ReqInv, Seated, StageOf
  <1>9. CallInv'
    <2>1. UNCHANGED call
      BY DEF Terminate
    <2> SUFFICES ASSUME NEW p \in Players
                 PROVE  /\ call[p].pc \in {"asking", "joining"} => call[p].try # 0
                        /\ call[p].pc = "joining" => req'[<<p, call[p].try>>].st = "granted"
                        /\ \A k \in 1 .. MaxTries : k > call[p].try => req'[<<p, k>>].st = "none"
      BY <2>1 DEF CallInv
    <2>2. \A t \in Tickets : req[t].st # "creating" => req'[t] = req[t]
      BY <1>6
    <2>3. call[p].try \in 0 .. MaxTries
      BY <1>1 DEF CallType
    <2>4. ASSUME NEW k \in 1 .. MaxTries, k > call[p].try PROVE req'[<<p, k>>].st = "none"
      <3>1. <<p, k>> \in Tickets /\ req[<<p, k>>].st = "none"
        BY <1>1, <2>4 DEF Tickets, CallInv
      <3> QED BY <2>2, <3>1
    <2>5. ASSUME call[p].pc = "joining" PROVE req'[<<p, call[p].try>>].st = "granted"
      <3>1. <<p, call[p].try>> \in Tickets /\ req[<<p, call[p].try>>].st = "granted"
        BY <1>1, <2>3, <2>5, RoomCenterAssumption DEF Tickets, CallInv
      <3> QED BY <2>2, <3>1
    <2> QED BY <1>1, <2>4, <2>5 DEF CallInv
  <1> QED BY <1>2, <1>3, <1>4, <1>5, <1>8, <1>9, TypePartsNext DEF TypeInv

Living == BeginDrain \/ Drained \/ DrainTimesOut \/ Restart

LEMMA LivingTypes == ASSUME TypeInv, Living PROVE TypeInv'
  <1>1. /\ TypeOK
        /\ phase' \in {"up", "draining", "drained"} /\ late' \in BOOLEAN
        /\ UNCHANGED <<reports, tableVars, storeVars, base, expired, jobs, req, call>>
        /\ restarts' = restarts \/ (restarts < MaxRestarts /\ restarts' = restarts + 1)
    BY DEF TypeInv, Living, BeginDrain, Drained, DrainTimesOut, Restart, TypeOK
  <1>2. LifeTyped'
    BY <1>1, RoomCenterAssumption DEF LifeTyped, TypeOK
  <1>3. CallsTyped' /\ ReqInv' /\ CallInv'
    BY <1>1, ReqInvStays DEF tableVars
  <1> QED BY <1>1, <1>2, <1>3, TypesStay, TypePartsNext DEF TypeInv

LEMMA StepTypes == TypeInv /\ [Next]_vars => TypeInv'
  <1> SUFFICES ASSUME TypeInv, [Next]_vars PROVE TypeInv'
    OBVIOUS
  <1>1. CASE QuickStart
    BY <1>1, PickTypes, CreateTypes, RegisterTypes, RollbackTypes, RollbackLostTypes DEF QuickStart
  <1>2. CASE \E s \in Stages : GetTexasObj(s)
    BY <1>2, GetTypes
  <1>3. CASE Stop \/ Crash
    BY <1>3, TerminateTypes DEF Stop, Crash
  <1>4. CASE UNCHANGED vars
    <2>1. /\ UNCHANGED <<lifeVars, tableVars, storeVars, base, expired, jobs, req, call>>
          /\ phase' = phase /\ created' = created
      BY <1>4 DEF vars, lifeVars, tableVars
    <2>2. CallsTyped' /\ ReqInv' /\ CallInv'
      BY <2>1, ReqInvStays
    <2> QED BY <2>1, <2>2, TypesStay, TypePartsNext DEF TypeInv
  <1> QED BY <1>1, <1>2, <1>3, <1>4, GamesvrTypes, CallerTypes, TickTypes, FactoryTypes,
             SavingTypes, LivingTypes DEF Next, Saving, Living

THEOREM TypeInvariance == Spec => []TypeInv
  BY InitTypes, StepTypes, PTL DEF Spec

\* Each variable of the room center has values of its type: a room that is
\* listed has a natural number of players, marked stages have tables.
THEOREM TypeCorrect == Spec => []TypeOK
  <1>1. TypeInv => TypeOK
    BY DEF TypeInv
  <1> QED BY <1>1, TypeInvariance, PTL

-----------------------------------------------------------------------------
(* The steps, by what they do to the tables. *)

\* A number that a table or a snapshot may hold for room r.
Fits(r, n) == n = Absent \/ Attested(r, n)

OverInv == \A s \in Stages, r \in RoomIds : Fits(r, rooms[s][r]) /\ Fits(r, snapshot[s][r])

\* A handler that holds the lock changes at most one room, in a table that it marks.
SeatStep ==
    /\ CanLock
    /\ UNCHANGED <<created, unread, storeVars, phase, late>>
    /\ Accepting \/ \E t \in Tickets : req[t].st = "creating"
    /\ \/ UNCHANGED <<rooms, dirty>>
       \/ \E s \in created, r \in RoomIds, n \in Nat \cup {Absent} : SetRoom(s, r, n) /\ Fits(r, n)'

\* What gamesvr has reported it has reported for good.
LEMMA ReportsGrow ==
    ASSUME TypeInv, [Next]_vars, NEW r \in RoomIds, NEW n, Fits(r, n)
    PROVE  Fits(r, n)'
  <1>1. TypeOK
    BY DEF TypeInv
  <1>2. reports' = reports \/ \E q \in RoomIds, k \in Nat : Say(q, k)
    <2>1. CASE Gamesvr
      <3>1. PICK q \in RoomIds : DelRoomInfo(q) \/ EndTimePasses(q) \/ \E k \in Reported : UpdateRoomInfo(q, k)
        BY <2>1 DEF Gamesvr
      <3>2. CASE DelRoomInfo(q)
        BY <3>2 DEF DelRoomInfo
      <3>3. CASE \E k \in Reported : UpdateRoomInfo(q, k)
        BY <3>3, RoomCenterAssumption DEF UpdateRoomInfo
      <3> QED BY <3>1, <3>2, <3>3 DEF EndTimePasses, lifeVars
    <2>2. CASE QuickStart
      BY <2>2 DEF QuickStart, QuickStartPick, QuickStartCreate, QuickStartRegister,
                  QuickStartRollback, RollbackLost, lifeVars
    <2>3. CASE OnMainQuickStart
      BY <2>3 DEF OnMainQuickStart, Ask, Answered, AskTimesOut, Joined, JoinFails, elsewhere, lifeVars
    <2>4. CASE Saving \/ Living \/ Terminate \/ UNCHANGED vars
      BY <2>4 DEF Saving, SaveStep, SaveBegins, WriteSnapshot, WriteFails, MarkSaved, SaveEnds,
                  Living, BeginDrain, Drained, DrainTimesOut, Restart, Terminate, vars, lifeVars
    <2>5. CASE (\E s \in Stages : GetTexasObj(s)) \/ CheckAndCreateRooms
                   \/ OnAiInitRoom \/ (\E j \in jobs : CreateRoomOf(j))
      BY <2>5 DEF GetTexasObj, CheckAndCreateRooms, OnAiInitRoom, CreateRoomOf, lifeVars
    <2> QED BY <2>1, <2>2, <2>3, <2>4, <2>5 DEF Next, Saving, Living, Stop, Crash
  <1>3. CASE reports' = reports
    BY <1>3 DEF Fits, Attested
  <1>4. ASSUME NEW q \in RoomIds, NEW k \in Nat, Say(q, k) PROVE Fits(r, n)'
    <2>1. \A i \in DOMAIN reports : i \in DOMAIN reports' /\ reports'[i] = reports[i]
      BY <1>1, <1>4, SayTypes
    <2> QED BY <2>1 DEF Fits, Attested
  <1> QED BY <1>2, <1>3, <1>4

LEMMA AttestedLess ==
    ASSUME TypeInv, NEW r \in RoomIds, NEW n \in Nat, NEW k \in Nat, k <= n, Attested(r, n)
    PROVE  Attested(r, k)
  <1>1. MaxPlayer \in Nat /\ \A i \in DOMAIN reports : reports[i][2] \in Nat
    BY RoomCenterAssumption DEF TypeInv, TypeOK
  <1>2. CASE n <= MaxPlayer
    BY <1>1, <1>2 DEF Attested
  <1>3. CASE \E i \in DOMAIN reports : reports[i][1] = r /\ n <= reports[i][2]
    <2>1. PICK i \in DOMAIN reports : reports[i][1] = r /\ n <= reports[i][2]
      BY <1>3
    <2>2. k <= reports[i][2]
      BY <1>1, <2>1
    <2> QED BY <2>1, <2>2 DEF Attested
  <1> QED BY <1>2, <1>3 DEF Attested

LEMMA QuickStartSeats ==
    ASSUME TypeInv, OverInv, NEW t \in Tickets,
           QuickStartPick(t) \/ QuickStartRegister(t) \/ QuickStartRollback(t)
    PROVE  SeatStep
  <1> DEFINE s == StageOf(t)
             r == req[t].room
  <1>1. /\ MaxPlayer \in Nat \ {0} /\ s \in Stages /\ Absent \notin Nat /\ TypeOK
        /\ UNCHANGED <<lifeVars, storeVars, created, unread>> /\ CanLock
    BY RoomCenterAssumption, TicketTypes
       DEF TypeInv, QuickStartPick, QuickStartRegister, QuickStartRollback
  <1>2. ASSUME NEW q \in RoomIds, NEW n \in Nat, Attested(q, n), s \in created, SetRoom(s, q, n),
               Accepting \/ req[t].st = "creating"
        PROVE  SeatStep
    <2>1. Fits(q, n)'
      BY <1>1, <1>2 DEF Fits, Attested, lifeVars
    <2>2. UNCHANGED <<created, unread, storeVars, phase, late>>
      BY <1>1 DEF lifeVars
    <2> HIDE DEF s
    <2> QED BY <1>1, <1>2, <2>1, <2>2 DEF SeatStep
  <1>3. ASSUME UNCHANGED <<rooms, dirty>>, Accepting \/ req[t].st = "creating" PROVE SeatStep
    BY <1>1, <1>3 DEF SeatStep, lifeVars
  <1>4. ASSUME NEW n \in Nat, n <= MaxPlayer, NEW q PROVE Attested(q, n)
    BY <1>4 DEF Attested
  <1>5. CASE QuickStartPick(t)
    <2>1. PICK q \in Open(s) : SetRoom(s, q, rooms[s][q] + 1)
      BY <1>5 DEF QuickStartPick
    <2>2. q \in RoomIds /\ rooms[s][q] \in Nat /\ HasSeat(rooms[s][q])
      BY <1>1 DEF Open, HasSeat, TypeOK, Table
    <2>3. rooms[s][q] + 1 \in Nat /\ rooms[s][q] + 1 <= MaxPlayer
      BY <1>1, <2>2 DEF HasSeat
    <2>4. s \in created /\ Accepting
      BY <1>5 DEF QuickStartPick
    <2> HIDE DEF s
    <2> QED BY <1>2, <1>4, <2>1, <2>2, <2>3, <2>4
  <1>6. CASE QuickStartRegister(t)
    <2>1. /\ req[t].st = "creating" /\ r \in RoomIds /\ s \in created
          /\ rooms[s][r] \in Nat \cup {Absent}
      BY <1>1, <1>6, TicketTypes DEF QuickStartRegister, Seated, TypeInv, ReqInv, TypeOK, Table
    <2>2. CASE rooms[s][r] = Absent
      <3>1. FirstSeat \in Nat /\ FirstSeat <= MaxPlayer /\ SetRoom(s, r, FirstSeat)
        BY <1>1, <1>6, <2>2 DEF FirstSeat, QuickStartRegister
      <3> HIDE DEF s, r
      <3> QED BY <1>2, <1>4, <2>1, <3>1
    <2>3. CASE rooms[s][r] # Absent /\ HasSeat(rooms[s][r])
      <3>1. rooms[s][r] + 1 \in Nat /\ rooms[s][r] + 1 <= MaxPlayer /\ SetRoom(s, r, rooms[s][r] + 1)
        BY <1>1, <1>6, <2>1, <2>3 DEF HasSeat, QuickStartRegister
      <3> HIDE DEF s, r
      <3> QED BY <1>2, <1>4, <2>1, <3>1
    <2> QED BY <1>3, <1>6, <2>1, <2>2, <2>3 DEF QuickStartRegister
  <1>7. CASE QuickStartRollback(t)
    <2>1. r \in RoomIds /\ s \in created /\ rooms[s][r] \in Nat \cup {Absent} /\ Accepting
      BY <1>1, <1>7, TicketTypes DEF QuickStartRollback, Seated, TypeOK, Table
    <2>2. CASE rooms[s][r] # Absent /\ GiveBack(rooms[s][r]) # rooms[s][r]
      <3>1. /\ rooms[s][r] \in Nat /\ GiveBack(rooms[s][r]) \in Nat
            /\ GiveBack(rooms[s][r]) <= rooms[s][r]
        BY <2>1, <2>2 DEF GiveBack
      <3>2. Attested(r, rooms[s][r])
        BY <1>1, <2>1, <2>2 DEF OverInv, Fits
      <3>3. SetRoom(s, r, GiveBack(rooms[s][r]))
        BY <1>7, <2>2 DEF QuickStartRollback
      <3> HIDE DEF s, r
      <3>4. Attested(r, GiveBack(rooms[s][r]))
        BY <2>1, <3>1, <3>2, AttestedLess
      <3> QED BY <1>2, <2>1, <3>1, <3>3, <3>4
    <2> QED BY <1>3, <1>7, <2>1, <2>2 DEF QuickStartRollback
  <1> QED BY <1>5, <1>6, <1>7

LEMMA ReportSeats ==
    ASSUME TypeInv, NEW r \in RoomIds, DelRoomInfo(r) \/ \E n \in Reported : UpdateRoomInfo(r, n)
    PROVE  SeatStep
  <1>1. Accepting /\ CanLock /\ UNCHANGED <<created, unread, storeVars, phase, late>>
    BY DEF DelRoomInfo, UpdateRoomInfo
  <1>2. CASE DelRoomInfo(r)
    <2>1. base[r].stage \in created /\ SetRoom(base[r].stage, r, Absent) /\ Fits(r, Absent)'
      BY <1>2, RoomCenterAssumption DEF DelRoomInfo, Fits
    <2> QED BY <1>1, <2>1 DEF SeatStep
  <1>3. ASSUME NEW n \in Reported, UpdateRoomInfo(r, n) PROVE SeatStep
    <2>1. n \in Nat /\ base[r].stage \in created /\ SetRoom(base[r].stage, r, n) /\ Say(r, n)
      BY <1>3, RoomCenterAssumption DEF UpdateRoomInfo
    <2>2. \E i \in DOMAIN reports' : reports'[i][1] = r /\ reports'[i][2] = n
      BY <2>1, SayTypes DEF TypeInv
    <2>3. n <= n
      BY <2>1
    <2>4. Fits(r, n)'
      BY <2>2, <2>3 DEF Fits, Attested
    <2> QED BY <1>1, <2>1, <2>4 DEF SeatStep
  <1> QED BY <1>2, <1>3

LEMMA StepKinds ==
    ASSUME TypeInv, OverInv, [Next]_vars
    PROVE  \/ SeatStep
           \/ UNCHANGED <<tableVars, storeVars, phase, late>>
           \/ \E s \in Stages : GetTexasObj(s)
           \/ CheckAndCreateRooms
           \/ Saving \/ Living \/ Terminate
  <1>1. CASE QuickStart
    BY <1>1, QuickStartSeats DEF QuickStart, QuickStartCreate, RollbackLost, lifeVars
  <1>2. CASE Gamesvr
    BY <1>2, ReportSeats DEF Gamesvr, EndTimePasses, lifeVars
  <1>3. CASE OnMainQuickStart
    BY <1>3 DEF OnMainQuickStart, Ask, Answered, AskTimesOut, Joined, JoinFails, elsewhere, lifeVars
  <1>4. CASE OnAiInitRoom \/ \E j \in jobs : CreateRoomOf(j)
    BY <1>4 DEF OnAiInitRoom, CreateRoomOf, lifeVars
  <1>5. CASE UNCHANGED vars
    BY <1>5 DEF vars, lifeVars
  <1> QED BY <1>1, <1>2, <1>3, <1>4, <1>5 DEF Next, Saving, Living, Stop, Crash

\* A number that is new to a table or to a snapshot fits.
LEMMA OverStays ==
    ASSUME TypeInv, OverInv, [Next]_vars,
           \A s \in Stages, r \in RoomIds :
               /\ \/ rooms'[s][r] \in {rooms[s][r], snapshot[s][r], Absent}
                  \/ \E n : rooms'[s][r] = n /\ Fits(r, n)'
               /\ snapshot'[s][r] \in {snapshot[s][r], rooms[s][r]}
    PROVE  OverInv'
  <1> SUFFICES ASSUME NEW s \in Stages, NEW r \in RoomIds
               PROVE  (Fits(r, rooms[s][r]) /\ Fits(r, snapshot[s][r]))'
    BY DEF OverInv
  <1>1. Fits(r, rooms[s][r]) /\ Fits(r, snapshot[s][r]) /\ Fits(r, Absent)
    BY DEF OverInv, Fits
  <1>2. ASSUME NEW n, Fits(r, n) \/ Fits(r, n)' PROVE Fits(r, n)'
    BY <1>2, ReportsGrow
  <1>3. ASSUME NEW n, Fits(r, n)', rooms'[s][r] = n PROVE Fits(r, rooms[s][r])'
    BY <1>3 DEF Fits, Attested
  <1>4. ASSUME NEW n, Fits(r, n)', snapshot'[s][r] = n PROVE Fits(r, snapshot[s][r])'
    BY <1>4 DEF Fits, Attested
  <1> QED BY <1>1, <1>2, <1>3, <1>4

LEMMA OverStep == TypeInv /\ OverInv /\ [Next]_vars => OverInv'
  <1> SUFFICES ASSUME TypeInv, OverInv, [Next]_vars PROVE OverInv'
    OBVIOUS
  <1>0. TypeOK
    BY DEF TypeInv
  <1>1. CASE SeatStep
    <2>1. snapshot' = snapshot
      BY <1>1 DEF SeatStep, storeVars
    <2>2. CASE UNCHANGED rooms
      BY <2>1, <2>2, OverStays
    <2>3. ASSUME NEW s \in created, NEW r \in RoomIds, NEW n \in Nat \cup {Absent},
                 SetRoom(s, r, n), Fits(r, n)'
          PROVE  OverInv'
      <3>1. /\ rooms'[s][r] = n
            /\ \A z \in Stages, q \in RoomIds : <<z, q>> # <<s, r>> => rooms'[z][q] = rooms[z][q]
        BY <1>0, <2>3, SetRoomTypes
      <3> QED BY <2>1, <2>3, <3>1, OverStays
    <2> QED BY <1>1, <2>2, <2>3 DEF SeatStep
  <1>2. CASE UNCHANGED <<tableVars, storeVars, phase, late>> \/ Living
    <2>1. UNCHANGED <<rooms, snapshot>>
      BY <1>2 DEF Living, BeginDrain, Drained, DrainTimesOut, Restart, tableVars, storeVars
    <2> QED BY <2>1, OverStays
  <1>3. ASSUME NEW s \in Stages, GetTexasObj(s) PROVE OverInv'
    <2>1. /\ snapshot' = snapshot
          /\ \A z \in Stages : rooms'[z] = rooms[z] \/ rooms'[z] = snapshot[z]
      BY <1>0, <1>3 DEF GetTexasObj, storeVars, TypeOK
    <2> QED BY <2>1, OverStays
  <1>4. CASE CheckAndCreateRooms
    <2>1. /\ snapshot' = snapshot
          /\ \A s \in Stages, r \in RoomIds : rooms'[s][r] \in {rooms[s][r], Absent}
      BY <1>4 DEF CheckAndCreateRooms, storeVars
    <2> QED BY <2>1, OverStays
  <1>5. CASE Saving
    <2>1. rooms' = rooms
      BY <1>5 DEF Saving, SaveStep, SaveBegins, WriteSnapshot, WriteFails, MarkSaved, SaveEnds, tableVars
    <2>2. \/ snapshot' = snapshot
          \/ \E s \in Stages : snapshot' = [snapshot EXCEPT ![s] = rooms[s]]
      BY <1>5 DEF Saving, SaveStep, SaveBegins, WriteSnapshot, WriteFails, MarkSaved, SaveEnds
    <2>3. \A s \in Stages, r \in RoomIds : snapshot'[s][r] \in {snapshot[s][r], rooms[s][r]}
      BY <1>0, <2>2 DEF TypeOK
    <2> QED BY <2>1, <2>3, OverStays
  <1>6. CASE Terminate
    <2>1. /\ snapshot' = snapshot
          /\ \A s \in Stages, r \in RoomIds : rooms'[s][r] = Absent
      BY <1>6 DEF Terminate, NoRooms
    <2> QED BY <2>1, OverStays
  <1> QED BY <1>1, <1>2, <1>3, <1>4, <1>5, <1>6, StepKinds

LEMMA InitOver == Init => OverInv
  BY DEF Init, NoRooms, Fits, OverInv

THEOREM OverInvariance == Spec => []OverInv
  BY InitOver, OverStep, TypeInvariance, PTL DEF Spec

\* A room is listed with more players than it has seats only if gamesvr reported
\* at least as many of it: whatever numbers are reported, no step of however many
\* requests at once adds a player to a room that is full, through restarts.
THEOREM SeatsSuffice == Spec => []NoOverfill
  <1>1. OverInv => NoOverfill
    BY DEF NoOverfill, OverInv, Fits, Listed
  <1> QED BY <1>1, OverInvariance, PTL

-----------------------------------------------------------------------------
(* The seats that are counted. *)

Holding == {"granted", "returning"}
Creating(t) == req[t].st = "creating"

\* A room that is listed, saved or granted was given to gamesvr: its id is not
\* free any more, through restarts.
KnownInv ==
    /\ \A s \in Stages, r \in RoomIds :
           rooms[s][r] # Absent \/ snapshot[s][r] # Absent => base[r] # NoBase
    /\ \A t \in Tickets : req[t].st \in Seated => base[req[t].room] # NoBase

\* A room between the two phases of the request that creates it belongs to that
\* request alone, and is listed only by a report.
FreshInv ==
    /\ \A t, u \in Tickets : Creating(t) /\ Creating(u) /\ req[t].room = req[u].room => t = u
    /\ \A s \in Stages, r \in RoomIds, t \in Tickets :
           Creating(t) /\ StageOf(t) = s /\ req[t].room = r =>
               <<s, r>> \in foreign \/ (rooms[s][r] = Absent /\ Holders(s, r) = {})

Counted(s, r) ==
    <<s, r>> \in foreign \/ rooms[s][r] = Absent \/ rooms[s][r] = Cardinality(Holders(s, r))

CountInv == \A s \in Stages, r \in RoomIds : Counted(s, r)

SeatInv == KnownInv /\ FreshInv /\ CountInv

LEMMA HoldersFinite ==
    ASSUME NEW s, NEW r PROVE IsFiniteSet(Holders(s, r)) /\ Cardinality(Holders(s, r)) \in Nat
  <1>1. IsFiniteSet(1 .. MaxTries)
    BY FS_Interval, RoomCenterAssumption
  <1>2. IsFiniteSet(Tickets)
    BY <1>1, FS_Product, RoomCenterAssumption DEF Tickets
  <1>3. Holders(s, r) \subseteq Tickets
    BY DEF Holders
  <1>4. IsFiniteSet(Holders(s, r))
    BY <1>2, <1>3, FS_Subset
  <1> QED BY <1>4, FS_CardinalityType

\* One request takes another state: no other request takes or leaves a seat.
LEMMA HoldersStep ==
    ASSUME NEW t \in Tickets, \A u \in Tickets \ {t} : req'[u] = req[u],
           NEW s, NEW r
    PROVE  /\ StageOf(t) = s /\ req'[t].room = r /\ req'[t].st \in Holding
                  => Holders(s, r)' = Holders(s, r) \cup {t}
           /\ ~(StageOf(t) = s /\ req'[t].room = r /\ req'[t].st \in Holding)
                  => Holders(s, r)' = Holders(s, r) \ {t}
  BY DEF Holders, StageOf, Holding

LEMMA KnownStays ==
    ASSUME TypeInv, KnownInv,
           \A r \in RoomIds : base[r] # NoBase => base'[r] # NoBase,
           \A s \in Stages, r \in RoomIds :
               rooms'[s][r] # Absent \/ snapshot'[s][r] # Absent =>
                   rooms[s][r] # Absent \/ snapshot[s][r] # Absent \/ base'[r] # NoBase,
           \A t \in Tickets : req'[t].st \in Seated =>
               \/ req[t].st \in Seated /\ req'[t].room = req[t].room
               \/ base'[req'[t].room] # NoBase
    PROVE  KnownInv'
  <1>1. \A s \in Stages, r \in RoomIds :
            rooms'[s][r] # Absent \/ snapshot'[s][r] # Absent => base'[r] # NoBase
    BY DEF KnownInv
  <1>2. ASSUME NEW t \in Tickets, req'[t].st \in Seated PROVE base'[req'[t].room] # NoBase
    <2>1. CASE req[t].st \in Seated /\ req'[t].room = req[t].room
      BY <2>1, TicketTypes DEF KnownInv
    <2> QED BY <1>2, <2>1
  <1> QED BY <1>1, <1>2 DEF KnownInv

\* No seat is taken or given back, and a number changes only when its room is
\* no longer listed or was reported.
LEMMA CountStays ==
    ASSUME TypeInv, FreshInv, CountInv, foreign \subseteq foreign',
           \A t \in Tickets : Creating(t)' => Creating(t) /\ req'[t].room = req[t].room,
           \A s \in Stages, r \in RoomIds : Holders(s, r)' = Holders(s, r),
           \A s \in Stages, r \in RoomIds :
               <<s, r>> \in foreign' \/ rooms'[s][r] = Absent \/ rooms'[s][r] = rooms[s][r]
    PROVE  FreshInv' /\ CountInv'
  <1>1. CountInv'
    BY DEF CountInv, Counted
  <1>2. \A t, u \in Tickets : Creating(t)' /\ Creating(u)' /\ req'[t].room = req'[u].room => t = u
    BY DEF FreshInv
  <1>3. ASSUME NEW s \in Stages, NEW r \in RoomIds, NEW t \in Tickets,
               Creating(t)', StageOf(t) = s, req'[t].room = r
        PROVE  <<s, r>> \in foreign' \/ (rooms'[s][r] = Absent /\ Holders(s, r)' = {})
    <2>1. Creating(t) /\ req[t].room = r
      BY <1>3
    <2>2. <<s, r>> \in foreign \/ (rooms[s][r] = Absent /\ Holders(s, r) = {})
      BY <1>3, <2>1 DEF FreshInv
    <2> QED BY <2>2
  <1>4. FreshInv'
    BY <1>2, <1>3 DEF FreshInv, StageOf, Creating
  <1> QED BY <1>1, <1>4

LEMMA SameSeats ==
    ASSUME TypeInv, SeatInv, UNCHANGED req,
           \A r \in RoomIds : base[r] # NoBase => base'[r] # NoBase,
           \A s \in Stages, r \in RoomIds :
               /\ <<s, r>> \in foreign' \/ rooms'[s][r] = Absent \/ rooms'[s][r] = rooms[s][r]
               /\ \/ rooms'[s][r] = Absent \/ rooms'[s][r] = rooms[s][r]
                  \/ rooms'[s][r] = snapshot[s][r] \/ base[r] # NoBase
               /\ snapshot'[s][r] = snapshot[s][r] \/ snapshot'[s][r] = rooms[s][r],
           foreign \subseteq foreign'
    PROVE  SeatInv'
  <1>1. KnownInv'
    BY KnownStays DEF SeatInv
  <1>2. \A s \in Stages, r \in RoomIds : Holders(s, r)' = Holders(s, r)
    BY DEF Holders, StageOf
  <1>3. FreshInv' /\ CountInv'
    BY <1>2, CountStays DEF SeatInv, Creating
  <1> QED BY <1>1, <1>3 DEF SeatInv
\* The lowest open room gets one more player, and the request its seat.
LEMMA PickSeats == ASSUME TypeInv, SeatInv, NEW t \in Tickets, QuickStartPick(t) PROVE SeatInv'
  <1>1. PICK r \in Open(StageOf(t)) :
            /\ SetRoom(StageOf(t), r, rooms[StageOf(t)][r] + 1)
            /\ req' = [req EXCEPT ![t] = [st |-> "granted", room |-> r]]
    BY DEF QuickStartPick
  <1> DEFINE s == StageOf(t)
             v == [st |-> "granted", room |-> r]
  <1>2. /\ s \in Stages /\ s \in created /\ r \in RoomIds
        /\ rooms[s][r] \in Nat /\ rooms[s][r] # Absent /\ rooms[s][r] + 1 \in Nat
        /\ req[t].st = "sent" /\ UNCHANGED <<base, snapshot, foreign>>
    BY <1>1, TicketTypes DEF TypeInv, TypeOK, Table, QuickStartPick, Open, HasSeat, storeVars
  <1>3. /\ rooms'[s][r] = rooms[s][r] + 1
        /\ \A z \in Stages, q \in RoomIds : <<z, q>> # <<s, r>> => rooms'[z][q] = rooms[z][q]
    BY <1>1, <1>2, SetRoomTypes DEF TypeInv
  <1>4. req' = [req EXCEPT ![t] = v] /\ v.st = "granted" /\ v.room = r
    BY <1>1
  <1>5. \A u \in Tickets : req'[u] = IF u = t THEN v ELSE req[u]
    BY <1>4 DEF TypeInv, TypeOK
  <1> HIDE DEF v
  <1>6. KnownInv'
    <2>1. base[r] # NoBase
      BY <1>2 DEF SeatInv, KnownInv
    <2> QED BY <1>2, <1>3, <1>4, <1>5, <2>1, KnownStays DEF SeatInv
  <1>7. \A z \in Stages, q \in RoomIds :
            Holders(z, q)' = IF <<z, q>> = <<s, r>> THEN Holders(z, q) \cup {t} ELSE Holders(z, q)
    <2>1. \A z, q : t \notin Holders(z, q)
      BY <1>2 DEF Holders
    <2>2. ASSUME NEW z \in Stages, NEW q \in RoomIds
          PROVE  Holders(z, q)' = IF <<z, q>> = <<s, r>> THEN Holders(z, q) \cup {t} ELSE Holders(z, q)
      <3>1. Holders(z, q) \ {t} = Holders(z, q)
        BY <2>1
      <3>2. req'[t].room = r /\ req'[t].st \in Holding
        BY <1>4, <1>5 DEF Holding
      <3> QED BY <1>5, <3>1, <3>2, HoldersStep
    <2> QED BY <2>2
  <1>8. CountInv'
    <2> SUFFICES ASSUME NEW z \in Stages, NEW q \in RoomIds PROVE Counted(z, q)'
      BY DEF CountInv
    <2>1. Counted(z, q)
      BY DEF SeatInv, CountInv
    <2>2. CASE <<z, q>> # <<s, r>>
      BY <1>2, <1>3, <1>7, <2>1, <2>2 DEF Counted
    <2>3. CASE <<z, q>> = <<s, r>>
      <3>1. Holders(z, q)' = Holders(z, q) \cup {t} /\ t \notin Holders(z, q)
        BY <1>2, <1>7, <2>3 DEF Holders
      <3>2. Cardinality(Holders(z, q)') = Cardinality(Holders(z, q)) + 1
        BY <3>1, HoldersFinite, FS_AddElement
      <3> QED BY <1>2, <1>3, <2>1, <2>3, <3>2 DEF Counted
    <2> QED BY <2>2, <2>3
  <1>9. FreshInv'
    <2>1. \A u \in Tickets : Creating(u)' => Creating(u) /\ req'[u] = req[u]
      BY <1>4, <1>5 DEF Creating
    <2>2. ASSUME NEW z \in Stages, NEW q \in RoomIds, NEW u \in Tickets,
                 Creating(u)', StageOf(u) = z, req'[u].room = q
          PROVE  <<z, q>> \in foreign' \/ (rooms'[z][q] = Absent /\ Holders(z, q)' = {})
      <3>1. <<z, q>> \in foreign \/ (rooms[z][q] = Absent /\ Holders(z, q) = {})
        BY <2>1, <2>2 DEF SeatInv, FreshInv
      <3> QED BY <1>2, <1>3, <1>7, <3>1
    <2>3. \A u, w \in Tickets : Creating(u)' /\ Creating(w)' /\ req'[u].room = req'[w].room => u = w
      BY <2>1 DEF SeatInv, FreshInv
    <2> QED BY <2>2, <2>3 DEF FreshInv, StageOf, Creating
  <1> QED BY <1>6, <1>8, <1>9 DEF SeatInv

\* A room whose id was free, or no room at all.
LEMMA CreateSeats == ASSUME TypeInv, SeatInv, NEW t \in Tickets, QuickStartCreate(t) PROVE SeatInv'
  <1>1. /\ TypeOK /\ req[t].st = "sent" /\ UNCHANGED <<rooms, snapshot, foreign>>
        /\ req[t] \in ReqType /\ StageOf(t) \in Stages
    BY TicketTypes DEF TypeInv, QuickStartCreate, tableVars, storeVars
  <1>2. \A z, q : t \notin Holders(z, q)
    BY <1>1 DEF Holders
  <1>3. CASE req' = [req EXCEPT ![t].st = "over"] /\ UNCHANGED base
    <2> DEFINE v == [req[t] EXCEPT !.st = "over"]
    <2>1. v.st = "over" /\ req' = [req EXCEPT ![t] = v]
      BY <1>1, <1>3 DEF ReqType
    <2>2. \A u \in Tickets : req'[u] = IF u = t THEN v ELSE req[u]
      BY <1>1, <2>1 DEF TypeOK
    <2> HIDE DEF v
    <2>3. \A z \in Stages, q \in RoomIds : Holders(z, q)' = Holders(z, q)
      <3> SUFFICES ASSUME NEW z \in Stages, NEW q \in RoomIds PROVE Holders(z, q)' = Holders(z, q)
        OBVIOUS
      <3>1. Holders(z, q)' = Holders(z, q) \ {t}
        BY <2>1, <2>2, HoldersStep DEF Holding
      <3> QED BY <1>2, <3>1
    <2>4. KnownInv'
      BY <1>1, <1>3, <2>1, <2>2, KnownStays DEF SeatInv, Seated
    <2>5. FreshInv' /\ CountInv'
      BY <1>1, <2>1, <2>2, <2>3, CountStays DEF SeatInv, Creating
    <2> QED BY <2>4, <2>5 DEF SeatInv
  <1>4. CASE \E r \in RoomIds :
            /\ CreateRoom(r, Coin, StageOf(t))
            /\ req' = [req EXCEPT ![t] = [st |-> "creating", room |-> r]]
    <2>1. PICK r \in RoomIds :
            /\ CreateRoom(r, Coin, StageOf(t))
            /\ req' = [req EXCEPT ![t] = [st |-> "creating", room |-> r]]
      BY <1>4
    <2> DEFINE v == [st |-> "creating", room |-> r]
    <2>2. v.st = "creating" /\ v.room = r /\ req' = [req EXCEPT ![t] = v]
      BY <2>1
    <2>3. \A u \in Tickets : req'[u] = IF u = t THEN v ELSE req[u]
      BY <1>1, <2>2 DEF TypeOK
    <2> HIDE DEF v
    <2>4. base[r] = NoBase /\ base'[r] # NoBase /\ \A q \in RoomIds : q # r => base'[q] = base[q]
      BY <1>1, <2>1, CreateRoomTypes
    <2>5. \A z \in Stages, q \in RoomIds : Holders(z, q)' = Holders(z, q)
      <3> SUFFICES ASSUME NEW z \in Stages, NEW q \in RoomIds PROVE Holders(z, q)' = Holders(z, q)
        OBVIOUS
      <3>1. Holders(z, q)' = Holders(z, q) \ {t}
        BY <2>2, <2>3, HoldersStep DEF Holding
      <3> QED BY <1>2, <3>1
    <2>6. KnownInv'
      BY <1>1, <2>2, <2>3, <2>4, KnownStays DEF SeatInv
    <2>7. CountInv'
      BY <1>1, <2>5 DEF SeatInv, CountInv, Counted
    <2>8. \A u \in Tickets : req[u].st \in Seated => req[u].room # r
      BY <2>4 DEF SeatInv, KnownInv
    <2>9. \A z \in Stages : rooms[z][r] = Absent /\ Holders(z, r) = {}
      BY <2>4, <2>8 DEF SeatInv, KnownInv, Holders, Seated
    <2>10. \A u \in Tickets : u # t /\ Creating(u)' => Creating(u) /\ req'[u] = req[u] /\ req[u].room # r
      BY <2>3, <2>8 DEF Creating, Seated
    <2>11. \A u, w \in Tickets : Creating(u)' /\ Creating(w)' /\ req'[u].room = req'[w].room => u = w
      BY <2>2, <2>3, <2>10 DEF SeatInv, FreshInv
    <2>12. ASSUME NEW z \in Stages, NEW q \in RoomIds, NEW u \in Tickets,
                  Creating(u)', StageOf(u) = z, req'[u].room = q
           PROVE  <<z, q>> \in foreign' \/ (rooms'[z][q] = Absent /\ Holders(z, q)' = {})
      <3>1. <<z, q>> \in foreign \/ (rooms[z][q] = Absent /\ Holders(z, q) = {})
        <4>1. CASE u = t
          BY <2>2, <2>3, <2>9, <2>12, <4>1
        <4>2. CASE u # t
          BY <2>10, <2>12, <4>2 DEF SeatInv, FreshInv
        <4> QED BY <4>1, <4>2
      <3> QED BY <1>1, <2>5, <3>1
    <2>13. FreshInv'
      BY <2>11, <2>12 DEF FreshInv, StageOf, Creating
    <2> QED BY <2>6, <2>7, <2>13 DEF SeatInv
  <1> QED BY <1>3, <1>4 DEF QuickStartCreate

\* The creator takes the first seat, or one more of a room that was reported first.
LEMMA RegisterSeats == ASSUME TypeInv, SeatInv, NEW t \in Tickets, QuickStartRegister(t) PROVE SeatInv'
  <1> DEFINE s == StageOf(t)
             r == req[t].room
             v == [req[t] EXCEPT !.st = "granted"]
  <1>1. /\ TypeOK /\ req[t].st = "creating" /\ req[t] \in ReqType
        /\ s \in created /\ s \in Stages /\ r \in RoomIds
        /\ rooms[s][r] \in Nat \cup {Absent}
        /\ UNCHANGED <<base, snapshot, foreign>>
    BY TicketTypes DEF TypeInv, TypeOK, ReqInv, Table, QuickStartRegister, Seated, storeVars
  <1>2. v.st = "granted" /\ v.room = r
    BY <1>1 DEF ReqType
  <1>3. \A u \in Tickets : req'[u] = IF u = t THEN v ELSE req[u]
    BY <1>1 DEF QuickStartRegister, TypeOK
  <1>4. \/ rooms[s][r] = Absent /\ SetRoom(s, r, 1)
        \/ rooms[s][r] # Absent /\ rooms[s][r] + 1 \in Nat /\ SetRoom(s, r, rooms[s][r] + 1)
        \/ rooms[s][r] # Absent /\ UNCHANGED rooms
    <2>1. CASE rooms[s][r] = Absent
      BY <2>1 DEF QuickStartRegister, FirstSeat
    <2>2. CASE rooms[s][r] # Absent /\ HasSeat(rooms[s][r])
      BY <1>1, <2>2 DEF QuickStartRegister
    <2>3. CASE rooms[s][r] # Absent /\ ~HasSeat(rooms[s][r])
      BY <1>1, <2>3 DEF QuickStartRegister
    <2> QED BY <2>1, <2>2, <2>3
  <1>5. /\ \A z \in Stages, q \in RoomIds : <<z, q>> # <<s, r>> => rooms'[z][q] = rooms[z][q]
        /\ rooms[s][r] = Absent => rooms'[s][r] = 1
    <2>1. 1 \in Nat \cup {Absent}
      OBVIOUS
    <2> HIDE DEF s, r, v
    <2>2. CASE SetRoom(s, r, 1)
      BY <1>1, <2>1, <2>2, SetRoomTypes DEF TypeInv
    <2>3. CASE rooms[s][r] # Absent /\ rooms[s][r] + 1 \in Nat /\ SetRoom(s, r, rooms[s][r] + 1)
      BY <1>1, <2>3, SetRoomTypes DEF TypeInv
    <2> QED BY <1>4, <2>2, <2>3
  <1>6. base[r] # NoBase
    BY <1>1 DEF SeatInv, KnownInv, Seated
  <1>7. <<s, r>> \in foreign \/ (rooms[s][r] = Absent /\ Holders(s, r) = {})
    BY <1>1 DEF SeatInv, FreshInv, Creating
  <1>8. \A u \in Tickets : u # t /\ Creating(u) => req[u].room # r
    BY <1>1 DEF SeatInv, FreshInv, Creating
  <1>9. \A z, q : t \notin Holders(z, q)
    BY <1>1 DEF Holders
  <1>10. \A z \in Stages, q \in RoomIds :
            Holders(z, q)' = IF <<z, q>> = <<s, r>> THEN Holders(z, q) \cup {t} ELSE Holders(z, q)
    <2>1. ASSUME NEW z \in Stages, NEW q \in RoomIds
          PROVE  Holders(z, q)' = IF <<z, q>> = <<s, r>> THEN Holders(z, q) \cup {t} ELSE Holders(z, q)
      <3>1. Holders(z, q) \ {t} = Holders(z, q)
        BY <1>9
      <3>2. req'[t].room = r /\ req'[t].st \in Holding /\ \A u \in Tickets \ {t} : req'[u] = req[u]
        BY <1>2, <1>3 DEF Holding
      <3> HIDE DEF r, v
      <3> QED BY <3>1, <3>2, HoldersStep
    <2> QED BY <2>1
  <1> HIDE DEF s, r, v
  <1>11. KnownInv'
    BY <1>1, <1>2, <1>3, <1>5, <1>6, KnownStays DEF SeatInv
  <1>12. CountInv'
    <2> SUFFICES ASSUME NEW z \in Stages, NEW q \in RoomIds PROVE Counted(z, q)'
      BY DEF CountInv
    <2>1. Counted(z, q)
      BY DEF SeatInv, CountInv
    <2>2. CASE <<z, q>> # <<s, r>>
      BY <1>1, <1>5, <1>10, <2>1, <2>2 DEF Counted
    <2>3. CASE <<z, q>> = <<s, r>> /\ <<s, r>> \notin foreign
      <3>1. Holders(z, q)' = {t} /\ rooms'[z][q] = 1
        BY <1>5, <1>7, <1>10, <2>3
      <3>2. Cardinality(Holders(z, q)') = 1
        BY <3>1, FS_Singleton
      <3> QED BY <3>1, <3>2 DEF Counted
    <2>4. CASE <<z, q>> = <<s, r>> /\ <<s, r>> \in foreign
      BY <1>1, <2>4 DEF Counted
    <2> QED BY <2>2, <2>3, <2>4
  <1>13. FreshInv'
    <2>1. \A u \in Tickets : Creating(u)' => Creating(u) /\ req'[u] = req[u] /\ req[u].room # r
      BY <1>2, <1>3, <1>8 DEF Creating
    <2>2. ASSUME NEW z \in Stages, NEW q \in RoomIds, NEW u \in Tickets,
                 Creating(u)', StageOf(u) = z, req'[u].room = q
          PROVE  <<z, q>> \in foreign' \/ (rooms'[z][q] = Absent /\ Holders(z, q)' = {})
      <3>1. <<z, q>> \in foreign \/ (rooms[z][q] = Absent /\ Holders(z, q) = {})
        BY <2>1, <2>2 DEF SeatInv, FreshInv
      <3>2. q # r
        BY <2>1, <2>2
      <3> QED BY <1>1, <1>5, <1>10, <3>1, <3>2
    <2>3. \A u, w \in Tickets : Creating(u)' /\ Creating(w)' /\ req'[u].room = req'[w].room => u = w
      BY <2>1 DEF SeatInv, FreshInv
    <2> QED BY <2>2, <2>3 DEF FreshInv, StageOf, Creating
  <1> QED BY <1>11, <1>12, <1>13 DEF SeatInv

\* The seat is given back once: the request holds it until then, so the number
\* of players of a room that is counted is not 0.
LEMMA RollbackSeats == ASSUME TypeInv, SeatInv, NEW t \in Tickets, QuickStartRollback(t) PROVE SeatInv'
  <1> DEFINE s == StageOf(t)
             r == req[t].room
             v == [st |-> "over", room |-> Absent]
  <1>1. /\ TypeOK /\ req[t].st = "returning"
        /\ s \in created /\ s \in Stages /\ r \in RoomIds
        /\ rooms[s][r] \in Nat \cup {Absent}
        /\ UNCHANGED <<base, snapshot, foreign>>
    BY TicketTypes DEF TypeInv, TypeOK, Table, QuickStartRollback, Seated, storeVars
  <1>2. v.st = "over"
    OBVIOUS
  <1>3. \A u \in Tickets : req'[u] = IF u = t THEN v ELSE req[u]
    BY <1>1 DEF QuickStartRollback, TypeOK
  <1>4. /\ rooms[s][r] = Absent => UNCHANGED rooms
        /\ rooms[s][r] = 0 => UNCHANGED rooms
        /\ rooms[s][r] \in Nat \ {0} => rooms[s][r] - 1 \in Nat /\ SetRoom(s, r, rooms[s][r] - 1)
    BY <1>1, RoomCenterAssumption DEF QuickStartRollback, GiveBack
  <1>5. t \in Holders(s, r)
    BY <1>1 DEF Holders
  <1>6. \A z, q : t \in Holders(z, q) => <<z, q>> = <<s, r>>
    BY DEF Holders
  <1>7. \A z \in Stages, q \in RoomIds :
            Holders(z, q)' = IF <<z, q>> = <<s, r>> THEN Holders(z, q) \ {t} ELSE Holders(z, q)
    <2>1. ASSUME NEW z \in Stages, NEW q \in RoomIds
          PROVE  Holders(z, q)' = IF <<z, q>> = <<s, r>> THEN Holders(z, q) \ {t} ELSE Holders(z, q)
      <3>1. req'[t].st \notin Holding /\ \A u \in Tickets \ {t} : req'[u] = req[u]
        BY <1>2, <1>3 DEF Holding
      <3>2. Holders(z, q)' = Holders(z, q) \ {t}
        BY <3>1, HoldersStep
      <3>3. <<z, q>> # <<s, r>> => Holders(z, q) \ {t} = Holders(z, q)
        BY <1>6
      <3> QED BY <3>2, <3>3
    <2> QED BY <2>1
  <1> HIDE DEF s, r, v
  <1>8. /\ \A z \in Stages, q \in RoomIds : <<z, q>> # <<s, r>> => rooms'[z][q] = rooms[z][q]
        /\ rooms[s][r] \in Nat \ {0} => rooms'[s][r] = rooms[s][r] - 1
        /\ rooms[s][r] \notin Nat \ {0} => rooms'[s][r] = rooms[s][r]
    <2>1. CASE rooms[s][r] \in Nat \ {0}
      BY <1>1, <1>4, <2>1, SetRoomTypes DEF TypeInv
    <2> QED BY <1>1, <1>4, <2>1
  <1>9. rooms[s][r] = Absent => rooms'[s][r] = Absent
    BY <1>8, RoomCenterAssumption
  <1>10. KnownInv'
    BY <1>1, <1>2, <1>3, <1>8, <1>9, KnownStays DEF SeatInv, Seated
  <1>11. CountInv'
    <2> SUFFICES ASSUME NEW z \in Stages, NEW q \in RoomIds PROVE Counted(z, q)'
      BY DEF CountInv
    <2>1. Counted(z, q)
      BY DEF SeatInv, CountInv
    <2>2. CASE <<z, q>> # <<s, r>>
      BY <1>1, <1>7, <1>8, <2>1, <2>2 DEF Counted
    <2>3. CASE <<z, q>> = <<s, r>> /\ rooms[s][r] # Absent
      <3>1. Holders(z, q)' = Holders(z, q) \ {t} /\ t \in Holders(z, q)
        BY <1>5, <1>7, <2>3
      <3>2. /\ Cardinality(Holders(z, q)') = Cardinality(Holders(z, q)) - 1
            /\ Cardinality(Holders(z, q)) # 0 /\ Cardinality(Holders(z, q)) \in Nat
        BY <3>1, HoldersFinite, FS_RemoveElement, FS_EmptySet
      <3> QED BY <1>1, <1>8, <2>1, <2>3, <3>2 DEF Counted
    <2>4. CASE <<z, q>> = <<s, r>> /\ rooms[s][r] = Absent
      BY <1>9, <2>4 DEF Counted
    <2> QED BY <2>2, <2>3, <2>4
  <1>12. FreshInv'
    <2>1. \A u \in Tickets : Creating(u)' => Creating(u) /\ req'[u] = req[u]
      BY <1>2, <1>3 DEF Creating
    <2>2. ASSUME NEW z \in Stages, NEW q \in RoomIds, NEW u \in Tickets,
                 Creating(u)', StageOf(u) = z, req'[u].room = q
          PROVE  <<z, q>> \in foreign' \/ (rooms'[z][q] = Absent /\ Holders(z, q)' = {})
      <3>1. <<z, q>> \in foreign \/ (rooms[z][q] = Absent /\ Holders(z, q) = {})
        BY <2>1, <2>2 DEF SeatInv, FreshInv
      <3> QED BY <1>1, <1>5, <1>7, <1>8, <1>9, <3>1
    <2>3. \A u, w \in Tickets : Creating(u)' /\ Creating(w)' /\ req'[u].room = req'[w].room => u = w
      BY <2>1 DEF SeatInv, FreshInv
    <2> QED BY <2>2, <2>3 DEF FreshInv, StageOf, Creating
  <1> QED BY <1>10, <1>11, <1>12 DEF SeatInv

\* A request whose seat stays taken, or that is not served yet: the seats are
\* those of the requests as given.
LEMMA NextTrySeats ==
    ASSUME TypeInv, SeatInv, NEW p \in Players, NEW reqs,
           NextTry(p, reqs), UNCHANGED elsewhere, reqs \in [Tickets -> ReqType],
           \A t \in Tickets : \/ reqs[t] = req[t]
                              \/ /\ req[t].st \in Holding /\ reqs[t].st \in Holding
                                 /\ reqs[t].room = req[t].room
    PROVE  SeatInv'
  <1>1. /\ UNCHANGED <<rooms, snapshot, base, foreign>>
        /\ req \in [Tickets -> ReqType] /\ call[p].try \in 0 .. MaxTries
    BY DEF elsewhere, tableVars, storeVars, TypeInv, TypeOK, ReqType
  <1>2. \A t \in Tickets :
            \/ req'[t] = req[t]
            \/ req[t].st \in Holding /\ req'[t].st \in Holding /\ req'[t].room = req[t].room
            \/ req[t].st = "none" /\ req'[t].st = "sent"
    <2>1. CASE call[p].try < MaxTries
      <3> DEFINE k == call[p].try + 1
      <3>1. k \in 1 .. MaxTries /\ k > call[p].try /\ <<p, k>> \in Tickets
        BY <1>1, <2>1, RoomCenterAssumption DEF Tickets
      <3>2. req[<<p, k>>].st = "none"
        BY <3>1 DEF TypeInv, CallInv
      <3>3. reqs[<<p, k>>] \in ReqType
        BY <3>1
      <3>4. req' = [reqs EXCEPT ![<<p, k>>].st = "sent"]
        BY <2>1 DEF NextTry
      <3> HIDE DEF k
      <3>5. req'[<<p, k>>].st = "sent" /\ \A t \in Tickets : t # <<p, k>> => req'[t] = reqs[t]
        BY <3>1, <3>3, <3>4 DEF ReqType
      <3> QED BY <3>2, <3>5
    <2>2. CASE ~(call[p].try < MaxTries)
      BY <2>2 DEF NextTry
    <2> QED BY <2>1, <2>2
  <1>3. \A s \in Stages, r \in RoomIds : Holders(s, r)' = Holders(s, r)
    BY <1>2 DEF Holders, StageOf, Holding
  <1>4. \A t \in Tickets : req'[t].st \in Seated => req[t].st \in Seated /\ req'[t].room = req[t].room
    BY <1>2 DEF Seated, Holding
  <1>5. \A t \in Tickets : Creating(t)' => Creating(t) /\ req'[t].room = req[t].room
    BY <1>2 DEF Creating, Holding
  <1>6. KnownInv'
    BY <1>1, <1>4, KnownStays DEF SeatInv
  <1>7. FreshInv' /\ CountInv'
    BY <1>1, <1>3, <1>5, CountStays DEF SeatInv
  <1> QED BY <1>6, <1>7 DEF SeatInv

LEMMA CallerSeats == ASSUME TypeInv, SeatInv, OnMainQuickStart PROVE SeatInv'
  <1>1. PICK p \in Players :
            Ask(p) \/ Answered(p) \/ AskTimesOut(p) \/ Joined(p) \/ JoinFails(p)
    BY DEF OnMainQuickStart
  <1>2. req \in [Tickets -> ReqType] /\ call \in [Players -> CallType]
    BY DEF TypeInv, TypeOK, ReqType, CallType
  <1>3. CASE NextTry(p, req) /\ UNCHANGED elsewhere
    BY <1>2, <1>3, NextTrySeats
  <1>4. CASE req' = req /\ UNCHANGED elsewhere
    BY <1>4, SameSeats DEF elsewhere, tableVars, storeVars
  <1>5. CASE JoinFails(p)
    <2> DEFINE t == <<p, call[p].try>>
               v == [req[t] EXCEPT !.st = "returning"]
               reqs == [req EXCEPT ![t] = v]
    <2>1. t \in Tickets /\ req[t].st = "granted" /\ req[t] \in ReqType
      BY <1>2, <1>5 DEF JoinFails, TypeInv, CallInv, Tickets, CallType
    <2>2. v \in ReqType /\ v.st = "returning" /\ v.room = req[t].room
      BY <2>1 DEF ReqType
    <2>3. NextTry(p, reqs) /\ UNCHANGED elsewhere
      BY <1>5 DEF JoinFails, Ticket
    <2> HIDE DEF v
    <2>4. /\ reqs \in [Tickets -> ReqType]
          /\ \A u \in Tickets : reqs[u] = IF u = t THEN v ELSE req[u]
      BY <1>2, <2>1, <2>2
    <2> HIDE DEF reqs
    <2>5. \A u \in Tickets : \/ reqs[u] = req[u]
                             \/ /\ req[u].st \in Holding /\ reqs[u].st \in Holding
                                /\ reqs[u].room = req[u].room
      BY <2>1, <2>2, <2>4 DEF Holding
    <2> QED BY <2>3, <2>4, <2>5, NextTrySeats
  <1> QED BY <1>1, <1>3, <1>4, <1>5 DEF Ask, Answered, AskTimesOut, Joined

LEMMA RollbackLostSeats == ASSUME TypeInv, SeatInv, NEW t \in Tickets, RollbackLost(t) PROVE SeatInv'
  <1>1. /\ req[t].st = "returning" /\ req[t] \in ReqType /\ req \in [Tickets -> ReqType]
        /\ UNCHANGED <<rooms, snapshot, base, foreign>>
    BY TicketTypes DEF RollbackLost, tableVars, storeVars, TypeInv, TypeOK, ReqType
  <1>2. /\ req'[t].st = "granted" /\ req'[t].room = req[t].room
        /\ \A u \in Tickets : u # t => req'[u] = req[u]
    BY <1>1 DEF RollbackLost, ReqType
  <1>3. \A s \in Stages, r \in RoomIds : Holders(s, r)' = Holders(s, r)
    BY <1>1, <1>2 DEF Holders, StageOf
  <1>4. KnownInv'
    BY <1>1, <1>2, KnownStays DEF SeatInv, Seated
  <1>5. FreshInv' /\ CountInv'
    BY <1>1, <1>2, <1>3, CountStays DEF SeatInv, Creating
  <1> QED BY <1>4, <1>5 DEF SeatInv

\* A reported room is counted no more; a deleted one is not listed.
LEMMA ReportedSeats ==
    ASSUME TypeInv, SeatInv, NEW r \in RoomIds,
           DelRoomInfo(r) \/ \E n \in Reported : UpdateRoomInfo(r, n)
    PROVE  SeatInv'
  <1>1. /\ base[r] # NoBase /\ base[r].stage \in created /\ UNCHANGED <<base, snapshot, req>>
        /\ foreign \subseteq foreign' /\ TypeOK
    BY DEF DelRoomInfo, UpdateRoomInfo, storeVars, TypeInv
  <1>2. PICK s \in Stages : s = base[r].stage /\ s \in created
    BY <1>1 DEF TypeOK
  <1>3. PICK n \in Nat \cup {Absent} : /\ SetRoom(s, r, n)
                                       /\ n = Absent \/ <<s, r>> \in foreign'
    <2>1. CASE DelRoomInfo(r)
      BY <1>2, <2>1 DEF DelRoomInfo
    <2>2. ASSUME NEW n \in Reported, UpdateRoomInfo(r, n)
          PROVE  SetRoom(s, r, n) /\ <<s, r>> \in foreign' /\ n \in Nat
      BY <1>2, <2>2, RoomCenterAssumption DEF UpdateRoomInfo
    <2> QED BY <2>1, <2>2
  <1>4. /\ rooms'[s][r] = n
        /\ \A z \in Stages, q \in RoomIds : <<z, q>> # <<s, r>> => rooms'[z][q] = rooms[z][q]
    BY <1>1, <1>2, <1>3, SetRoomTypes
  <1> QED BY <1>1, <1>3, <1>4, SameSeats

LEMMA SeatInvStep == TypeInv /\ SeatInv /\ [Next]_vars => SeatInv'
  <1> SUFFICES ASSUME TypeInv, SeatInv, [Next]_vars PROVE SeatInv'
    OBVIOUS
  <1>1. TypeOK
    BY DEF TypeInv
  <1>2. CASE QuickStart
    BY <1>2, PickSeats, CreateSeats, RegisterSeats, RollbackSeats, RollbackLostSeats DEF QuickStart
  <1>3. CASE Gamesvr
    <2>1. CASE \E r \in RoomIds : EndTimePasses(r)
      BY <2>1, SameSeats DEF EndTimePasses, tableVars, storeVars
    <2> QED BY <1>3, <2>1, ReportedSeats DEF Gamesvr
  <1>4. ASSUME NEW s \in Stages, GetTexasObj(s) PROVE SeatInv'
    <2>1. /\ UNCHANGED <<base, snapshot, req>> /\ foreign \subseteq foreign'
          /\ \A z \in Stages : z # s => rooms'[z] = rooms[z]
          /\ rooms'[s] = rooms[s] \/ rooms'[s] = snapshot[s]
      BY <1>1, <1>4 DEF GetTexasObj, storeVars, TypeOK
    <2>2. rooms' = rooms \/ \A r \in RoomIds : snapshot[s][r] # Absent => <<s, r>> \in foreign'
      BY <1>4 DEF GetTexasObj
    <2> QED BY <2>1, <2>2, SameSeats
  <1>5. CASE CheckAndCreateRooms
    <2>1. \A s \in Stages, r \in RoomIds : rooms'[s][r] = Absent \/ rooms'[s][r] = rooms[s][r]
      BY <1>5 DEF CheckAndCreateRooms
    <2> QED BY <1>5, <2>1, SameSeats DEF CheckAndCreateRooms, storeVars
  <1>6. CASE OnAiInitRoom \/ \E j \in jobs : CreateRoomOf(j)
    <2>1. \A r \in RoomIds : base[r] # NoBase => base'[r] # NoBase
      <3>1. ASSUME NEW r \in RoomIds, NEW stage, NEW coin, CreateRoom(r, stage, coin)
            PROVE  \A q \in RoomIds : base[q] # NoBase => base'[q] # NoBase
        BY <1>1, <3>1, CreateRoomTypes
      <3> QED BY <1>6, <3>1 DEF OnAiInitRoom, CreateRoomOf
    <2> QED BY <1>6, <2>1, SameSeats DEF OnAiInitRoom, CreateRoomOf, tableVars, storeVars
  <1>7. CASE Saving
    <2>1. UNCHANGED <<rooms, base, foreign, req>>
      BY <1>7 DEF Saving, SaveStep, SaveBegins, WriteSnapshot, WriteFails, MarkSaved, SaveEnds, tableVars
    <2>2. \/ snapshot' = snapshot
          \/ \E s \in Stages : snapshot' = [snapshot EXCEPT ![s] = rooms[s]]
      BY <1>7 DEF Saving, SaveStep, SaveBegins, WriteSnapshot, WriteFails, MarkSaved, SaveEnds
    <2>3. \A s \in Stages, r \in RoomIds :
              snapshot'[s][r] = snapshot[s][r] \/ snapshot'[s][r] = rooms[s][r]
      BY <1>1, <2>2 DEF TypeOK
    <2> QED BY <2>1, <2>3, SameSeats
  <1>8. CASE Living \/ UNCHANGED vars
    <2>1. UNCHANGED <<rooms, snapshot, base, foreign, req>>
      BY <1>8 DEF Living, BeginDrain, Drained, DrainTimesOut, Restart, vars, tableVars, storeVars
    <2> QED BY <2>1, SameSeats
  <1>9. CASE Terminate
    <2>1. /\ UNCHANGED <<base, snapshot>>
          /\ \A s \in Stages, r \in RoomIds : rooms'[s][r] = Absent
      BY <1>9 DEF Terminate, NoRooms
    <2>2. \A t \in Tickets : req'[t].st # "creating" /\ (req'[t].st \in Seated => req'[t] = req[t])
      BY <1>9 DEF Terminate, Seated
    <2>3. KnownInv'
      BY <2>1, <2>2, KnownStays DEF SeatInv
    <2>4. FreshInv' /\ CountInv'
      BY <2>1, <2>2 DEF FreshInv, CountInv, Counted, Creating
    <2> QED BY <2>3, <2>4 DEF SeatInv
  <1> QED BY <1>2, <1>3, <1>4, <1>5, <1>6, <1>7, <1>8, <1>9, CallerSeats DEF Next, Saving, Living, Stop, Crash

LEMMA InitSeats == Init => SeatInv
  BY DEF Init, NoRooms, SeatInv, KnownInv, FreshInv, CountInv, Counted, Creating, Seated

THEOREM SeatInvariance == Spec => []SeatInv
  BY InitSeats, SeatInvStep, TypeInvariance, PTL DEF Spec

\* Until a report or a snapshot replaces it, the number of players of a listed
\* room is the number of granted seats that were not given back: no interleaving
\* of requests, creations, tries that time out, rollbacks, ticks and restarts
\* loses a seat or counts one twice.
THEOREM SeatsCounted == Spec => []SeatsAreHeld
  <1>1. SeatInv => SeatsAreHeld
    BY DEF SeatInv, CountInv, Counted, SeatsAreHeld, Listed
  <1> QED BY <1>1, SeatInvariance, PTL

-----------------------------------------------------------------------------
(* Snapshots. *)

NoneCreating == \A t \in Tickets : req[t].st # "creating"

SaverInv ==
    /\ saver.who = "nobody" => saver.wrote = {} /\ saver.todo = {}
    /\ \A s \in saver.wrote : snapshot[s] = rooms[s]
    /\ saver.who = "flush" =>
        /\ phase = "drained"
        /\ \A s \in created : s \in saver.todo \/ s \in failed \/ snapshot[s] = rooms[s]

QuietInv == phase \in {"drained", "flushed"} /\ ~late => NoneCreating

StoreInv == SaverInv /\ CleanIsSaved /\ QuietInv /\ DrainedIsSaved

LEMMA InitStore == Init => StoreInv
  <1> SUFFICES ASSUME Init PROVE StoreInv
    OBVIOUS
  <1>1. SaverInv
    BY DEF Init, Idle, SaverInv
  <1>2. CleanIsSaved /\ QuietInv /\ DrainedIsSaved
    BY DEF Init, CleanIsSaved, QuietInv, DrainedIsSaved
  <1> QED BY <1>1, <1>2 DEF StoreInv

\* A request gets between its two phases only while packets are accepted.
LEMMA CreatingStep ==
    ASSUME TypeInv, [Next]_vars
    PROVE  \/ NoneCreating => NoneCreating'
           \/ Accepting /\ UNCHANGED <<phase, late>>
  <1> SUFFICES ASSUME NoneCreating PROVE NoneCreating' \/ (Accepting /\ UNCHANGED <<phase, late>>)
    OBVIOUS
  <1>1. req \in [Tickets -> ReqType]
    BY DEF TypeInv, TypeOK, ReqType
  <1>2. ASSUME NEW t \in Tickets, NEW v \in ReqType, req' = [req EXCEPT ![t] = v], v.st # "creating"
        PROVE  NoneCreating'
    BY <1>1, <1>2 DEF NoneCreating
  <1>3. CASE QuickStart
    <2>1. PICK t \in Tickets :
            QuickStartPick(t) \/ QuickStartCreate(t) \/ QuickStartRegister(t)
                \/ QuickStartRollback(t) \/ RollbackLost(t)
      BY <1>3 DEF QuickStart
    <2>2. CASE QuickStartCreate(t)
      BY <2>2 DEF QuickStartCreate, lifeVars
    <2>3. CASE QuickStartPick(t)
      <3>1. PICK r \in RoomIds : req' = [req EXCEPT ![t] = [st |-> "granted", room |-> r]]
        BY <2>3 DEF QuickStartPick, Open
      <3> QED BY <1>1, <3>1 DEF NoneCreating
    <2>4. CASE QuickStartRegister(t) \/ QuickStartRollback(t) \/ RollbackLost(t)
      BY <1>1, <2>4 DEF NoneCreating, QuickStartRegister, QuickStartRollback, RollbackLost, ReqType
    <2> QED BY <2>1, <2>2, <2>3, <2>4
  <1>4. CASE OnMainQuickStart
    <2>1. PICK p \in Players :
            Ask(p) \/ Answered(p) \/ AskTimesOut(p) \/ Joined(p) \/ JoinFails(p)
      BY <1>4 DEF OnMainQuickStart
    <2>2. ASSUME NEW reqs \in [Tickets -> ReqType], NextTry(p, reqs),
                 \A t \in Tickets : reqs[t].st # "creating"
          PROVE  NoneCreating'
      BY <2>2 DEF NextTry, NoneCreating, ReqType
    <2>3. CASE JoinFails(p)
      <3> DEFINE reqs == [req EXCEPT ![Ticket(p)].st = "returning"]
      <3>1. reqs \in [Tickets -> ReqType] /\ \A t \in Tickets : reqs[t].st # "creating"
        BY <1>1 DEF NoneCreating, ReqType
      <3>2. NextTry(p, reqs)
        BY <2>3 DEF JoinFails
      <3> HIDE DEF reqs
      <3> QED BY <2>2, <3>1, <3>2
    <2>4. CASE Ask(p) \/ Answered(p) \/ AskTimesOut(p) \/ Joined(p)
      <3>1. NextTry(p, req) \/ req' = req
        BY <2>4 DEF Ask, Answered, AskTimesOut, Joined
      <3>2. \A t \in Tickets : req[t].st # "creating"
        BY DEF NoneCreating
      <3> QED BY <1>1, <2>2, <3>1, <3>2 DEF NoneCreating
    <2> QED BY <2>1, <2>3, <2>4
  <1>5. CASE Terminate
    <2>1. \A t \in Tickets : req'[t] = req[t]
      BY <1>5 DEF Terminate, NoneCreating
    <2> QED BY <2>1 DEF NoneCreating
  <1>6. CASE req' = req
    BY <1>6 DEF NoneCreating
  <1>7. CASE Gamesvr \/ OnAiInitRoom \/ (\E j \in jobs : CreateRoomOf(j)) \/ CheckAndCreateRooms
    BY <1>6, <1>7 DEF Gamesvr, DelRoomInfo, EndTimePasses, UpdateRoomInfo, OnAiInitRoom, CreateRoomOf,
                      CheckAndCreateRooms
  <1>8. CASE (\E s \in Stages : GetTexasObj(s)) \/ Saving \/ Living \/ UNCHANGED vars
    BY <1>6, <1>8 DEF GetTexasObj, Saving, SaveStep, SaveBegins, WriteSnapshot, WriteFails, MarkSaved,
                      SaveEnds, Living, BeginDrain, Drained, DrainTimesOut, Restart, vars
  <1> QED BY <1>3, <1>4, <1>5, <1>7, <1>8 DEF Next, Saving, Living, Stop, Crash

LEMMA QuietStep == ASSUME TypeInv, OverInv, StoreInv, [Next]_vars PROVE QuietInv'
  <1>1. QuietInv /\ SaverInv
    BY DEF StoreInv
  <1>2. CASE Accepting /\ UNCHANGED <<phase, late>>
    BY <1>2 DEF Accepting, QuietInv
  <1>3. CASE NoneCreating => NoneCreating'
    <2>1. CASE UNCHANGED <<phase, late>>
      BY <1>1, <1>3, <2>1 DEF QuietInv
    <2>2. CASE SeatStep \/ (\E s \in Stages : GetTexasObj(s)) \/ CheckAndCreateRooms
      BY <2>1, <2>2 DEF SeatStep, GetTexasObj, CheckAndCreateRooms, lifeVars
    <2>3. CASE Saving
      <3>1. late' = late /\ (phase' = phase \/ (saver.who = "flush" /\ phase' = "flushed"))
        BY <2>3 DEF Saving, SaveStep, SaveBegins, WriteSnapshot, WriteFails, MarkSaved, SaveEnds, lifeVars
      <3> QED BY <1>1, <1>3, <3>1 DEF QuietInv, SaverInv
    <2>4. CASE Living
      <3>1. CASE Drained
        BY <1>3, <3>1 DEF Drained, InHandler, NoneCreating, QuietInv
      <3>2. CASE BeginDrain \/ DrainTimesOut \/ Restart
        BY <3>2 DEF BeginDrain, DrainTimesOut, Restart, QuietInv
      <3> QED BY <2>4, <3>1, <3>2 DEF Living
    <2>5. CASE Terminate
      BY <2>5 DEF Terminate, QuietInv
    <2> QED BY <2>1, <2>2, <2>3, <2>4, <2>5, StepKinds
  <1> QED BY <1>2, <1>3, CreatingStep

\* A step with the lock: nobody saves, and packets are accepted or a request is
\* between its two phases, so the flush of an orderly shutdown is not over.
LEMMA LockedStep ==
    ASSUME StoreInv, CanLock, UNCHANGED <<storeVars, phase, late>>,
           Accepting \/ ~NoneCreating,
           \A s \in created' : s \in dirty' \/ s \in unread' \/ snapshot[s] = rooms'[s]
    PROVE  SaverInv' /\ CleanIsSaved' /\ DrainedIsSaved'
  <1>1. saver.who = "nobody" /\ saver.wrote = {} /\ saver.todo = {} /\ saver' = saver /\ snapshot' = snapshot
    BY DEF CanLock, StoreInv, SaverInv, storeVars
  <1>2. SaverInv' /\ CleanIsSaved'
    BY <1>1 DEF SaverInv, CleanIsSaved
  <1>3. ~(phase = "flushed" /\ ~late)
    BY DEF StoreInv, QuietInv, Accepting
  <1> QED BY <1>2, <1>3 DEF DrainedIsSaved

LEMMA SavingStep == ASSUME TypeInv, StoreInv, Saving PROVE SaverInv' /\ CleanIsSaved' /\ DrainedIsSaved'
  <1>1. /\ TypeOK /\ SaverInv /\ CleanIsSaved /\ DrainedIsSaved
        /\ snapshot \in [Stages -> Table] /\ created \subseteq Stages
    BY DEF TypeInv, TypeOK, StoreInv
  <1>2. rooms' = rooms /\ created' = created /\ late' = late
    BY DEF Saving, SaveStep, SaveBegins, WriteSnapshot, WriteFails, MarkSaved, SaveEnds, lifeVars, tableVars
  <1>3. CASE SaveBegins("persist") \/ SaveBegins("flush")
    <2>1. /\ snapshot' = snapshot /\ dirty' = dirty /\ unread' = unread /\ failed' = failed
          /\ phase' = phase
          /\ saver'.todo = created /\ saver'.wrote = {} /\ saver'.who # "nobody"
          /\ saver'.who = "flush" => phase = "drained"
      BY <1>3 DEF SaveBegins, Idle, MayFlush, lifeVars, tableVars
    <2> QED BY <1>1, <1>2, <2>1 DEF SaverInv, CleanIsSaved, DrainedIsSaved
  <1>4. ASSUME NEW s \in Stages, WriteSnapshot(s) PROVE SaverInv' /\ CleanIsSaved' /\ DrainedIsSaved'
    <2>1. /\ saver'.who = saver.who /\ saver'.todo = saver.todo /\ saver'.wrote = {s}
          /\ snapshot'[s] = rooms[s]
          /\ \A z \in Stages : snapshot'[z] = snapshot[z] \/ snapshot'[z] = rooms[z]
          /\ dirty' = dirty /\ unread' = unread /\ failed' = failed /\ phase' = phase
          /\ s \in saver.todo
      BY <1>1, <1>4 DEF WriteSnapshot, Due, lifeVars, tableVars, TypeOK
    <2>2. saver.who # "nobody"
      BY <1>1, <2>1 DEF SaverInv
    <2>3. SaverInv'
      BY <1>1, <1>2, <2>1, <2>2 DEF SaverInv
    <2>4. CleanIsSaved'
      BY <1>1, <1>2, <2>1 DEF CleanIsSaved
    <2>5. DrainedIsSaved'
      BY <1>1, <1>2, <2>1 DEF DrainedIsSaved
    <2> QED BY <2>3, <2>4, <2>5
  <1>5. ASSUME NEW s \in Stages, WriteFails(s) PROVE SaverInv' /\ CleanIsSaved' /\ DrainedIsSaved'
    <2>1. /\ saver'.who = saver.who /\ saver'.todo = saver.todo \ {s} /\ saver'.wrote = saver.wrote
          /\ saver.wrote = {}
          /\ \A z \in Stages : snapshot'[z] = snapshot[z] \/ snapshot'[z] = rooms[z]
          /\ dirty' = dirty /\ unread' = unread /\ phase' = phase
          /\ failed \subseteq failed' /\ (saver.who = "flush" => s \in failed')
      BY <1>1, <1>5 DEF WriteFails, Due, lifeVars, tableVars, TypeOK
    <2>2. SaverInv'
      BY <1>1, <1>2, <2>1 DEF SaverInv
    <2>3. CleanIsSaved'
      BY <1>1, <1>2, <2>1 DEF CleanIsSaved
    <2>4. DrainedIsSaved'
      BY <1>1, <1>2, <2>1 DEF DrainedIsSaved
    <2> QED BY <2>2, <2>3, <2>4
  <1>6. ASSUME NEW s \in Stages, MarkSaved(s) PROVE SaverInv' /\ CleanIsSaved' /\ DrainedIsSaved'
    <2>1. /\ saver'.who = saver.who /\ saver'.todo = saver.todo \ {s} /\ saver'.wrote = {}
          /\ snapshot[s] = rooms[s]
          /\ snapshot' = snapshot /\ failed' = failed /\ phase' = phase
          /\ dirty' = dirty \ {s} /\ unread' = unread \ {s}
      BY <1>1, <1>6 DEF MarkSaved, lifeVars, SaverInv, TypeOK
    <2>2. SaverInv'
      BY <1>1, <1>2, <2>1 DEF SaverInv
    <2>3. CleanIsSaved'
      BY <1>1, <1>2, <2>1 DEF CleanIsSaved
    <2>4. DrainedIsSaved'
      BY <1>1, <1>2, <2>1 DEF DrainedIsSaved
    <2> QED BY <2>2, <2>3, <2>4
  <1>7. CASE SaveEnds
    <2>1. /\ saver'.who = "nobody" /\ saver'.wrote = {} /\ saver'.todo = {}
          /\ snapshot' = snapshot /\ failed' = failed /\ dirty' = dirty /\ unread' = unread
          /\ phase' = IF saver.who = "flush" THEN "flushed" ELSE phase
      BY <1>7 DEF SaveEnds, Idle, tableVars
    <2>2. saver.who = "flush" => \A s \in created : s \in failed \/ snapshot[s] = rooms[s]
      BY <1>1, <1>7 DEF SaveEnds, Due, SaverInv
    <2> QED BY <1>1, <1>2, <2>1, <2>2 DEF SaverInv, CleanIsSaved, DrainedIsSaved
  <1> QED BY <1>3, <1>4, <1>5, <1>6, <1>7 DEF Saving, SaveStep

LEMMA StoreStep == TypeInv /\ OverInv /\ StoreInv /\ [Next]_vars => StoreInv'
  <1> SUFFICES ASSUME TypeInv, OverInv, StoreInv, [Next]_vars
               PROVE  SaverInv' /\ CleanIsSaved' /\ DrainedIsSaved'
    BY QuietStep DEF StoreInv
  <1>1. /\ TypeOK /\ SaverInv /\ CleanIsSaved /\ DrainedIsSaved
        /\ created \subseteq Stages /\ rooms \in [Stages -> Table]
    BY DEF TypeInv, TypeOK, StoreInv
  <1>2. CASE SeatStep
    <2>1. created' = created /\ unread' = unread
      BY <1>2 DEF SeatStep
    <2>2. CASE UNCHANGED <<rooms, dirty>>
      BY <1>1, <1>2, <2>1, <2>2, LockedStep DEF SeatStep, CleanIsSaved, NoneCreating
    <2>3. ASSUME NEW s \in created, NEW r \in RoomIds, NEW n \in Nat \cup {Absent}, SetRoom(s, r, n)
          PROVE  \A z \in created' : z \in dirty' \/ z \in unread' \/ snapshot[z] = rooms'[z]
      <3>1. \A z \in created : z # s => rooms'[z] = rooms[z]
        BY <1>1, <2>3 DEF SetRoom
      <3>2. dirty' = dirty \cup {s}
        BY <2>3 DEF SetRoom
      <3> QED BY <1>1, <2>1, <3>1, <3>2 DEF CleanIsSaved
    <2> QED BY <1>2, <2>2, <2>3, LockedStep DEF SeatStep, NoneCreating
  <1>3. CASE UNCHANGED <<tableVars, storeVars, phase, late>>
    BY <1>1, <1>3 DEF tableVars, storeVars, SaverInv, CleanIsSaved, DrainedIsSaved
  <1>4. ASSUME NEW s \in Stages, GetTexasObj(s) PROVE SaverInv' /\ CleanIsSaved' /\ DrainedIsSaved'
    <2>1. \A z \in created' : z \in dirty' \/ z \in unread' \/ snapshot[z] = rooms'[z]
      BY <1>1, <1>4 DEF GetTexasObj, CleanIsSaved
    <2> QED BY <1>4, <2>1, LockedStep DEF GetTexasObj, lifeVars
  <1>5. CASE CheckAndCreateRooms
    <2>1. ASSUME NEW z \in created, z \notin dirty' PROVE rooms'[z] = rooms[z] /\ z \notin dirty
      <3>1. \A r \in RoomIds : ~Overdue(z, r)
        BY <1>5, <2>1 DEF CheckAndCreateRooms
      <3>2. rooms'[z] = [r \in RoomIds |-> IF Overdue(z, r) THEN Absent ELSE rooms[z][r]]
        BY <1>1, <1>5, <2>1 DEF CheckAndCreateRooms
      <3>3. rooms[z] = [r \in RoomIds |-> rooms[z][r]]
        BY <1>1, <2>1 DEF Table
      <3> QED BY <1>5, <2>1, <3>1, <3>2, <3>3 DEF CheckAndCreateRooms
    <2>2. \A z \in created' : z \in dirty' \/ z \in unread' \/ snapshot[z] = rooms'[z]
      BY <1>1, <1>5, <2>1 DEF CheckAndCreateRooms, CleanIsSaved
    <2> QED BY <1>5, <2>2, LockedStep DEF CheckAndCreateRooms, lifeVars
  <1>6. CASE Living
    <2>1. /\ UNCHANGED <<tableVars, storeVars>>
          /\ phase \in {"up", "draining", "down"} /\ phase' # "flushed"
      BY <1>6 DEF Living, BeginDrain, Drained, DrainTimesOut, Restart
    <2> QED BY <1>1, <2>1 DEF tableVars, storeVars, SaverInv, CleanIsSaved, DrainedIsSaved
  <1>7. CASE Terminate
    BY <1>7 DEF Terminate, Idle, SaverInv, CleanIsSaved, DrainedIsSaved
  <1> QED BY <1>2, <1>3, <1>4, <1>5, <1>6, <1>7, SavingStep, StepKinds

THEOREM StoreInvariance == Spec => []StoreInv
  BY InitStore, StoreStep, TypeInvariance, OverInvariance, PTL DEF Spec

\* A table that is not marked is the one in Redis, also while a saver is between
\* its write and its mark, unless its snapshot could not be read.
THEOREM CleanTablesSaved == Spec => []CleanIsSaved
  <1>1. StoreInv => CleanIsSaved
    BY DEF StoreInv
  <1> QED BY <1>1, StoreInvariance, PTL

\* After the final flush of an orderly shutdown Redis holds every table that it
\* could write, and stays so.
THEOREM FlushSavesAll == Spec => []DrainedIsSaved
  <1>1. StoreInv => DrainedIsSaved
    BY DEF StoreInv
  <1> QED BY <1>1, StoreInvariance, PTL
=============================================================================
