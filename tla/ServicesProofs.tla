---------------------------- MODULE ServicesProofs ----------------------------
(* The seven parts that MCServices checks side by side, for every value of the  *)
(* constants: the bus driver under its Router, the in-flight limit, the timing  *)
(* wheel (by the theorem of TimeWheelProofs), the routing rules, the async      *)
(* worker, service discovery, and the role (by the theorems of RoleProofs).     *)
EXTENDS MCServices, RoleProofs, Sequences, FiniteSetTheorems, TLAPS
-----------------------------------------------------------------------------
(* The bus. *)

\* Where a connection may be, by the position of the goroutine.
PlaceInv ==
    /\ open \subseteq {cur, held}
    /\ held # NoConn => run \in {"release", "store"}
    /\ run = "store" => held \in Conns
    /\ run \in {"off", "release", "dial", "store"} => cur = NoConn

\* Who says connected can reach a channel until the goroutine or Close says otherwise.
ConnectedInv ==
    /\ connected => cur # NoConn
    /\ run \in {"off", "drop", "release", "dial", "store", "ended"} => ~connected

\* Nobody calls a callback when it is taken away.
LifeInv ==
    /\ life \in {"off", "start"} => run = "off"
    /\ life \in {"clear", "done"} => RabbitMQ!Joined
    /\ run = "call" => callback

BusInv == RabbitMQ!TypeOK /\ PlaceInv /\ ConnectedInv /\ LifeInv

-----------------------------------------------------------------------------
\* The driver and RabbitMQ keep their types.
LEMMA NextBusTypeOK ==
    ASSUME MaxBreaks \in Nat, BusInv, [RabbitMQ!Next]_(RabbitMQ!vars)
    PROVE  RabbitMQ!TypeOK'
<1> USE DEF BusInv, RabbitMQ!TypeOK, RabbitMQ!routerVars, RabbitMQ!linkVars
<1>1. ASSUME NEW c \in Conns,
             RabbitMQ!ConnectionBreaks(c) \/ RabbitMQ!ChannelBreaks(c) \/ RabbitMQ!StartConnects(c)
      PROVE  RabbitMQ!TypeOK'
  <2>1. CASE RabbitMQ!StartConnects(c)
    BY <2>1 DEF RabbitMQ!StartConnects, RabbitMQ!SetUp
  <2>2. CASE RabbitMQ!ConnectionBreaks(c) \/ RabbitMQ!ChannelBreaks(c)
    <3>1. breaks' \in 0 .. MaxBreaks BY <2>2 DEF RabbitMQ!ConnectionBreaks, RabbitMQ!ChannelBreaks
    <3>2. consuming' \subseteq open' /\ open' \subseteq Conns
      BY <2>2 DEF RabbitMQ!ConnectionBreaks, RabbitMQ!ChannelBreaks
    <3>3. UNCHANGED <<life, receiver, callback, run, cur, held, connected>>
      BY <2>2 DEF RabbitMQ!ConnectionBreaks, RabbitMQ!ChannelBreaks
    <3>4. QED BY <3>1, <3>2, <3>3
  <2>3. QED BY <1>1, <2>1, <2>2
<1>2. CASE RabbitMQ!InitAndRun \/ RabbitMQ!StartFails \/ RabbitMQ!RegisterSelf
  BY <1>2 DEF RabbitMQ!InitAndRun, RabbitMQ!StartFails, RabbitMQ!RegisterSelf
<1>3. CASE \/ RabbitMQ!LookAtClosed \/ RabbitMQ!StopConsuming \/ RabbitMQ!NoticeLoss
           \/ RabbitMQ!ReceiveMsg \/ RabbitMQ!CheckCallback \/ RabbitMQ!CallCallback
  BY <1>3 DEF RabbitMQ!LookAtClosed, RabbitMQ!StopConsuming, RabbitMQ!NoticeLoss, RabbitMQ!ReceiveMsg,
     RabbitMQ!CheckCallback, RabbitMQ!CallCallback, RabbitMQ!End, RabbitMQ!Goto
<1>4. CASE \/ RabbitMQ!AfterLoss \/ RabbitMQ!TakeOld \/ RabbitMQ!ReleaseOld
           \/ RabbitMQ!StopDialing \/ RabbitMQ!SetUpFails \/ RabbitMQ!StoreConn
  BY <1>4 DEF RabbitMQ!AfterLoss, RabbitMQ!TakeOld, RabbitMQ!ReleaseOld, RabbitMQ!StopDialing,
     RabbitMQ!SetUpFails, RabbitMQ!StoreConn, RabbitMQ!End, RabbitMQ!Release
<1>5. ASSUME NEW c \in Conns, RabbitMQ!Dial(c) PROVE RabbitMQ!TypeOK'
  BY <1>5 DEF RabbitMQ!Dial, RabbitMQ!SetUp
<1>6. CASE RabbitMQ!BeginShutdown \/ RabbitMQ!CloseBegins \/ RabbitMQ!WayDown
  BY <1>6 DEF RabbitMQ!BeginShutdown, RabbitMQ!CloseBegins, RabbitMQ!WayDown, RabbitMQ!CloseMarks,
     RabbitMQ!CloseSignals, RabbitMQ!CloseReleases, RabbitMQ!CloseEnds, RabbitMQ!Release
<1>7. CASE UNCHANGED RabbitMQ!vars
  BY <1>7 DEF RabbitMQ!vars
<1> QED BY <1>1, <1>2, <1>3, <1>4, <1>5, <1>6, <1>7 DEF RabbitMQ!Next, RabbitMQ!Run

\* The goroutine: what it holds, it closes or stores before it dials again.
LEMMA RunInv ==
    ASSUME NoConn \notin Conns, BusInv, RabbitMQ!Run \/ RabbitMQ!ReceiveMsg \/ RabbitMQ!SetUpFails
    PROVE  PlaceInv' /\ ConnectedInv' /\ LifeInv'
<1> USE DEF PlaceInv, ConnectedInv, LifeInv, RabbitMQ!Joined, RabbitMQ!routerVars, RabbitMQ!linkVars
<1>1. RabbitMQ!TypeOK /\ PlaceInv /\ ConnectedInv /\ LifeInv BY DEF BusInv
<1>2. CASE RabbitMQ!LookAtClosed \/ RabbitMQ!StopConsuming \/ RabbitMQ!NoticeLoss
  BY <1>1, <1>2 DEF RabbitMQ!LookAtClosed, RabbitMQ!StopConsuming, RabbitMQ!NoticeLoss, RabbitMQ!End,
     RabbitMQ!Goto
<1>3. CASE RabbitMQ!ReceiveMsg \/ RabbitMQ!CheckCallback \/ RabbitMQ!CallCallback
  BY <1>1, <1>3 DEF RabbitMQ!ReceiveMsg, RabbitMQ!CheckCallback, RabbitMQ!CallCallback, RabbitMQ!Goto
<1>4. CASE RabbitMQ!AfterLoss
  BY <1>1, <1>4 DEF RabbitMQ!AfterLoss, RabbitMQ!End
<1>5. CASE RabbitMQ!TakeOld
  BY <1>1, <1>5 DEF RabbitMQ!TakeOld
<1>6. CASE RabbitMQ!ReleaseOld \/ RabbitMQ!SetUpFails
  BY <1>1, <1>6 DEF RabbitMQ!ReleaseOld, RabbitMQ!SetUpFails, RabbitMQ!Release
<1>7. CASE RabbitMQ!StopDialing
  BY <1>1, <1>7 DEF RabbitMQ!StopDialing, RabbitMQ!End
<1>8. ASSUME NEW c \in Conns, RabbitMQ!Dial(c) PROVE PlaceInv' /\ ConnectedInv' /\ LifeInv'
  <2>1. open = {} BY <1>1, <1>8 DEF RabbitMQ!Dial, RabbitMQ!TypeOK
  <2>2. QED BY <1>1, <1>8, <2>1 DEF RabbitMQ!Dial, RabbitMQ!SetUp
<1>9. CASE RabbitMQ!StoreConn
  BY <1>1, <1>9 DEF RabbitMQ!StoreConn, RabbitMQ!TypeOK
<1> QED BY <1>2, <1>3, <1>4, <1>5, <1>6, <1>7, <1>8, <1>9 DEF RabbitMQ!Run

\* The Router and RabbitMQ.  Close takes the connection when the goroutine has ended.
LEMMA RouterInv ==
    ASSUME NoConn \notin Conns, BusInv,
           \/ \E c \in Conns : \/ RabbitMQ!ConnectionBreaks(c) \/ RabbitMQ!ChannelBreaks(c)
                               \/ RabbitMQ!StartConnects(c)
           \/ RabbitMQ!InitAndRun \/ RabbitMQ!StartFails \/ RabbitMQ!RegisterSelf
           \/ RabbitMQ!BeginShutdown \/ RabbitMQ!CloseBegins \/ RabbitMQ!WayDown
    PROVE  PlaceInv' /\ ConnectedInv' /\ LifeInv'
<1> USE DEF PlaceInv, ConnectedInv, LifeInv, RabbitMQ!Joined, RabbitMQ!routerVars, RabbitMQ!linkVars
<1>1. RabbitMQ!TypeOK /\ PlaceInv /\ ConnectedInv /\ LifeInv BY DEF BusInv
<1>2. ASSUME NEW c \in Conns, RabbitMQ!ConnectionBreaks(c) \/ RabbitMQ!ChannelBreaks(c)
      PROVE  PlaceInv' /\ ConnectedInv' /\ LifeInv'
  BY <1>1, <1>2 DEF RabbitMQ!ConnectionBreaks, RabbitMQ!ChannelBreaks
<1>3. ASSUME NEW c \in Conns, RabbitMQ!StartConnects(c) PROVE PlaceInv' /\ ConnectedInv' /\ LifeInv'
  <2>1. open = {} /\ held = NoConn BY <1>1, <1>3 DEF RabbitMQ!StartConnects, RabbitMQ!TypeOK
  <2>2. QED BY <1>1, <1>3, <2>1 DEF RabbitMQ!StartConnects, RabbitMQ!SetUp
<1>4. CASE \/ RabbitMQ!InitAndRun \/ RabbitMQ!StartFails \/ RabbitMQ!RegisterSelf
           \/ RabbitMQ!BeginShutdown \/ RabbitMQ!CloseBegins
  BY <1>1, <1>4 DEF RabbitMQ!InitAndRun, RabbitMQ!StartFails, RabbitMQ!RegisterSelf,
     RabbitMQ!BeginShutdown, RabbitMQ!CloseBegins
<1>5. CASE RabbitMQ!CloseMarks \/ RabbitMQ!CloseSignals
  BY <1>1, <1>5 DEF RabbitMQ!CloseMarks, RabbitMQ!CloseSignals
<1>6. CASE RabbitMQ!CloseReleases
  BY <1>1, <1>6 DEF RabbitMQ!CloseReleases, RabbitMQ!Release
<1>7. CASE RabbitMQ!CloseEnds
  BY <1>1, <1>7 DEF RabbitMQ!CloseEnds
<1> QED BY <1>2, <1>3, <1>4, <1>5, <1>6, <1>7 DEF RabbitMQ!WayDown

\* At most one connection: what is open is held by the goroutine or the driver's fields.
LEMMA OneIsOpen == ASSUME NoConn \notin Conns, BusInv PROVE RabbitMQ!OneConnection
<1>1. PICK c : open \subseteq {c}
  BY DEF BusInv, PlaceInv, RabbitMQ!TypeOK
<1>2. open = {} \/ open = {c}
  BY <1>1
<1>3. Cardinality({}) = 0 /\ Cardinality({c}) = 1
  BY FS_EmptySet, FS_Singleton
<1>4. Cardinality(open) <= 1
  BY <1>2, <1>3
<1> QED BY <1>4 DEF RabbitMQ!OneConnection, BusInv, PlaceInv, Cardinality, RabbitMQ!Cardinality

\* However breaks, reconnects and Close meet: one connection at most, which somebody
\* will close, a channel to send on while the driver says connected, and no message
\* meets a callback that is gone (rabbitmq.go, run and Close; router.go, onRecvBusMsg).
THEOREM BusIsSound ==
    ASSUME NoConn \notin Conns, MaxBreaks \in Nat
    PROVE  RabbitMQ!Spec => [](RabbitMQ!TypeOK /\ RabbitMQ!BusSound)
<1>1. RabbitMQ!Init => BusInv
  <2> SUFFICES ASSUME RabbitMQ!Init PROVE BusInv OBVIOUS
  <2>1. RabbitMQ!TypeOK
    <3>1. breaks \in 0 .. MaxBreaks BY DEF RabbitMQ!Init
    <3>2. QED BY <3>1 DEF RabbitMQ!Init, RabbitMQ!TypeOK
  <2>2. PlaceInv BY DEF RabbitMQ!Init, PlaceInv
  <2>3. ConnectedInv /\ LifeInv BY DEF RabbitMQ!Init, ConnectedInv, LifeInv
  <2>4. QED BY <2>1, <2>2, <2>3 DEF BusInv
<1>2. BusInv /\ [RabbitMQ!Next]_(RabbitMQ!vars) => BusInv'
  <2> SUFFICES ASSUME BusInv, [RabbitMQ!Next]_(RabbitMQ!vars) PROVE BusInv' OBVIOUS
  <2>1. RabbitMQ!TypeOK' BY NextBusTypeOK
  <2>2. PlaceInv' /\ ConnectedInv' /\ LifeInv'
    <3>1. CASE UNCHANGED RabbitMQ!vars
      BY <3>1 DEF RabbitMQ!vars, BusInv, PlaceInv, ConnectedInv, LifeInv, RabbitMQ!Joined
    <3>2. CASE RabbitMQ!Next
      BY <3>2, RunInv, RouterInv DEF RabbitMQ!Next
    <3>3. QED BY <3>1, <3>2
  <2>3. QED BY <2>1, <2>2 DEF BusInv
<1>3. BusInv => RabbitMQ!TypeOK /\ RabbitMQ!BusSound
  BY OneIsOpen DEF BusInv, RabbitMQ!BusSound, RabbitMQ!SendFindsChannel, RabbitMQ!CallbackStands,
     ConnectedInv, LifeInv
<1>4. QED BY <1>1, <1>2, <1>3, PTL DEF RabbitMQ!Spec
-----------------------------------------------------------------------------
(* The in-flight limit. *)

\* Only shadow lets a call through without a slot; a slot of a method is counted
\* where the method has a limit.
SlotInv ==
    /\ mode = "enforce" => \A c \in Calls : call[c] # "unslotted"
    /\ \A m \in Slots!Methods : MaxPerMethod[m] = 0 => methodInflight[m] = 0

\* Both counters, as the sets of calls say.
GlobalInv ==
    mode = "enforce" =>
        /\ inflight = Cardinality(Slots!HoldsGlobal)
        /\ MaxInflight > 0 => inflight <= MaxInflight

MethodInv ==
    mode = "enforce" =>
        \A m \in Slots!Methods :
            /\ methodInflight[m] = Cardinality(Slots!HoldsMethod(m))
            /\ MaxPerMethod[m] > 0 => methodInflight[m] <= MaxPerMethod[m]

Limits == IsFiniteSet(Calls) /\ MaxInflight \in Nat /\ MaxPerMethod \in [Slots!Methods -> Nat]

\* The places that count in the global counter, and in that of a method.
GlobalPlaces == {"method", "undo", "handler", "leave", "leaveGlobal"}
MethodPlaces == {"handler", "leave"}

-----------------------------------------------------------------------------
\* A step moves one call.
LEMMA Move ==
    ASSUME Slots!TypeOK, NEW c \in Calls, NEW place \in Slots!Places, Slots!Goto(c, place)
    PROVE  /\ call' \in [Calls -> Slots!Places] /\ call'[c] = place
           /\ \A d \in Calls \ {c} : call'[d] = call[d]
  BY DEF Slots!Goto, Slots!TypeOK

LEMMA NextSlotsTypeOK == ASSUME Limits, Slots!TypeOK, [Slots!Next]_(Slots!vars) PROVE Slots!TypeOK'
<1>1. ASSUME NEW c \in Calls,
             \/ Slots!AcquireGlobal(c) \/ Slots!AcquireMethod(c) \/ Slots!UndoGlobal(c)
             \/ Slots!HandlerReturns(c) \/ Slots!ReleaseMethod(c) \/ Slots!ReleaseGlobal(c)
      PROVE  Slots!TypeOK'
  <2>1. PICK place \in Slots!Places : Slots!Goto(c, place)
    BY <1>1 DEF Slots!AcquireGlobal, Slots!AcquireMethod, Slots!UndoGlobal, Slots!HandlerReturns,
       Slots!ReleaseMethod, Slots!ReleaseGlobal, Slots!Refuse, Slots!Places
  <2>2. call' \in [Calls -> Slots!Places] BY <2>1, Move
  <2>3. mode' = mode
    BY <1>1 DEF Slots!AcquireGlobal, Slots!AcquireMethod, Slots!UndoGlobal, Slots!HandlerReturns,
       Slots!ReleaseMethod, Slots!ReleaseGlobal
  <2>4. inflight' \in Int
    BY <1>1 DEF Slots!TypeOK, Slots!AcquireGlobal, Slots!AcquireMethod, Slots!UndoGlobal,
       Slots!HandlerReturns, Slots!ReleaseMethod, Slots!ReleaseGlobal, Slots!GivenBack, Slots!Less
  <2>5. methodInflight' \in [Slots!Methods -> Nat]
    <3>1. MethodOf[c] \in Slots!Methods BY DEF Slots!Methods
    <3>2. methodInflight[MethodOf[c]] \in Nat BY <3>1 DEF Slots!TypeOK
    <3>3. Slots!Less(methodInflight[MethodOf[c]]) \in Nat BY <3>2 DEF Slots!Less
    <3>4. CASE Slots!AcquireMethod(c) BY <3>1, <3>2, <3>4 DEF Slots!TypeOK, Slots!AcquireMethod
    <3>5. CASE Slots!ReleaseMethod(c) BY <3>1, <3>3, <3>5 DEF Slots!TypeOK, Slots!ReleaseMethod
    <3>6. CASE \/ Slots!AcquireGlobal(c) \/ Slots!UndoGlobal(c)
               \/ Slots!HandlerReturns(c) \/ Slots!ReleaseGlobal(c)
      BY <3>6 DEF Slots!TypeOK, Slots!AcquireGlobal, Slots!UndoGlobal, Slots!HandlerReturns,
         Slots!ReleaseGlobal
    <3>7. QED BY <1>1, <3>4, <3>5, <3>6
  <2>6. QED BY <2>2, <2>3, <2>4, <2>5 DEF Slots!TypeOK
<1>2. CASE UNCHANGED Slots!vars BY <1>2 DEF Slots!TypeOK, Slots!vars
<1> QED BY <1>1, <1>2 DEF Slots!Next

\* How the move of one call changes a count.
LEMMA CountMoves ==
    ASSUME IsFiniteSet(Calls), NEW A, NEW B, A \subseteq Calls, B \subseteq Calls,
           NEW c \in Calls, \A d \in Calls \ {c} : d \in A <=> d \in B
    PROVE  /\ Cardinality(A) \in Nat /\ Cardinality(B) \in Nat
           /\ (c \in A <=> c \in B) => Cardinality(B) = Cardinality(A)
           /\ c \notin A /\ c \in B => Cardinality(B) = Cardinality(A) + 1
           /\ c \in A /\ c \notin B => Cardinality(B) = Cardinality(A) - 1 /\ Cardinality(A) > 0
<1>1. IsFiniteSet(A) /\ IsFiniteSet(B) BY FS_Subset
<1>2. Cardinality(A) \in Nat /\ Cardinality(B) \in Nat BY <1>1, FS_CardinalityType
<1>3. (c \in A <=> c \in B) => B = A OBVIOUS
<1>4. ASSUME c \notin A, c \in B PROVE Cardinality(B) = Cardinality(A) + 1
  <2>1. B = A \cup {c} BY <1>4
  <2>2. QED BY <1>1, <1>4, <2>1, FS_AddElement
<1>5. ASSUME c \in A, c \notin B PROVE Cardinality(B) = Cardinality(A) - 1 /\ Cardinality(A) > 0
  <2>1. A = B \cup {c} BY <1>5
  <2>2. Cardinality(A) = Cardinality(B) + 1 BY <1>1, <1>5, <2>1, FS_AddElement
  <2>3. QED BY <1>2, <2>2
<1> QED BY <1>2, <1>3, <1>4, <1>5

LEMMA NextSlotInv == ASSUME Limits, Slots!TypeOK, SlotInv, [Slots!Next]_(Slots!vars) PROVE SlotInv'
<1>1. ASSUME NEW c \in Calls, NEW place \in Slots!Places, Slots!Goto(c, place), mode' = mode,
             mode = "enforce" => place # "unslotted"
      PROVE  mode' = "enforce" => \A d \in Calls : call'[d] # "unslotted"
  BY <1>1, Move DEF SlotInv
<1>2. ASSUME NEW c \in Calls,
             \/ Slots!AcquireGlobal(c) \/ Slots!AcquireMethod(c) \/ Slots!UndoGlobal(c)
             \/ Slots!HandlerReturns(c) \/ Slots!ReleaseMethod(c) \/ Slots!ReleaseGlobal(c)
      PROVE  SlotInv'
  <2>1. \E place \in Slots!Places : Slots!Goto(c, place) /\ (mode = "enforce" => place # "unslotted")
    BY <1>2 DEF Slots!AcquireGlobal, Slots!AcquireMethod, Slots!UndoGlobal, Slots!HandlerReturns,
       Slots!ReleaseMethod, Slots!ReleaseGlobal, Slots!Refuse, Slots!Places
  <2>2. mode' = mode
    BY <1>2 DEF Slots!AcquireGlobal, Slots!AcquireMethod, Slots!UndoGlobal, Slots!HandlerReturns,
       Slots!ReleaseMethod, Slots!ReleaseGlobal
  <2>3. mode' = "enforce" => \A d \in Calls : call'[d] # "unslotted"
    BY <1>1, <2>1, <2>2
  <2>4. ASSUME NEW m \in Slots!Methods, MaxPerMethod[m] = 0 PROVE methodInflight'[m] = 0
    <3>1. methodInflight[m] = 0 BY <2>4 DEF SlotInv
    <3>2. CASE Slots!AcquireMethod(c)
      BY <2>4, <3>1, <3>2 DEF Slots!AcquireMethod, Slots!MethodLimit, Slots!TypeOK
    <3>3. CASE Slots!ReleaseMethod(c)
      BY <2>4, <3>1, <3>3 DEF Slots!ReleaseMethod, Slots!Less, Slots!TypeOK
    <3>4. CASE \/ Slots!AcquireGlobal(c) \/ Slots!UndoGlobal(c)
               \/ Slots!HandlerReturns(c) \/ Slots!ReleaseGlobal(c)
      BY <3>1, <3>4 DEF Slots!AcquireGlobal, Slots!UndoGlobal, Slots!HandlerReturns, Slots!ReleaseGlobal
    <3>5. QED BY <1>2, <3>2, <3>3, <3>4
  <2>5. QED BY <2>3, <2>4 DEF SlotInv
<1>3. CASE UNCHANGED Slots!vars BY <1>3 DEF SlotInv, Slots!vars
<1> QED BY <1>2, <1>3 DEF Slots!Next
-----------------------------------------------------------------------------
\* The global counter: a slot is taken and given back with the place that counts.
LEMMA NextGlobalInv ==
    ASSUME Limits, Slots!TypeOK, SlotInv, GlobalInv, [Slots!Next]_(Slots!vars)
    PROVE  GlobalInv'
<1>1. inflight \in Int /\ MaxInflight \in Nat /\ IsFiniteSet(Calls) BY DEF Slots!TypeOK, Limits
<1>2. ASSUME NEW c \in Calls, NEW place \in Slots!Places, Slots!Goto(c, place)
      PROVE  /\ Cardinality(Slots!HoldsGlobal) \in Nat /\ Cardinality(Slots!HoldsGlobal') \in Nat
             /\ (call[c] \in GlobalPlaces <=> place \in GlobalPlaces) =>
                    Cardinality(Slots!HoldsGlobal') = Cardinality(Slots!HoldsGlobal)
             /\ call[c] \notin GlobalPlaces /\ place \in GlobalPlaces =>
                    Cardinality(Slots!HoldsGlobal') = Cardinality(Slots!HoldsGlobal) + 1
             /\ call[c] \in GlobalPlaces /\ place \notin GlobalPlaces =>
                    /\ Cardinality(Slots!HoldsGlobal') = Cardinality(Slots!HoldsGlobal) - 1
                    /\ Cardinality(Slots!HoldsGlobal) > 0
  <2>1. PICK A : A = Slots!HoldsGlobal OBVIOUS
  <2>2. PICK B : B = Slots!HoldsGlobal' OBVIOUS
  <2>3. \A d \in Calls : (d \in A <=> call[d] \in GlobalPlaces) /\ (d \in B <=> call'[d] \in GlobalPlaces)
    BY <2>1, <2>2 DEF Slots!HoldsGlobal, Slots!At, GlobalPlaces
  <2>4. A \subseteq Calls /\ B \subseteq Calls BY <2>1, <2>2 DEF Slots!HoldsGlobal, Slots!At
  <2>5. call'[c] = place /\ \A d \in Calls \ {c} : call'[d] = call[d] BY <1>2, Move
  <2>6. \A d \in Calls \ {c} : d \in A <=> d \in B BY <2>3, <2>5
  <2>7. /\ Cardinality(A) \in Nat /\ Cardinality(B) \in Nat
        /\ (c \in A <=> c \in B) => Cardinality(B) = Cardinality(A)
        /\ c \notin A /\ c \in B => Cardinality(B) = Cardinality(A) + 1
        /\ c \in A /\ c \notin B => Cardinality(B) = Cardinality(A) - 1 /\ Cardinality(A) > 0
    BY <1>1, <2>4, <2>6, CountMoves
  <2>8. (c \in A <=> call[c] \in GlobalPlaces) /\ (c \in B <=> place \in GlobalPlaces)
    BY <2>3, <2>5
  <2>9. QED BY <2>1, <2>2, <2>7, <2>8
<1>3. ASSUME NEW c \in Calls, Slots!AcquireGlobal(c) PROVE GlobalInv'
  <2>1. CASE MaxInflight > 0 /\ inflight >= MaxInflight
    <3>1. PICK place \in {"rejected", "unslotted"} : Slots!Goto(c, place)
      BY <1>3, <2>1 DEF Slots!AcquireGlobal, Slots!Refuse
    <3>2. Cardinality(Slots!HoldsGlobal') = Cardinality(Slots!HoldsGlobal)
      BY <1>2, <1>3, <3>1 DEF Slots!AcquireGlobal, Slots!Places, GlobalPlaces
    <3>3. inflight' = inflight /\ mode' = mode BY <1>3, <2>1 DEF Slots!AcquireGlobal
    <3>4. QED BY <3>2, <3>3 DEF GlobalInv
  <2>2. CASE ~(MaxInflight > 0 /\ inflight >= MaxInflight)
    <3>1. Slots!Goto(c, "method") /\ inflight' = inflight + 1 /\ mode' = mode
      BY <1>3, <2>2 DEF Slots!AcquireGlobal
    <3>2. /\ Cardinality(Slots!HoldsGlobal') = Cardinality(Slots!HoldsGlobal) + 1
          /\ Cardinality(Slots!HoldsGlobal) \in Nat
      BY <1>2, <1>3, <3>1 DEF Slots!AcquireGlobal, Slots!Places, GlobalPlaces
    <3>3. mode' = "enforce" => inflight' = Cardinality(Slots!HoldsGlobal') BY <3>1, <3>2 DEF GlobalInv
    <3>4. MaxInflight > 0 => inflight' <= MaxInflight BY <1>1, <2>2, <3>1
    <3>5. QED BY <3>3, <3>4 DEF GlobalInv
  <2>3. QED BY <2>1, <2>2
<1>4. ASSUME NEW c \in Calls, NEW p \in GlobalPlaces, NEW q \in GlobalPlaces, call[c] = p,
             Slots!Goto(c, q), inflight' = inflight, mode' = mode
      PROVE  GlobalInv'
  <2>1. Cardinality(Slots!HoldsGlobal') = Cardinality(Slots!HoldsGlobal)
    BY <1>2, <1>4 DEF Slots!Places, GlobalPlaces
  <2>2. QED BY <1>4, <2>1 DEF GlobalInv
<1>5. ASSUME NEW c \in Calls, Slots!AcquireMethod(c) PROVE GlobalInv'
  BY <1>4, <1>5 DEF Slots!AcquireMethod, GlobalPlaces
<1>6. ASSUME NEW c \in Calls, Slots!UndoGlobal(c) PROVE GlobalInv'
  <2>1. PICK place \in {"rejected", "unslotted"} : Slots!Goto(c, place)
    BY <1>6 DEF Slots!UndoGlobal, Slots!Refuse
  <2>2. inflight' = inflight - 1 /\ mode' = mode BY <1>6 DEF Slots!UndoGlobal, Slots!GivenBack
  <2>3. /\ Cardinality(Slots!HoldsGlobal') = Cardinality(Slots!HoldsGlobal) - 1
        /\ Cardinality(Slots!HoldsGlobal) \in Nat
    BY <1>2, <1>6, <2>1 DEF Slots!UndoGlobal, Slots!Places, GlobalPlaces
  <2>4. mode' = "enforce" => inflight' = Cardinality(Slots!HoldsGlobal') BY <2>2, <2>3 DEF GlobalInv
  <2>5. mode' = "enforce" /\ MaxInflight > 0 => inflight' <= MaxInflight BY <1>1, <2>2 DEF GlobalInv
  <2>6. QED BY <2>4, <2>5 DEF GlobalInv
<1>7. ASSUME NEW c \in Calls, Slots!HandlerReturns(c) PROVE GlobalInv'
  <2>1. Slots!Goto(c, "leave") /\ inflight' = inflight /\ mode' = mode BY <1>7 DEF Slots!HandlerReturns
  <2>2. CASE call[c] = "handler" BY <1>4, <2>1, <2>2 DEF GlobalPlaces
  <2>3. CASE call[c] = "unslotted" BY <2>1, <2>3 DEF SlotInv, GlobalInv
  <2>4. QED BY <1>7, <2>2, <2>3 DEF Slots!HandlerReturns
<1>8. ASSUME NEW c \in Calls, Slots!ReleaseMethod(c) PROVE GlobalInv'
  BY <1>4, <1>8 DEF Slots!ReleaseMethod, GlobalPlaces
<1>9. ASSUME NEW c \in Calls, Slots!ReleaseGlobal(c) PROVE GlobalInv'
  <2>1. Slots!Goto(c, "done") /\ inflight' = Slots!Less(inflight) /\ mode' = mode
    BY <1>9 DEF Slots!ReleaseGlobal
  <2>2. /\ Cardinality(Slots!HoldsGlobal') = Cardinality(Slots!HoldsGlobal) - 1
        /\ Cardinality(Slots!HoldsGlobal) > 0 /\ Cardinality(Slots!HoldsGlobal) \in Nat
    BY <1>2, <1>9, <2>1 DEF Slots!ReleaseGlobal, Slots!Places, GlobalPlaces
  <2>3. mode' = "enforce" => inflight' = Cardinality(Slots!HoldsGlobal')
    BY <2>1, <2>2 DEF GlobalInv, Slots!Less
  <2>4. mode' = "enforce" /\ MaxInflight > 0 => inflight' <= MaxInflight
    BY <1>1, <2>1 DEF GlobalInv, Slots!Less
  <2>5. QED BY <2>3, <2>4 DEF GlobalInv
<1>10. CASE UNCHANGED Slots!vars BY <1>10 DEF Slots!vars, GlobalInv, Slots!HoldsGlobal, Slots!At
<1> QED BY <1>3, <1>5, <1>6, <1>7, <1>8, <1>9, <1>10 DEF Slots!Next
-----------------------------------------------------------------------------
\* The counter of a method.
LEMMA NextMethodInv ==
    ASSUME Limits, Slots!TypeOK, SlotInv, MethodInv, [Slots!Next]_(Slots!vars)
    PROVE  MethodInv'
<1>1. IsFiniteSet(Calls) /\ MaxPerMethod \in [Slots!Methods -> Nat] BY DEF Limits
<1>2. ASSUME NEW c \in Calls, NEW place \in Slots!Places, Slots!Goto(c, place), NEW m \in Slots!Methods
      PROVE  /\ Cardinality(Slots!HoldsMethod(m)) \in Nat
             /\ (call[c] \in MethodPlaces <=> place \in MethodPlaces)
                    \/ MethodOf[c] # m \/ ~(Slots!MethodLimit(c) > 0)
                => Cardinality(Slots!HoldsMethod(m)') = Cardinality(Slots!HoldsMethod(m))
             /\ MethodOf[c] = m /\ Slots!MethodLimit(c) > 0 =>
                    /\ call[c] \notin MethodPlaces /\ place \in MethodPlaces =>
                           Cardinality(Slots!HoldsMethod(m)') = Cardinality(Slots!HoldsMethod(m)) + 1
                    /\ call[c] \in MethodPlaces /\ place \notin MethodPlaces =>
                           /\ Cardinality(Slots!HoldsMethod(m)') = Cardinality(Slots!HoldsMethod(m)) - 1
                           /\ Cardinality(Slots!HoldsMethod(m)) > 0
  <2>1. PICK A : A = Slots!HoldsMethod(m) OBVIOUS
  <2>2. PICK B : B = Slots!HoldsMethod(m)' OBVIOUS
  <2>3. \A d \in Calls :
            /\ d \in A <=> call[d] \in MethodPlaces /\ MethodOf[d] = m /\ Slots!MethodLimit(d) > 0
            /\ d \in B <=> call'[d] \in MethodPlaces /\ MethodOf[d] = m /\ Slots!MethodLimit(d) > 0
    BY <2>1, <2>2 DEF Slots!HoldsMethod, Slots!At, MethodPlaces, Slots!MethodLimit
  <2>4. A \subseteq Calls /\ B \subseteq Calls BY <2>1, <2>2 DEF Slots!HoldsMethod, Slots!At
  <2>5. call'[c] = place /\ \A d \in Calls \ {c} : call'[d] = call[d] BY <1>2, Move
  <2>6. \A d \in Calls \ {c} : d \in A <=> d \in B BY <2>3, <2>5
  <2>7. /\ Cardinality(A) \in Nat /\ Cardinality(B) \in Nat
        /\ (c \in A <=> c \in B) => Cardinality(B) = Cardinality(A)
        /\ c \notin A /\ c \in B => Cardinality(B) = Cardinality(A) + 1
        /\ c \in A /\ c \notin B => Cardinality(B) = Cardinality(A) - 1 /\ Cardinality(A) > 0
    BY <1>1, <2>4, <2>6, CountMoves
  <2>8. /\ c \in A <=> call[c] \in MethodPlaces /\ MethodOf[c] = m /\ Slots!MethodLimit(c) > 0
        /\ c \in B <=> place \in MethodPlaces /\ MethodOf[c] = m /\ Slots!MethodLimit(c) > 0
    BY <2>3, <2>5
  <2>9. QED BY <2>1, <2>2, <2>7, <2>8
\* A step that moves no call into or out of the handler changes nothing here.
<1>3. ASSUME NEW c \in Calls, NEW place \in Slots!Places, Slots!Goto(c, place),
             call[c] \in MethodPlaces <=> place \in MethodPlaces,
             methodInflight' = methodInflight, mode' = mode
      PROVE  MethodInv'
  <2>1. \A m \in Slots!Methods : Cardinality(Slots!HoldsMethod(m)') = Cardinality(Slots!HoldsMethod(m))
    BY <1>2, <1>3
  <2>2. QED BY <1>3, <2>1 DEF MethodInv
<1>4. ASSUME NEW c \in Calls, Slots!AcquireGlobal(c) \/ Slots!UndoGlobal(c) PROVE MethodInv'
  BY <1>3, <1>4 DEF Slots!AcquireGlobal, Slots!UndoGlobal, Slots!Refuse, Slots!Places, MethodPlaces
<1>5. ASSUME NEW c \in Calls, Slots!ReleaseGlobal(c) PROVE MethodInv'
  BY <1>3, <1>5 DEF Slots!ReleaseGlobal, Slots!Places, MethodPlaces
<1>6. ASSUME NEW c \in Calls, Slots!HandlerReturns(c) PROVE MethodInv'
  <2>1. CASE call[c] = "handler" BY <1>3, <1>6, <2>1 DEF Slots!HandlerReturns, Slots!Places, MethodPlaces
  <2>2. CASE call[c] = "unslotted"
    <3>1. mode' # "enforce" BY <1>6, <2>2 DEF SlotInv, Slots!HandlerReturns
    <3>2. QED BY <3>1 DEF MethodInv
  <2>3. QED BY <1>6, <2>1, <2>2 DEF Slots!HandlerReturns
<1>7. ASSUME NEW c \in Calls, Slots!AcquireMethod(c) PROVE MethodInv'
  <2> DEFINE n == MethodOf[c]
  <2>1. n \in Slots!Methods /\ Slots!MethodLimit(c) = MaxPerMethod[n]
    BY DEF Slots!Methods, Slots!MethodLimit
  <2>2. CASE Slots!MethodLimit(c) > 0 /\ methodInflight[n] >= Slots!MethodLimit(c)
    BY <1>3, <1>7, <2>2 DEF Slots!AcquireMethod, Slots!Places, MethodPlaces
  <2>3. CASE ~(Slots!MethodLimit(c) > 0 /\ methodInflight[n] >= Slots!MethodLimit(c))
    <3>1. /\ Slots!Goto(c, "handler") /\ mode' = mode /\ call[c] = "method"
          /\ methodInflight' = IF Slots!MethodLimit(c) = 0 THEN methodInflight
                               ELSE [methodInflight EXCEPT ![n] = @ + 1]
      BY <1>7, <2>3 DEF Slots!AcquireMethod
    <3>2. SUFFICES ASSUME mode = "enforce", NEW m \in Slots!Methods
                   PROVE  /\ methodInflight'[m] = Cardinality(Slots!HoldsMethod(m)')
                          /\ MaxPerMethod[m] > 0 => methodInflight'[m] <= MaxPerMethod[m]
      BY <3>1 DEF MethodInv
    <3>3. /\ methodInflight[m] = Cardinality(Slots!HoldsMethod(m)) /\ methodInflight[m] \in Nat
          /\ MaxPerMethod[m] > 0 => methodInflight[m] <= MaxPerMethod[m]
      BY <3>2 DEF MethodInv, Slots!TypeOK
    <3>4. MaxPerMethod[m] \in Nat /\ MaxPerMethod[n] \in Nat BY <1>1, <2>1
    <3>5. CASE m = n /\ Slots!MethodLimit(c) > 0
      <4>1. methodInflight'[m] = methodInflight[m] + 1 BY <2>1, <3>1, <3>5 DEF Slots!TypeOK
      <4>2. Cardinality(Slots!HoldsMethod(m)') = Cardinality(Slots!HoldsMethod(m)) + 1
        BY <1>2, <3>1, <3>5 DEF Slots!Places, MethodPlaces
      <4>3. methodInflight[m] < MaxPerMethod[m] BY <2>1, <2>3, <3>3, <3>4, <3>5
      <4>4. QED BY <3>3, <3>4, <4>1, <4>2, <4>3
    <3>6. CASE ~(m = n /\ Slots!MethodLimit(c) > 0)
      <4>1. methodInflight'[m] = methodInflight[m] BY <2>1, <3>1, <3>4, <3>6 DEF Slots!TypeOK
      <4>2. Cardinality(Slots!HoldsMethod(m)') = Cardinality(Slots!HoldsMethod(m))
        BY <1>2, <3>1, <3>6 DEF Slots!Places
      <4>3. QED BY <3>3, <4>1, <4>2
    <3>7. QED BY <3>5, <3>6
  <2>4. QED BY <2>2, <2>3
<1>8. ASSUME NEW c \in Calls, Slots!ReleaseMethod(c) PROVE MethodInv'
  <2> DEFINE n == MethodOf[c]
  <2>1. n \in Slots!Methods /\ Slots!MethodLimit(c) = MaxPerMethod[n]
    BY DEF Slots!Methods, Slots!MethodLimit
  <2>2. /\ Slots!Goto(c, "leaveGlobal") /\ mode' = mode /\ call[c] = "leave"
        /\ methodInflight' = [methodInflight EXCEPT ![n] = Slots!Less(@)]
    BY <1>8 DEF Slots!ReleaseMethod
  <2>3. SUFFICES ASSUME mode = "enforce", NEW m \in Slots!Methods
                 PROVE  /\ methodInflight'[m] = Cardinality(Slots!HoldsMethod(m)')
                        /\ MaxPerMethod[m] > 0 => methodInflight'[m] <= MaxPerMethod[m]
    BY <2>2 DEF MethodInv
  <2>4. /\ methodInflight[m] = Cardinality(Slots!HoldsMethod(m)) /\ methodInflight[m] \in Nat
        /\ MaxPerMethod[m] > 0 => methodInflight[m] <= MaxPerMethod[m]
    BY <2>3 DEF MethodInv, Slots!TypeOK
  <2>5. MaxPerMethod[m] \in Nat /\ MaxPerMethod[n] \in Nat BY <1>1, <2>1
  <2>6. CASE m = n /\ Slots!MethodLimit(c) > 0
    <3>1. /\ Cardinality(Slots!HoldsMethod(m)') = Cardinality(Slots!HoldsMethod(m)) - 1
          /\ Cardinality(Slots!HoldsMethod(m)) > 0
      BY <1>2, <2>2, <2>6 DEF Slots!Places, MethodPlaces
    <3>2. methodInflight'[m] = methodInflight[m] - 1
      BY <2>1, <2>2, <2>4, <2>6, <3>1 DEF Slots!TypeOK, Slots!Less
    <3>3. QED BY <2>4, <2>5, <3>1, <3>2
  <2>7. CASE ~(m = n /\ Slots!MethodLimit(c) > 0)
    <3>1. methodInflight'[m] = methodInflight[m]
      BY <2>1, <2>2, <2>5, <2>7 DEF Slots!TypeOK, SlotInv, Slots!Less
    <3>2. Cardinality(Slots!HoldsMethod(m)') = Cardinality(Slots!HoldsMethod(m))
      BY <1>2, <2>2, <2>7 DEF Slots!Places
    <3>3. QED BY <2>4, <3>1, <3>2
  <2>8. QED BY <2>6, <2>7
<1>9. CASE UNCHANGED Slots!vars BY <1>9 DEF Slots!vars, MethodInv, Slots!HoldsMethod, Slots!At
<1> QED BY <1>4, <1>5, <1>6, <1>7, <1>8, <1>9 DEF Slots!Next
-----------------------------------------------------------------------------
\* For any number of overlapping calls: under enforce both counters are the calls that
\* hold slots, neither limit is exceeded, and a call that was refused half way leaves
\* nothing behind (admission.go, TryAcquireInflight and ReleaseInflight).
THEOREM SlotsAreCounted == ASSUME Limits PROVE Slots!Spec => [](Slots!TypeOK /\ Slots!InflightCounted)
<1> DEFINE InflightInv == Slots!TypeOK /\ SlotInv /\ GlobalInv /\ MethodInv
<1>1. Slots!Init => InflightInv
  <2> SUFFICES ASSUME Slots!Init PROVE InflightInv OBVIOUS
  <2>1. Slots!TypeOK BY DEF Slots!Init, Slots!TypeOK, Slots!Places
  <2>2. SlotInv BY DEF Slots!Init, SlotInv
  <2>3. Slots!HoldsGlobal = {} /\ \A m \in Slots!Methods : Slots!HoldsMethod(m) = {}
    BY DEF Slots!Init, Slots!HoldsGlobal, Slots!HoldsMethod, Slots!At
  <2>4. Cardinality(Slots!HoldsGlobal) = 0 /\ \A m \in Slots!Methods : Cardinality(Slots!HoldsMethod(m)) = 0
    BY <2>3, FS_EmptySet
  <2>5. GlobalInv BY <2>4 DEF Slots!Init, GlobalInv, Limits
  <2>6. MethodInv BY <2>4 DEF Slots!Init, MethodInv, Limits
  <2>7. QED BY <2>1, <2>2, <2>5, <2>6
<1>2. InflightInv /\ [Slots!Next]_(Slots!vars) => InflightInv'
  BY NextSlotsTypeOK, NextSlotInv, NextGlobalInv, NextMethodInv
<1>3. InflightInv => Slots!TypeOK /\ Slots!InflightCounted
  BY DEF Slots!InflightCounted, GlobalInv, MethodInv, Cardinality, Slots!Cardinality
<1>4. QED BY <1>1, <1>2, <1>3, PTL DEF Slots!Spec
-----------------------------------------------------------------------------
(* The timing wheel, whose theorem is about the module's own definitions.      *)
WheelProof == INSTANCE TimeWheelProofs

LEMMA SamePlaces ==
    /\ Wheel!Layers = WheelProof!Layers /\ Wheel!Nowhere = WheelProof!Nowhere
    /\ \A x, y, z : Wheel!PlaceFor(x, y, z) = WheelProof!PlaceFor(x, y, z)
<1>1. Wheel!Layers = WheelProof!Layers /\ Wheel!Nowhere = WheelProof!Nowhere
  BY DEF Wheel!Layers, WheelProof!Layers, Wheel!Nowhere, WheelProof!Nowhere
<1>2. Wheel!PerSlot = WheelProof!PerSlot
  BY DEF Wheel!PerSlot, WheelProof!PerSlot, Wheel!Layers, WheelProof!Layers
<1>3. \A x, y, z : Wheel!PlaceFor(x, y, z) = WheelProof!PlaceFor(x, y, z)
  BY <1>2 DEF Wheel!PlaceFor, WheelProof!PlaceFor, Wheel!LayerFor, WheelProof!LayerFor, Wheel!SlotFor,
     WheelProof!SlotFor, Wheel!LayerCapacity, WheelProof!LayerCapacity, Wheel!Min, WheelProof!Min
<1> QED BY <1>1, <1>3

LEMMA SameTick ==
    /\ Wheel!NextPos = WheelProof!NextPos
    /\ \A t : /\ Wheel!InWheel(t) <=> WheelProof!InWheel(t)
              /\ Wheel!RunsNow(t) <=> WheelProof!RunsNow(t)
              /\ Wheel!FallsNow(t) <=> WheelProof!FallsNow(t)
              /\ Wheel!CascadeDown(t) = WheelProof!CascadeDown(t)
<1>1. \A i : Wheel!Moves(i) <=> WheelProof!Moves(i)
  BY DEF Wheel!Moves, WheelProof!Moves
<1>2. Wheel!NextPos = WheelProof!NextPos
  BY <1>1, SamePlaces DEF Wheel!NextPos, WheelProof!NextPos
<1>3. ASSUME NEW t
      PROVE  /\ Wheel!InWheel(t) <=> WheelProof!InWheel(t)
             /\ Wheel!RunsNow(t) <=> WheelProof!RunsNow(t)
             /\ Wheel!FallsNow(t) <=> WheelProof!FallsNow(t)
  BY <1>1, <1>2, SamePlaces DEF Wheel!InWheel, WheelProof!InWheel, Wheel!RunsNow, WheelProof!RunsNow,
     Wheel!FallsNow, WheelProof!FallsNow
<1>4. \A t : Wheel!CascadeDown(t) = WheelProof!CascadeDown(t)
  BY DEF Wheel!CascadeDown, WheelProof!CascadeDown, Wheel!Max, WheelProof!Max, Wheel!Min, WheelProof!Min,
     Wheel!NextPos, WheelProof!NextPos, Wheel!Moves, WheelProof!Moves, Wheel!Layers, WheelProof!Layers,
     Wheel!PlaceFor, WheelProof!PlaceFor, Wheel!LayerFor, WheelProof!LayerFor, Wheel!SlotFor, WheelProof!SlotFor,
     Wheel!LayerCapacity, WheelProof!LayerCapacity, Wheel!PerSlot, WheelProof!PerSlot
<1> QED BY <1>2, <1>3, <1>4

LEMMA SameInit == Wheel!Init => WheelProof!Init
  BY SamePlaces DEF Wheel!Init, WheelProof!Init

LEMMA SameAdvance == Wheel!Advance => WheelProof!Advance
<1> SUFFICES ASSUME Wheel!Advance PROVE WheelProof!Advance
  OBVIOUS
<1>1. loc' = [t \in Timers |->
         CASE WheelProof!RunsNow(t) -> WheelProof!Nowhere
           [] WheelProof!FallsNow(t) -> IF t \in cancelled THEN WheelProof!Nowhere ELSE WheelProof!CascadeDown(t)
           [] OTHER -> loc[t]]
  BY SamePlaces, SameTick DEF Wheel!Advance
<1>2. expiration' = [t \in Timers |->
         IF WheelProof!InWheel(t) /\ loc'[t] = WheelProof!Nowhere THEN 0 ELSE expiration[t]]
  BY SamePlaces, SameTick DEF Wheel!Advance
<1>3. cancelled' = {t \in cancelled : ~WheelProof!RunsNow(t) /\ ~WheelProof!FallsNow(t)}
  BY SameTick DEF Wheel!Advance
<1>4. /\ state = "running" /\ elapsed < MaxElapsed
      /\ elapsed' = elapsed + 1 /\ curPos' = WheelProof!NextPos
      /\ UNCHANGED <<state, addCh, removeCh>>
  BY SameTick DEF Wheel!Advance
<1> QED BY <1>1, <1>2, <1>3, <1>4 DEF WheelProof!Advance

LEMMA SameNext == [Wheel!Next]_(Wheel!vars) => [WheelProof!Next]_(WheelProof!vars)
<1>1. UNCHANGED Wheel!vars => UNCHANGED WheelProof!vars
  BY DEF Wheel!vars, WheelProof!vars
<1>2. ASSUME NEW t \in Timers PROVE Wheel!RemoveTimer(t) => WheelProof!RemoveTimer(t)
  BY DEF Wheel!RemoveTimer, WheelProof!RemoveTimer
<1>3. ASSUME NEW t \in Timers, NEW delay \in Delays PROVE Wheel!AddTimer(t, delay) => WheelProof!AddTimer(t, delay)
  BY SameTick DEF Wheel!AddTimer, WheelProof!AddTimer, Wheel!InChannel, WheelProof!InChannel
<1>4. (Wheel!Start => WheelProof!Start) /\ (Wheel!Stop => WheelProof!Stop)
  BY DEF Wheel!Start, Wheel!Stop, WheelProof!Start, WheelProof!Stop
<1>5. Wheel!Schedule => WheelProof!Schedule
  BY SamePlaces DEF Wheel!Schedule, WheelProof!Schedule
<1>6. Wheel!RemoveByKey => WheelProof!RemoveByKey
  BY SamePlaces, SameTick DEF Wheel!RemoveByKey, WheelProof!RemoveByKey
<1> QED BY <1>1, <1>2, <1>3, <1>4, <1>5, <1>6, SameAdvance DEF Wheel!Next, WheelProof!Next
-----------------------------------------------------------------------------
(* The routing rules.  First the binary search: it parts the ring where it should. *)

\* k parts the points from lo to hi (from 0) into those before the hash and the others.
Parts(s, hash, lo, hi, k) ==
    /\ k \in lo .. hi
    /\ \A i \in lo + 1 .. k : s[i].hash < hash
    /\ \A i \in k + 1 .. hi : s[i].hash >= hash

Sorted(s) ==
    /\ \A i \in 1 .. Len(s) : s[i].hash \in Nat
    /\ \A i, j \in 1 .. Len(s) : i < j => s[i].hash <= s[j].hash

\* What Search looks up, for the ring s.
Halve(s, hash, f) ==
    [range \in (0 .. Len(s)) \X (0 .. Len(s)) |->
        LET lo == range[1]  hi == range[2]  mid == lo + (hi - lo) \div 2
        IN  IF lo >= hi THEN lo
            ELSE IF s[mid + 1].hash < hash THEN f[<<mid + 1, hi>>] ELSE f[<<lo, mid>>]]

LEMMA Middle ==
    ASSUME NEW lo \in Nat, NEW hi \in Nat, lo < hi
    PROVE  lo + (hi - lo) \div 2 \in lo .. hi - 1
  OBVIOUS

\* What parts a half parts the whole.
LEMMA PartsHalf ==
    ASSUME NEW s, Len(s) \in Nat, Sorted(s), NEW hash \in Nat,
           NEW lo \in 0 .. Len(s), NEW hi \in 0 .. Len(s), NEW mid \in lo .. hi - 1, NEW k
    PROVE  /\ s[mid + 1].hash < hash /\ Parts(s, hash, mid + 1, hi, k) => Parts(s, hash, lo, hi, k)
           /\ ~(s[mid + 1].hash < hash) /\ Parts(s, hash, lo, mid, k) => Parts(s, hash, lo, hi, k)
<1>1. mid + 1 \in 1 .. Len(s)
  OBVIOUS
<1>2. ASSUME s[mid + 1].hash < hash, Parts(s, hash, mid + 1, hi, k) PROVE Parts(s, hash, lo, hi, k)
  <2>1. ASSUME NEW i \in lo + 1 .. k PROVE s[i].hash < hash
    <3>1. i \in 1 .. Len(s)
      BY <1>2 DEF Parts
    <3>2. CASE i > mid + 1
      BY <1>2, <3>2 DEF Parts
    <3>3. CASE i <= mid + 1
      BY <1>1, <1>2, <3>1, <3>3 DEF Sorted
    <3> QED BY <3>2, <3>3, <3>1
  <2> QED BY <1>2, <2>1 DEF Parts
<1>3. ASSUME ~(s[mid + 1].hash < hash), Parts(s, hash, lo, mid, k) PROVE Parts(s, hash, lo, hi, k)
  <2>1. ASSUME NEW i \in k + 1 .. hi PROVE s[i].hash >= hash
    <3>1. i \in 1 .. Len(s)
      BY <1>3 DEF Parts
    <3>2. CASE i < mid + 1
      BY <1>3, <3>2 DEF Parts
    <3>3. CASE i >= mid + 1
      BY <1>1, <1>3, <3>1, <3>3 DEF Sorted
    <3> QED BY <3>2, <3>3, <3>1
  <2> QED BY <1>3, <2>1 DEF Parts
<1> QED BY <1>2, <1>3

\* Something parts them, and nothing else does.
LEMMA PartsOnce ==
    ASSUME NEW s, Len(s) \in Nat, Sorted(s), NEW hash \in Nat,
           NEW lo \in 0 .. Len(s), NEW hi \in 0 .. Len(s), lo <= hi
    PROVE  /\ \E k \in Nat : Parts(s, hash, lo, hi, k)
           /\ \A k, m : Parts(s, hash, lo, hi, k) /\ Parts(s, hash, lo, hi, m) => k = m
<1> DEFINE Ends == {k \in lo .. hi : k = hi \/ s[k + 1].hash >= hash}
<1>1. Ends \subseteq Nat /\ hi \in Ends
  OBVIOUS
<1>2. PICK k \in Ends : \A m \in Ends : k <= m
  BY <1>1, WheelProof!Least
<1>3. ASSUME NEW i \in lo + 1 .. k PROVE s[i].hash < hash
  <2>1. i \in 1 .. Len(s) /\ i - 1 \in lo .. hi /\ i - 1 < k /\ i - 1 # hi /\ i - 1 + 1 = i
    BY <1>1, <1>2
  <2>2. i - 1 \notin Ends
    BY <1>2, <2>1
  <2> QED BY <2>1, <2>2 DEF Sorted
<1>4. ASSUME NEW i \in k + 1 .. hi PROVE s[i].hash >= hash
  <2>1. i \in 1 .. Len(s) /\ k + 1 \in 1 .. Len(s) /\ s[k + 1].hash >= hash
    BY <1>2
  <2>2. s[i].hash \in Nat /\ s[k + 1].hash \in Nat /\ (i = k + 1 \/ k + 1 < i)
    BY <1>2, <2>1 DEF Sorted
  <2>3. k + 1 < i => s[k + 1].hash <= s[i].hash
    BY <2>1 DEF Sorted
  <2> QED BY <2>1, <2>2, <2>3
<1>5. k \in Nat /\ Parts(s, hash, lo, hi, k)
  BY <1>2, <1>3, <1>4 DEF Parts
<1>6. ASSUME NEW m, NEW n, Parts(s, hash, lo, hi, m), Parts(s, hash, lo, hi, n) PROVE m = n
  <2>1. m \in lo .. hi /\ n \in lo .. hi
    BY <1>6 DEF Parts
  <2>2. ~(m < n)
    <3> SUFFICES ASSUME m < n PROVE FALSE
      OBVIOUS
    <3>1. n \in lo + 1 .. n /\ n \in m + 1 .. hi /\ n \in 1 .. Len(s)
      BY <2>1
    <3> QED BY <1>6, <3>1 DEF Parts, Sorted
  <2>3. ~(n < m)
    <3> SUFFICES ASSUME n < m PROVE FALSE
      OBVIOUS
    <3>1. m \in lo + 1 .. m /\ m \in n + 1 .. hi /\ m \in 1 .. Len(s)
      BY <2>1
    <3> QED BY <1>6, <3>1 DEF Parts, Sorted
  <2> QED BY <2>1, <2>2, <2>3
<1> QED BY <1>5, <1>6

\* There is a function that halves.
LEMMA Halves ==
    ASSUME NEW s, Len(s) \in Nat, Sorted(s), NEW hash \in Nat
    PROVE  \E f : f = Halve(s, hash, f)
<1> DEFINE Found(lo, hi) == IF lo >= hi THEN lo ELSE CHOOSE k \in Nat : Parts(s, hash, lo, hi, k)
           f == [range \in (0 .. Len(s)) \X (0 .. Len(s)) |-> Found(range[1], range[2])]
<1>1. ASSUME NEW lo \in 0 .. Len(s), NEW hi \in 0 .. Len(s), lo <= hi
      PROVE  Parts(s, hash, lo, hi, Found(lo, hi))
  <2>1. CASE lo < hi
    <3>1. PICK k \in Nat : Parts(s, hash, lo, hi, k)
      BY <2>1, PartsOnce
    <3>2. Found(lo, hi) = CHOOSE n \in Nat : Parts(s, hash, lo, hi, n)
      BY <2>1
    <3> QED BY <3>1, <3>2
  <2>2. CASE lo = hi
    BY <2>2 DEF Parts
  <2> QED BY <1>1, <2>1, <2>2
<1>2. ASSUME NEW range \in (0 .. Len(s)) \X (0 .. Len(s))
      PROVE  f[range] = Halve(s, hash, f)[range]
  <2> DEFINE lo == range[1]  hi == range[2]  mid == lo + (hi - lo) \div 2
  <2>1. lo \in 0 .. Len(s) /\ hi \in 0 .. Len(s) /\ f[range] = Found(lo, hi)
    OBVIOUS
  <2>2. CASE lo >= hi
    BY <2>1, <2>2 DEF Halve
  <2>3. CASE lo < hi
    <3>1. mid \in lo .. hi - 1
      BY <2>1, <2>3, Middle
    <3> HIDE DEF mid
    <3>2. mid \in 0 .. Len(s) /\ mid + 1 \in 0 .. Len(s) /\ lo <= mid /\ mid + 1 <= hi
      BY <2>1, <3>1
    <3>3. Halve(s, hash, f)[range] = IF s[mid + 1].hash < hash THEN f[<<mid + 1, hi>>] ELSE f[<<lo, mid>>]
      BY <2>1, <2>3 DEF Halve, mid
    <3>4. f[<<mid + 1, hi>>] = Found(mid + 1, hi) /\ f[<<lo, mid>>] = Found(lo, mid)
      <4> HIDE DEF Found, lo, hi
      <4> QED BY <2>1, <3>2
    <3> HIDE DEF Found, f, lo, hi
    <3>5. /\ Parts(s, hash, lo, hi, Found(lo, hi))
          /\ Parts(s, hash, mid + 1, hi, Found(mid + 1, hi))
          /\ Parts(s, hash, lo, mid, Found(lo, mid))
      BY <1>1, <2>1, <2>3, <3>2
    <3>6. /\ s[mid + 1].hash < hash => Parts(s, hash, lo, hi, Found(mid + 1, hi))
          /\ ~(s[mid + 1].hash < hash) => Parts(s, hash, lo, hi, Found(lo, mid))
      BY <2>1, <3>1, <3>5, PartsHalf
    <3>7. \A k, m : Parts(s, hash, lo, hi, k) /\ Parts(s, hash, lo, hi, m) => k = m
      <4>1. lo <= hi
        BY <2>1, <2>3
      <4> QED BY <2>1, <4>1, PartsOnce
    <3> QED BY <2>1, <3>3, <3>4, <3>5, <3>6, <3>7
  <2> QED BY <2>1, <2>2, <2>3
<1>3. f = Halve(s, hash, f)
  <2> HIDE DEF Found
  <2> QED BY <1>2 DEF Halve
<1> QED BY <1>3

\* Whatever halves finds the parting point.
LEMMA HalvingParts ==
    ASSUME NEW s, Len(s) \in Nat, Sorted(s), NEW hash \in Nat, NEW f, f = Halve(s, hash, f)
    PROVE  \A lo, hi \in 0 .. Len(s) : lo <= hi => Parts(s, hash, lo, hi, f[<<lo, hi>>])
<1> DEFINE Wrong == {d \in Nat : \E lo, hi \in 0 .. Len(s) :
                        lo <= hi /\ d = hi - lo /\ ~Parts(s, hash, lo, hi, f[<<lo, hi>>])}
<1>1. Wrong = {}
  <2> SUFFICES ASSUME Wrong # {} PROVE FALSE
    OBVIOUS
  <2>1. PICK d \in Wrong : \A m \in Wrong : d <= m
    <3>1. Wrong \subseteq Nat
      OBVIOUS
    <3> HIDE DEF Wrong
    <3> QED BY <3>1, WheelProof!Least
  <2>2. PICK lo \in 0 .. Len(s), hi \in 0 .. Len(s) :
            lo <= hi /\ d = hi - lo /\ ~Parts(s, hash, lo, hi, f[<<lo, hi>>])
    BY <2>1
  <2> DEFINE mid == lo + (hi - lo) \div 2
  <2>3. f[<<lo, hi>>] = IF lo >= hi THEN lo
                        ELSE IF s[mid + 1].hash < hash THEN f[<<mid + 1, hi>>] ELSE f[<<lo, mid>>]
    BY DEF Halve
  <2>4. CASE lo = hi
    BY <2>2, <2>3, <2>4 DEF Parts
  <2>5. CASE lo < hi
    <3>1. mid \in lo .. hi - 1
      BY <2>5, Middle
    <3> HIDE DEF mid
    <3>2. /\ mid \in 0 .. Len(s) /\ mid + 1 \in 0 .. Len(s) /\ lo <= mid /\ mid + 1 <= hi
          /\ mid - lo \in Nat /\ hi - (mid + 1) \in Nat /\ mid - lo < d /\ hi - (mid + 1) < d
      BY <2>2, <3>1
    <3>3. \A a, b \in 0 .. Len(s) : a <= b /\ b - a < d => Parts(s, hash, a, b, f[<<a, b>>])
      <4> SUFFICES ASSUME NEW a \in 0 .. Len(s), NEW b \in 0 .. Len(s), a <= b, b - a < d
                   PROVE  Parts(s, hash, a, b, f[<<a, b>>])
        OBVIOUS
      <4>1. b - a \in Nat /\ d \in Nat
        BY <2>1
      <4>2. b - a \notin Wrong
        <5> HIDE DEF Wrong
        <5> QED BY <2>1, <4>1
      <4> QED BY <4>1, <4>2
    <3>4. Parts(s, hash, lo, mid, f[<<lo, mid>>]) /\ Parts(s, hash, mid + 1, hi, f[<<mid + 1, hi>>])
      BY <3>2, <3>3
    <3>5. Parts(s, hash, lo, hi, f[<<lo, hi>>])
      BY <2>3, <2>5, <3>1, <3>4, PartsHalf
    <3> QED BY <2>2, <3>5
  <2> QED BY <2>2, <2>4, <2>5
<1> SUFFICES ASSUME NEW lo \in 0 .. Len(s), NEW hi \in 0 .. Len(s), lo <= hi
             PROVE  Parts(s, hash, lo, hi, f[<<lo, hi>>])
  OBVIOUS
<1>2. hi - lo \in Nat
  OBVIOUS
<1>3. hi - lo \notin Wrong
  <2> HIDE DEF Wrong
  <2> QED BY <1>1
<1> QED BY <1>2, <1>3

RouteSizes ==
    /\ IsFiniteSet(Instances) /\ Instances \subseteq Nat \ {0}
    /\ VirtualNodes \in Nat \ {0} /\ Ids \subseteq Nat
    /\ \A n \in Instances, i \in 0 .. VirtualNodes - 1 : PointHash(n, i) \in Nat
    /\ \A id \in Ids : IdHash(id) \in Nat

LEMMA SearchParts ==
    ASSUME Len(ring) \in Nat, Sorted(ring), NEW hash \in Nat
    PROVE  Parts(ring, hash, 0, Len(ring), Routes!Search(hash))
<1> DEFINE Bisect == CHOOSE f : f = Halve(ring, hash, f)
<1>1. Bisect = Halve(ring, hash, Bisect)
  <2>1. \E f : f = Halve(ring, hash, f)
    BY Halves
  <2> QED BY <2>1
<1>2. Routes!Search(hash) = Bisect[<<0, Len(ring)>>]
  BY DEF Routes!Search, Halve
<1> HIDE DEF Bisect
<1>3. 0 \in 0 .. Len(ring) /\ Len(ring) \in 0 .. Len(ring) /\ 0 <= Len(ring)
  OBVIOUS
<1> QED BY <1>1, <1>2, <1>3, HalvingParts

\* k % n for the k that a search may find.
LEMMA Wrap ==
    ASSUME NEW n \in Nat \ {0}, NEW k \in 0 .. n
    PROVE  k % n = IF k = n THEN 0 ELSE k
<1>1. CASE k = 0
  <2>1. PICK q \in Nat, r \in 0 .. n - 1 : r = 0 % n /\ 0 = q * n + r
    BY WheelProof!DivMod
  <2>2. 0 \in 0 .. n - 1 /\ 0 * n + 0 = q * n + r
    BY <2>1
  <2> QED BY <1>1, <2>1, <2>2, WheelProof!LastDigit
<1>2. CASE k # 0
  <2>1. k - 1 \in 0 .. n - 1 /\ k - 1 + 1 = k
    BY <1>2
  <2> QED BY <2>1, WheelProof!NextDigit
<1> QED BY <1>1, <1>2

\* A sequence from SetToSeqs has what is in the set, and that only.
LEMMA Enumerates ==
    ASSUME NEW S, IsFiniteSet(S), NEW s \in Routes!SetToSeqs(S)
    PROVE  /\ s \in Seq(S) /\ Len(s) = Cardinality(S) /\ Len(s) \in Nat
           /\ \A i \in 1 .. Len(s) : s[i] \in S
           /\ \A x \in S : \E i \in 1 .. Len(s) : s[i] = x
<1> DEFINE D == 1 .. Cardinality(S)
<1>1. Cardinality(S) \in Nat
  BY FS_CardinalityType
<1>2. s \in [D -> S] /\ \A i, j \in D : i # j => s[i] # s[j]
  BY DEF Routes!SetToSeqs, Routes!Cardinality, Cardinality
<1>3. s \in Injection(D, S)
  BY <1>2 DEF Injection, IsInjective
<1>4. Cardinality(D) = Cardinality(S)
  BY <1>1, FS_Interval
<1>5. s \in Surjection(D, S)
  BY <1>3, <1>4, FS_Injection
<1>6. \A x \in S : \E i \in D : s[i] = x
  BY <1>5 DEF Surjection
<1>7. s \in Seq(S) /\ Len(s) = Cardinality(S)
  BY <1>1, <1>2
<1> QED BY <1>1, <1>2, <1>6, <1>7

LEMMA FinitePoints ==
    ASSUME RouteSizes, NEW nodes \in SUBSET Instances
    PROVE  /\ IsFiniteSet(nodes)
           /\ IsFiniteSet(Routes!Points(nodes))
<1> DEFINE D == nodes \X (0 .. VirtualNodes - 1)
           point(x) == [hash |-> PointHash(x[1], x[2]), node |-> x[1], i |-> x[2]]
           f == [x \in D |-> point(x)]
<1>1. IsFiniteSet(nodes)
  BY FS_Subset DEF RouteSizes
<1>2. IsFiniteSet(0 .. VirtualNodes - 1)
  BY FS_Interval DEF RouteSizes
<1>3. IsFiniteSet(D)
  BY <1>1, <1>2, FS_Product
<1>4. f \in [D -> Routes!Points(nodes)]
  BY DEF Routes!Points
<1>5. ASSUME NEW p \in Routes!Points(nodes) PROVE \E x \in D : f[x] = p
  <2>1. PICK n \in nodes, i \in 0 .. VirtualNodes - 1 : p = [hash |-> PointHash(n, i), node |-> n, i |-> i]
    BY DEF Routes!Points
  <2>2. <<n, i>> \in D /\ f[<<n, i>>] = p
    BY <2>1
  <2> QED BY <2>2
<1>6. f \in Surjection(D, Routes!Points(nodes))
  BY <1>4, <1>5 DEF Surjection
<1> QED BY <1>1, <1>3, <1>6, FS_Surjection

\* What the table and the ring are, after the first refresh and before.
RouteInv ==
    \E nodes \in SUBSET Instances : instances \in Routes!Ascending(nodes) /\ ring \in Routes!Ring(nodes)

LEMMA InitRouteInv == ASSUME RouteSizes, Routes!Init PROVE RouteInv
<1> USE DEF Routes!Init
<1>1. Routes!Points({}) = {}
  BY DEF Routes!Points
<1>2. <<>> \in Routes!SetToSeqs({})
  <2>1. Cardinality({}) = 0
    BY FS_EmptySet
  <2>2. <<>> \in [1 .. 0 -> {}] /\ \A i, j \in 1 .. 0 : i # j => <<>>[i] # <<>>[j]
    OBVIOUS
  <2> QED BY <2>1, <2>2 DEF Routes!SetToSeqs, Routes!Cardinality, Cardinality
<1>3. DOMAIN <<>> = {}
  OBVIOUS
<1>4. <<>> \in Routes!Ascending({})
  BY <1>2, <1>3 DEF Routes!Ascending
<1>5. <<>> \in Routes!Ring({})
  BY <1>1, <1>2, <1>3 DEF Routes!Ring
<1> QED BY <1>4, <1>5 DEF RouteInv

LEMMA NextRouteInv == ASSUME RouteInv, [Routes!Next]_(Routes!vars) PROVE RouteInv'
<1>1. CASE Routes!Next
  BY <1>1 DEF RouteInv, Routes!Next, Routes!RefreshServices
<1>2. CASE UNCHANGED Routes!vars
  BY <1>2 DEF RouteInv, Routes!vars
<1> QED BY <1>1, <1>2

LEMMA PointFacts ==
    ASSUME RouteSizes, NEW nodes \in SUBSET Instances
    PROVE  /\ \A p \in Routes!Points(nodes) :
                  /\ p.hash \in Nat /\ p.node \in nodes
                  /\ \E i \in 0 .. VirtualNodes - 1 : p.hash = PointHash(p.node, i)
           /\ nodes # {} => Routes!Points(nodes) # {}
<1>1. ASSUME NEW p \in Routes!Points(nodes)
      PROVE  /\ p.hash \in Nat /\ p.node \in nodes
             /\ \E i \in 0 .. VirtualNodes - 1 : p.hash = PointHash(p.node, i)
  <2>1. PICK n \in nodes, i \in 0 .. VirtualNodes - 1 : p = [hash |-> PointHash(n, i), node |-> n, i |-> i]
    BY DEF Routes!Points
  <2> QED BY <2>1 DEF RouteSizes
<1>2. ASSUME NEW n \in nodes PROVE [hash |-> PointHash(n, 0), node |-> n, i |-> 0] \in Routes!Points(nodes)
  <2>1. 0 \in 0 .. VirtualNodes - 1
    BY DEF RouteSizes
  <2> QED BY <2>1 DEF Routes!Points
<1> QED BY <1>1, <1>2

\* The point that a hash gets: the first that is not before it, and the first of all if none is.
First(points, hash, p) ==
    /\ p \in points
    /\ \/ p.hash >= hash /\ \A q \in points : q.hash >= hash => p.hash <= q.hash
       \/ \A q \in points : q.hash < hash /\ p.hash <= q.hash

\* The ring over some nodes.
LEMMA RingFacts ==
    ASSUME RouteSizes, NEW nodes \in SUBSET Instances, ring \in Routes!Ring(nodes)
    PROVE  /\ Sorted(ring) /\ Len(ring) \in Nat
           /\ \A i \in 1 .. Len(ring) : ring[i] \in Routes!Points(nodes)
           /\ \A p \in Routes!Points(nodes) : \E i \in 1 .. Len(ring) : ring[i] = p
<1>1. IsFiniteSet(Routes!Points(nodes)) /\ ring \in Routes!SetToSeqs(Routes!Points(nodes))
  BY FinitePoints DEF Routes!Ring
<1>2. /\ Len(ring) \in Nat
      /\ \A i \in 1 .. Len(ring) : ring[i] \in Routes!Points(nodes)
      /\ \A p \in Routes!Points(nodes) : \E i \in 1 .. Len(ring) : ring[i] = p
      /\ ring \in Seq(Routes!Points(nodes))
  BY <1>1, Enumerates
<1>3. DOMAIN ring = 1 .. Len(ring)
  BY <1>2
<1>4. Sorted(ring)
  <2>1. \A i, j \in 1 .. Len(ring) : i < j => ring[i].hash <= ring[j].hash
    BY <1>3 DEF Routes!Ring
  <2>2. \A i \in 1 .. Len(ring) : ring[i].hash \in Nat
    BY <1>2, PointFacts
  <2> QED BY <2>1, <2>2 DEF Sorted
<1> QED BY <1>2, <1>4

LEMMA FindsFirst ==
    ASSUME RouteSizes, NEW nodes \in SUBSET Instances, nodes # {}, ring \in Routes!Ring(nodes), NEW id \in Ids
    PROVE  \E p : First(Routes!Points(nodes), IdHash(id), p) /\ Routes!ConsistentHash(id) = p.node
<1> DEFINE points == Routes!Points(nodes)  hash == IdHash(id)  k == Routes!Search(hash)
           at == (k % Len(ring)) + 1
<1>1. hash \in Nat
  BY DEF RouteSizes
<1>2. /\ Sorted(ring) /\ Len(ring) \in Nat
      /\ \A i \in 1 .. Len(ring) : ring[i] \in points
      /\ \A p \in points : \E i \in 1 .. Len(ring) : ring[i] = p
  BY RingFacts
<1>3. Len(ring) # 0
  BY <1>2, PointFacts
<1>4. Parts(ring, hash, 0, Len(ring), k)
  BY <1>1, <1>2, SearchParts
<1>5. Routes!ConsistentHash(id) = ring[at].node
  BY DEF Routes!ConsistentHash
<1>6. \A p \in points : p.hash \in Nat
  BY PointFacts
<1> HIDE DEF points, hash, k
<1>9. k \in 0 .. Len(ring)
  BY <1>4 DEF Parts
<1>7. CASE k < Len(ring)
  <2>1. at = k + 1 /\ k \in Nat /\ k + 1 \in 1 .. Len(ring)
    BY <1>2, <1>3, <1>7, <1>9, Wrap
  <2>2. ring[k + 1].hash >= hash /\ ring[k + 1] \in points
    BY <1>2, <1>4, <2>1 DEF Parts
  <2>3. ASSUME NEW q \in points, q.hash >= hash PROVE ring[k + 1].hash <= q.hash
    <3>1. PICK i \in 1 .. Len(ring) : ring[i] = q
      BY <1>2
    <3>2. i > k
      <4>1. i \in 0 + 1 .. k => q.hash < hash
        BY <1>4, <3>1 DEF Parts
      <4> QED BY <1>1, <1>6, <2>1, <2>3, <4>1
    <3>3. i = k + 1 \/ ring[k + 1].hash <= ring[i].hash
      BY <1>2, <2>1, <3>2 DEF Sorted
    <3> QED BY <1>6, <2>2, <3>1, <3>3
  <2>4. First(points, hash, ring[k + 1])
    BY <2>2, <2>3 DEF First
  <2> QED BY <1>5, <2>1, <2>4 DEF points, hash
<1>8. CASE k >= Len(ring)
  <2>1. k = Len(ring) /\ at = 1 /\ 1 \in 1 .. Len(ring)
    BY <1>2, <1>3, <1>8, <1>9, Wrap
  <2>2. ring[1] \in points
    BY <1>2, <2>1
  <2>3. ASSUME NEW q \in points PROVE q.hash < hash /\ ring[1].hash <= q.hash
    <3>1. PICK i \in 1 .. Len(ring) : ring[i] = q
      BY <1>2
    <3>2. i \in 0 + 1 .. k
      BY <1>2, <2>1
    <3>3. i = 1 \/ ring[1].hash <= ring[i].hash
      BY <1>2, <2>1 DEF Sorted
    <3> QED BY <1>4, <1>6, <2>2, <3>1, <3>2, <3>3 DEF Parts
  <2>4. First(points, hash, ring[1])
    BY <2>2, <2>3 DEF First
  <2> QED BY <1>5, <2>1, <2>4 DEF points, hash
<1> QED BY <1>2, <1>7, <1>8, <1>9

\* The table over some nodes.
LEMMA TableFacts ==
    ASSUME RouteSizes, NEW nodes \in SUBSET Instances, instances \in Routes!Ascending(nodes)
    PROVE  /\ Routes!Online = nodes /\ Len(instances) \in Nat
           /\ instances = <<>> <=> nodes = {}
           /\ \A i \in 1 .. Len(instances) : instances[i] \in nodes
           /\ nodes # {} => Len(instances) > 0 /\ \A n \in nodes : instances[1] <= n
<1>1. /\ Len(instances) \in Nat /\ instances \in Seq(nodes)
      /\ \A i \in 1 .. Len(instances) : instances[i] \in nodes
      /\ \A n \in nodes : \E i \in 1 .. Len(instances) : instances[i] = n
  <2>1. IsFiniteSet(nodes) /\ instances \in Routes!SetToSeqs(nodes)
    BY FinitePoints DEF Routes!Ascending
  <2> QED BY <2>1, Enumerates
<1>2. DOMAIN instances = 1 .. Len(instances)
  BY <1>1
<1>3. Routes!Online = nodes
  BY <1>1, <1>2 DEF Routes!Online, Routes!ToSet
<1>4. nodes # {} => Len(instances) > 0
  BY <1>1
<1>5. instances = <<>> <=> nodes = {}
  BY <1>1
<1>6. ASSUME NEW n \in nodes PROVE instances[1] <= n
  <2>1. PICK i \in 1 .. Len(instances) : instances[i] = n
    BY <1>1
  <2>2. 1 \in 1 .. Len(instances) /\ n \in Nat
    BY <1>1, <2>1 DEF RouteSizes
  <2>4. instances[1] \in Nat
    BY <1>1, <2>2 DEF RouteSizes
  <2>3. i = 1 \/ instances[1] <= instances[i]
    BY <1>2, <2>1, <2>2 DEF Routes!Ascending
  <2> QED BY <2>1, <2>2, <2>3, <2>4
<1> QED BY <1>1, <1>3, <1>4, <1>5, <1>6

\* What the rules answer, over the instances that are online.
AnswerInv ==
    /\ Routes!Online \subseteq Instances /\ Routes!Routed
    /\ Routes!Online = {} =>
           \A rule \in Routes!Rules, id \in Ids : Routes!GetSvrInsBySvrType(rule, id) = {0}
    /\ Routes!Online # {} => \A id \in Ids :
           /\ \E p : First(Routes!Points(Routes!Online), IdHash(id), p)
                     /\ Routes!GetSvrInsBySvrType("consistent", id) = {p.node}
           /\ \E n \in Routes!Online : Routes!GetSvrInsBySvrType("master", id) = {n}
                                       /\ \A m \in Routes!Online : n <= m

LEMMA Answers == ASSUME RouteSizes, RouteInv PROVE AnswerInv
<1>1. PICK nodes \in SUBSET Instances : instances \in Routes!Ascending(nodes) /\ ring \in Routes!Ring(nodes)
  BY DEF RouteInv
<1>2. /\ Routes!Online = nodes /\ Len(instances) \in Nat
      /\ instances = <<>> <=> nodes = {}
      /\ \A i \in 1 .. Len(instances) : instances[i] \in nodes
      /\ nodes # {} => Len(instances) > 0 /\ \A n \in nodes : instances[1] <= n
  BY <1>1, TableFacts
<1>3. CASE nodes = {}
  <2>1. \A rule \in Routes!Rules, id \in Ids : Routes!GetSvrInsBySvrType(rule, id) = {0}
    BY <1>2, <1>3 DEF Routes!GetSvrInsBySvrType
  <2> QED BY <1>2, <1>3, <2>1 DEF AnswerInv, Routes!Routed
<1>4. CASE nodes # {}
  <2>1. ASSUME NEW id \in Ids
        PROVE  /\ Routes!GetSvrInsBySvrType("random", id) = nodes
               /\ Routes!GetSvrInsBySvrType("hash", id) = {Routes!Hash(id)}
               /\ Routes!GetSvrInsBySvrType("consistent", id) = {Routes!ConsistentHash(id)}
               /\ Routes!GetSvrInsBySvrType("master", id) = {instances[1]}
    BY <1>2, <1>4 DEF Routes!GetSvrInsBySvrType, Routes!Online
  <2>2. ASSUME NEW id \in Ids PROVE Routes!Hash(id) \in nodes
    <3>1. id \in Nat /\ Len(instances) \in Nat \ {0}
      BY <1>2, <1>4 DEF RouteSizes
    <3>2. id % Len(instances) \in 0 .. Len(instances) - 1
      BY <3>1, WheelProof!DivMod
    <3>3. (id % Len(instances)) + 1 \in 1 .. Len(instances)
      BY <3>1, <3>2
    <3> QED BY <1>2, <3>3 DEF Routes!Hash
  <2>3. ASSUME NEW id \in Ids
        PROVE  \E p : First(Routes!Points(nodes), IdHash(id), p) /\ Routes!ConsistentHash(id) = p.node
    BY <1>1, <1>4, FindsFirst
  <2>4. ASSUME NEW id \in Ids PROVE Routes!ConsistentHash(id) \in nodes
    BY <2>3, PointFacts DEF First
  <2>5. instances[1] \in nodes
    BY <1>2, <1>4
  <2>6. Routes!Routed
    BY <1>2, <1>4, <2>1, <2>2, <2>4, <2>5 DEF Routes!Routed, Routes!Rules
  <2> QED BY <1>2, <1>4, <2>1, <2>3, <2>5, <2>6 DEF AnswerInv
<1> QED BY <1>3, <1>4

\* Two rings, both of which have the points that a hash gets from the other.
LEMMA FirstStays ==
    ASSUME NEW S, NEW T, NEW hash \in Nat, \A p \in S \cup T : p.hash \in Nat,
           NEW p, NEW q, First(S, hash, p), First(T, hash, q), p \in T, q \in S
    PROVE  p.hash = q.hash
<1>1. p.hash \in Nat /\ q.hash \in Nat
  OBVIOUS
<1>2. CASE p.hash >= hash
  BY <1>1, <1>2 DEF First
<1>3. CASE ~(p.hash >= hash)
  BY <1>1, <1>3 DEF First
<1> QED BY <1>2, <1>3

LEMMA KeysMove ==
    ASSUME RouteSizes, AnswerInv, AnswerInv' PROVE Routes!StaysOrMay
<1> DEFINE Before == Routes!Online  After == Routes!Online'
<1>1. Before \in SUBSET Instances /\ After \in SUBSET Instances /\ Routes!Routed'
  BY DEF AnswerInv
<1>2. 0 \notin Before /\ 0 \notin After
  BY <1>1 DEF RouteSizes
<1>3. ASSUME NEW rule \in {"consistent", "master"}, NEW id \in Ids,
             NEW n \in Routes!GetSvrInsBySvrType(rule, id), NEW m \in Routes!GetSvrInsBySvrType(rule, id)'
      PROVE  n = m \/ Routes!MayMove(n, m)
  <2>1. SUFFICES ASSUME n \in After, m \in Before PROVE n = m \/ Routes!Collide(n, m)
    BY DEF Routes!MayMove
  <2>2. Before # {} /\ After # {}
    BY <2>1
  <2>3. CASE rule = "master"
    <3>1. PICK a \in Before : Routes!GetSvrInsBySvrType("master", id) = {a} /\ \A x \in Before : a <= x
      BY <2>2 DEF AnswerInv
    <3>2. PICK b \in After : Routes!GetSvrInsBySvrType("master", id)' = {b} /\ \A x \in After : b <= x
      BY <2>2 DEF AnswerInv
    <3>3. n = a /\ m = b /\ n \in Nat /\ m \in Nat
      BY <1>1, <2>1, <2>3, <3>1, <3>2 DEF RouteSizes
    <3>4. n <= m /\ m <= n
      BY <2>1, <3>1, <3>2, <3>3
    <3> QED BY <3>3, <3>4
  <2>4. CASE rule = "consistent"
    <3>1. PICK p : First(Routes!Points(Before), IdHash(id), p)
                   /\ Routes!GetSvrInsBySvrType("consistent", id) = {p.node}
      BY <2>2 DEF AnswerInv
    <3>2. PICK q : First(Routes!Points(After), IdHash(id), q)
                   /\ Routes!GetSvrInsBySvrType("consistent", id)' = {q.node}
      BY <2>2 DEF AnswerInv, First, Routes!Points
    <3>3. n = p.node /\ m = q.node
      BY <2>4, <3>1, <3>2
    <3> HIDE DEF Before, After
    <3>4. p \in Routes!Points(Before) /\ q \in Routes!Points(After)
      BY <3>1, <3>2 DEF First
    <3>5. p \in Routes!Points(After) /\ q \in Routes!Points(Before)
      BY <2>1, <3>3, <3>4 DEF Routes!Points
    <3>6. \A x \in Routes!Points(Before) \cup Routes!Points(After) : x.hash \in Nat
      BY <1>1, PointFacts
    <3>7. IdHash(id) \in Nat
      BY DEF RouteSizes
    <3>8. p.hash = q.hash
      BY <3>1, <3>2, <3>5, <3>6, <3>7, FirstStays
    <3>9. PICK i \in 0 .. VirtualNodes - 1 : p.hash = PointHash(n, i)
      BY <1>1, <3>3, <3>4, PointFacts
    <3>10. PICK j \in 0 .. VirtualNodes - 1 : q.hash = PointHash(m, j)
      BY <1>1, <3>3, <3>4, PointFacts
    <3> QED BY <3>8, <3>9, <3>10 DEF Routes!Collide
  <2> QED BY <2>3, <2>4
<1> QED BY <1>1, <1>3 DEF Routes!StaysOrMay
-----------------------------------------------------------------------------
(* The async worker.                                                           *)

InQueue == {"link", "count", "notify", "accepted"}

\* Who has been where: the types, and Start and Stop each happen once.
WorkInv ==
    /\ status \in {"STOP", "RUN", "QUIESCE"} /\ count \in Int /\ token \in BOOLEAN
    /\ push \in [Tasks -> Async!Pending \cup {"idle", "accepted", "rejected"}]
    /\ worker \in {"off", "select", "pop", "run", "lastPop", "lastRun", "gone"}
    /\ stop \in {"idle", "send", "wait", "done"}
    /\ accepted \subseteq Tasks /\ racing \subseteq Tasks
    /\ status # "STOP" => worker # "off" /\ stop = "idle"
    /\ stop # "idle" => worker # "off"
    /\ worker = "off" => \A t \in Tasks : push[t] \in {"idle", "rejected"}
    /\ worker \in {"lastPop", "lastRun", "gone"} => stop \in {"wait", "done"}
    /\ stop = "done" => worker = "gone"

\* A task is in the queue once, from the swap of its push on.
QueueInv ==
    /\ order \in Seq(Tasks)
    /\ \A i, j \in 1 .. Len(order) : order[i] = order[j] => i = j
    /\ \A i \in 1 .. Len(order) : push[order[i]] \in InQueue
    /\ \A t \in Tasks : push[t] \in InQueue => \E i \in 1 .. Len(order) : order[i] = t
    /\ linked = {t \in Tasks : push[t] \in InQueue \ {"link"}}

\* What the head has passed was run, but for the one at hand.
RanInv ==
    /\ popped \in 0 .. Len(order)
    /\ worker \in {"run", "lastRun"} => popped > 0
    /\ \A t \in ran : \E i \in 1 .. popped : order[i] = t
    /\ \A i \in 1 .. popped : order[i] \in ran \/ (i = popped /\ worker \in {"run", "lastRun"})

\* A worker that waits at an empty channel with something in the queue has a push to come.
WakeInv ==
    worker = "select" /\ popped < Len(order) =>
        token \/ \E t \in Tasks : push[t] \in {"link", "count", "notify"}

\* When no push was half done as Stop began, none is until the end, and the exit
\* leaves nothing in the queue.
ExitInv ==
    stop # "idle" /\ racing = {} =>
        /\ \A t \in Tasks : push[t] \notin Async!Pending
        /\ accepted = {t \in Tasks : push[t] = "accepted"}
        /\ worker = "gone" => popped = Len(order)

AsyncInv == WorkInv /\ QueueInv /\ RanInv /\ WakeInv /\ ExitInv

LEMMA InitAsyncInv == Async!Init => AsyncInv
<1> SUFFICES ASSUME Async!Init PROVE AsyncInv
  OBVIOUS
<1> USE DEF Async!Init
<1>1. WorkInv
  <2>1. push \in [Tasks -> Async!Pending \cup {"idle", "accepted", "rejected"}]
    OBVIOUS
  <2>2. token \in BOOLEAN
    OBVIOUS
  <2>3. count \in Int
    OBVIOUS
  <2> HIDE DEF Async!Init
  <2>4. status = "STOP" /\ worker = "off" /\ stop = "idle" /\ accepted = {} /\ racing = {}
    BY DEF Async!Init
  <2>5. \A t \in Tasks : push[t] = "idle"
    BY DEF Async!Init
  <2> QED BY <2>1, <2>2, <2>3, <2>4, <2>5 DEF WorkInv
<1>5. ExitInv
  BY DEF ExitInv
<1>2. order \in Seq(Tasks) /\ Len(order) = 0
  OBVIOUS
<1>3. QueueInv
  BY <1>2 DEF QueueInv, InQueue
<1>4. RanInv /\ WakeInv
  BY <1>2 DEF RanInv, WakeInv
<1> QED BY <1>1, <1>3, <1>4, <1>5 DEF AsyncInv

LEMMA NextWorkInv == ASSUME WorkInv, [Async!Next]_(Async!vars) PROVE WorkInv'
<1> USE DEF WorkInv, Async!Pending
<1>1. ASSUME NEW t \in Tasks, Async!Push(t) PROVE WorkInv'
  <2>1. /\ UNCHANGED <<status, worker, stop, accepted, racing>>
        /\ \E p \in Async!Pending \cup {"accepted", "rejected"} : push' = [push EXCEPT ![t] = p]
    BY <1>1 DEF Async!Push, Async!LoadStatus, Async!LoadCount, Async!SwapTail, Async!LinkNode, Async!AddCount,
       Async!Notify, Async!Goto, Async!stopVars
  <2>2. count' \in {count, count + 1} /\ token' \in {token, TRUE}
    BY <1>1 DEF Async!Push, Async!LoadStatus, Async!LoadCount, Async!SwapTail, Async!LinkNode, Async!AddCount,
       Async!Notify, Async!queueVars
  <2>3. push' \in [Tasks -> Async!Pending \cup {"idle", "accepted", "rejected"}]
    BY <2>1
  <2>4. count' \in Int
    BY <2>2
  <2>5. token' \in BOOLEAN
    BY <2>2, Zenon
  <2>6. worker' = "off" => \A u \in Tasks : push'[u] \in {"idle", "rejected"}
    <3> SUFFICES ASSUME worker' = "off" PROVE \A u \in Tasks : push'[u] \in {"idle", "rejected"}
      OBVIOUS
    <3>1. status = "STOP" /\ \A u \in Tasks : push[u] \in {"idle", "rejected"}
      BY <2>1
    <3>2. push' = [push EXCEPT ![t] = "rejected"]
      BY <1>1, <3>1 DEF Async!Push, Async!LoadStatus, Async!LoadCount, Async!SwapTail, Async!LinkNode,
         Async!AddCount, Async!Notify, Async!Goto
    <3> QED BY <3>1, <3>2
  <2> HIDE DEF Async!Pending
  <2> QED BY <2>1, <2>3, <2>4, <2>5, <2>6
<1>2. CASE Async!Start \/ Async!TakeToken \/ Async!TakeExit
  BY <1>2 DEF Async!Start, Async!TakeToken, Async!TakeExit, Async!queueVars, Async!stopVars
<1>5. CASE Async!Pop
  BY <1>5 DEF Async!Pop, Async!stopVars
<1>6. CASE Async!RunTask
  BY <1>6 DEF Async!RunTask, Async!AfterRun, Async!queueVars, Async!stopVars
<1>3. CASE Async!Quiesce \/ Async!StopBegins \/ Async!StopEnds
  BY <1>3 DEF Async!Quiesce, Async!StopBegins, Async!StopEnds, Async!queueVars, Async!stopVars
<1>4. CASE UNCHANGED Async!vars
  BY <1>4 DEF Async!vars
<1> QED BY <1>1, <1>2, <1>3, <1>4, <1>5, <1>6 DEF Async!Next, Async!WorkerGoesOn

\* What a push does to the queue with one step.
PushMoves(t) ==
    \/ /\ push[t] = "swap" /\ push' = [push EXCEPT ![t] = "link"]
       /\ order' = Append(order, t) /\ UNCHANGED <<linked, token>>
    \/ /\ push[t] = "link" /\ push' = [push EXCEPT ![t] = "count"]
       /\ linked' = linked \cup {t} /\ UNCHANGED <<order, token>>
    \/ /\ push[t] = "count" /\ push' = [push EXCEPT ![t] = "notify"]
       /\ UNCHANGED <<order, linked, token>>
    \/ /\ push[t] = "notify" /\ push' = [push EXCEPT ![t] = "accepted"]
       /\ token' = TRUE /\ UNCHANGED <<order, linked>>
    \/ /\ push[t] = "idle" /\ push' = [push EXCEPT ![t] = IF status = "RUN" THEN "check" ELSE "rejected"]
       /\ UNCHANGED <<order, linked, token>>
    \/ /\ push[t] = "check" /\ push' = [push EXCEPT ![t] = IF count >= Capacity THEN "rejected" ELSE "swap"]
       /\ UNCHANGED <<order, linked, token>>

\* A step is that of one push, or leaves the queue as it is.
LEMMA QueueStep ==
    ASSUME [Async!Next]_(Async!vars)
    PROVE  \/ UNCHANGED <<order, linked, push>>
           \/ /\ UNCHANGED <<popped, worker, ran, status, stop, accepted, racing>>
              /\ \E t \in Tasks : PushMoves(t)
<1>1. ASSUME NEW t \in Tasks, Async!Push(t)
      PROVE  UNCHANGED <<popped, worker, ran, status, stop, accepted, racing>> /\ PushMoves(t)
  BY <1>1 DEF Async!Push, Async!LoadStatus, Async!LoadCount, Async!SwapTail, Async!LinkNode, Async!AddCount,
       Async!Notify, Async!Goto, Async!queueVars, Async!stopVars, PushMoves
<1>2. CASE Async!Start \/ Async!TakeToken \/ Async!TakeExit \/ Async!Pop \/ Async!RunTask
  BY <1>2 DEF Async!Start, Async!TakeToken, Async!TakeExit, Async!Pop, Async!RunTask, Async!queueVars
<1>3. CASE Async!Quiesce \/ Async!StopBegins \/ Async!StopEnds \/ UNCHANGED Async!vars
  BY <1>3 DEF Async!Quiesce, Async!StopBegins, Async!StopEnds, Async!queueVars, Async!vars
<1> QED BY <1>1, <1>2, <1>3 DEF Async!Next, Async!WorkerGoesOn

LEMMA NextQueueInv == ASSUME WorkInv, QueueInv, [Async!Next]_(Async!vars) PROVE QueueInv'
<1> USE DEF QueueInv, InQueue
<1>0. push \in [Tasks -> Async!Pending \cup {"idle", "accepted", "rejected"}] /\ Len(order) \in Nat
  BY DEF WorkInv
<1>1. CASE UNCHANGED <<order, linked, push>>
  BY <1>1
<1>2. ASSUME NEW t \in Tasks, PushMoves(t) PROVE QueueInv'
  <2>1. CASE push[t] = "swap"
    <3>1. /\ push' = [push EXCEPT ![t] = "link"] /\ order' = Append(order, t) /\ linked' = linked
      BY <1>2, <2>1 DEF PushMoves
    <3>2. /\ order' \in Seq(Tasks) /\ Len(order') = Len(order) + 1 /\ order'[Len(order) + 1] = t
          /\ \A i \in 1 .. Len(order) : order'[i] = order[i]
      BY <3>1
    <3>3. \A i \in 1 .. Len(order) : order[i] # t /\ order[i] \in Tasks
      BY <2>1
    <3>4. \A u \in Tasks : push'[u] = IF u = t THEN "link" ELSE push[u]
      BY <1>0, <3>1
    <3>5. \A i \in 1 .. Len(order') : i \in 1 .. Len(order) \/ i = Len(order) + 1
      BY <1>0, <3>2
    <3>6. \A i \in 1 .. Len(order) : i \in 1 .. Len(order') /\ i # Len(order) + 1
      BY <1>0, <3>2
    <3>7. \A i, j \in 1 .. Len(order') : order'[i] = order'[j] => i = j
      BY <3>2, <3>3, <3>5
    <3>8. \A i \in 1 .. Len(order') : push'[order'[i]] \in InQueue
      BY <3>2, <3>3, <3>4, <3>5
    <3>9. \A u \in Tasks : push'[u] \in InQueue => \E i \in 1 .. Len(order') : order'[i] = u
      <4>1. Len(order) + 1 \in 1 .. Len(order')
        BY <1>0, <3>2
      <4> QED BY <3>2, <3>4, <3>6, <4>1
    <3>10. linked' = {u \in Tasks : push'[u] \in InQueue \ {"link"}}
      BY <2>1, <3>1, <3>4
    <3> QED BY <3>2, <3>7, <3>8, <3>9, <3>10
  <2>2. CASE push[t] # "swap"
    <3>1. order' = order
      BY <1>2, <2>2 DEF PushMoves
    <3>2. PICK p : push' = [push EXCEPT ![t] = p] /\ (p \in InQueue <=> push[t] \in InQueue)
      <4>1. CASE push[t] = "idle"
        <5>1. \E q \in {"check", "swap", "rejected"} : push' = [push EXCEPT ![t] = q]
          BY <1>2, <4>1 DEF PushMoves
        <5> QED BY <4>1, <5>1
      <4>2. CASE push[t] = "check"
        <5>1. \E q \in {"check", "swap", "rejected"} : push' = [push EXCEPT ![t] = q]
          BY <1>2, <4>2 DEF PushMoves
        <5> QED BY <4>2, <5>1
      <4>3. CASE push[t] \in {"link", "count", "notify"}
        <5>1. \E q \in {"count", "notify", "accepted"} : push' = [push EXCEPT ![t] = q]
          BY <1>2, <4>3 DEF PushMoves
        <5> QED BY <4>3, <5>1
      <4> QED BY <1>2, <2>2, <4>1, <4>2, <4>3 DEF PushMoves
    <3>3. \A u \in Tasks : push'[u] = IF u = t THEN p ELSE push[u]
      BY <1>0, <3>2
    <3>4. linked' = {u \in Tasks : push'[u] \in InQueue \ {"link"}}
      <4>1. CASE push[t] = "link"
        BY <1>0, <1>2, <4>1 DEF PushMoves
      <4>2. CASE push[t] # "link"
        <5>1. linked' = linked /\ p # "link" /\ (p \in InQueue \ {"link"} <=> push[t] \in InQueue \ {"link"})
          <6>1. p = push'[t]
            BY <3>3
          <6> QED BY <1>0, <1>2, <2>2, <3>2, <4>2, <6>1 DEF PushMoves
        <5> QED BY <3>3, <5>1
      <4> QED BY <4>1, <4>2
    <3>5. \A i \in 1 .. Len(order) : order[i] \in Tasks
      OBVIOUS
    <3> QED BY <3>1, <3>2, <3>3, <3>4, <3>5
  <2> QED BY <2>1, <2>2
<1> QED BY <1>1, <1>2, QueueStep

LEMMA NextRanInv == ASSUME WorkInv, QueueInv, RanInv, [Async!Next]_(Async!vars) PROVE RanInv'
<1> USE DEF RanInv
<1>0. order \in Seq(Tasks) /\ Len(order) \in Nat
  BY DEF QueueInv
<1>1. ASSUME NEW t \in Tasks, PushMoves(t), UNCHANGED <<popped, worker, ran>> PROVE RanInv'
  <2>1. /\ Len(order') \in Nat /\ Len(order') >= Len(order)
        /\ \A i \in 1 .. Len(order) : order'[i] = order[i]
    BY <1>0, <1>1 DEF PushMoves
  <2>2. \A i \in 1 .. popped : order'[i] = order[i]
    BY <1>0, <2>1
  <2> QED BY <1>0, <1>1, <2>1, <2>2
<1>2. CASE Async!Pop
  <2>1. CASE Async!Reachable
    <3>1. /\ order' = order /\ ran' = ran /\ popped' = popped + 1 /\ worker' \in {"run", "lastRun"}
          /\ popped < Len(order) /\ worker \notin {"run", "lastRun"}
      BY <1>2, <2>1 DEF Async!Pop, Async!Reachable
    <3>2. popped' \in 0 .. Len(order')
      BY <1>0, <3>1
    <3>3. \A i \in 1 .. popped : i \in 1 .. popped'
      BY <3>1
    <3>4. \A i \in 1 .. popped' : i \in 1 .. popped \/ i = popped'
      BY <3>1
    <3> QED BY <3>1, <3>2, <3>3, <3>4
  <2>2. CASE ~Async!Reachable
    BY <1>2, <2>2 DEF Async!Pop
  <2> QED BY <2>1, <2>2
<1>3. CASE Async!RunTask
  <2>1. /\ order' = order /\ popped' = popped /\ ran' = ran \cup {order[popped]}
        /\ worker' \notin {"run", "lastRun"} /\ popped \in 1 .. popped
    BY <1>3 DEF Async!RunTask, Async!AfterRun, Async!queueVars
  <2> QED BY <2>1
<1>4. CASE Async!Start \/ Async!TakeToken \/ Async!TakeExit
  BY <1>4 DEF Async!Start, Async!TakeToken, Async!TakeExit, Async!queueVars, WorkInv
<1>5. CASE Async!Quiesce \/ Async!StopBegins \/ Async!StopEnds \/ UNCHANGED Async!vars
  BY <1>5 DEF Async!Quiesce, Async!StopBegins, Async!StopEnds, Async!queueVars, Async!vars
<1>6. ASSUME NEW t \in Tasks, Async!Push(t) PROVE PushMoves(t) /\ UNCHANGED <<popped, worker, ran>>
  BY <1>6 DEF Async!Push, Async!LoadStatus, Async!LoadCount, Async!SwapTail, Async!LinkNode, Async!AddCount,
       Async!Notify, Async!Goto, Async!queueVars, Async!stopVars, PushMoves
<1> QED BY <1>1, <1>2, <1>3, <1>4, <1>5, <1>6 DEF Async!Next, Async!WorkerGoesOn

LEMMA NextWakeInv ==
    ASSUME WorkInv, QueueInv, RanInv, WakeInv, [Async!Next]_(Async!vars) PROVE WakeInv'
<1>0. /\ push \in [Tasks -> Async!Pending \cup {"idle", "accepted", "rejected"}] /\ token \in BOOLEAN
      /\ order \in Seq(Tasks) /\ Len(order) \in Nat /\ popped \in 0 .. Len(order)
  BY DEF WorkInv, QueueInv, RanInv
<1> SUFFICES ASSUME worker' = "select", popped' < Len(order'), token' # TRUE
             PROVE  \E t \in Tasks : push'[t] \in {"link", "count", "notify"}
  <2>1. token' = TRUE => token'
    BY Zenon
  <2> QED BY <2>1 DEF WakeInv
<1>1. ASSUME NEW t \in Tasks, PushMoves(t), UNCHANGED <<popped, worker, ran>>
      PROVE  \E u \in Tasks : push'[u] \in {"link", "count", "notify"}
  <2>1. CASE push[t] \in {"swap", "link", "count"}
    <3>1. push'[t] \in {"link", "count", "notify"}
      BY <1>0, <1>1, <2>1 DEF PushMoves
    <3> QED BY <3>1
  <2>2. CASE push[t] = "notify"
    BY <1>1, <2>2 DEF PushMoves
  <2>3. CASE push[t] \in {"idle", "check"}
    <3>1. order' = order /\ token' = token /\ \A u \in Tasks : u # t => push'[u] = push[u]
      BY <1>0, <1>1, <2>3 DEF PushMoves
    <3>2. token # TRUE
      BY <3>1, Zenon
    <3>3. PICK u \in Tasks : push[u] \in {"link", "count", "notify"}
      <4>1. worker = "select" /\ popped < Len(order) /\ ~token
        <5>1. ~token
          BY <1>0, <3>2, Zenon
        <5> QED BY <1>1, <3>1, <5>1
      <4> QED BY <4>1 DEF WakeInv
    <3> QED BY <2>3, <3>1, <3>3
  <2> QED BY <1>1, <2>1, <2>2, <2>3 DEF PushMoves
<1>2. CASE Async!Pop
  <2>1. /\ ~Async!Reachable /\ popped' = popped /\ order' = order /\ linked' = linked /\ push' = push
    BY <1>2 DEF Async!Pop
  <2>2. popped + 1 \in 1 .. Len(order) /\ order[popped + 1] \in Tasks /\ order[popped + 1] \notin linked
    BY <1>0, <2>1 DEF Async!Reachable
  <2>3. push[order[popped + 1]] = "link"
    BY <2>2 DEF QueueInv, InQueue
  <2> QED BY <2>1, <2>2, <2>3
<1>3. CASE Async!Start
  <2>1. /\ popped' = popped /\ order' = order /\ push' = push /\ worker = "off"
    BY <1>3 DEF Async!Start, Async!queueVars
  <2>2. popped + 1 \in 1 .. Len(order) /\ order[popped + 1] \in Tasks
    BY <1>0, <2>1
  <2>3. push[order[popped + 1]] \in InQueue
    BY <2>2 DEF QueueInv
  <2> QED BY <2>1, <2>2, <2>3 DEF WorkInv, InQueue
<1>4. CASE Async!TakeToken \/ Async!TakeExit \/ Async!RunTask
  BY <1>4 DEF Async!TakeToken, Async!TakeExit, Async!RunTask, Async!AfterRun
<1>5. CASE Async!Quiesce \/ Async!StopBegins \/ Async!StopEnds \/ UNCHANGED Async!vars
  <2>1. worker' = worker /\ popped' = popped /\ order' = order /\ push' = push
    BY <1>5 DEF Async!Quiesce, Async!StopBegins, Async!StopEnds, Async!queueVars, Async!vars
  <2>2. token' = token
    BY <1>5 DEF Async!Quiesce, Async!StopBegins, Async!StopEnds, Async!vars
  <2>3. ~token
    BY <1>0, <2>2, Zenon
  <2> QED BY <2>1, <2>3 DEF WakeInv
<1>6. ASSUME NEW t \in Tasks, Async!Push(t) PROVE PushMoves(t) /\ UNCHANGED <<popped, worker, ran>>
  BY <1>6 DEF Async!Push, Async!LoadStatus, Async!LoadCount, Async!SwapTail, Async!LinkNode, Async!AddCount,
       Async!Notify, Async!Goto, Async!queueVars, Async!stopVars, PushMoves
<1> QED BY <1>1, <1>2, <1>3, <1>4, <1>5, <1>6 DEF Async!Next, Async!WorkerGoesOn

LEMMA NextExitInv ==
    ASSUME WorkInv, QueueInv, RanInv, ExitInv, [Async!Next]_(Async!vars) PROVE ExitInv'
<1> SUFFICES ASSUME stop' # "idle", racing' = {}
             PROVE  /\ \A t \in Tasks : push'[t] \notin Async!Pending
                    /\ accepted' = {t \in Tasks : push'[t] = "accepted"}
                    /\ worker' = "gone" => popped' = Len(order')
  BY DEF ExitInv
<1>0. push \in [Tasks -> Async!Pending \cup {"idle", "accepted", "rejected"}]
  BY DEF WorkInv
<1>1. ASSUME NEW t \in Tasks, PushMoves(t), UNCHANGED <<popped, worker, status, stop, accepted, racing>>
      PROVE  /\ \A u \in Tasks : push'[u] \notin Async!Pending
             /\ accepted' = {u \in Tasks : push'[u] = "accepted"}
             /\ worker' = "gone" => popped' = Len(order')
  <2>1. /\ \A u \in Tasks : push[u] \notin Async!Pending
        /\ accepted = {u \in Tasks : push[u] = "accepted"}
        /\ worker = "gone" => popped = Len(order)
    BY <1>1 DEF ExitInv
  <2>2. status = "STOP"
    BY <1>1 DEF WorkInv
  <2>3. push[t] = "idle" /\ push' = [push EXCEPT ![t] = "rejected"] /\ order' = order
    BY <1>1, <2>1, <2>2 DEF PushMoves, Async!Pending
  <2>4. \A u \in Tasks : push'[u] = IF u = t THEN "rejected" ELSE push[u]
    BY <1>0, <2>3
  <2> QED BY <1>1, <2>1, <2>3, <2>4 DEF Async!Pending
<1>2. CASE Async!StopBegins
  <2>1. push' = push /\ racing' = {t \in Tasks : push[t] \in Async!Pending} /\ worker' = worker
        /\ accepted' = {t \in Tasks : push[t] = "accepted"} /\ status # "STOP"
    BY <1>2 DEF Async!StopBegins
  <2>2. worker # "gone"
    BY <2>1 DEF WorkInv
  <2> QED BY <2>1, <2>2
<1>3. CASE Async!Pop
  <2>1. /\ stop # "idle" /\ racing = {} /\ push' = push /\ accepted' = accepted /\ order' = order
    BY <1>3 DEF Async!Pop, Async!stopVars
  <2>2. /\ \A t \in Tasks : push[t] \notin Async!Pending
        /\ accepted = {t \in Tasks : push[t] = "accepted"}
    BY <2>1 DEF ExitInv
  <2>3. ASSUME worker' = "gone" PROVE popped' = Len(order')
    <3>1. ~Async!Reachable /\ popped' = popped
      BY <1>3, <2>3 DEF Async!Pop
    <3>2. popped \in 0 .. Len(order) /\ Len(order) \in Nat
      BY DEF RanInv, QueueInv
    <3>3. ASSUME popped < Len(order) PROVE FALSE
      <4>1. popped + 1 \in 1 .. Len(order) /\ order[popped + 1] \in Tasks /\ order[popped + 1] \notin linked
        BY <3>1, <3>2, <3>3 DEF Async!Reachable, QueueInv
      <4>2. push[order[popped + 1]] = "link"
        BY <4>1 DEF QueueInv, InQueue
      <4> QED BY <2>2, <4>1, <4>2 DEF Async!Pending
    <3> QED BY <2>1, <3>1, <3>2, <3>3
  <2> QED BY <2>1, <2>2, <2>3
<1>4. CASE Async!Start
  BY <1>4 DEF Async!Start, Async!stopVars, WorkInv
<1>5. CASE Async!TakeToken \/ Async!TakeExit \/ Async!RunTask \/ Async!Quiesce \/ Async!StopEnds \/ UNCHANGED Async!vars
  <2>1. push' = push /\ racing' = racing /\ accepted' = accepted /\ order' = order /\ popped' = popped
    BY <1>5 DEF Async!TakeToken, Async!TakeExit, Async!RunTask, Async!Quiesce, Async!StopEnds, Async!vars,
       Async!queueVars, Async!stopVars
  <2>2. stop # "idle" \/ stop' = stop
    BY <1>5 DEF Async!TakeToken, Async!TakeExit, Async!RunTask, Async!Quiesce, Async!StopEnds, Async!vars,
       Async!queueVars, Async!stopVars
  <2>3. worker' = "gone" => worker = "gone"
    BY <1>5 DEF Async!TakeToken, Async!TakeExit, Async!RunTask, Async!Quiesce, Async!StopEnds, Async!vars,
       Async!AfterRun
  <2> QED BY <2>1, <2>2, <2>3 DEF ExitInv
<1>6. ASSUME NEW t \in Tasks, Async!Push(t)
      PROVE  PushMoves(t) /\ UNCHANGED <<popped, worker, status, stop, accepted, racing>>
  BY <1>6 DEF Async!Push, Async!LoadStatus, Async!LoadCount, Async!SwapTail, Async!LinkNode, Async!AddCount,
       Async!Notify, Async!Goto, Async!queueVars, Async!stopVars, PushMoves
<1> QED BY <1>1, <1>2, <1>3, <1>4, <1>5, <1>6 DEF Async!Next, Async!WorkerGoesOn

LEMMA AsyncTypes == AsyncInv => Async!TypeOK
<1> SUFFICES ASSUME AsyncInv PROVE Async!TypeOK
  OBVIOUS
<1>1. order \in Seq(Tasks) /\ Len(order) \in Nat /\ DOMAIN order = 1 .. Len(order)
  BY DEF AsyncInv, QueueInv
<1>2. Async!IsInjective(order)
  BY <1>1 DEF AsyncInv, QueueInv, Async!IsInjective
<1>3. linked \subseteq Async!ToSet(order)
  BY <1>1 DEF AsyncInv, QueueInv, Async!ToSet
<1>4. ran \subseteq Async!ToSet(SubSeq(order, 1, popped)) /\ popped \in 0 .. Len(order)
  <2>1. popped \in 0 .. Len(order) /\ \A t \in ran : \E i \in 1 .. popped : order[i] = t
    BY DEF AsyncInv, RanInv
  <2>2. /\ DOMAIN SubSeq(order, 1, popped) = 1 .. popped
        /\ \A i \in 1 .. popped : SubSeq(order, 1, popped)[i] = order[i]
    BY <1>1, <2>1
  <2> QED BY <2>1, <2>2 DEF Async!ToSet
<1> QED BY <1>1, <1>2, <1>3, <1>4 DEF AsyncInv, WorkInv, Async!TypeOK

\* No wake-up of the worker is lost: while it sleeps at an empty channel, every accepted
\* task was run, or a push that is under way will wake it.  And a Stop that no push
\* was racing has, when it returns, run every task accepted before it.
NoWakeUpLost ==
    worker = "select" /\ ~token =>
        \A t \in Tasks : push[t] = "accepted" =>
            t \in ran \/ \E u \in Tasks : push[u] \in {"link", "count", "notify"}
StopRunsAccepted == stop = "done" /\ racing = {} => accepted \subseteq ran

LEMMA AsyncSafe == AsyncInv => NoWakeUpLost /\ StopRunsAccepted
<1> SUFFICES ASSUME AsyncInv PROVE NoWakeUpLost /\ StopRunsAccepted
  OBVIOUS
<1>1. /\ order \in Seq(Tasks) /\ Len(order) \in Nat /\ popped \in 0 .. Len(order)
      /\ \A t \in Tasks : push[t] = "accepted" => \E i \in 1 .. Len(order) : order[i] = t
  BY DEF AsyncInv, QueueInv, RanInv, InQueue
<1>2. ASSUME worker \notin {"run", "lastRun"}, popped = Len(order), NEW t \in Tasks, push[t] = "accepted"
      PROVE  t \in ran
  BY <1>1, <1>2 DEF AsyncInv, RanInv
<1>3. NoWakeUpLost
  <2> SUFFICES ASSUME worker = "select", ~token, NEW t \in Tasks, push[t] = "accepted",
                      \A u \in Tasks : push[u] \notin {"link", "count", "notify"}
               PROVE  t \in ran
    BY DEF NoWakeUpLost
  <2>1. popped = Len(order)
    BY <1>1 DEF AsyncInv, WakeInv
  <2> QED BY <1>2, <2>1
<1>4. StopRunsAccepted
  <2> SUFFICES ASSUME stop = "done", racing = {}, NEW t \in accepted PROVE t \in ran
    BY DEF StopRunsAccepted
  <2>1. worker = "gone" /\ t \in Tasks /\ push[t] = "accepted" /\ popped = Len(order)
    BY DEF AsyncInv, WorkInv, ExitInv
  <2> QED BY <1>2, <2>1
<1> QED BY <1>3, <1>4

\* The worker by itself.
THEOREM WorkerIsSafe ==
    Async!Init /\ [][Async!Next]_(Async!vars) => [](Async!TypeOK /\ NoWakeUpLost /\ StopRunsAccepted)
<1>1. AsyncInv /\ [Async!Next]_(Async!vars) => AsyncInv'
  BY NextWorkInv, NextQueueInv, NextRanInv, NextWakeInv, NextExitInv DEF AsyncInv
<1> QED BY <1>1, InitAsyncInv, AsyncTypes, AsyncSafe, PTL
-----------------------------------------------------------------------------
(* Service discovery.                                                          *)

\* While the watch is armed the children are as resolve has read them.
WatchInv == watch = "armed" =>
    /\ resolver \in {"list", "get", "store", "notify", "wait", "stale"}
    /\ resolver \in {"get", "store"} => children = servers
    /\ resolver \in {"notify", "wait"} => services = servers
    /\ close # "done"

\* Until Close begins nobody takes the watcher away.
ManagerInv == close = "idle" =>
    /\ ~watchCancelled
    /\ runWatch \in {"off", "start", "loop", "watch", "watched", "next", "load", "refresh"}
    /\ watching <=> runWatch \in {"watched", "next", "load", "refresh"}
    /\ watching <=> resolver # "off"
    /\ resolver # "gone"

\* resolve starts once, when runWatch begins to watch.
StartInv == runWatch \in {"off", "start", "loop", "watch"} => resolver = "off"

\* What resolve has stored is in the table, or runWatch is about to put it there, or
\* it will be told to.
ToldInv == close = "idle" =>
    \/ services = IF runWatch = "refresh" THEN snapshot ELSE table
    \/ resolver = "notify" \/ event \/ runWatch = "load"

RegistryInv == Registry!TypeOK /\ StartInv /\ WatchInv /\ ManagerInv /\ ToldInv

LEMMA InitRegistryInv == ASSUME MaxChanges \in Nat, Registry!Init PROVE RegistryInv
<1> USE DEF Registry!Init
<1>1. Registry!TypeOK
  <2>1. {watching, event, stopWatch, watchCancelled, watcher} \subseteq BOOLEAN
    BY Zenon
  <2>2. servers \subseteq Servers /\ changes \in 0 .. MaxChanges
    OBVIOUS
  <2> HIDE DEF Registry!Init
  <2>3. /\ watch = "none" /\ resolver = "off" /\ runWatch = "off" /\ close = "idle"
        /\ children = {} /\ services = {} /\ snapshot = {} /\ table = {}
    BY DEF Registry!Init
  <2> QED BY <2>1, <2>2, <2>3 DEF Registry!TypeOK
<1>2. StartInv /\ WatchInv /\ ManagerInv /\ ToldInv
  BY DEF StartInv, WatchInv, ManagerInv, ToldInv
<1> QED BY <1>1, <1>2 DEF RegistryInv

LEMMA NextRegistryTypes ==
    ASSUME Self \in Servers, MaxChanges \in Nat, Registry!TypeOK, [Registry!Next]_(Registry!vars) PROVE Registry!TypeOK'
<1> USE DEF Registry!TypeOK, Registry!zooVars, Registry!registryVars, Registry!managerVars
<1>1. ASSUME NEW s \in Servers, Registry!ServerChanges(s) PROVE Registry!TypeOK'
  <2>1. changes' \in 0 .. MaxChanges
    BY <1>1 DEF Registry!ServerChanges
  <2> QED BY <1>1, <2>1 DEF Registry!ServerChanges, Registry!Fired
<1>2. CASE Registry!Check \/ Registry!ArmFails \/ Registry!Arm \/ Registry!List
  BY <1>2 DEF Registry!Check, Registry!ArmFails, Registry!Arm, Registry!List, Registry!ResolverStep, Registry!After
<1>3. CASE Registry!Get \/ Registry!ReadFails \/ Registry!Store
  BY <1>3 DEF Registry!Get, Registry!ReadFails, Registry!Store, Registry!ResolverStep, Registry!After
<1>4. CASE Registry!Notify \/ Registry!WatchFires
  BY <1>4 DEF Registry!Notify, Registry!WatchFires, Registry!ResolverStep, Registry!After
<1>5. CASE Registry!InitAndRun \/ Registry!KeepCancel \/ Registry!LookAtClosed
  BY <1>5 DEF Registry!InitAndRun, Registry!KeepCancel, Registry!LookAtClosed
<1>6. CASE Registry!Watch \/ Registry!KeepWatcher \/ Registry!NextGetsEvent \/ Registry!NextFails
  BY <1>6 DEF Registry!Watch, Registry!KeepWatcher, Registry!NextGetsEvent, Registry!NextFails
<1>7. CASE Registry!DropWatcher \/ Registry!LoadServices \/ Registry!RefreshServices
  BY <1>7 DEF Registry!DropWatcher, Registry!LoadServices, Registry!RefreshServices
<1>8. CASE Registry!CloseBegins \/ Registry!CloseEnds
  BY <1>8 DEF Registry!CloseBegins, Registry!CloseEnds, Registry!Fired
<1>9. CASE UNCHANGED Registry!vars
  BY <1>9 DEF Registry!vars
<1> QED BY <1>1, <1>2, <1>3, <1>4, <1>5, <1>6, <1>7, <1>8, <1>9 DEF Registry!Next, Registry!Resolve, Registry!RunWatch

LEMMA NextStartInv ==
    ASSUME Registry!TypeOK, StartInv, [Registry!Next]_(Registry!vars) PROVE StartInv'
<1> USE DEF StartInv, Registry!zooVars, Registry!registryVars, Registry!managerVars
<1>1. ASSUME NEW s \in Servers, Registry!ServerChanges(s) PROVE StartInv'
  BY <1>1 DEF Registry!ServerChanges, Registry!Fired
<1>2. CASE Registry!Check \/ Registry!ArmFails \/ Registry!Arm \/ Registry!List
  BY <1>2 DEF Registry!Check, Registry!ArmFails, Registry!Arm, Registry!List, Registry!ResolverStep, Registry!After,
     Registry!Connected
<1>3. CASE Registry!Get \/ Registry!ReadFails \/ Registry!Store
  BY <1>3 DEF Registry!Get, Registry!ReadFails, Registry!Store, Registry!ResolverStep, Registry!After, Registry!Connected
<1>4. CASE Registry!Notify \/ Registry!WatchFires
  BY <1>4 DEF Registry!Notify, Registry!WatchFires, Registry!ResolverStep, Registry!After
<1>5. CASE Registry!InitAndRun \/ Registry!KeepCancel \/ Registry!LookAtClosed
  BY <1>5 DEF Registry!InitAndRun, Registry!KeepCancel, Registry!LookAtClosed
<1>6. CASE Registry!Watch \/ Registry!KeepWatcher \/ Registry!NextGetsEvent \/ Registry!NextFails
  BY <1>6 DEF Registry!Watch, Registry!KeepWatcher, Registry!NextGetsEvent, Registry!NextFails
<1>7. CASE Registry!DropWatcher \/ Registry!LoadServices \/ Registry!RefreshServices
  BY <1>7 DEF Registry!DropWatcher, Registry!LoadServices, Registry!RefreshServices
<1>8. CASE Registry!CloseBegins \/ Registry!CloseEnds
  BY <1>8 DEF Registry!CloseBegins, Registry!CloseEnds, Registry!Fired
<1>9. CASE UNCHANGED Registry!vars
  BY <1>9 DEF Registry!vars
<1> QED BY <1>1, <1>2, <1>3, <1>4, <1>5, <1>6, <1>7, <1>8, <1>9 DEF Registry!Next, Registry!Resolve, Registry!RunWatch

LEMMA NextWatchInv ==
    ASSUME Registry!TypeOK, StartInv, WatchInv, [Registry!Next]_(Registry!vars) PROVE WatchInv'
<1> USE DEF StartInv, WatchInv, Registry!zooVars, Registry!registryVars, Registry!managerVars
<1>1. ASSUME NEW s \in Servers, Registry!ServerChanges(s) PROVE WatchInv'
  BY <1>1 DEF Registry!ServerChanges, Registry!Fired
<1>2. CASE Registry!Check \/ Registry!ArmFails \/ Registry!Arm \/ Registry!List
  BY <1>2 DEF Registry!Check, Registry!ArmFails, Registry!Arm, Registry!List, Registry!ResolverStep, Registry!After,
     Registry!Connected
<1>3. CASE Registry!Get \/ Registry!ReadFails \/ Registry!Store
  BY <1>3 DEF Registry!Get, Registry!ReadFails, Registry!Store, Registry!ResolverStep, Registry!After, Registry!Connected
<1>4. CASE Registry!Notify \/ Registry!WatchFires
  BY <1>4 DEF Registry!Notify, Registry!WatchFires, Registry!ResolverStep, Registry!After
<1>5. CASE Registry!InitAndRun \/ Registry!KeepCancel \/ Registry!LookAtClosed
  BY <1>5 DEF Registry!InitAndRun, Registry!KeepCancel, Registry!LookAtClosed
<1>6. CASE Registry!Watch \/ Registry!KeepWatcher \/ Registry!NextGetsEvent \/ Registry!NextFails
  BY <1>6 DEF Registry!Watch, Registry!KeepWatcher, Registry!NextGetsEvent, Registry!NextFails
<1>7. CASE Registry!DropWatcher \/ Registry!LoadServices \/ Registry!RefreshServices
  BY <1>7 DEF Registry!DropWatcher, Registry!LoadServices, Registry!RefreshServices
<1>8. CASE Registry!CloseBegins \/ Registry!CloseEnds
  BY <1>8 DEF Registry!CloseBegins, Registry!CloseEnds, Registry!Fired
<1>9. CASE UNCHANGED Registry!vars
  BY <1>9 DEF Registry!vars
<1> QED BY <1>1, <1>2, <1>3, <1>4, <1>5, <1>6, <1>7, <1>8, <1>9 DEF Registry!Next, Registry!Resolve, Registry!RunWatch

LEMMA NextManagerInv ==
    ASSUME Registry!TypeOK, ManagerInv, [Registry!Next]_(Registry!vars) PROVE ManagerInv'
<1> USE DEF ManagerInv, Registry!closed, Registry!zooVars, Registry!registryVars, Registry!managerVars
<1>1. ASSUME NEW s \in Servers, Registry!ServerChanges(s) PROVE ManagerInv'
  BY <1>1 DEF Registry!ServerChanges, Registry!Fired
<1>2. CASE Registry!Check \/ Registry!ArmFails \/ Registry!Arm \/ Registry!List
  BY <1>2 DEF Registry!Check, Registry!ArmFails, Registry!Arm, Registry!List, Registry!ResolverStep, Registry!After,
     Registry!Connected
<1>3. CASE Registry!Get \/ Registry!ReadFails \/ Registry!Store
  BY <1>3 DEF Registry!Get, Registry!ReadFails, Registry!Store, Registry!ResolverStep, Registry!After, Registry!Connected
<1>4. CASE Registry!Notify \/ Registry!WatchFires
  BY <1>4 DEF Registry!Notify, Registry!WatchFires, Registry!ResolverStep, Registry!After
<1>5. CASE Registry!InitAndRun \/ Registry!KeepCancel \/ Registry!LookAtClosed
  BY <1>5 DEF Registry!InitAndRun, Registry!KeepCancel, Registry!LookAtClosed
<1>6. CASE Registry!Watch \/ Registry!KeepWatcher \/ Registry!NextGetsEvent \/ Registry!NextFails
  BY <1>6 DEF Registry!Watch, Registry!KeepWatcher, Registry!NextGetsEvent, Registry!NextFails
<1>7. CASE Registry!DropWatcher \/ Registry!LoadServices \/ Registry!RefreshServices
  BY <1>7 DEF Registry!DropWatcher, Registry!LoadServices, Registry!RefreshServices
<1>8. CASE Registry!CloseBegins \/ Registry!CloseEnds
  BY <1>8 DEF Registry!CloseBegins, Registry!CloseEnds, Registry!Fired
<1>9. CASE UNCHANGED Registry!vars
  BY <1>9 DEF Registry!vars
<1> QED BY <1>1, <1>2, <1>3, <1>4, <1>5, <1>6, <1>7, <1>8, <1>9 DEF Registry!Next, Registry!Resolve, Registry!RunWatch

LEMMA NextToldInv ==
    ASSUME Registry!TypeOK, WatchInv, ManagerInv, ToldInv, [Registry!Next]_(Registry!vars) PROVE ToldInv'
<1> USE DEF ManagerInv, ToldInv, Registry!closed, Registry!zooVars, Registry!registryVars, Registry!managerVars
<1>1. ASSUME NEW s \in Servers, Registry!ServerChanges(s) PROVE ToldInv'
  BY <1>1 DEF Registry!ServerChanges, Registry!Fired
<1>2. CASE Registry!Check \/ Registry!ArmFails \/ Registry!Arm \/ Registry!List
  BY <1>2 DEF Registry!Check, Registry!ArmFails, Registry!Arm, Registry!List, Registry!ResolverStep, Registry!After,
     Registry!Connected
<1>3. CASE Registry!Get \/ Registry!ReadFails \/ Registry!Store
  BY <1>3 DEF Registry!Get, Registry!ReadFails, Registry!Store, Registry!ResolverStep, Registry!After, Registry!Connected
<1>4. CASE Registry!Notify \/ Registry!WatchFires
  BY <1>4 DEF Registry!Notify, Registry!WatchFires, Registry!ResolverStep, Registry!After
<1>5. CASE Registry!InitAndRun \/ Registry!KeepCancel \/ Registry!LookAtClosed
  BY <1>5 DEF Registry!InitAndRun, Registry!KeepCancel, Registry!LookAtClosed
<1>6. CASE Registry!Watch \/ Registry!KeepWatcher \/ Registry!NextGetsEvent \/ Registry!NextFails
  BY <1>6 DEF Registry!Watch, Registry!KeepWatcher, Registry!NextGetsEvent, Registry!NextFails
<1>7. CASE Registry!DropWatcher \/ Registry!LoadServices \/ Registry!RefreshServices
  BY <1>7 DEF Registry!DropWatcher, Registry!LoadServices, Registry!RefreshServices
<1>8. CASE Registry!CloseBegins \/ Registry!CloseEnds
  BY <1>8 DEF Registry!CloseBegins, Registry!CloseEnds, Registry!Fired
<1>9. CASE UNCHANGED Registry!vars
  BY <1>9 DEF Registry!vars
<1> QED BY <1>1, <1>2, <1>3, <1>4, <1>5, <1>6, <1>7, <1>8, <1>9 DEF Registry!Next, Registry!Resolve, Registry!RunWatch

\* While the manager waits with no event to come, and resolve with its watch armed
\* after a read that succeeded, the table is what is registered.  A read may fail
\* at any time; then resolve waits at "stale", of which nothing is said.
TableFollows ==
    close = "idle" /\ runWatch = "next" /\ ~event /\ resolver = "wait" /\ watch = "armed" =>
        table = servers

\* Discovery by itself, up to Close, with reads that may fail at any time: a change
\* is missed only while resolve waits after a read that failed.  In whatever order the
\* steps of resolve, runWatch and the servers come, the table is what is registered
\* whenever both wait and the last read succeeded.
THEOREM NoChangeIsMissed ==
    ASSUME Self \in Servers, MaxChanges \in Nat
    PROVE  Registry!Init /\ [][Registry!Next]_(Registry!vars) => [](Registry!TypeOK /\ TableFollows)
<1>1. RegistryInv /\ [Registry!Next]_(Registry!vars) => RegistryInv'
  BY NextRegistryTypes, NextStartInv, NextWatchInv, NextManagerInv, NextToldInv DEF RegistryInv
<1>2. RegistryInv => Registry!TypeOK /\ TableFollows
  BY DEF RegistryInv, WatchInv, ToldInv, TableFollows
<1> QED BY <1>1, <1>2, InitRegistryInv, PTL
-----------------------------------------------------------------------------
(* In MCServices the parts take turns, or rather one of them takes every turn. *)

servicesVars == <<part, vars, asyncVars, wheelVars, registryVars, busVars, slotVars, routeVars>>

\* What a server does is for each part a step of that part, or nothing.
LEMMA PartsStep ==
    [ServicesNext]_servicesVars =>
        /\ [RabbitMQ!Next]_(RabbitMQ!vars)
        /\ [Slots!Next]_(Slots!vars)
        /\ [Wheel!Next]_(Wheel!vars)
        /\ [Routes!Next]_(Routes!vars)
        /\ [Async!Next]_(Async!vars)
        /\ [Registry!Next]_(Registry!vars)
        /\ [Next]_vars
<1> SUFFICES ASSUME [ServicesNext]_servicesVars
             PROVE  /\ RabbitMQ!Next \/ UNCHANGED busVars
                    /\ Slots!Next \/ UNCHANGED slotVars
                    /\ Wheel!Next \/ UNCHANGED wheelVars
                    /\ Routes!Next \/ UNCHANGED routeVars
                    /\ Async!Next \/ UNCHANGED asyncVars
                    /\ Registry!Next \/ UNCHANGED registryVars
                    /\ Next \/ UNCHANGED vars
  BY DEF busVars, slotVars, wheelVars, routeVars, asyncVars, registryVars, RabbitMQ!vars, Slots!vars, Wheel!vars,
     Routes!vars, Async!vars, Registry!vars, Registry!zooVars, Registry!registryVars, Registry!managerVars
<1>1. CASE UNCHANGED servicesVars
  BY <1>1 DEF servicesVars
<1>2. CASE ServicesNext
  BY <1>2 DEF ServicesNext
<1> QED BY <1>1, <1>2

\* The bus of a server: one connection at most, which somebody will close, a channel
\* to send on while it says connected, and no message for a callback that Close has
\* taken away (rabbitmq.go, run and Close; router.go, onRecvBusMsg).
THEOREM BusStaysSound ==
    ASSUME NoConn \notin Conns, MaxBreaks \in Nat PROVE ServicesSpec => []BusSound
<1>1. ServicesInit => RabbitMQ!Init
  BY DEF ServicesInit
<1>2. RabbitMQ!Spec => [](RabbitMQ!TypeOK /\ RabbitMQ!BusSound)
  BY BusIsSound
<1>3. RabbitMQ!TypeOK /\ RabbitMQ!BusSound => BusSound
  BY DEF BusSound
<1> QED BY <1>1, <1>2, <1>3, PartsStep, PTL DEF ServicesSpec, servicesVars, RabbitMQ!Spec

\* The slots of a server: both counters are the calls that hold them, no limit is
\* exceeded under enforce (admission.go, tryAcquire and release).
THEOREM SlotsStayCounted == ASSUME Limits PROVE ServicesSpec => []InflightCounted
<1>1. ServicesInit => Slots!Init
  BY DEF ServicesInit
<1>2. Slots!Spec => [](Slots!TypeOK /\ Slots!InflightCounted)
  BY SlotsAreCounted
<1>3. Slots!TypeOK /\ Slots!InflightCounted => InflightCounted
  BY DEF InflightCounted
<1> QED BY <1>1, <1>2, <1>3, PartsStep, PTL DEF ServicesSpec, servicesVars, Slots!Spec

\* The timers of a server: none is overdue after a tick (timer.go, scheduleIn, tick,
\* runSlot and cascadeDown).
THEOREM TimersFireOnTime == ASSUME WheelProof!Sizes PROVE ServicesSpec => []FiresOnTime
<1>1. ServicesInit => WheelProof!Init
  BY SameInit DEF ServicesInit
<1>2. [ServicesNext]_servicesVars => [WheelProof!Next]_(WheelProof!vars)
  BY PartsStep, SameNext
<1>3. WheelProof!Spec => [](WheelProof!TypeOK /\ WheelProof!FiresOnTime)
  BY WheelProof!NoTimerIsLate
<1>4. WheelProof!TypeOK /\ WheelProof!FiresOnTime => FiresOnTime
  BY SameTick DEF FiresOnTime, Wheel!FiresOnTime, WheelProof!FiresOnTime
<1> QED BY <1>1, <1>2, <1>3, <1>4, PTL DEF ServicesSpec, servicesVars, WheelProof!Spec

\* The keys of a server's callers: a consistent-hash rule or a master sends a key to
\* another instance only for a new one, after the old one has left, or between two
\* whose points collide (svr_inst_mgr.go, refreshServices; consistent_hash.go, get).
THEOREM KeysStayPut == ASSUME RouteSizes PROVE ServicesSpec => KeysStay
<1>1. ServicesInit => RouteInv
  BY InitRouteInv DEF ServicesInit
<1>2. RouteInv /\ [Routes!Next]_(Routes!vars) => RouteInv'
  BY NextRouteInv
<1>3. RouteInv => AnswerInv
  BY Answers
<1>4. AnswerInv /\ AnswerInv' => Routes!StaysOrMay
  BY KeysMove
<1> QED BY <1>1, <1>2, <1>3, <1>4, PartsStep, PTL DEF ServicesSpec, servicesVars, KeysStay, Routes!KeysStay

\* The types of the routing tables, and of the wheel.
LEMMA RouteTypes == ASSUME RouteSizes, RouteInv PROVE Routes!TypeOK
<1>1. PICK nodes \in SUBSET Instances : instances \in Routes!Ascending(nodes) /\ ring \in Routes!Ring(nodes)
  BY DEF RouteInv
<1>2. instances \in Seq(nodes)
  <2>1. IsFiniteSet(nodes) /\ instances \in Routes!SetToSeqs(nodes)
    BY <1>1, FinitePoints DEF Routes!Ascending
  <2> QED BY <2>1, Enumerates
<1>3. ring \in Seq(Routes!Points(nodes))
  <2>1. IsFiniteSet(Routes!Points(nodes)) /\ ring \in Routes!SetToSeqs(Routes!Points(nodes))
    BY <1>1, FinitePoints DEF Routes!Ring
  <2> QED BY <2>1, Enumerates
<1>4. Routes!Points(nodes) \subseteq Routes!Points(Instances)
  BY DEF Routes!Points
<1>5. \A S, T : S \subseteq T => Seq(S) \subseteq Seq(T)
  OBVIOUS
<1>6. Seq(nodes) \subseteq Seq(Instances) /\ Seq(Routes!Points(nodes)) \subseteq Seq(Routes!Points(Instances))
  BY <1>4, <1>5
<1> QED BY <1>2, <1>3, <1>6 DEF Routes!TypeOK

LEMMA SameTypes == WheelProof!TypeOK => Wheel!TypeOK
  BY SamePlaces DEF Wheel!TypeOK, WheelProof!TypeOK, Wheel!Places, WheelProof!Places

\* Every variable of the seven parts has values of its type, in particular: a task is in
\* the queue of the worker once, a channel of the wheel holds no more than its buffer,
\* and each position of a goroutine is one of those that the code has.
THEOREM ServicesTypes ==
    ASSUME NoConn \notin Conns, MaxBreaks \in Nat, Limits, WheelProof!Sizes, RouteSizes,
           Self \in Servers, MaxChanges \in Nat
    PROVE  ServicesSpec => []ServicesTypeOK
<1>1. ServicesSpec => []RoleTypeOK
  <2>1. ServicesInit => Init
    BY DEF ServicesInit
  <2>2. ServicesSpec => FairSpec
    BY <2>1, PartsStep, PTL DEF ServicesSpec, servicesVars, FairSpec
  <2> QED BY <2>2, RoleTypes, PTL
<1>2. ServicesSpec => []Async!TypeOK
  <2>1. ServicesInit => Async!Init
    BY DEF ServicesInit
  <2> QED BY <2>1, PartsStep, WorkerIsSafe, PTL DEF ServicesSpec, servicesVars
<1>3. ServicesSpec => []Wheel!TypeOK
  <2>1. ServicesInit => WheelProof!Init
    BY SameInit DEF ServicesInit
  <2>2. [ServicesNext]_servicesVars => [WheelProof!Next]_(WheelProof!vars)
    BY PartsStep, SameNext
  <2>3. WheelProof!Spec => [](WheelProof!TypeOK /\ WheelProof!FiresOnTime)
    BY WheelProof!NoTimerIsLate
  <2> QED BY <2>1, <2>2, <2>3, SameTypes, PTL DEF ServicesSpec, servicesVars, WheelProof!Spec
<1>4. ServicesSpec => []Registry!TypeOK
  <2>1. ServicesInit => Registry!Init
    BY DEF ServicesInit
  <2> QED BY <2>1, PartsStep, NoChangeIsMissed, PTL DEF ServicesSpec, servicesVars
<1>5. ServicesSpec => []RabbitMQ!TypeOK
  <2>1. ServicesInit => RabbitMQ!Init
    BY DEF ServicesInit
  <2> QED BY <2>1, PartsStep, BusIsSound, PTL DEF ServicesSpec, servicesVars, RabbitMQ!Spec
<1>6. ServicesSpec => []Slots!TypeOK
  <2>1. ServicesInit => Slots!Init
    BY DEF ServicesInit
  <2> QED BY <2>1, PartsStep, SlotsAreCounted, PTL DEF ServicesSpec, servicesVars, Slots!Spec
<1>7. ServicesSpec => []Routes!TypeOK
  <2>1. ServicesInit => RouteInv
    BY InitRouteInv DEF ServicesInit
  <2>2. RouteInv /\ [Routes!Next]_(Routes!vars) => RouteInv'
    BY NextRouteInv
  <2>3. RouteInv => Routes!TypeOK
    BY RouteTypes
  <2> QED BY <2>1, <2>2, <2>3, PartsStep, PTL DEF ServicesSpec, servicesVars
<1> QED BY <1>1, <1>2, <1>3, <1>4, <1>5, <1>6, <1>7, PTL DEF ServicesTypeOK
===============================================================================
