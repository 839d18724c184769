-------------------------------- MODULE Bus --------------------------------
(***************************************************************************)
(* The RabbitMQ driver of one server and the Router that owns it: the      *)
(* first connection, the goroutine that consumes and reconnects, and the   *)
(* way down from BeginShutdown to the end of Close.  The TCP connection    *)
(* and the AMQP channel on it may break on their own, at any time.         *)
(***************************************************************************)
EXTENDS Naturals, FiniteSets

CONSTANTS
    Conns,          \* connections that may be open at once, and one more
    NoConn,
    MaxBreaks       \* bound: how often something breaks

VARIABLES
    life,       \* of the Router
    receiver,   \* is onRecv set in the driver
    callback,   \* is cbOnRecvSSPacket set in the Router
    run,        \* where the goroutine is
    cur,        \* conn, channel and deliveries of the driver
    held,       \* a connection that is in the goroutine's hands only
    open,       \* connections that are open
    consuming,  \* those whose channel is open
    connected,
    breaks

vars == <<life, receiver, callback, run, cur, held, open, consuming, connected, breaks>>
routerVars == <<life, receiver, callback>>
linkVars == <<open, consuming>>

closed == life \in {"signal", "join", "clear", "done"}
stopped == life \in {"join", "clear", "done"}

TypeOK ==
    /\ life \in {"off", "start", "register", "up", "leaving", "close", "signal", "join", "clear", "done"}
    /\ {receiver, callback, connected} \subseteq BOOLEAN
    /\ run \in {"off", "top", "consume", "check", "call", "lost", "drop", "release", "dial", "store", "ended"}
    /\ {cur, held} \subseteq Conns \cup {NoConn}
    /\ consuming \subseteq open /\ open \subseteq Conns
    /\ breaks \in 0 .. MaxBreaks

Init ==
    /\ life = "off" /\ receiver = FALSE /\ callback = FALSE
    /\ run = "off" /\ cur = NoConn /\ held = NoConn
    /\ open = {} /\ consuming = {}
    /\ connected = FALSE
    /\ breaks = 0
-----------------------------------------------------------------------------
(* RabbitMQ. *)

ConnectionBreaks(c) ==
    /\ breaks < MaxBreaks /\ breaks' = breaks + 1
    /\ c \in open
    /\ open' = open \ {c} /\ consuming' = consuming \ {c}
    /\ UNCHANGED <<routerVars, run, cur, held, connected>>

\* A channel exception, or the consumer is cancelled: the connection stays.
ChannelBreaks(c) ==
    /\ breaks < MaxBreaks /\ breaks' = breaks + 1
    /\ c \in consuming
    /\ consuming' = consuming \ {c}
    /\ UNCHANGED <<routerVars, run, cur, held, open, connected>>

SetUp(c) ==
    /\ c \notin open
    /\ open' = open \cup {c} /\ consuming' = consuming \cup {c}

\* mutant of Release: only the channel is closed.
ReleaseChannel(c) == open' = open /\ consuming' = consuming \ {c}

\* Closing the connection closes the channel with it.
Release(c) == open' = open \ {c} /\ consuming' = consuming \ {c}

-----------------------------------------------------------------------------
(* The way up.  No other goroutine knows the driver before Start returns.   *)

InitAndRun ==
    /\ life = "off" /\ life' = "start"
    /\ receiver' = TRUE /\ callback' = TRUE
    /\ UNCHANGED <<run, cur, held, linkVars, connected, breaks>>

StartConnects(c) ==
    /\ life = "start" /\ life' = "register"
    /\ SetUp(c) /\ cur' = c
    /\ connected' = TRUE
    /\ run' = "top"
    /\ UNCHANGED <<receiver, callback, held, breaks>>

\* What had been set up is closed again; the Router closes the driver all the same.
StartFails ==
    /\ life = "start" /\ life' = "close"
    /\ UNCHANGED <<receiver, callback, run, cur, held, linkVars, connected, breaks>>

\* Service discovery begins, or fails and the driver is closed.
RegisterSelf ==
    /\ life = "register" /\ life' \in {"up", "close"}
    /\ UNCHANGED <<receiver, callback, run, cur, held, linkVars, connected, breaks>>
-----------------------------------------------------------------------------
(* The goroutine.  In its consume loop a closed channel, a stop and a       *)
(* message may all be ready.                                                *)

Goto(place) == run' = place /\ UNCHANGED <<routerVars, cur, held, linkVars, connected, breaks>>

End ==
    /\ run' = "ended" /\ connected' = FALSE
    /\ UNCHANGED <<routerVars, cur, held, linkVars, breaks>>

LookAtClosed == run = "top" /\ IF closed THEN End ELSE Goto("consume")

StopConsuming == run = "consume" /\ stopped /\ End

\* mutant of ChannelEnded: only the connection is watched.
ConnectionEnded == cur \notin open

ChannelEnded == cur \notin consuming

NoticeLoss == run = "consume" /\ ChannelEnded /\ Goto("lost")

\* Also what was buffered before the channel ended.
ReceiveMsg == run = "consume" /\ receiver /\ Goto("check")

\* onRecvBusMsg reads the callback twice.
CheckCallback == run = "check" /\ Goto(IF callback THEN "call" ELSE "consume")
CallCallback == run = "call" /\ Goto("consume")

AfterLoss ==
    /\ run = "lost"
    /\ IF closed THEN End
       ELSE /\ run' = "drop" /\ connected' = FALSE
            /\ UNCHANGED <<routerVars, cur, held, linkVars, breaks>>

TakeOld ==
    /\ run = "drop" /\ run' = "release"
    /\ held' = cur /\ cur' = NoConn
    /\ UNCHANGED <<routerVars, linkVars, connected, breaks>>

ReleaseOld ==
    /\ run = "release" /\ run' = "dial"
    /\ Release(held) /\ held' = NoConn
    /\ UNCHANGED <<routerVars, cur, connected, breaks>>

\* At the head of reconnect's loop, or out of its backoff.
StopDialing == run = "dial" /\ closed /\ End

\* The look at closed and the dialing are apart: a stop may fall between.
Dial(c) ==
    /\ run = "dial" /\ run' = "store"
    /\ SetUp(c) /\ held' = c
    /\ UNCHANGED <<routerVars, cur, connected, breaks>>

\* Channel, queue or consumer fail; a failed dial changes nothing.
SetUpFails ==
    /\ run = "store" /\ run' = "dial"
    /\ Release(held) /\ held' = NoConn
    /\ UNCHANGED <<routerVars, cur, connected, breaks>>

StoreConn ==
    /\ run = "store" /\ run' = "top"
    /\ cur' = held /\ held' = NoConn
    /\ connected' = TRUE
    /\ UNCHANGED <<routerVars, linkVars, breaks>>
-----------------------------------------------------------------------------
(* The way down. *)

\* Quiesce: the bus goes on, as the requests under way need their responses.
BeginShutdown ==
    /\ life = "up" /\ life' = "leaving"
    /\ UNCHANGED <<receiver, callback, run, cur, held, linkVars, connected, breaks>>

\* Stop; after a failed startup without Quiesce.
CloseBegins ==
    /\ life \in {"up", "leaving"} /\ life' = "close"
    /\ receiver' = FALSE
    /\ UNCHANGED <<callback, run, cur, held, linkVars, connected, breaks>>

CloseMarks ==
    /\ life = "close" /\ life' = "signal"
    /\ UNCHANGED <<receiver, callback, run, cur, held, linkVars, connected, breaks>>

CloseSignals ==
    /\ life = "signal" /\ life' = "join"
    /\ connected' = FALSE
    /\ UNCHANGED <<receiver, callback, run, cur, held, linkVars, breaks>>

Joined == run \in {"off", "ended"}

CloseReleases ==
    /\ life = "join" /\ life' = "clear"
    /\ Joined
    /\ Release(cur) /\ cur' = NoConn
    /\ UNCHANGED <<receiver, callback, run, held, connected, breaks>>

\* The rollback of InitAndRun takes neither the receiver nor the callback away.
CloseEnds ==
    /\ life = "clear" /\ life' = "done"
    /\ callback' = (callback /\ receiver)
    /\ UNCHANGED <<receiver, run, cur, held, linkVars, connected, breaks>>

Run ==
    \/ LookAtClosed \/ StopConsuming \/ NoticeLoss
    \/ CheckCallback \/ CallCallback
    \/ AfterLoss \/ TakeOld \/ ReleaseOld
    \/ StopDialing \/ \E c \in Conns : Dial(c)
    \/ StoreConn

WayDown == CloseMarks \/ CloseSignals \/ CloseReleases \/ CloseEnds

Next ==
    \/ \E c \in Conns : ConnectionBreaks(c) \/ ChannelBreaks(c) \/ StartConnects(c)
    \/ InitAndRun \/ StartFails \/ RegisterSelf
    \/ Run \/ ReceiveMsg \/ SetUpFails
    \/ BeginShutdown \/ CloseBegins \/ WayDown

\* The callback returns (after three seconds at the latest), select is fair to
\* its cases, and RabbitMQ takes the server back in the end.
Fairness ==
    /\ WF_vars(Run) /\ WF_vars(WayDown)
    /\ SF_vars(NoticeLoss \/ StopConsuming \/ StoreConn)

Spec == Init /\ [][Next]_vars /\ Fairness
-----------------------------------------------------------------------------
(* Properties. *)

OneConnection == Cardinality(open) <= 1 /\ open \subseteq {cur, held}
SendFindsChannel == connected => cur # NoConn
CallbackStands == run = "call" => callback

\* However the breaks, the reconnects and Close fall: at most one connection is
\* open and somebody will close it, a bus that calls itself connected has a channel
\* to send on, and no message meets a callback that Close has taken away.
BusSound == OneConnection /\ SendFindsChannel /\ CallbackStands

Recovered == life \in {"up", "leaving"} => connected /\ cur \in consuming
LeftNothing == life = "done" /\ open = {} /\ run \in {"off", "ended"}

\* When nothing breaks any more, the bus consumes again, whatever broke and
\* whenever; and Close returns wherever the goroutine is, with nothing left open.
BusLive == <>[](Recovered /\ (closed => LeftNothing))
=============================================================================
