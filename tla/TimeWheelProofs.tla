---------------------------- MODULE TimeWheelProofs ----------------------------
(***************************************************************************)
(* No timer of the wheel is overdue, for any number of slots, layers and   *)
(* timers.  A layer's pointer is the last digit of the number of moves it  *)
(* has made, and a timer above the lowest layer waits in a slot that the   *)
(* pointer reaches before the timer is due; there it falls to a lower one. *)
(***************************************************************************)
EXTENDS TimeWheel, WellFoundedInduction, TLAPS

\* What NewTimeWheel and its options allow.
Sizes ==
    /\ SlotNum \in Nat \ {0} /\ LayerNum \in Nat \ {0}
    /\ Delays \subseteq Nat /\ MaxElapsed \in Nat
    /\ AddBuffer \in Nat /\ RemoveBuffer \in Nat

\* The moves that each pointer has made, the overflow of the highest layer
\* included: E[i] in base SlotNum ends with the pointer of layer i.
Clock(now, pos, E) ==
    /\ E \in [0 .. LayerNum -> Nat] /\ E[0] = now
    /\ \A i \in Layers : E[i] = E[i + 1] * SlotNum + pos[i]

\* In this place a timer is run, or taken down, when it is due at the latest: q is
\* the move of the pointer that brings it to the slot.
InTime(place, due, now, E) ==
    /\ place[1] = 0 => now <= due /\ \E k \in Nat : due = k * SlotNum + place[2]
    /\ place[1] > 0 =>
        \E q, k \in Nat : /\ q = k * SlotNum + place[2]
                          /\ q > E[place[1]]
                          /\ q * PerSlot[place[1]] <= due

\* The inductive invariant.
OnTimeInv ==
    \E E \in [0 .. LayerNum -> Nat] :
        /\ Clock(elapsed, curPos, E)
        /\ \A t \in Timers : InWheel(t) => InTime(loc[t], expiration[t], elapsed, E)
-----------------------------------------------------------------------------
(* Arithmetic. *)

LEMMA Least == ASSUME NEW T, T \subseteq Nat, T # {} PROVE \E n \in T : \A m \in T : n <= m
  <1>1. PICK n \in T : \A m \in T : ~(<<m, n>> \in OpToRel(<, Nat))
    BY NatLessThanWellFounded, WFMin
  <1>2. ASSUME NEW m \in T PROVE n <= m
    <2>1. <<m, n>> \notin OpToRel(<, Nat)
      BY <1>1
    <2> QED BY <2>1 DEF OpToRel
  <1> QED BY <1>2

LEMMA Times ==
    ASSUME NEW a \in Nat, NEW b \in Nat, NEW c \in Nat
    PROVE  /\ a * b \in Nat
           /\ a <= b => a * c <= b * c
           /\ (a + 1) * c = a * c + c
           /\ a # 0 /\ b # 0 => a * b # 0
  OBVIOUS

LEMMA Division ==
    ASSUME NEW a \in Int, NEW b \in Int, b > 0
    PROVE  \E q \in Int, r \in 0 .. b - 1 : q = a \div b /\ r = a % b /\ a = q * b + r
  OBVIOUS

LEMMA DivMod ==
    ASSUME NEW a \in Nat, NEW b \in Nat \ {0}
    PROVE  \E q \in Nat, r \in 0 .. b - 1 :
               q = a \div b /\ r = a % b /\ a = q * b + r /\ (b <= a => q # 0)
  <1>1. a \in Int /\ b \in Int /\ b > 0
    OBVIOUS
  <1>2. PICK q \in Int, r \in 0 .. b - 1 : q = a \div b /\ r = a % b /\ a = q * b + r
    BY <1>1, Division
  <1>3. q \in Nat /\ (b <= a => q # 0)
    <2>1. ASSUME q < 0 PROVE FALSE
      <3>1. q * b <= (-1) * b
        BY <1>1, <2>1
      <3> QED BY <1>1, <1>2, <3>1
    <2>2. q = 0 => a < b
      BY <1>1, <1>2
    <2> QED BY <2>1, <2>2
  <1> QED BY <1>2, <1>3

\* A number has one last digit.
LEMMA LastDigit ==
    ASSUME NEW b \in Nat \ {0}, NEW k \in Nat, NEW m \in Nat, NEW c \in 0 .. b - 1, NEW d \in 0 .. b - 1,
           k * b + c = m * b + d
    PROVE  c = d
  <1>1. ASSUME NEW x \in Nat, NEW y \in Nat, NEW u \in 0 .. b - 1, NEW v \in 0 .. b - 1, x < y
        PROVE  x * b + u < y * b + v
    <2>1. (x + 1) * b <= y * b /\ (x + 1) * b = x * b + b /\ x * b \in Nat /\ y * b \in Nat
      BY <1>1, Times
    <2> QED BY <2>1
  <1>2. k = m
    BY <1>1
  <1>3. k * b \in Nat
    BY Times
  <1> QED BY <1>2, <1>3

LEMMA NextDigit ==
    ASSUME NEW b \in Nat \ {0}, NEW c \in 0 .. b - 1
    PROVE  (c + 1) % b = IF c = b - 1 THEN 0 ELSE c + 1
  <1>1. PICK q \in Nat, r \in 0 .. b - 1 : r = (c + 1) % b /\ c + 1 = q * b + r
    <2>1. c + 1 \in Nat
      OBVIOUS
    <2> QED BY <2>1, DivMod
  <1>2. CASE c = b - 1
    <2>1. 1 * b + 0 = q * b + r /\ 0 \in 0 .. b - 1
      BY <1>1, <1>2
    <2> QED BY <1>1, <1>2, <2>1, LastDigit
  <1>3. CASE c # b - 1
    <2>1. c + 1 \in 0 .. b - 1 /\ 0 * b + (c + 1) = q * b + r
      BY <1>1, <1>3
    <2> QED BY <1>1, <1>3, <2>1, LastDigit
  <1> QED BY <1>2, <1>3

LEMMA Products ==
    ASSUME NEW a \in Nat, NEW b \in Nat, NEW c \in Nat, NEW d \in Nat
    PROVE  /\ a * (c * b) = (a * b) * c
           /\ (a + d) * c = a * c + d * c
  OBVIOUS
-----------------------------------------------------------------------------
(* The layers. *)

\* Each slot of a layer stands for as many ticks as a turn of the layer below.
LEMMA PerSlotDef ==
    ASSUME Sizes
    PROVE  PerSlot = [i \in Layers |-> IF i = 0 THEN 1 ELSE PerSlot[i - 1] * SlotNum]
  <1> DEFINE Defined(n) == \E f : f = [i \in 0 .. n - 1 |-> IF i = 0 THEN 1 ELSE f[i - 1] * SlotNum]
             Undefined == {n \in Nat : ~Defined(n)}
  <1>1. ASSUME Undefined # {} PROVE FALSE
    <2>1. Undefined \subseteq Nat
      OBVIOUS
    <2>2. PICK n \in Undefined : \A m \in Undefined : n <= m
      BY <1>1, <2>1, Least
    <2>3. n # 0
      <3> DEFINE none == [i \in 0 .. 0 - 1 |-> 1]
      <3>1. none = [i \in 0 .. 0 - 1 |-> IF i = 0 THEN 1 ELSE none[i - 1] * SlotNum]
        OBVIOUS
      <3>2. Defined(0)
        BY <3>1
      <3> QED BY <3>2
    <2>4. n - 1 \in Nat /\ n - 1 < n
      BY <2>3
    <2>5. Defined(n - 1)
      <3>1. n - 1 \notin Undefined
        <4> HIDE DEF Undefined
        <4>1. n \in Nat
          BY <2>1, <2>2
        <4> QED BY <2>2, <2>4, <4>1
      <3> HIDE DEF Defined
      <3> QED BY <2>4, <3>1
    <2>6. PICK f : f = [i \in 0 .. (n - 1) - 1 |-> IF i = 0 THEN 1 ELSE f[i - 1] * SlotNum]
      BY <2>5
    <2> DEFINE g == [i \in 0 .. n - 1 |-> IF i = 0 THEN 1 ELSE f[i - 1] * SlotNum]
    <2>7. ASSUME NEW i \in 0 .. n - 1, i # 0 PROVE f[i - 1] = g[i - 1]
      <3>1. i - 1 \in 0 .. (n - 1) - 1 /\ i - 1 \in 0 .. n - 1
        BY <2>7
      <3> QED BY <2>6, <3>1
    <2>8. g = [i \in 0 .. n - 1 |-> IF i = 0 THEN 1 ELSE g[i - 1] * SlotNum]
      BY <2>7
    <2>9. Defined(n)
      BY <2>8
    <2> QED BY <2>2, <2>9
  <1>2. LayerNum \in Nat
    BY DEF Sizes
  <1>3. Defined(LayerNum)
    BY <1>1, <1>2
  <1>4. PICK f : f = [i \in 0 .. LayerNum - 1 |-> IF i = 0 THEN 1 ELSE f[i - 1] * SlotNum]
    BY <1>3
  <1>5. f = [i \in Layers |-> IF i = 0 THEN 1 ELSE f[i - 1] * SlotNum]
    BY <1>4 DEF Layers
  <1> HIDE DEF Defined, Undefined
  <1> QED BY <1>5 DEF PerSlot

LEMMA Below == ASSUME Sizes, NEW i \in Layers, i # 0 PROVE i - 1 \in Layers
  BY DEF Sizes, Layers

LEMMA PerSlots ==
    ASSUME Sizes
    PROVE  /\ PerSlot \in [Layers -> Nat \ {0}] /\ PerSlot[0] = 1
           /\ \A i \in Layers \ {0} : PerSlot[i] = PerSlot[i - 1] * SlotNum
  <1>1. PerSlot = [i \in Layers |-> IF i = 0 THEN 1 ELSE PerSlot[i - 1] * SlotNum]
    BY PerSlotDef
  <1>2. \A i \in Layers : PerSlot[i] = IF i = 0 THEN 1 ELSE PerSlot[i - 1] * SlotNum
    BY <1>1
  <1>3. 0 \in Layers
    BY DEF Sizes, Layers
  <1> DEFINE Bad == {i \in Layers : PerSlot[i] \notin Nat \ {0}}
  <1>4. ASSUME Bad # {} PROVE FALSE
    <2>1. Bad \subseteq Nat
      BY DEF Layers
    <2>2. PICK i \in Bad : \A m \in Bad : i <= m
      BY <1>4, <2>1, Least
    <2>3. i # 0
      BY <1>2
    <2>4. i - 1 \in Layers /\ i - 1 < i
      BY <2>3, Below DEF Layers
    <2>5. PerSlot[i - 1] \in Nat \ {0}
      BY <2>2, <2>4 DEF Layers
    <2>6. PerSlot[i - 1] * SlotNum \in Nat \ {0}
      BY <2>5, Times DEF Sizes
    <2> QED BY <1>2, <2>2, <2>3, <2>6
  <1>5. DOMAIN PerSlot = Layers
    BY <1>1
  <1>6. \A i \in Layers : PerSlot[i] \in Nat \ {0}
    BY <1>4
  <1>7. PerSlot = [i \in Layers |-> PerSlot[i]]
    BY <1>1
  <1>8. PerSlot \in [Layers -> Nat \ {0}]
    BY <1>6, <1>7
  <1> QED BY <1>2, <1>3, <1>8

LEMMA ClockOf ==
    ASSUME Sizes, NEW now \in Nat, NEW pos \in [Layers -> 0 .. SlotNum - 1], NEW E, Clock(now, pos, E),
           NEW i \in Layers
    PROVE  /\ i \in 0 .. LayerNum /\ i + 1 \in 0 .. LayerNum
           /\ E[i] \in Nat /\ E[i + 1] \in Nat /\ pos[i] \in 0 .. SlotNum - 1
           /\ E[i] = E[i + 1] * SlotNum + pos[i]
  <1>1. i \in 0 .. LayerNum /\ i + 1 \in 0 .. LayerNum
    BY DEF Sizes, Layers
  <1> QED BY <1>1 DEF Clock

\* The last move of a layer's pointer, and the next: between the two, time stands;
\* when all pointers below are at their ends, the next one is due.
LEMMA ClockBounds ==
    ASSUME Sizes, NEW now \in Nat, NEW pos \in [Layers -> 0 .. SlotNum - 1], NEW E, Clock(now, pos, E)
    PROVE  \A i \in Layers :
              /\ E[i] * PerSlot[i] <= now /\ now < (E[i] + 1) * PerSlot[i]
              /\ (\A j \in 0 .. i - 1 : pos[j] = SlotNum - 1) => now + 1 = (E[i] + 1) * PerSlot[i]
  <1> DEFINE Good(i) ==
                /\ E[i] * PerSlot[i] <= now /\ now < (E[i] + 1) * PerSlot[i]
                /\ (\A j \in 0 .. i - 1 : pos[j] = SlotNum - 1) => now + 1 = (E[i] + 1) * PerSlot[i]
             Bad == {i \in Layers : ~Good(i)}
  <1>1. ASSUME Bad # {} PROVE FALSE
    <2>1. Bad \subseteq Nat
      BY DEF Layers
    <2>2. PICK i \in Bad : \A m \in Bad : i <= m
      BY <1>1, <2>1, Least
    <2>3. i # 0
      <3>1. Good(0)
        BY PerSlots DEF Clock
      <3> QED BY <2>2, <3>1
    <2> DEFINE b == i - 1
    <2>4. b \in Layers /\ b < i /\ b + 1 = i /\ b \in Nat
      BY <2>3, Below DEF Layers
    <2>5. Good(b)
      BY <2>2, <2>4 DEF Layers
    <2>6. /\ E[b] \in Nat /\ E[i] \in Nat /\ pos[b] \in 0 .. SlotNum - 1
          /\ E[b] = E[i] * SlotNum + pos[b]
      BY <2>4, ClockOf
    <2>7. PerSlot[b] \in Nat /\ PerSlot[i] = PerSlot[b] * SlotNum /\ SlotNum \in Nat
      BY <2>3, <2>4, PerSlots DEF Sizes
    <2>8. \A x \in Nat : x * PerSlot[i] = (x * SlotNum) * PerSlot[b] /\ x * SlotNum \in Nat
      BY <2>7, Products, Times
    <2>9. (E[i] * SlotNum) * PerSlot[b] <= E[b] * PerSlot[b]
      <3>1. E[i] * SlotNum \in Nat /\ E[i] * SlotNum <= E[b]
        BY <2>6, <2>8
      <3> QED BY <2>6, <2>7, <3>1, Times
    <2>10. (E[i] + 1) * SlotNum = E[i] * SlotNum + SlotNum
      BY <2>6, <2>7, Times
    <2>11. (E[b] + 1) * PerSlot[b] <= ((E[i] + 1) * SlotNum) * PerSlot[b]
      <3>1. (E[i] + 1) * SlotNum \in Nat /\ E[b] + 1 \in Nat /\ E[b] + 1 <= (E[i] + 1) * SlotNum
        BY <2>6, <2>7, <2>8, <2>10
      <3> QED BY <2>7, <3>1, Times
    <2>12. pos[b] = SlotNum - 1 => E[b] + 1 = (E[i] + 1) * SlotNum
      BY <2>6, <2>7, <2>8, <2>10
    <2>13. /\ E[i] * PerSlot[i] = (E[i] * SlotNum) * PerSlot[b]
           /\ (E[i] + 1) * PerSlot[i] = ((E[i] + 1) * SlotNum) * PerSlot[b]
      BY <2>6, <2>8
    <2>14. /\ E[i] * PerSlot[i] \in Nat /\ (E[i] + 1) * PerSlot[i] \in Nat
           /\ E[b] * PerSlot[b] \in Nat /\ (E[b] + 1) * PerSlot[b] \in Nat
      <3>1. PerSlot[i] \in Nat
        BY <2>4, PerSlots
      <3>2. E[i] + 1 \in Nat /\ E[b] + 1 \in Nat
        BY <2>6
      <3> QED BY <2>6, <2>7, <3>1, <3>2, Times
    <2>15. E[i] * PerSlot[i] <= now /\ now < (E[i] + 1) * PerSlot[i]
      <3>1. E[b] * PerSlot[b] <= now /\ now < (E[b] + 1) * PerSlot[b]
        BY <2>5
      <3> QED BY <2>9, <2>11, <2>13, <2>14, <3>1
    <2>16. ASSUME \A j \in 0 .. i - 1 : pos[j] = SlotNum - 1 PROVE now + 1 = (E[i] + 1) * PerSlot[i]
      <3>1. pos[b] = SlotNum - 1 /\ \A j \in 0 .. b - 1 : pos[j] = SlotNum - 1
        BY <2>4, <2>16
      <3>2. now + 1 = (E[b] + 1) * PerSlot[b]
        BY <2>5, <3>1
      <3> QED BY <2>12, <2>13, <3>1, <3>2
    <2> QED BY <2>2, <2>15, <2>16
  <1> QED BY <1>1

\* The tick moves the pointers as an odometer.
NextMoves(E) == [i \in 0 .. LayerNum |-> IF Moves(i) THEN E[i] + 1 ELSE E[i]]

LEMMA NextClock ==
    ASSUME Sizes, NEW E, elapsed \in Nat, curPos \in [Layers -> 0 .. SlotNum - 1], Clock(elapsed, curPos, E)
    PROVE  /\ NextPos \in [Layers -> 0 .. SlotNum - 1]
           /\ Clock(elapsed + 1, NextPos, NextMoves(E))
  <1> DEFINE F == NextMoves(E)
  <1>1. \A i \in 0 .. LayerNum : E[i] \in Nat
    BY DEF Clock
  <1>2. F \in [0 .. LayerNum -> Nat]
    BY <1>1 DEF NextMoves
  <1>3. F[0] = elapsed + 1
    <2>1. Moves(0) /\ 0 \in 0 .. LayerNum
      BY DEF Moves, Sizes
    <2> QED BY <2>1 DEF Clock, NextMoves
  <1>4. ASSUME NEW i \in Layers PROVE NextPos[i] \in 0 .. SlotNum - 1 /\ F[i] = F[i + 1] * SlotNum + NextPos[i]
    <2>1. /\ i \in 0 .. LayerNum /\ i + 1 \in 0 .. LayerNum
          /\ E[i] \in Nat /\ E[i + 1] \in Nat /\ curPos[i] \in 0 .. SlotNum - 1
          /\ E[i] = E[i + 1] * SlotNum + curPos[i]
      BY ClockOf
    <2>2. Moves(i + 1) <=> Moves(i) /\ curPos[i] = SlotNum - 1
      <3>1. 0 .. (i + 1) - 1 = (0 .. i - 1) \cup {i}
        BY DEF Layers
      <3> QED BY <3>1 DEF Moves
    <2>3. NextPos[i] = IF ~Moves(i) THEN curPos[i] ELSE IF curPos[i] = SlotNum - 1 THEN 0 ELSE curPos[i] + 1
      <3>1. (curPos[i] + 1) % SlotNum = IF curPos[i] = SlotNum - 1 THEN 0 ELSE curPos[i] + 1
        BY <2>1, NextDigit DEF Sizes
      <3> QED BY <3>1 DEF NextPos
    <2>4. /\ F[i] = IF Moves(i) THEN E[i] + 1 ELSE E[i]
          /\ F[i + 1] = IF Moves(i + 1) THEN E[i + 1] + 1 ELSE E[i + 1]
      BY <2>1 DEF NextMoves
    <2>5. SlotNum \in Nat \ {0} /\ (E[i + 1] + 1) * SlotNum = E[i + 1] * SlotNum + SlotNum
      BY <2>1, Times DEF Sizes
    <2>6. E[i + 1] * SlotNum \in Nat
      BY <2>1, <2>5, Times
    <2>7. NextPos[i] \in 0 .. SlotNum - 1
      BY <2>1, <2>3, <2>5
    <2>8. CASE ~Moves(i)
      BY <2>1, <2>2, <2>3, <2>4, <2>8
    <2>9. CASE Moves(i) /\ curPos[i] # SlotNum - 1
      <3>1. F[i] = E[i] + 1 /\ F[i + 1] = E[i + 1] /\ NextPos[i] = curPos[i] + 1
        BY <2>2, <2>3, <2>4, <2>9
      <3> QED BY <2>1, <2>6, <2>7, <3>1
    <2>10. CASE Moves(i) /\ curPos[i] = SlotNum - 1
      <3>1. F[i] = E[i] + 1 /\ F[i + 1] = E[i + 1] + 1 /\ NextPos[i] = 0
        BY <2>2, <2>3, <2>4, <2>10
      <3> QED BY <2>1, <2>5, <2>6, <2>7, <2>10, <3>1
    <2> QED BY <2>7, <2>8, <2>9, <2>10
  <1>5. NextPos \in [Layers -> 0 .. SlotNum - 1]
    BY <1>4 DEF NextPos
  <1> QED BY <1>2, <1>3, <1>4, <1>5 DEF Clock
-----------------------------------------------------------------------------
(* The places. *)

\* The layer is one that is allowed, and above the lowest one the delay is a slot
\* of it at least.
LEMMA Layer ==
    ASSUME Sizes, NEW remaining \in Nat, NEW maxIdx \in Layers
    PROVE  LET i == LayerFor(remaining, maxIdx) IN
           i \in 0 .. maxIdx /\ (i # 0 => PerSlot[i] <= remaining)
  <1> DEFINE Allowed == {i \in 0 .. maxIdx : LayerCapacity(i) > remaining} \cup {maxIdx}
             i == LayerFor(remaining, maxIdx)
  <1>1. Allowed \subseteq Nat /\ Allowed # {} /\ Allowed \subseteq 0 .. maxIdx
    BY DEF Layers
  <1>2. \E x \in Allowed : \A y \in Allowed : x <= y
    <2> HIDE DEF Allowed
    <2> QED BY <1>1, Least
  <1>3. i \in Allowed /\ \A y \in Allowed : i <= y
    <2>1. i = Min(Allowed)
      BY DEF LayerFor
    <2> HIDE DEF i, Allowed
    <2> QED BY <1>2, <2>1 DEF Min
  <1>4. i \in 0 .. maxIdx /\ i \in Layers
    <2>1. i \in 0 .. maxIdx
      BY <1>1, <1>3
    <2> QED BY <2>1 DEF Layers, Sizes
  <1>5. ASSUME i # 0 PROVE PerSlot[i] <= remaining
    <2>1. i - 1 \in 0 .. maxIdx /\ i - 1 \in Layers /\ i - 1 < i
      BY <1>4, <1>5, Below DEF Layers
    <2>2. i - 1 \notin Allowed
      <3> HIDE DEF Allowed
      <3> QED BY <1>3, <1>4, <2>1
    <2>3. ~(LayerCapacity(i - 1) > remaining)
      BY <2>1, <2>2
    <2>4. PerSlot[i] = LayerCapacity(i - 1) /\ PerSlot[i] \in Nat
      <3> HIDE DEF i
      <3> QED BY <1>4, <1>5, <2>1, PerSlots DEF LayerCapacity
    <2> HIDE DEF i
    <2> QED BY <2>3, <2>4
  <1> QED BY <1>4, <1>5

\* Whatever the delay, whatever layer is allowed: the place is in time, that of a
\* delay beyond the highest layer too.
LEMMA PlaceInTime ==
    ASSUME Sizes, NEW now \in Nat, NEW pos \in [Layers -> 0 .. SlotNum - 1], NEW E, Clock(now, pos, E),
           NEW remaining \in Nat, NEW maxIdx \in Layers
    PROVE  /\ PlaceFor(remaining, maxIdx, pos) \in Places
           /\ PlaceFor(remaining, maxIdx, pos)[1] \in 0 .. maxIdx
           /\ InTime(PlaceFor(remaining, maxIdx, pos), now + remaining, now, E)
  <1> DEFINE i == LayerFor(remaining, maxIdx)
             slot == SlotFor(remaining, i, pos)
  <1>1. i \in 0 .. maxIdx /\ (i # 0 => PerSlot[i] <= remaining)
    BY Layer
  <1>2. PlaceFor(remaining, maxIdx, pos) = <<i, slot>>
    BY DEF PlaceFor
  <1> HIDE DEF i
  <1>3. i \in Layers
    BY <1>1 DEF Layers, Sizes
  <1>4. /\ E[i] \in Nat /\ E[i + 1] \in Nat /\ pos[i] \in 0 .. SlotNum - 1
        /\ E[i] = E[i + 1] * SlotNum + pos[i]
    BY <1>3, ClockOf
  <1>5. PerSlot[i] \in Nat \ {0}
    BY <1>3, PerSlots
  <1>6. PICK d \in Nat, r \in 0 .. PerSlot[i] - 1 :
            /\ d = remaining \div PerSlot[i] /\ remaining = d * PerSlot[i] + r
            /\ PerSlot[i] <= remaining => d # 0
    BY <1>5, DivMod
  <1>7. pos[i] + d \in Nat /\ SlotNum \in Nat \ {0}
    BY <1>4 DEF Sizes
  <1>8. PICK k \in Nat, s \in 0 .. SlotNum - 1 : s = (pos[i] + d) % SlotNum /\ pos[i] + d = k * SlotNum + s
    BY <1>7, DivMod
  <1>9. slot = s
    BY <1>6, <1>8 DEF SlotFor
  <1> HIDE DEF slot
  <1> DEFINE q == E[i] + d
             m == E[i + 1] + k
  <1>10. q \in Nat /\ m \in Nat
    BY <1>4
  <1>11. q = m * SlotNum + slot
    <2>1. m * SlotNum = E[i + 1] * SlotNum + k * SlotNum
      BY <1>4, <1>7, Products
    <2>2. E[i + 1] * SlotNum \in Nat /\ k * SlotNum \in Nat
      BY <1>4, <1>7, Times
    <2> HIDE DEF m
    <2> QED BY <1>4, <1>8, <1>9, <2>1, <2>2
  <1>12. ASSUME i = 0 PROVE now + remaining = q
    <2>1. PerSlot[0] = 1 /\ E[0] = now
      BY PerSlots DEF Clock
    <2> QED BY <1>6, <1>12, <2>1
  <1>13. ASSUME i # 0 PROVE q > E[i] /\ q * PerSlot[i] <= now + remaining
    <2>1. d # 0
      BY <1>1, <1>6, <1>13
    <2>2. q * PerSlot[i] = E[i] * PerSlot[i] + d * PerSlot[i]
      BY <1>4, <1>5, Products
    <2>3. E[i] * PerSlot[i] <= now
      BY <1>3, ClockBounds
    <2>4. E[i] * PerSlot[i] \in Nat /\ d * PerSlot[i] \in Nat
      BY <1>4, <1>5, Times
    <2>5. q > E[i]
      BY <1>4, <2>1
    <2>6. d * PerSlot[i] <= remaining
      BY <1>5, <1>6, <2>4
    <2> HIDE DEF q
    <2> QED BY <2>2, <2>3, <2>4, <2>5, <2>6
  <1> HIDE DEF q, m
  <1>14. InTime(<<i, slot>>, now + remaining, now, E)
    <2>1. now <= now + remaining
      OBVIOUS
    <2>2. i = 0 => \E x \in Nat : now + remaining = x * SlotNum + slot
      BY <1>10, <1>11, <1>12
    <2>3. i > 0 => i # 0
      BY <1>3 DEF Layers
    <2>4. i > 0 => \E x, y \in Nat : x = y * SlotNum + slot /\ x > E[i] /\ x * PerSlot[i] <= now + remaining
      BY <1>10, <1>11, <1>13, <2>3
    <2> QED BY <2>1, <2>2, <2>4 DEF InTime
  <1>15. <<i, slot>> \in Places
    BY <1>3, <1>9 DEF Places
  <1> QED BY <1>1, <1>2, <1>14, <1>15

\* From one layer to the next below it, down to a place that the pointer is not at.
LEMMA FallInTime ==
    ASSUME Sizes, NEW now \in Nat, NEW pos \in [Layers -> 0 .. SlotNum - 1], NEW E, Clock(now, pos, E),
           NEW remaining \in Nat, NEW fall,
           fall = [maxIdx \in Layers |->
                     LET p == PlaceFor(remaining, maxIdx, pos)
                     IN  IF p[1] > 0 /\ p[2] = pos[p[1]] THEN fall[p[1] - 1] ELSE p]
    PROVE  \A m \in Layers : fall[m] \in Places /\ InTime(fall[m], now + remaining, now, E)
  <1> DEFINE Good(m) == fall[m] \in Places /\ InTime(fall[m], now + remaining, now, E)
             Bad == {m \in Layers : ~Good(m)}
             place(m) == PlaceFor(remaining, m, pos)
  <1>1. ASSUME Bad # {} PROVE FALSE
    <2>1. Bad \subseteq Nat
      BY DEF Layers
    <2>2. PICK m \in Bad : \A n \in Bad : m <= n
      <3> HIDE DEF Bad
      <3> QED BY <1>1, <2>1, Least
    <2>3. m \in Layers /\ ~Good(m)
      BY <2>2
    <2>4. place(m) \in Places /\ place(m)[1] \in 0 .. m /\ InTime(place(m), now + remaining, now, E)
      BY <2>3, PlaceInTime
    <2>5. fall[m] = IF place(m)[1] > 0 /\ place(m)[2] = pos[place(m)[1]] THEN fall[place(m)[1] - 1] ELSE place(m)
      BY <2>3
    <2> HIDE DEF place
    <2>6. CASE place(m)[1] > 0 /\ place(m)[2] = pos[place(m)[1]]
      <3> DEFINE n == place(m)[1] - 1
      <3>1. n \in Layers /\ n < m
        <4> DEFINE l == place(m)[1]
        <4>1. l \in 0 .. m /\ l > 0
          BY <2>4, <2>6
        <4>2. LayerNum \in Nat /\ m \in 0 .. LayerNum - 1
          BY <2>3 DEF Layers, Sizes
        <4>3. n = l - 1
          OBVIOUS
        <4> HIDE DEF l, n
        <4> QED BY <4>1, <4>2, <4>3 DEF Layers
      <3>2. n \notin Bad
        <4>1. m \in Nat /\ n \in Nat
          BY <2>3, <3>1 DEF Layers
        <4> HIDE DEF Bad, n
        <4> QED BY <2>2, <3>1, <4>1
      <3>3. Good(n)
        BY <3>1, <3>2
      <3>4. fall[m] = fall[n]
        BY <2>5, <2>6
      <3> QED BY <2>3, <3>3, <3>4
    <2>7. CASE ~(place(m)[1] > 0 /\ place(m)[2] = pos[place(m)[1]])
      BY <2>3, <2>4, <2>5, <2>7
    <2> QED BY <2>6, <2>7
  <1> QED BY <1>1

\* The way down is defined, as each step of it goes below the last one.
LEMMA FallDef ==
    ASSUME Sizes, NEW now \in Nat, NEW pos \in [Layers -> 0 .. SlotNum - 1], NEW E, Clock(now, pos, E),
           NEW remaining \in Nat
    PROVE  \E fall : fall = [maxIdx \in Layers |->
                     LET p == PlaceFor(remaining, maxIdx, pos)
                     IN  IF p[1] > 0 /\ p[2] = pos[p[1]] THEN fall[p[1] - 1] ELSE p]
  <1> DEFINE place(m) == PlaceFor(remaining, m, pos)
             Down(m) == place(m)[1] > 0 /\ place(m)[2] = pos[place(m)[1]]
             Defined(n) == \E f : f = [m \in 0 .. n - 1 |-> IF Down(m) THEN f[place(m)[1] - 1] ELSE place(m)]
             Undefined == {n \in 0 .. LayerNum : ~Defined(n)}
  <1>0. ASSUME NEW m \in Layers PROVE place(m)[1] \in 0 .. m
    BY PlaceInTime
  <1> HIDE DEF place
  <1>1. ASSUME Undefined # {} PROVE FALSE
    <2>1. Undefined \subseteq Nat /\ Undefined \subseteq 0 .. LayerNum
      OBVIOUS
    <2>2. PICK n \in Undefined : \A m \in Undefined : n <= m
      <3> HIDE DEF Undefined
      <3> QED BY <1>1, <2>1, Least
    <2>3. n # 0
      <3> DEFINE none == [m \in 0 .. 0 - 1 |-> 1]
      <3>1. none = [m \in 0 .. 0 - 1 |-> IF Down(m) THEN none[place(m)[1] - 1] ELSE place(m)]
        OBVIOUS
      <3>2. Defined(0)
        BY <3>1
      <3> QED BY <2>2, <3>2
    <2>4. n - 1 \in Nat /\ n - 1 < n /\ n \in 0 .. LayerNum /\ n - 1 \in 0 .. LayerNum
      BY <2>1, <2>2, <2>3 DEF Sizes
    <2>5. Defined(n - 1)
      <3>1. n - 1 \notin Undefined
        <4> HIDE DEF Undefined
        <4> QED BY <2>2, <2>4
      <3> HIDE DEF Defined
      <3> QED BY <2>4, <3>1
    <2>6. PICK f : f = [m \in 0 .. (n - 1) - 1 |-> IF Down(m) THEN f[place(m)[1] - 1] ELSE place(m)]
      BY <2>5
    <2> DEFINE g == [m \in 0 .. n - 1 |-> IF Down(m) THEN f[place(m)[1] - 1] ELSE place(m)]
    <2>7. ASSUME NEW m \in 0 .. n - 1, Down(m) PROVE f[place(m)[1] - 1] = g[place(m)[1] - 1]
      <3>1. m \in Layers
        BY <2>4 DEF Layers, Sizes
      <3>2. place(m)[1] - 1 \in 0 .. (n - 1) - 1 /\ place(m)[1] - 1 \in 0 .. n - 1
        BY <1>0, <2>4, <2>7, <3>1
      <3> HIDE DEF Down
      <3> QED BY <2>6, <3>2
    <2>8. g = [m \in 0 .. n - 1 |-> IF Down(m) THEN g[place(m)[1] - 1] ELSE place(m)]
      <3> HIDE DEF Down
      <3> QED BY <2>7
    <2>9. Defined(n)
      BY <2>8
    <2> QED BY <2>2, <2>9
  <1>2. Defined(LayerNum)
    <2> HIDE DEF Defined
    <2> QED BY <1>1 DEF Sizes
  <1>3. PICK f : f = [m \in 0 .. LayerNum - 1 |-> IF Down(m) THEN f[place(m)[1] - 1] ELSE place(m)]
    BY <1>2
  <1>4. f = [m \in Layers |-> IF Down(m) THEN f[place(m)[1] - 1] ELSE place(m)]
    BY <1>3 DEF Layers
  <1> QED BY <1>4 DEF place
-----------------------------------------------------------------------------
(* The steps. *)

IInv == TypeOK /\ OnTimeInv

LEMMA CascadeInTime ==
    ASSUME Sizes, TypeOK, NEW E, Clock(elapsed, curPos, E), NEW t \in Timers,
           loc[t][1] \in Layers \ {0}, elapsed + 1 <= expiration[t]
    PROVE  CascadeDown(t) \in Places /\ InTime(CascadeDown(t), expiration[t], elapsed + 1, NextMoves(E))
  <1> DEFINE now == elapsed + 1
             remaining == Max({0, expiration[t] - (elapsed + 1)})
             F == NextMoves(E)
  <1>1. now \in Nat /\ elapsed \in Nat /\ expiration[t] \in Nat /\ curPos \in [Layers -> 0 .. SlotNum - 1]
    BY DEF TypeOK
  <1>2. remaining \in Nat /\ now + remaining = expiration[t]
    <2> DEFINE rest == expiration[t] - (elapsed + 1)
    <2>1. rest \in Nat /\ now + rest = expiration[t]
      BY <1>1
    <2>2. rest \in {0, rest} /\ \A y \in {0, rest} : rest >= y
      BY <2>1
    <2>3. \A x \in {0, rest} : (\A y \in {0, rest} : x >= y) => x = rest
      BY <2>1
    <2>4. remaining = Max({0, rest})
      OBVIOUS
    <2> HIDE DEF rest, remaining
    <2>5. remaining = rest
      BY <2>2, <2>3, <2>4 DEF Max
    <2> QED BY <2>1, <2>5
  <1>3. NextPos \in [Layers -> 0 .. SlotNum - 1] /\ Clock(now, NextPos, F)
    BY <1>1, NextClock
  <1> HIDE DEF F, now, remaining
  <1>4. PICK fall : fall = [maxIdx \in Layers |->
                        LET p == PlaceFor(remaining, maxIdx, NextPos)
                        IN  IF p[1] > 0 /\ p[2] = NextPos[p[1]] THEN fall[p[1] - 1] ELSE p]
    BY <1>1, <1>2, <1>3, FallDef
  <1>5. \E g : /\ g = [maxIdx \in Layers |->
                        LET p == PlaceFor(remaining, maxIdx, NextPos)
                        IN  IF p[1] > 0 /\ p[2] = NextPos[p[1]] THEN g[p[1] - 1] ELSE p]
               /\ CascadeDown(t) = g[loc[t][1] - 1]
    BY <1>4 DEF CascadeDown, remaining
  <1>6. loc[t][1] - 1 \in Layers
    BY Below
  <1>7. \A g : g = [maxIdx \in Layers |->
                        LET p == PlaceFor(remaining, maxIdx, NextPos)
                        IN  IF p[1] > 0 /\ p[2] = NextPos[p[1]] THEN g[p[1] - 1] ELSE p]
                => \A m \in Layers : g[m] \in Places /\ InTime(g[m], now + remaining, now, F)
    BY <1>1, <1>2, <1>3, FallInTime
  <1>8. CascadeDown(t) \in Places /\ InTime(CascadeDown(t), now + remaining, now, F)
    BY <1>5, <1>6, <1>7
  <1> QED BY <1>2, <1>8 DEF F, now

\* The tick: a timer that stays is not due, or its pointer has not reached it.
LEMMA AdvanceInTime ==
    ASSUME Sizes, IInv, Advance
    PROVE  IInv'
  <1>1. PICK E \in [0 .. LayerNum -> Nat] :
            /\ Clock(elapsed, curPos, E)
            /\ \A t \in Timers : InWheel(t) => InTime(loc[t], expiration[t], elapsed, E)
    BY DEF IInv, OnTimeInv
  <1> DEFINE F == NextMoves(E)
  <1>2. TypeOK /\ elapsed \in Nat /\ curPos \in [Layers -> 0 .. SlotNum - 1]
    BY DEF IInv, TypeOK
  <1>3. /\ elapsed' = elapsed + 1 /\ elapsed < MaxElapsed /\ curPos' = NextPos
        /\ UNCHANGED <<state, addCh, removeCh>>
    BY DEF Advance
  <1>4. NextPos \in [Layers -> 0 .. SlotNum - 1] /\ Clock(elapsed + 1, NextPos, F) /\ F \in [0 .. LayerNum -> Nat]
    <2>1. NextPos \in [Layers -> 0 .. SlotNum - 1] /\ Clock(elapsed + 1, NextPos, F)
      BY <1>1, <1>2, NextClock
    <2> QED BY <2>1 DEF Clock
  <1>5. ASSUME NEW t \in Timers, InWheel(t)
        PROVE  \/ RunsNow(t) /\ loc'[t] = Nowhere
               \/ /\ ~RunsNow(t) /\ FallsNow(t)
                  /\ loc'[t] = IF t \in cancelled THEN Nowhere ELSE CascadeDown(t)
               \/ ~RunsNow(t) /\ ~FallsNow(t) /\ loc'[t] = loc[t]
    BY DEF Advance, FallsNow
  <1>6. \A t \in Timers : /\ ~InWheel(t) => loc'[t] = Nowhere
                          /\ loc'[t] # Nowhere => expiration'[t] = expiration[t]
                          /\ expiration'[t] \in {0, expiration[t]}
    BY DEF Advance, InWheel, RunsNow, FallsNow
  <1>7. ASSUME NEW t \in Timers, InWheel(t), ~RunsNow(t)
        PROVE  /\ FallsNow(t) => /\ CascadeDown(t) \in Places
                                 /\ InTime(CascadeDown(t), expiration[t], elapsed + 1, F)
               /\ ~FallsNow(t) => InTime(loc[t], expiration[t], elapsed + 1, F)
    <2> DEFINE i == loc[t][1]
               slot == loc[t][2]
               due == expiration[t]
    <2>1. i \in Layers /\ slot \in 0 .. SlotNum - 1 /\ due \in Nat
      BY <1>2, <1>7 DEF TypeOK, InWheel, Places
    <2>2. InTime(loc[t], due, elapsed, E)
      BY <1>1, <1>7
    <2>3. /\ E[i] \in Nat /\ E[i + 1] \in Nat /\ curPos[i] \in 0 .. SlotNum - 1
          /\ E[i] = E[i + 1] * SlotNum + curPos[i]
      <3> HIDE DEF i
      <3> QED BY <1>1, <1>2, <2>1, ClockOf
    <2>4. /\ F[i] \in Nat /\ F[i + 1] \in Nat /\ NextPos[i] \in 0 .. SlotNum - 1
          /\ F[i] = F[i + 1] * SlotNum + NextPos[i]
      <3>1. elapsed + 1 \in Nat
        BY <1>2
      <3> HIDE DEF F, i
      <3> QED BY <1>4, <2>1, <3>1, ClockOf
    <2>5. F[i] = IF Moves(i) THEN E[i] + 1 ELSE E[i]
      BY <2>1 DEF NextMoves, Layers, Sizes
    <2>6. SlotNum \in Nat \ {0} /\ PerSlot[i] \in Nat \ {0}
      BY <2>1, PerSlots DEF Sizes
    <2> HIDE DEF F
    <2>7. ASSUME i = 0 PROVE ~FallsNow(t) /\ InTime(loc[t], due, elapsed + 1, F)
      <3>1. PICK k \in Nat : due = k * SlotNum + slot
        BY <2>2, <2>7 DEF InTime
      <3>2. elapsed <= due /\ E[0] = elapsed
        BY <1>1, <2>2, <2>7 DEF InTime, Clock
      <3>3. ASSUME due = elapsed PROVE FALSE
        <4>1. k * SlotNum + slot = E[i + 1] * SlotNum + curPos[i]
          BY <2>3, <2>7, <3>1, <3>2, <3>3
        <4>2. slot = curPos[i]
          BY <2>1, <2>3, <2>6, <4>1, LastDigit
        <4>3. Moves(i)
          BY <2>7 DEF Moves
        <4>4. due <= elapsed + 1
          BY <1>2, <3>3
        <4> QED BY <1>7, <4>2, <4>3, <4>4 DEF RunsNow
      <3>4. elapsed + 1 <= due
        BY <1>2, <2>1, <3>2, <3>3
      <3>5. ~FallsNow(t)
        BY <2>7 DEF FallsNow
      <3> QED BY <2>7, <3>1, <3>4, <3>5 DEF InTime
    <2>8. ASSUME i # 0
          PROVE  /\ FallsNow(t) => /\ CascadeDown(t) \in Places
                                   /\ InTime(CascadeDown(t), due, elapsed + 1, F)
                 /\ ~FallsNow(t) => InTime(loc[t], due, elapsed + 1, F)
      <3>1. i > 0
        BY <2>1, <2>8 DEF Layers
      <3>2. PICK q \in Nat, k \in Nat : q = k * SlotNum + slot /\ q > E[i] /\ q * PerSlot[i] <= due
        BY <2>2, <3>1 DEF InTime
      <3>3. ASSUME FallsNow(t) PROVE elapsed + 1 <= due
        <4>1. Moves(i)
          BY <3>3 DEF FallsNow
        <4>2. elapsed + 1 = (E[i] + 1) * PerSlot[i]
          BY <1>1, <1>2, <2>1, <4>1, ClockBounds DEF Moves
        <4>3. (E[i] + 1) * PerSlot[i] <= q * PerSlot[i]
          <5>1. E[i] + 1 \in Nat /\ E[i] + 1 <= q /\ PerSlot[i] \in Nat
            <6> HIDE DEF i
            <6>1. E[i] \in Nat /\ q \in Nat /\ q > E[i]
              BY <2>3, <3>2
            <6> QED BY <2>6, <6>1
          <5> QED BY <5>1, Times
        <4>4. q * PerSlot[i] \in Nat
          BY <2>6, Times
        <4> QED BY <1>2, <2>1, <3>2, <4>2, <4>3, <4>4
      <3>4. FallsNow(t) => /\ CascadeDown(t) \in Places
                           /\ InTime(CascadeDown(t), due, elapsed + 1, F)
        BY <1>1, <1>2, <2>1, <2>8, <3>3, CascadeInTime DEF F
      <3>5. ASSUME ~FallsNow(t) PROVE q > F[i]
        <4>1. ASSUME Moves(i), q = F[i] PROVE FALSE
          <5>1. k * SlotNum + slot = F[i + 1] * SlotNum + NextPos[i]
            BY <2>4, <3>2, <4>1
          <5>2. slot = NextPos[i]
            BY <2>1, <2>4, <2>6, <5>1, LastDigit
          <5> QED BY <1>7, <3>1, <3>5, <4>1, <5>2 DEF FallsNow
        <4> QED BY <2>3, <2>5, <3>2, <4>1
      <3>6. ~FallsNow(t) => InTime(loc[t], due, elapsed + 1, F)
        BY <2>8, <3>2, <3>5 DEF InTime
      <3> QED BY <3>4, <3>6
    <2> QED BY <2>7, <2>8
  <1>8. \A t \in Timers : loc'[t] # Nowhere =>
            loc'[t] \in Places /\ InTime(loc'[t], expiration'[t], elapsed', F)
    <2> SUFFICES ASSUME NEW t \in Timers, loc'[t] # Nowhere
                 PROVE  loc'[t] \in Places /\ InTime(loc'[t], expiration'[t], elapsed', F)
      OBVIOUS
    <2>1. InWheel(t) /\ expiration'[t] = expiration[t]
      BY <1>6
    <2>2. loc[t] \in Places
      BY <1>2, <2>1 DEF TypeOK, InWheel
    <2>3. ~RunsNow(t) /\ (\/ FallsNow(t) /\ loc'[t] = CascadeDown(t)
                          \/ ~FallsNow(t) /\ loc'[t] = loc[t])
      BY <1>5, <2>1
    <2> HIDE DEF F
    <2> QED BY <1>3, <1>7, <2>1, <2>2, <2>3
  <1>9. OnTimeInv'
    <2>1. Clock(elapsed', curPos', F)
      BY <1>3, <1>4
    <2> HIDE DEF F
    <2> QED BY <1>4, <1>8, <2>1 DEF OnTimeInv, InWheel
  <1>10. TypeOK'
    <2>1. elapsed' \in 0 .. MaxElapsed
      BY <1>2, <1>3 DEF Sizes
    <2>2. loc' \in [Timers -> Places \cup {Nowhere}]
      <3>1. \A t \in Timers : loc'[t] \in Places \cup {Nowhere}
        BY <1>8
      <3>2. loc' = [t \in Timers |-> loc'[t]]
        BY DEF Advance
      <3> QED BY <3>1, <3>2
    <2>3. expiration' \in [Timers -> Nat]
      <3>1. \A t \in Timers : expiration'[t] \in Nat
        BY <1>2, <1>6 DEF TypeOK
      <3>2. expiration' = [t \in Timers |-> expiration'[t]]
        BY DEF Advance
      <3> QED BY <3>1, <3>2
    <2>4. cancelled' \subseteq Timers
      BY <1>2 DEF TypeOK, Advance
    <2> QED BY <1>2, <1>3, <1>4, <2>1, <2>2, <2>3, <2>4 DEF TypeOK
  <1> QED BY <1>9, <1>10 DEF IInv

\* A timer arrives, or is run at once when it arrives late.
LEMMA ScheduleInTime ==
    ASSUME Sizes, IInv, Schedule
    PROVE  IInv'
  <1> DEFINE t == Head(addCh)
             remaining == expiration[t] - elapsed
  <1>1. PICK E \in [0 .. LayerNum -> Nat] :
            /\ Clock(elapsed, curPos, E)
            /\ \A u \in Timers : InWheel(u) => InTime(loc[u], expiration[u], elapsed, E)
    BY DEF IInv, OnTimeInv
  <1>2. TypeOK /\ elapsed \in Nat /\ curPos \in [Layers -> 0 .. SlotNum - 1]
    BY DEF IInv, TypeOK
  <1>3. /\ t \in Timers /\ addCh' \in Seq(Timers) /\ Len(addCh') <= AddBuffer
    <2>1. addCh \in Seq(Timers) /\ addCh # <<>> /\ Len(addCh) <= AddBuffer
      BY <1>2 DEF TypeOK, Schedule
    <2>2. addCh' = Tail(addCh)
      BY DEF Schedule
    <2>3. AddBuffer \in Nat /\ Len(addCh) \in Nat /\ Len(Tail(addCh)) = Len(addCh) - 1
      BY <2>1 DEF Sizes
    <2> QED BY <2>1, <2>2, <2>3
  <1>4. UNCHANGED <<state, elapsed, curPos, removeCh>>
    BY DEF Schedule
  <1>5. expiration[t] \in Nat /\ remaining \in Int
    BY <1>2, <1>3 DEF TypeOK
  <1>6. \/ loc' = loc
        \/ /\ remaining \in Nat
           /\ loc' = [loc EXCEPT ![t] = PlaceFor(remaining, LayerNum - 1, curPos)]
    BY <1>5 DEF Schedule
  <1>7. /\ expiration' = IF loc'[t] = Nowhere THEN [expiration EXCEPT ![t] = 0] ELSE expiration
        /\ cancelled' \subseteq cancelled
    BY DEF Schedule
  <1>8. remaining \in Nat =>
            /\ PlaceFor(remaining, LayerNum - 1, curPos) \in Places
            /\ InTime(PlaceFor(remaining, LayerNum - 1, curPos), expiration[t], elapsed, E)
    <2>1. LayerNum - 1 \in Layers
      BY DEF Layers, Sizes
    <2>2. elapsed + remaining = expiration[t]
      BY <1>2, <1>5
    <2> HIDE DEF remaining
    <2> QED BY <1>1, <1>2, <2>1, <2>2, PlaceInTime
  <1> HIDE DEF t, remaining
  <1>9. ASSUME NEW u \in Timers
        PROVE  /\ loc'[u] \in Places \cup {Nowhere}
               /\ loc'[u] # Nowhere => InTime(loc'[u], expiration'[u], elapsed, E)
    <2>1. loc'[u] = loc[u] \/ (u = t /\ remaining \in Nat /\ loc'[u] = PlaceFor(remaining, LayerNum - 1, curPos))
      BY <1>2, <1>3, <1>6 DEF TypeOK
    <2>2. loc'[u] # Nowhere => expiration'[u] = expiration[u]
      BY <1>2, <1>3, <1>7 DEF TypeOK
    <2>3. loc[u] \in Places \cup {Nowhere} /\ (loc[u] # Nowhere => InTime(loc[u], expiration[u], elapsed, E))
      BY <1>1, <1>2 DEF TypeOK, InWheel
    <2> QED BY <1>8, <2>1, <2>2, <2>3
  <1>10. OnTimeInv'
    <2>1. Clock(elapsed', curPos', E)
      BY <1>1, <1>4
    <2> QED BY <1>1, <1>4, <1>9, <2>1 DEF OnTimeInv, InWheel
  <1>11. TypeOK'
    <2>1. loc' \in [Timers -> Places \cup {Nowhere}]
      <3>1. loc' = [u \in Timers |-> loc'[u]]
        BY <1>2, <1>6 DEF TypeOK
      <3> QED BY <1>9, <3>1
    <2>2. expiration' \in [Timers -> Nat]
      BY <1>2, <1>7 DEF TypeOK
    <2> QED BY <1>2, <1>3, <1>4, <1>7, <2>1, <2>2 DEF TypeOK
  <1> QED BY <1>10, <1>11 DEF IInv

LEMMA CallersInTime ==
    ASSUME Sizes, IInv,
           \/ \E t \in Timers : RemoveTimer(t) \/ \E delay \in Delays : AddTimer(t, delay)
           \/ Start \/ Stop \/ RemoveByKey
    PROVE  IInv'
  <1>1. PICK E \in [0 .. LayerNum -> Nat] :
            /\ Clock(elapsed, curPos, E)
            /\ \A u \in Timers : InWheel(u) => InTime(loc[u], expiration[u], elapsed, E)
    BY DEF IInv, OnTimeInv
  <1>2. TypeOK
    BY DEF IInv
  <1> DEFINE Kept ==
                /\ UNCHANGED <<elapsed, curPos>>
                /\ TypeOK'
                /\ \A u \in Timers : loc'[u] # Nowhere => loc'[u] = loc[u] /\ expiration'[u] = expiration[u]
  <1>3. Kept
    <2>1. ASSUME NEW t \in Timers, RemoveTimer(t)
          PROVE  Kept
      <3>1. removeCh' \in Seq(Timers) /\ Len(removeCh') <= RemoveBuffer
        <4>1. removeCh \in Seq(Timers) /\ Len(removeCh) \in Nat /\ Len(removeCh) < RemoveBuffer /\ RemoveBuffer \in Nat
          BY <1>2, <2>1 DEF TypeOK, RemoveTimer, Sizes
        <4>2. removeCh' = Append(removeCh, t) /\ Append(removeCh, t) \in Seq(Timers)
              /\ Len(Append(removeCh, t)) = Len(removeCh) + 1
          BY <2>1, <4>1 DEF RemoveTimer
        <4> QED BY <4>1, <4>2
      <3> QED BY <1>2, <2>1, <3>1 DEF TypeOK, RemoveTimer
    <2>2. ASSUME NEW t \in Timers, NEW delay \in Delays, AddTimer(t, delay)
          PROVE  Kept
      <3>1. addCh' \in Seq(Timers) /\ Len(addCh') <= AddBuffer
        <4>1. addCh \in Seq(Timers) /\ Len(addCh) \in Nat /\ Len(addCh) < AddBuffer /\ AddBuffer \in Nat
          BY <1>2, <2>2 DEF TypeOK, AddTimer, Sizes
        <4>2. addCh' = Append(addCh, t) /\ Append(addCh, t) \in Seq(Timers)
              /\ Len(Append(addCh, t)) = Len(addCh) + 1
          BY <2>2, <4>1 DEF AddTimer
        <4> QED BY <4>1, <4>2
      <3>2. expiration' \in [Timers -> Nat]
        <4>1. elapsed + delay \in Nat
          BY <1>2 DEF TypeOK, Sizes
        <4> QED BY <1>2, <2>2, <4>1 DEF TypeOK, AddTimer
      <3>3. \A u \in Timers : loc[u] # Nowhere => expiration'[u] = expiration[u]
        BY <1>2, <2>2 DEF TypeOK, AddTimer, InWheel
      <3> QED BY <1>2, <2>2, <3>1, <3>2, <3>3 DEF TypeOK, AddTimer
    <2>3. CASE Start \/ Stop
      BY <1>2, <2>3 DEF TypeOK, Start, Stop
    <2>4. CASE RemoveByKey
      <3> DEFINE t == Head(removeCh)
      <3>1. t \in Timers /\ removeCh' \in Seq(Timers) /\ Len(removeCh') <= RemoveBuffer
        <4>1. removeCh \in Seq(Timers) /\ removeCh # <<>> /\ Len(removeCh) <= RemoveBuffer
          BY <1>2, <2>4 DEF TypeOK, RemoveByKey
        <4>2. removeCh' = Tail(removeCh)
          BY <2>4 DEF RemoveByKey
        <4>3. RemoveBuffer \in Nat /\ Len(removeCh) \in Nat /\ Len(Tail(removeCh)) = Len(removeCh) - 1
          BY <4>1 DEF Sizes
        <4> QED BY <4>1, <4>2, <4>3
      <3>2. /\ UNCHANGED <<state, elapsed, curPos, addCh>>
            /\ \/ /\ loc' = [loc EXCEPT ![t] = Nowhere]
                  /\ expiration' = [expiration EXCEPT ![t] = 0]
                  /\ cancelled' = cancelled \ {t}
               \/ cancelled' = cancelled \cup {t} /\ UNCHANGED <<loc, expiration>>
        BY <2>4 DEF RemoveByKey
      <3> HIDE DEF t
      <3>3. \A u \in Timers : loc'[u] # Nowhere => loc'[u] = loc[u] /\ expiration'[u] = expiration[u]
        BY <1>2, <3>1, <3>2 DEF TypeOK
      <3>4. TypeOK'
        <4>1. /\ loc \in [Timers -> Places \cup {Nowhere}] /\ expiration \in [Timers -> Nat]
              /\ cancelled \subseteq Timers /\ Nowhere \in Places \cup {Nowhere} /\ 0 \in Nat
          BY <1>2 DEF TypeOK
        <4>2. loc' \in [Timers -> Places \cup {Nowhere}]
          BY <3>2, <4>1
        <4>3. expiration' \in [Timers -> Nat]
          BY <3>2, <4>1
        <4>4. cancelled' \subseteq Timers
          BY <3>1, <3>2, <4>1
        <4> QED BY <1>2, <3>1, <3>2, <4>2, <4>3, <4>4 DEF TypeOK
      <3> QED BY <3>2, <3>3, <3>4
    <2> QED BY <2>1, <2>2, <2>3, <2>4
  <1>4. OnTimeInv'
    <2>1. \A u \in Timers : loc'[u] # Nowhere => InTime(loc'[u], expiration'[u], elapsed', E)
      BY <1>1, <1>3 DEF InWheel
    <2>2. Clock(elapsed', curPos', E)
      BY <1>1, <1>3
    <2> QED BY <1>1, <2>1, <2>2 DEF OnTimeInv, InWheel
  <1> QED BY <1>3, <1>4 DEF IInv

\* No timer is overdue in the wheel after a tick, whatever its delay, its layers
\* and its cascades (timer.go, scheduleIn, tick, runSlot and cascadeDown).
THEOREM NoTimerIsLate == ASSUME Sizes PROVE Spec => [](TypeOK /\ FiresOnTime)
  <1>1. Init => IInv
    <2> SUFFICES ASSUME Init PROVE IInv
      OBVIOUS
    <2>1. TypeOK
      <3>1. elapsed \in 0 .. MaxElapsed /\ 0 \in 0 .. SlotNum - 1
        BY DEF Init, Sizes
      <3>2. <<>> \in Seq(Timers) /\ Len(<<>>) = 0
        OBVIOUS
      <3> QED BY <3>1, <3>2 DEF Init, TypeOK, Sizes
    <2>2. OnTimeInv
      <3> DEFINE E == [i \in 0 .. LayerNum |-> 0]
      <3>1. E \in [0 .. LayerNum -> Nat] /\ E[0] = elapsed
        BY DEF Init, Sizes
      <3>2. ASSUME NEW i \in Layers PROVE E[i] = E[i + 1] * SlotNum + curPos[i]
        <4>1. i \in 0 .. LayerNum /\ i + 1 \in 0 .. LayerNum
          BY DEF Layers, Sizes
        <4>2. E[i] = 0 /\ E[i + 1] = 0 /\ curPos[i] = 0
          BY <4>1 DEF Init
        <4>3. 0 * SlotNum = 0
          BY DEF Sizes
        <4> HIDE DEF E
        <4> QED BY <4>2, <4>3
      <3>3. \A t \in Timers : ~InWheel(t)
        BY DEF Init, InWheel
      <3> HIDE DEF E
      <3> QED BY <3>1, <3>2, <3>3 DEF OnTimeInv, Clock
    <2> QED BY <2>1, <2>2 DEF IInv
  <1>2. IInv /\ [Next]_vars => IInv'
    <2> SUFFICES ASSUME IInv, [Next]_vars PROVE IInv'
      OBVIOUS
    <2>1. CASE UNCHANGED vars
      BY <2>1 DEF vars, IInv, TypeOK, OnTimeInv, InWheel
    <2>2. CASE Next
      BY <2>2, CallersInTime, ScheduleInTime, AdvanceInTime DEF Next
    <2> QED BY <2>1, <2>2
  <1>3. IInv => TypeOK /\ FiresOnTime
    <2> SUFFICES ASSUME IInv, NEW t \in Timers, InWheel(t) PROVE elapsed <= expiration[t]
      BY DEF IInv, FiresOnTime
    <2>1. PICK E \in [0 .. LayerNum -> Nat] :
              Clock(elapsed, curPos, E) /\ InTime(loc[t], expiration[t], elapsed, E)
      BY DEF IInv, OnTimeInv
    <2>2. elapsed \in Nat /\ curPos \in [Layers -> 0 .. SlotNum - 1] /\ expiration[t] \in Nat
      BY DEF IInv, TypeOK
    <2> DEFINE i == loc[t][1]
    <2>3. i \in Layers
      BY DEF IInv, TypeOK, InWheel, Places
    <2> HIDE DEF i
    <2>4. CASE i = 0
      BY <2>1, <2>4 DEF InTime, i
    <2>5. CASE i # 0
      <3>1. i > 0
        BY <2>3, <2>5 DEF Layers
      <3>2. PICK q \in Nat : q > E[i] /\ q * PerSlot[i] <= expiration[t]
        BY <2>1, <3>1 DEF InTime, i
      <3>3. elapsed < (E[i] + 1) * PerSlot[i]
        BY <2>1, <2>2, <2>3, ClockBounds
      <3>4. E[i] \in Nat /\ E[i] + 1 \in Nat /\ PerSlot[i] \in Nat /\ E[i] + 1 <= q
        <4>1. E[i] \in Nat /\ PerSlot[i] \in Nat
          BY <2>1, <2>2, <2>3, ClockOf, PerSlots
        <4> QED BY <3>2, <4>1
      <3>5. /\ (E[i] + 1) * PerSlot[i] <= q * PerSlot[i]
            /\ (E[i] + 1) * PerSlot[i] \in Nat /\ q * PerSlot[i] \in Nat
        BY <3>4, Times
      <3> QED BY <2>2, <3>2, <3>3, <3>5
    <2> QED BY <2>4, <2>5
  <1> QED BY <1>1, <1>2, <1>3, PTL DEF Spec
=============================================================================
