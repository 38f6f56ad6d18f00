---------------------------- MODULE LandingProofs ----------------------------
(***************************************************************************)
(* A player that stands, stands on a floor, and a falling one does not     *)
(* pass a floor under his feet: proved for every map, spacing of floors,   *)
(* speed of fall up to a row and scroll up to a row a tick.                *)
(*                                                                         *)
(* The argument: in a tick the offset and the rows move together, so that  *)
(* a floor moves exactly as far as the player; a way down of at most one   *)
(* row that passes a floor has its end in the floor's row or in the next,  *)
(* and in the second case, floors being spaced, its beginning is in the    *)
(* floor's row - where the lookup goes when it finds nothing at the end.   *)
(***************************************************************************)
EXTENDS Landing, TLAPS

\* The floors are rows apart.
Spaced(fs) == \A j, k \in fs : j < k => k - j >= Every

IInv == TypeOK /\ Spaced(floors) /\ StandsOnAFloor /\ FloorsHold

USE LandingAssumption

-----------------------------------------------------------------------------
(* Rows and heights.                                                       *)

\* The row of a height is found by taking the rest off.
LEMMA RowIs ==
  ASSUME NEW k \in Int, NEW cy \in Int, 16 * k <= cy + 1, cy + 1 < 16 * k + 16
  PROVE  Row(cy) = k
BY DEF Row

LEMMA RowType == \A cy \in Int : Row(cy) \in Int
BY DEF Row

\* Numbers with the same rest are at least a divisor apart.
LEMMA SameRest ==
  ASSUME NEW j \in Int, NEW k \in Int, j % Every = k % Every, j < k
  PROVE  k - j >= Every
<1> DEFINE q == j \div Every
           r == k \div Every
           p == j % Every
<1>1. Every \in Nat \ {0}
  OBVIOUS
<1>2. q \in Int /\ r \in Int /\ p \in Int
  BY <1>1
<1>3. j = Every * q + p /\ k = Every * r + p
  BY <1>1
<1> HIDE DEF q, r, p
<1>4. Every * r - Every * q = Every * (r - q)
  BY <1>1, <1>2
<1>5. k - j = Every * (r - q)
  BY <1>1, <1>2, <1>3, <1>4
<1>6. r - q >= 1
  BY <1>1, <1>2, <1>5
<1> QED
  BY <1>1, <1>2, <1>5, <1>6

\* A new row is added for every sixteen pixels, no more and no less.
LEMMA OffsetMoves ==
  ASSUME NEW o \in 0 .. 15, NEW s \in 0 .. 16
  PROVE  /\ (o + s) % 16 \in 0 .. 15
         /\ NewRow(o, s) => (o + s) % 16 = o + s - 16
         /\ ~NewRow(o, s) => (o + s) % 16 = o + s
BY DEF NewRow

\* The floors, when a row is added, are those there were, one row down ...
LEMMA AddKeeps ==
  ASSUME NEW k \in floors, floors \in SUBSET OnMap, k + 1 \in OnMap
  PROVE  k + 1 \in AddFloor
BY DEF AddFloor, Lower, OnMap

\* ... and spaced, like the new one.
LEMMA AddSpaced ==
  ASSUME floors \in SUBSET OnMap, Spaced(floors)
  PROVE  AddFloor \in SUBSET OnMap /\ Spaced(AddFloor)
<1>1. AddFloor \in SUBSET OnMap
  BY DEF AddFloor, Lower, OnMap
<1>2. ASSUME NEW j \in Lower, NEW k \in Lower, j < k
      PROVE  k - j >= Every
  <2>1. PICK i \in floors : j = i + 1
    BY <1>2 DEF Lower
  <2>2. PICK m \in floors : k = m + 1
    BY <1>2 DEF Lower
  <2>3. i \in Int /\ m \in Int
    BY DEF OnMap
  <2> QED
    BY <1>2, <2>1, <2>2, <2>3 DEF Spaced
<1>3. \A j \in Lower : j \in Int /\ j >= -1
  BY DEF Lower, OnMap
<1>4. ASSUME NEW j \in AddFloor, NEW k \in AddFloor, j < k
      PROVE  k - j >= Every
  <2>1. CASE j \in Lower
    <3>1. k \in Lower
      BY <1>3, <1>4, <2>1 DEF AddFloor
    <3> QED
      BY <1>2, <1>4, <2>1, <3>1
  <2>2. CASE j \notin Lower
    <3>1. j = -2 /\ Every - 2 \in Lower
      BY <2>2 DEF AddFloor
    <3>2. k \in Lower
      BY <1>4, <3>1 DEF AddFloor
    <3>3. k \in Int /\ k >= -1
      BY <1>3, <3>2
    <3>4. k < Every - 2 => Every - 2 - k >= Every
      BY <1>2, <3>1, <3>2
    <3> QED
      BY <3>1, <3>3, <3>4
  <2> QED
    BY <2>1, <2>2
<1> QED
  BY <1>1, <1>4 DEF Spaced

-----------------------------------------------------------------------------
(* The lookup.                                                             *)

\* A way down of at most sixteen pixels that passes the floor of row k finds
\* that floor and no other.
LEMMA LookupFinds ==
  ASSUME NEW fs \in SUBSET OnMap, Spaced(fs), NEW k \in fs, NEW o \in 0 .. 15,
         NEW last \in Int, NEW now \in Int,
         now <= last + 16, last < Height(k, o), now >= Height(k, o)
  PROVE  RowOf(now, last, fs) = {k}
<1>1. k \in Int /\ 16 * k + o > last /\ now >= 16 * k + o
  BY DEF Height, OnMap
<1>2. CASE now + 1 < 16 * k + 16
  <2>1. Row(now) = k
    BY <1>1, <1>2, RowIs
  <2> QED
    BY <2>1 DEF RowOf
<1>3. CASE now + 1 >= 16 * k + 16
  <2>1. k + 1 \in Int /\ 16 * (k + 1) <= now + 1 /\ now + 1 < 16 * (k + 1) + 16
    BY <1>1, <1>3
  <2>2. Row(now) = k + 1
    BY <2>1, RowIs
  <2>3. k + 1 \notin fs
    BY <1>1 DEF Spaced
  <2>4. 16 * k <= last + 1 /\ last + 1 < 16 * k + 16
    BY <1>1, <1>3
  <2>5. Row(last) = k
    BY <1>1, <2>4, RowIs
  <2> QED
    BY <2>2, <2>3, <2>5 DEF RowOf
<1> QED
  BY <1>1, <1>2, <1>3

\* Whatever the lookup finds is a floor.
LEMMA LookupIsFloor ==
  ASSUME NEW fs, NEW now, NEW last
  PROVE  RowOf(now, last, fs) \subseteq fs
BY DEF RowOf

-----------------------------------------------------------------------------
(* The steps.                                                              *)

LEMMA InitIInv == Init => IInv
<1> SUFFICES ASSUME Init
             PROVE  IInv
  OBVIOUS
<1>1. PICK p \in 0 .. Every - 1 : floors = {k \in OnMap : k % Every = p}
  BY DEF Init
<1>2. Spaced(floors)
  <2> SUFFICES ASSUME NEW j \in floors, NEW k \in floors, j < k
               PROVE  k - j >= Every
    BY DEF Spaced
  <2>1. j \in Int /\ k \in Int /\ j % Every = k % Every
    BY <1>1 DEF OnMap
  <2> QED
    BY <2>1, SameRest
<1>3. PICK k \in floors \cap Nat : y = On(k, 0)
  BY DEF Init
<1>4. TypeOK
  <2>0. k \in Int /\ y = 16 * k + 0 - 1
    BY <1>3 DEF On, Height
  <2>1. y \in Int
    BY <2>0
  <2>2. floors \in SUBSET OnMap
    BY <1>1
  <2>3. status \in Statuses /\ offset \in 0 .. 15
    BY DEF Init, Statuses
  <2>4. lost \in BOOLEAN
    BY DEF Init
  <2> QED
    BY <2>1, <2>2, <2>3, <2>4 DEF TypeOK
<1>5. StandsOnAFloor /\ FloorsHold
  BY <1>3 DEF Init, StandsOnAFloor, FloorsHold
<1> QED
  BY <1>2, <1>4, <1>5 DEF IInv

\* What a move can be.
LEMMA MoveType ==
  ASSUME TypeOK, NEW move \in Moves
  PROVE  /\ move[1] \in Statuses /\ move[2] \in Int
         /\ move[1] = Standing => status = Standing /\ move[2] = 0
         /\ move[1] \in Airborne => move[2] <= 16
<1>1. CASE status = Standing
  BY <1>1 DEF Moves, Statuses, Airborne, Standing, Rising, Falling, Dropped
<1>2. CASE status = Rising
  BY <1>2 DEF Moves, Statuses, Airborne, Standing, Rising, Falling, Dropped
<1>3. CASE status \in Airborne
  <2>1. status # Standing /\ status # Rising
    BY <1>3 DEF Airborne, Standing, Rising, Falling, Dropped
  <2>2. move \in {status} \X (-1 .. MaxFall)
    BY <2>1 DEF Moves
  <2>3. move[1] = status /\ move[2] \in -1 .. MaxFall
    BY <2>2
  <2> QED
    BY <1>3, <2>1, <2>3 DEF Statuses, Airborne
<1> QED
  BY <1>1, <1>2, <1>3 DEF TypeOK, Statuses, Airborne

\* What a tick does to the map: it stays one, and a floor that is not lost
\* at the bottom moves as far as the player does.
LEMMA TickMap ==
  ASSUME IInv, NEW move \in Moves, NEW s \in Scrolls, NEW over \in BOOLEAN,
         Tick(move, s, over)
  PROVE  /\ offset' \in 0 .. 15
         /\ floors' \in SUBSET OnMap /\ Spaced(floors')
         /\ \A k \in floors : \E j \in Int :
              /\ On(j, offset') = On(k, offset) + s
              /\ j \in OnMap => j \in floors'
<1>1. s \in 0 .. 16 /\ offset \in 0 .. 15 /\ floors \in SUBSET OnMap /\ Spaced(floors)
  BY DEF IInv, TypeOK
<1>2. offset' = (offset + s) % 16 /\ floors' = IF NewRow(offset, s) THEN AddFloor ELSE floors
  BY DEF Tick
<1>3. /\ offset' \in 0 .. 15
      /\ NewRow(offset, s) => offset' = offset + s - 16
      /\ ~NewRow(offset, s) => offset' = offset + s
  BY <1>1, <1>2, OffsetMoves
<1>4. floors' \in SUBSET OnMap /\ Spaced(floors')
  BY <1>1, <1>2, AddSpaced
<1>5. ASSUME NEW k \in floors
      PROVE  \E j \in Int : On(j, offset') = On(k, offset) + s /\ (j \in OnMap => j \in floors')
  <2>1. k \in Int
    BY <1>1 DEF OnMap
  <2>2. CASE NewRow(offset, s)
    <3>1. k + 1 \in Int /\ On(k + 1, offset') = On(k, offset) + s
      BY <1>1, <1>3, <2>1, <2>2 DEF On, Height
    <3>2. k + 1 \in OnMap => k + 1 \in floors'
      BY <1>1, <1>2, <2>2, AddKeeps
    <3> QED
      BY <3>1, <3>2
  <2>3. CASE ~NewRow(offset, s)
    <3>1. On(k, offset') = On(k, offset) + s
      BY <1>1, <1>3, <2>1, <2>3 DEF On, Height
    <3>2. k \in floors'
      BY <1>2, <2>3
    <3> QED
      BY <2>1, <3>1, <3>2
  <2> QED
    BY <2>2, <2>3
<1> QED
  BY <1>3, <1>4, <1>5

\* A player who does not move is found on the floor that moved with him, and
\* stands if he has a foot over it.
LEMMA StillStands ==
  ASSUME NEW now \in Int, NEW j \in Int, NEW over \in BOOLEAN,
         offset' \in 0 .. 15, floors' \in SUBSET OnMap,
         now = On(j, offset'), j \in OnMap => j \in floors',
         Collide(Standing, now, now, over)
  PROVE  /\ status' \in {Standing, Dropped} /\ y' = now
         /\ status' = Standing => j \in floors'
         /\ over /\ Row(now) \in OnMap => status' = Standing
<1> DEFINE o == offset'
<1>0. o \in 0 .. 15 /\ now = 16 * j + o - 1
  BY DEF On, Height
<1> HIDE DEF o
<1>1. 16 * j <= now + 1 /\ now + 1 < 16 * j + 16 /\ now + 1 = Height(j, o)
  BY <1>0 DEF Height
<1> USE DEF o
<1>2. Row(now) = j
  BY <1>1, RowIs
<1>3. CASE j \in OnMap
  <2>1. RowOf(now, now, floors') = {j}
    BY <1>2, <1>3 DEF RowOf
  <2>2. Land(Standing, now, now, over, j)
    BY <2>1 DEF Collide
  <2>3. Crosses(Height(j, offset'), now, now) /\ ~Degenerate(Height(j, offset'), now, now)
    BY <1>1 DEF Crosses, Degenerate
  <2>4. Standing \notin Airborne /\ Standing # Rising
    BY DEF Airborne, Standing, Rising, Falling, Dropped
  <2> QED
    BY <1>3, <2>2, <2>3, <2>4 DEF Land
<1>4. CASE j \notin OnMap
  <2>1. RowOf(now, now, floors') = {}
    BY <1>2, <1>4 DEF RowOf
  <2>2. y' = now /\ status' = Dropped
    BY <2>1 DEF Collide, Standing, Rising
  <2> QED
    BY <1>2, <1>4, <2>2 DEF Standing, Dropped
<1> QED
  BY <1>3, <1>4

\* A collision in the air: a landing is on a floor, on the way down or at
\* most beside it, and otherwise nobody stands.
LEMMA Lands ==
  ASSUME NEW st \in Statuses \ {Standing}, NEW now \in Int, NEW last \in Int,
         NEW over \in BOOLEAN, offset' \in 0 .. 15, floors' \in SUBSET OnMap,
         Collide(st, now, last, over)
  PROVE  /\ y' \in Int /\ status' \in Statuses
         /\ status' = Standing => \E k \in RowOf(now, last, floors') :
              /\ k \in floors' /\ over /\ y' = On(k, offset')
              /\ Crosses(Height(k, offset'), now, last)
         /\ status' # Standing => y' = now
<1> USE DEF Statuses, Airborne, Standing, Rising, Falling, Dropped
<1>1. CASE RowOf(now, last, floors') = {}
  BY <1>1 DEF Collide
<1>2. ASSUME NEW k \in RowOf(now, last, floors'), Land(st, now, last, over, k)
      PROVE  /\ y' \in Int /\ status' \in Statuses
             /\ status' = Standing => /\ over /\ y' = On(k, offset')
                                      /\ Crosses(Height(k, offset'), now, last)
             /\ status' # Standing => y' = now
  <2>0. k \in floors'
    BY LookupIsFloor
  <2>1. k \in Int /\ Height(k, offset') \in Int
    BY <2>0 DEF OnMap, Height
  <2>2. CASE Degenerate(Height(k, offset'), now, last)
    BY <1>2, <2>2 DEF Land
  <2>3. CASE /\ ~Degenerate(Height(k, offset'), now, last)
             /\ over /\ Crosses(Height(k, offset'), now, last)
    BY <1>2, <2>1, <2>3 DEF Land, LandsAt, On
  <2>4. CASE /\ ~Degenerate(Height(k, offset'), now, last)
             /\ ~(over /\ Crosses(Height(k, offset'), now, last))
    BY <1>2, <2>4 DEF Land
  <2> QED
    BY <2>2, <2>3, <2>4
<1> QED
  BY <1>1, <1>2, LookupIsFloor DEF Collide

LEMMA TickIInv ==
  ASSUME IInv, NEW move \in Moves, NEW s \in Scrolls, NEW over \in BOOLEAN,
         Tick(move, s, over)
  PROVE  IInv'
<1> DEFINE last == y + s
           now  == y + move[2] + s
<1>1. /\ TypeOK /\ StandsOnAFloor
      /\ y \in Int /\ s \in 0 .. 16
      /\ move[1] \in Statuses /\ move[2] \in Int
      /\ move[1] = Standing => status = Standing /\ move[2] = 0
      /\ move[1] \in Airborne => move[2] <= 16
  BY MoveType DEF IInv, TypeOK
<1>2. /\ offset' \in 0 .. 15
      /\ floors' \in SUBSET OnMap /\ Spaced(floors')
      /\ \A k \in floors : \E j \in Int :
           /\ On(j, offset') = On(k, offset) + s
           /\ j \in OnMap => j \in floors'
  BY TickMap
<1>3. /\ Collide(move[1], now, last, over)
      /\ lost' = (over /\ (FellThrough(move[1], last) \/ SlippedOff(move[1], now)))
  BY DEF Tick
<1>4. now \in Int /\ last \in Int
  BY <1>1
<1>5. CASE move[1] = Standing
  <2>1. PICK k \in floors : y = On(k, offset)
    BY <1>1, <1>5 DEF StandsOnAFloor
  <2>2. PICK j \in Int : On(j, offset') = On(k, offset) + s /\ (j \in OnMap => j \in floors')
    BY <1>2
  <2>3. now = last /\ now = On(j, offset')
    BY <1>1, <1>5, <2>1, <2>2
  <2>4. /\ status' \in {Standing, Dropped} /\ y' = now
        /\ status' = Standing => j \in floors'
        /\ over /\ Row(now) \in OnMap => status' = Standing
    <3>1. Collide(Standing, now, now, over)
      BY <1>3, <1>5, <2>3
    <3> HIDE DEF now, last
    <3> QED
      BY <1>2, <1>4, <2>2, <2>3, <3>1, StillStands
  <2>5. lost' = FALSE
    <3>1. ~FellThrough(move[1], last)
      BY <1>5 DEF FellThrough, Airborne, Standing, Falling, Dropped
    <3>2. over => ~SlippedOff(move[1], now)
      BY <2>4 DEF SlippedOff
    <3> QED
      BY <1>3, <3>1, <3>2
  <2>6. StandsOnAFloor'
    BY <2>3, <2>4 DEF StandsOnAFloor
  <2>7. y' \in Int /\ status' \in Statuses
    BY <1>4, <2>4 DEF Statuses
  <2>8. (lost \in BOOLEAN)' /\ FloorsHold'
    BY <2>5 DEF FloorsHold
  <2> QED
    BY <1>2, <2>6, <2>7, <2>8 DEF IInv, TypeOK
<1>6. CASE move[1] # Standing
  <2>1. /\ y' \in Int /\ status' \in Statuses
        /\ status' = Standing => \E k \in RowOf(now, last, floors') :
             /\ k \in floors' /\ over /\ y' = On(k, offset')
             /\ Crosses(Height(k, offset'), now, last)
        /\ status' # Standing => y' = now
    <3> HIDE DEF now, last
    <3> QED
      BY <1>1, <1>2, <1>3, <1>4, <1>6, Lands
  <2>2. ASSUME FellThrough(move[1], last), over
        PROVE  FALSE
    <3>1. /\ move[1] \in Airborne
          /\ now <= last + 16
      BY <1>1, <2>2 DEF FellThrough
    <3>2. PICK k \in floors' : last < Height(k, offset') /\ y' >= Height(k, offset')
      BY <2>2 DEF FellThrough
    <3> DEFINE o == offset'
               fs == floors'
    <3> HIDE DEF now, last, o, fs
    <3>3. k \in Int /\ o \in 0 .. 15 /\ fs \in SUBSET OnMap /\ Spaced(fs) /\ k \in fs
      BY <1>2, <3>2 DEF OnMap, o, fs
    <3>7. last < 16 * k + o /\ y' >= 16 * k + o
      BY <3>2 DEF Height, o
    <3>4. ASSUME now >= Height(k, o)
          PROVE  RowOf(now, last, fs) = {k}
      BY <1>4, <3>1, <3>2, <3>3, <3>4, LookupFinds DEF o
    <3>5. CASE status' = Standing
      <4>1. PICK i \in RowOf(now, last, fs) :
              i \in fs /\ y' = On(i, o) /\ Crosses(Height(i, o), now, last)
        BY <2>1, <3>5 DEF o, fs
      <4>2. i \in Int
        BY <3>3, <4>1 DEF OnMap
      <4>3. 16 * i + o - 1 >= 16 * k + o /\ last < 16 * k + o
        BY <3>3, <3>7, <4>1, <4>2 DEF On, Height
      <4>4. i > k /\ now >= 16 * k + o
        BY <1>4, <3>3, <4>1, <4>2, <4>3 DEF Crosses, Height
      <4>5. i = k
        BY <3>4, <4>1, <4>4 DEF Height
      <4> QED
        BY <3>3, <4>4, <4>5
    <3>6. CASE status' # Standing
      <4>1. y' = now /\ now >= Height(k, o)
        BY <2>1, <3>2, <3>6 DEF o
      <4>2. RowOf(now, last, fs) = {k}
        BY <3>4, <4>1
      <4>3. Land(move[1], now, last, over, k)
        BY <1>3, <4>2 DEF Collide, fs
      <4>4. Crosses(Height(k, o), now, last) /\ ~Degenerate(Height(k, o), now, last)
        BY <1>4, <3>3, <3>7, <4>1 DEF Crosses, Degenerate, Height
      <4>5. status' = Standing
        BY <2>2, <3>1, <4>3, <4>4 DEF Land, o
      <4> QED
        BY <3>6, <4>5
    <3> QED
      BY <3>5, <3>6
  <2>3. ~SlippedOff(move[1], now)
    BY <1>6 DEF SlippedOff
  <2>4. lost' = FALSE
    BY <1>3, <2>2, <2>3
  <2>6. (lost \in BOOLEAN)' /\ FloorsHold'
    BY <2>4 DEF FloorsHold
  <2>5. StandsOnAFloor'
    BY <2>1 DEF StandsOnAFloor
  <2> QED
    BY <1>2, <2>1, <2>5, <2>6 DEF IInv, TypeOK
<1> QED
  BY <1>5, <1>6

LEMMA NextIInv == IInv /\ [Next]_vars => IInv'
<1>1. ASSUME IInv, Next
      PROVE  IInv'
  BY <1>1, TickIInv DEF Next
<1>2. ASSUME IInv, UNCHANGED vars
      PROVE  IInv'
  BY <1>2 DEF IInv, TypeOK, Spaced, StandsOnAFloor, FloorsHold, vars
<1> QED
  BY <1>1, <1>2

LEMMA Invariance == Spec => []IInv
BY InitIInv, NextIInv, PTL DEF Spec

-----------------------------------------------------------------------------
(* The theorems.                                                           *)

\* A standing player has his feet exactly on a floor of the map, whatever
\* scrolled under him and however he got there.
THEOREM Supported == Spec => []StandsOnAFloor
<1>1. IInv => StandsOnAFloor
  BY DEF IInv
<1> QED
  BY <1>1, Invariance, PTL

\* The collision catches every fall of up to a row a tick, in every scroll of
\* up to a row, onto a floor the player has a foot over; and a floor stood on
\* stays under the feet.
THEOREM Caught == Spec => []FloorsHold
<1>1. IInv => FloorsHold
  BY DEF IInv
<1> QED
  BY <1>1, Invariance, PTL
=============================================================================
