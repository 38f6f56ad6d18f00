-------------------------- MODULE TowerScrollProofs --------------------------
(***************************************************************************)
(* The speed schedule and the tower of TowerScroll, proved for every size  *)
(* of the ring, every interval and every spacing of the platforms.         *)
(***************************************************************************)
EXTENDS TowerScroll, TLAPS

USE TowerAssumption

(***************************************************************************)
(* Once the tower moves by itself it is above the height where it began    *)
(* to, so a living player's count is never reset again (play.c 812, 829).  *)
(***************************************************************************)
StartedAbove == scroll # -1 => offset > ScrollFrom

IInv ==
  /\ TypeOK /\ SpeedIsTheSchedule /\ StartedAbove
  /\ HurriesOnTime /\ ClockIsTrue /\ TowerIsStacked /\ NeverAhead

-----------------------------------------------------------------------------
(* What the helpers return. *)

LEMMA SpeedsTable ==
  /\ \A i \in 0..8 : speeds[i] \in Nat
  /\ \A i \in 0..5 : speeds[i] = Interval * i + Interval
  /\ \A i \in 0..4 : speeds[i + 1] = speeds[i] + Interval
  /\ speeds[0] = Interval
PROOF
<1>1. \A i \in 0..6 : speeds[i] = Interval * (i + 1)
  BY DEF speeds
<1>2. \A i \in 0..6 : Interval * (i + 1) = Interval * i + Interval
  BY DEF speeds
<1>3. speeds[7] = Interval * 1200 /\ speeds[8] = Interval * 6000
  BY DEF speeds
<1>4. \A i \in 0..6 : Interval * (i + 1) \in Nat
  OBVIOUS
<1>5. \A i \in 0..8 : speeds[i] \in Nat
  BY <1>1, <1>3, <1>4
<1>6. \A i \in 0..5 : speeds[i] = Interval * i + Interval
  BY <1>1, <1>2
<1>7. \A i \in 0..4 : speeds[i + 1] = speeds[i] + Interval
  <2> SUFFICES ASSUME NEW i \in 0..4 PROVE speeds[i + 1] = speeds[i] + Interval
    OBVIOUS
  <2>1. i + 1 \in 0..6 /\ i \in 0..6
    OBVIOUS
  <2>2. speeds[i + 1] = Interval * ((i + 1) + 1) /\ speeds[i] = Interval * (i + 1)
    BY <1>1, <2>1
  <2>3. Interval * ((i + 1) + 1) = Interval * (i + 1) + Interval
    BY <2>1, <1>2
  <2> QED BY <2>2, <2>3
<1>8. speeds[0] = Interval
  BY <1>6
<1> QED BY <1>5, <1>6, <1>7, <1>8

LEMMA RowTypes ==
  ASSUME NEW k \in Nat
  PROVE  NewRow(k) \in [level: Nat, kind: Kinds]
BY DEF NewRow, RowKind, IsCheckpoint, Kinds

\* add_floor keeps the ring a ring and its last level the count of rows.
LEMMA RingAfter ==
  ASSUME room \in [0..Rows - 1 -> [level: Nat, kind: Kinds]],
         NEW i \in 0..Rows - 1
  PROVE  /\ add_floor(room) \in [0..Rows - 1 -> [level: Nat, kind: Kinds]]
         /\ add_floor(room)[Rows - 1] = NewRow(Top)
         /\ add_floor(room)[Rows - 1].level = Top + 1
         /\ i < Rows - 1 => add_floor(room)[i] = room[i + 1]
PROOF
<1>1. Rows - 1 \in 0..Rows - 1
  OBVIOUS
<1>2. Top \in Nat
  BY <1>1 DEF Top
<1>3. NewRow(Top) \in [level: Nat, kind: Kinds] /\ NewRow(Top).level = Top + 1
  BY <1>2, RowTypes DEF NewRow
<1>4. add_floor(room)[Rows - 1] = NewRow(Top)
  BY <1>1 DEF add_floor, Top
<1>5. i < Rows - 1 => add_floor(room)[i] = room[i + 1]
  BY DEF add_floor
<1>6. add_floor(room) \in [0..Rows - 1 -> [level: Nat, kind: Kinds]]
  <2> SUFFICES ASSUME NEW j \in 0..Rows - 1
               PROVE  (IF j < Rows - 1 THEN room[j + 1] ELSE NewRow(room[Rows - 1].level))
                        \in [level: Nat, kind: Kinds]
    BY DEF add_floor
  <2>1. CASE j < Rows - 1
    <3>1. j + 1 \in 0..Rows - 1
      BY <2>1
    <3> QED BY <2>1, <3>1
  <2>2. CASE ~(j < Rows - 1)
    BY <2>2, <1>3 DEF Top
  <2> QED BY <2>1, <2>2
<1> QED BY <1>3, <1>4, <1>5, <1>6

\* The stack stays a stack when a row is added.
LEMMA StackAfter ==
  ASSUME TypeOK, TowerIsStacked, room' = add_floor(room)
  PROVE  TowerIsStacked' /\ Top' = Top + 1 /\ Top \in Nat
         /\ room' \in [0..Rows - 1 -> [level: Nat, kind: Kinds]]
PROOF
<1>1. Rows - 1 \in 0..Rows - 1
  OBVIOUS
<1>2. room \in [0..Rows - 1 -> [level: Nat, kind: Kinds]] /\ Top \in Nat
  BY <1>1 DEF TypeOK, Top
<1>3. /\ room' \in [0..Rows - 1 -> [level: Nat, kind: Kinds]]
      /\ Top' = Top + 1 /\ room'[Rows - 1] = NewRow(Top)
  BY <1>1, <1>2, RingAfter DEF Top
<1>4. ASSUME NEW i \in 0..Rows - 1
      PROVE  LET level == Top' - (Rows - 1 - i)
             IN IF level > 0 THEN room'[i] = [level |-> level, kind |-> RowKind(level - 1)]
                ELSE room'[i] = [level |-> 0, kind |-> "empty"]
  <2>1. CASE i = Rows - 1
    <3>1. Top' - (Rows - 1 - i) = Top + 1 /\ Top + 1 > 0 /\ (Top + 1) - 1 = Top
      BY <2>1, <1>2, <1>3
    <3>2. room'[i] = [level |-> Top + 1, kind |-> RowKind(Top)]
      BY <2>1, <1>3 DEF NewRow
    <3> QED BY <3>1, <3>2
  <2>2. CASE i # Rows - 1
    <3>1. i + 1 \in 0..Rows - 1 /\ i < Rows - 1
      BY <2>2
    <3>2. room'[i] = room[i + 1]
      BY <3>1, <1>2, RingAfter
    <3>3. Top' - (Rows - 1 - i) = Top - (Rows - 1 - (i + 1))
      BY <1>2, <1>3
    <3> QED BY <3>1, <3>2, <3>3 DEF TowerIsStacked
  <2> QED BY <2>1, <2>2
<1>5. TowerIsStacked'
  BY <1>4 DEF TowerIsStacked
<1> QED BY <1>2, <1>3, <1>5

-----------------------------------------------------------------------------
(* The parts of a tick. *)

LEMMA MoveFacts ==
  ASSUME TypeOK, NEW lift \in Lifts, Move(lift)
  PROVE  /\ scroll_acc' \in 0..18 /\ scroll_acc' >= lift
         /\ offset' = offset + scroll_acc' /\ offset' \in Nat
         /\ offset' >= offset + lift
         /\ odd' \in BOOLEAN
         /\ Speed(lift) \in -1..5
         /\ Rolls(lift) => Speed(lift) # -1
PROOF
<1>1. lift \in 0..13
  BY DEF Lifts
<1>2. Speed(lift) \in -1..5 /\ (Rolls(lift) => Speed(lift) # -1)
  BY DEF TypeOK, Speed, start_speeds
<1>3. Drift(lift) \in 0..5
  <2>1. CASE ~Rolls(lift)
    BY <2>1 DEF Drift
  <2>2. CASE Rolls(lift) /\ Speed(lift) # 0
    BY <2>2, <1>2 DEF Drift
  <2>3. CASE Rolls(lift) /\ Speed(lift) = 0
    BY <2>3 DEF Drift, TypeOK
  <2> QED BY <2>1, <2>2, <2>3
<1>4. odd' \in BOOLEAN
  BY DEF Move, TypeOK
<1>5. scroll_acc' = lift + Drift(lift) /\ offset' = offset + scroll_acc'
  BY DEF Move
<1>6. offset \in Nat
  BY DEF TypeOK
<1> HIDE DEF Drift
<1> QED BY <1>1, <1>2, <1>3, <1>4, <1>5, <1>6

\* A row is added only when the tower has moved into the next 16 pixels, and
\* one more is missed only when it moved more than 16.
LEMMA RowArithmetic ==
  ASSUME NEW o \in Nat, NEW a \in 0..18
  PROVE  /\ o % 16 > (o + a) % 16 \/ a > 15 => (o + a) \div 16 >= o \div 16 + 1
         /\ o \div 16 <= (o + a) \div 16
         /\ ~(o % 16 > (o + a) % 16 \/ a > 15) => ((o + a) % 16) - (o % 16) = a
         /\ (o % 16 > (o + a) % 16 \/ a > 15) =>
              \/ 16 + ((o + a) % 16) - (o % 16) = a
              \/ a > 16 /\ 16 + ((o + a) % 16) - (o % 16) = a - 16
OBVIOUS

\* What a tick does to the tower: a row or none, and never more than is due.
LEMMA TowerStep ==
  ASSUME IInv, NEW lift \in Lifts, Tick(lift)
  PROVE  /\ room' \in [0..Rows - 1 -> [level: Nat, kind: Kinds]]
         /\ TowerIsStacked' /\ NeverAhead'
         /\ \/ FloorsMoved = scroll_acc'
            \/ scroll_acc' > 16 /\ FloorsMoved = scroll_acc' - 16
PROOF
<1>1. /\ scroll_acc' \in 0..18 /\ offset' = offset + scroll_acc' /\ offset \in Nat
  BY MoveFacts DEF IInv, Tick, TypeOK
<1>2. Top \in Nat /\ room \in [0..Rows - 1 -> [level: Nat, kind: Kinds]]
  <2>1. Rows - 1 \in 0..Rows - 1
    OBVIOUS
  <2> QED BY <2>1 DEF IInv, TypeOK, Top
<1>3. Advance
  BY DEF Tick
<1>4. Top <= FirstRows + offset \div 16 /\ TowerIsStacked
  BY DEF IInv, NeverAhead
<1>5. CASE NeedsRow
  <2>1. room' = add_floor(room)
    BY <1>3, <1>5 DEF Advance
  <2>2. /\ TowerIsStacked' /\ Top' = Top + 1
        /\ room' \in [0..Rows - 1 -> [level: Nat, kind: Kinds]]
    BY <2>1, StackAfter DEF IInv
  <2>3. offset % 16 > (offset + scroll_acc') % 16 \/ scroll_acc' > 15
    BY <1>1, <1>5 DEF NeedsRow
  <2>4. (offset + scroll_acc') \div 16 >= offset \div 16 + 1
    BY <1>1, <2>3, RowArithmetic
  <2>5. \/ 16 + ((offset + scroll_acc') % 16) - (offset % 16) = scroll_acc'
        \/ /\ scroll_acc' > 16
           /\ 16 + ((offset + scroll_acc') % 16) - (offset % 16) = scroll_acc' - 16
    BY <1>1, <2>3, RowArithmetic
  <2>6. Top' <= FirstRows + offset' \div 16
    BY <1>1, <1>2, <1>4, <2>2, <2>4
  <2>7. FloorsMoved = 16 + ((offset + scroll_acc') % 16) - (offset % 16)
    BY <1>1, <1>2, <2>2 DEF FloorsMoved
  <2> QED BY <2>2, <2>5, <2>6, <2>7 DEF NeverAhead
<1>6. CASE ~NeedsRow
  <2>1. room' = room
    BY <1>3, <1>6 DEF Advance
  <2>2. TowerIsStacked' /\ Top' = Top
    BY <2>1, <1>4 DEF TowerIsStacked, Top
  <2>3. ~(offset % 16 > (offset + scroll_acc') % 16 \/ scroll_acc' > 15)
    BY <1>1, <1>6 DEF NeedsRow
  <2>4. /\ offset \div 16 <= (offset + scroll_acc') \div 16
        /\ ((offset + scroll_acc') % 16) - (offset % 16) = scroll_acc'
    BY <1>1, <2>3, RowArithmetic
  <2>5. Top' <= FirstRows + offset' \div 16
    <3>1. (offset \div 16) \in Int /\ (offset' \div 16) \in Int
      BY <1>1
    <3>2. offset \div 16 <= offset' \div 16
      BY <1>1, <2>4
    <3> QED BY <1>2, <1>4, <2>2, <3>1, <3>2
  <2>6. FloorsMoved = scroll_acc'
    BY <1>1, <1>2, <2>2, <2>4 DEF FloorsMoved
  <2> QED BY <1>2, <2>1, <2>2, <2>5, <2>6 DEF NeverAhead
<1> QED BY <1>5, <1>6

\* The count a speed-up is judged by is at most one past its threshold, and
\* past the threshold before.
LEMMA CountedInTime ==
  ASSUME IInv, NEW lift \in Lifts, ~dead, speed_increase, Speed(lift) \in 0..4
  PROVE  /\ Counted(lift) <= speeds[next_speed] + 1
         /\ next_speed > 0 => Counted(lift) > speeds[next_speed - 1]
PROOF
<1>0. TypeOK /\ SpeedIsTheSchedule /\ StartedAbove /\ HurriesOnTime
  BY DEF IInv
<1>1. lift \in Nat /\ next_speed \in 0..5 /\ fall_count \in Int /\ offset \in Nat
  BY <1>0 DEF TypeOK, Lifts
<1>2. speeds[next_speed] \in Nat
  BY <1>1, SpeedsTable
<1>3. CASE scroll = -1
  <2>1. next_speed = 0 /\ fall_count = 0
    BY <1>0, <1>3 DEF SpeedIsTheSchedule
  <2>2. Counted(lift) \in {0, 1}
    BY <2>1 DEF Counted
  <2> QED BY <1>2, <2>1, <2>2
<1>4. CASE scroll # -1
  <2>1. Rolls(lift) /\ scroll = Speed(lift)
    BY <1>0, <1>1, <1>4 DEF Rolls, StartedAbove, TypeOK, Speed
  <2>2. Counted(lift) = fall_count + 1
    BY <2>1 DEF Counted
  <2>3. /\ fall_count <= speeds[next_speed]
        /\ next_speed > 0 => fall_count > speeds[next_speed - 1]
    BY <1>0, <2>1 DEF HurriesOnTime
  <2>4. next_speed > 0 => speeds[next_speed - 1] \in Nat
    BY <1>1, SpeedsTable
  <2> QED BY <1>1, <1>2, <2>2, <2>3, <2>4
<1> QED BY <1>3, <1>4

\* What a tick does to the speed.
LEMMA SpeedStep ==
  ASSUME IInv, NEW lift \in Lifts, Tick(lift)
  PROVE  /\ scroll' \in -1..5 /\ next_speed' \in 0..5 /\ ccc' \subseteq 0..4
         /\ fall_count' \in Int /\ clock_angle' \in Int
         /\ SpeedIsTheSchedule' /\ StartedAbove' /\ HurriesOnTime' /\ ClockIsTrue'
PROOF
<1>0. TypeOK /\ SpeedIsTheSchedule /\ StartedAbove /\ HurriesOnTime /\ ClockIsTrue
  BY DEF IInv
<1>1. /\ scroll \in -1..5 /\ start \in 0..5 /\ next_speed \in 0..5 /\ fall_count \in Int
      /\ clock_angle \in Int /\ offset \in Nat /\ lift \in Nat
      /\ speed_increase \in BOOLEAN /\ dead \in BOOLEAN
  BY <1>0 DEF TypeOK, start_speeds, Lifts
<1>2. /\ Move(lift) /\ Hurry(lift) /\ CountBack(lift) /\ Die(lift)
      /\ start' = start /\ speed_increase' = speed_increase
  BY DEF Tick, game
<1>3. /\ offset' >= offset + lift /\ offset' \in Nat
      /\ Speed(lift) \in -1..5 /\ (Rolls(lift) => Speed(lift) # -1)
  BY <1>0, <1>2, MoveFacts
<1>4. dead => dead'
  BY <1>2 DEF Die
<1>5. Counted(lift) \in Int /\ Shown(lift) \in Int
  <2>1. Counted(lift) \in Int
    BY <1>1 DEF Counted
  <2>2. Shown(lift) \in Int
    <3>1. CASE dead
      BY <1>1, <3>1 DEF Shown
    <3>2. CASE ~dead /\ Rolls(lift)
      BY <1>1, <3>2 DEF Shown
    <3>3. CASE ~dead /\ ~Rolls(lift)
      BY <1>1, <3>3 DEF Shown
    <3> QED BY <3>1, <3>2, <3>3
  <2> QED BY <2>1, <2>2
<1>6. fall_count' \in Int /\ clock_angle' \in Int
  BY <1>1, <1>2, <1>5 DEF CountBack
<1>7. /\ Speed(lift) = -1 => scroll = -1 /\ next_speed = 0 /\ ~Rolls(lift)
      /\ Speed(lift) # -1 => Speed(lift) = start + next_speed
  BY <1>0, <1>1, <1>3 DEF Speed, SpeedIsTheSchedule
<1>8. TimeToHurry(lift) => Speed(lift) \in 0..4
  <2> SUFFICES ASSUME TimeToHurry(lift), Speed(lift) = -1 PROVE FALSE
    BY <1>3 DEF TimeToHurry
  <2>1. ~dead /\ speeds[next_speed] < Counted(lift)
    BY DEF TimeToHurry
  <2>2. Counted(lift) = 0
    BY <1>7, <2>1 DEF Counted
  <2>3. speeds[next_speed] \in Nat
    BY <1>1, SpeedsTable
  <2> QED BY <2>1, <2>2, <2>3
<1>9. /\ scroll' \in -1..5 /\ next_speed' \in 0..5 /\ ccc' \subseteq 0..4
      /\ ccc' = 0..next_speed' - 1
      /\ scroll' = -1 => next_speed' = 0 /\ Speed(lift) = -1
      /\ scroll' # -1 => scroll' = start' + next_speed' /\ Speed(lift) # -1
  <2>1. ccc = 0..next_speed - 1
    BY <1>0 DEF SpeedIsTheSchedule
  <2>2. CASE TimeToHurry(lift)
    <3>1. ccc' = ccc \union {next_speed} /\ next_speed' = next_speed + 1 /\ scroll' = Speed(lift) + 1
      BY <1>2, <2>2 DEF Hurry
    <3>2. Speed(lift) \in 0..4 /\ next_speed \in 0..4
      BY <1>1, <1>7, <1>8, <2>2
    <3> QED BY <1>1, <1>2, <1>7, <2>1, <3>1, <3>2
  <2>3. CASE ~TimeToHurry(lift)
    <3>1. ccc' = ccc /\ next_speed' = next_speed /\ scroll' = Speed(lift)
      BY <1>2, <2>3 DEF Hurry
    <3>2. ccc \subseteq 0..4
      BY <1>0 DEF TypeOK
    <3> QED BY <1>1, <1>2, <1>3, <1>7, <2>1, <3>1, <3>2
  <2> QED BY <2>2, <2>3
<1>10. SpeedIsTheSchedule'
  <2>1. scroll' = -1 /\ ~dead' => fall_count' = 0
    <3> SUFFICES ASSUME scroll' = -1, ~dead' PROVE fall_count' = 0
      OBVIOUS
    <3>1. ~dead /\ ~Rolls(lift)
      BY <1>4, <1>7, <1>9
    <3> QED BY <1>2, <3>1 DEF CountBack, Counted
  <2> QED BY <1>9, <2>1 DEF SpeedIsTheSchedule
<1>11. StartedAbove'
  <2> SUFFICES ASSUME scroll' # -1 PROVE offset' > ScrollFrom
    BY DEF StartedAbove
  <2>1. CASE scroll # -1
    BY <1>0, <1>1, <1>3, <2>1 DEF StartedAbove
  <2>2. CASE scroll = -1
    <3>1. Rolls(lift)
      BY <1>9, <2>2 DEF Speed
    <3> QED BY <1>1, <1>3, <3>1 DEF Rolls
  <2> QED BY <2>1, <2>2
<1>12. HurriesOnTime'
  <2> SUFFICES ASSUME speed_increase', ~dead', scroll' \in 0..4
               PROVE  /\ fall_count' <= speeds[next_speed']
                      /\ next_speed' > 0 => fall_count' > speeds[next_speed' - 1]
    BY DEF HurriesOnTime, speeds
  <2>1. ~dead /\ speed_increase /\ fall_count' = Counted(lift)
    BY <1>2, <1>4, <1>5 DEF CountBack
  <2>2. CASE TimeToHurry(lift)
    <3>1. next_speed' = next_speed + 1 /\ Speed(lift) \in 0..4 /\ next_speed \in 0..4
      BY <1>1, <1>2, <1>7, <1>8, <2>2 DEF Hurry
    <3>2. Counted(lift) <= speeds[next_speed] + 1 /\ speeds[next_speed] < Counted(lift)
      BY <2>1, <2>2, <3>1, CountedInTime DEF TimeToHurry
    <3>3. speeds[next_speed + 1] = speeds[next_speed] + Interval
      BY <3>1, SpeedsTable
    <3>4. speeds[next_speed] \in Nat
      BY <1>1, SpeedsTable
    <3> QED BY <1>5, <2>1, <3>1, <3>2, <3>3, <3>4
  <2>3. CASE ~TimeToHurry(lift)
    <3>1. next_speed' = next_speed /\ scroll' = Speed(lift)
      BY <1>2, <2>3 DEF Hurry
    <3>2. ~(speeds[next_speed] < Counted(lift))
      BY <2>1, <2>3, <3>1 DEF TimeToHurry
    <3>3. next_speed > 0 => Counted(lift) > speeds[next_speed - 1]
      BY <2>1, <3>1, CountedInTime
    <3>4. speeds[next_speed] \in Nat
      BY <1>1, SpeedsTable
    <3> QED BY <1>5, <2>1, <3>1, <3>2, <3>3, <3>4
  <2> QED BY <2>2, <2>3
<1>13. ClockIsTrue'
  <2> SUFFICES ASSUME ~dead' PROVE clock_angle' = fall_count'
    BY DEF ClockIsTrue
  <2>1. ~dead /\ clock_angle = fall_count
    BY <1>0, <1>4 DEF ClockIsTrue
  <2>2. CASE Rolls(lift)
    <3>1. Counted(lift) = fall_count + 1 /\ Shown(lift) = clock_angle + 1
      BY <2>1, <2>2 DEF Counted, Shown
    <3> QED BY <1>2, <2>1, <3>1 DEF CountBack
  <2>3. CASE ~Rolls(lift)
    <3>1. Counted(lift) = 0 /\ Shown(lift) = 0
      BY <2>1, <2>3 DEF Counted, Shown
    <3> QED BY <1>2, <2>1, <3>1 DEF CountBack
  <2> QED BY <2>2, <2>3
<1> QED BY <1>6, <1>9, <1>10, <1>11, <1>12, <1>13

-----------------------------------------------------------------------------
LEMMA InitInv == Init => IInv
PROOF
<1> SUFFICES ASSUME Init PROVE IInv
  OBVIOUS
<1>1. EmptyMap \in [0..Rows - 1 -> [level: Nat, kind: Kinds]]
  BY DEF EmptyMap, Kinds
<1>2. Top = 0
  <2>1. Rows - 1 \in 0..Rows - 1
    OBVIOUS
  <2> QED BY <2>1 DEF Init, EmptyMap, Top
<1>3. TypeOK
  <2>1. room \in [0..Rows - 1 -> [level: Nat, kind: Kinds]]
    BY <1>1 DEF Init
  <2>2. /\ offset \in Nat /\ scroll \in -1..5 /\ scroll_acc \in 0..18
        /\ fall_count \in Int /\ clock_angle \in Int /\ next_speed \in 0..5
    BY DEF Init
  <2>3. odd \in BOOLEAN /\ dead \in BOOLEAN /\ ccc \subseteq 0..4
    BY DEF Init
  <2>4. start \in start_speeds /\ speed_increase \in BOOLEAN
    BY DEF Init
  <2> QED BY <2>1, <2>2, <2>3, <2>4 DEF TypeOK
<1>4. TowerIsStacked
  <2> SUFFICES ASSUME NEW i \in 0..Rows - 1
               PROVE  /\ room[i] = [level |-> 0, kind |-> "empty"]
                      /\ ~(Top - (Rows - 1 - i) > 0)
    BY DEF TowerIsStacked
  <2> QED BY <1>2 DEF Init, EmptyMap
<1>5. NeverAhead
  BY <1>2 DEF Init, NeverAhead
<1>6. SpeedIsTheSchedule /\ StartedAbove /\ ClockIsTrue
  BY DEF Init, SpeedIsTheSchedule, StartedAbove, ClockIsTrue
<1>7. HurriesOnTime
  BY DEF Init, HurriesOnTime
<1> QED BY <1>3, <1>4, <1>5, <1>6, <1>7 DEF IInv

\* The rows new_game builds.
LEMMA BuildStep ==
  ASSUME IInv, new_game
  PROVE  IInv'
PROOF
<1>1. /\ room' = add_floor(room) /\ Top < FirstRows
      /\ UNCHANGED <<offset, scroll_acc, odd, dead, pace, game>>
  BY DEF new_game
<1>2. /\ TowerIsStacked' /\ Top' = Top + 1 /\ Top \in Nat
      /\ room' \in [0..Rows - 1 -> [level: Nat, kind: Kinds]]
  BY <1>1, StackAfter DEF IInv
<1>3. TypeOK'
  BY <1>1, <1>2 DEF IInv, TypeOK, pace, game
<1>4. NeverAhead'
  <2>1. offset' = offset /\ offset \in Nat
    BY <1>1 DEF IInv, TypeOK
  <2>2. Top' <= FirstRows
    BY <1>1, <1>2
  <2>3. offset' \div 16 \in Nat
    BY <2>1
  <2>4. Top' \in Nat
    BY <1>2
  <2>5. Top' <= FirstRows + offset' \div 16
    BY <2>2, <2>3, <2>4
  <2> QED BY <2>5 DEF NeverAhead
<1>5. SpeedIsTheSchedule' /\ StartedAbove' /\ ClockIsTrue'
  BY <1>1 DEF IInv, SpeedIsTheSchedule, StartedAbove, ClockIsTrue, pace, game
<1>6. HurriesOnTime'
  BY <1>1 DEF IInv, HurriesOnTime, speeds, pace, game
<1> QED BY <1>2, <1>3, <1>4, <1>5, <1>6 DEF IInv

LEMMA TickStep ==
  ASSUME IInv, NEW lift \in Lifts, Tick(lift)
  PROVE  IInv'
PROOF
<1>1. /\ room' \in [0..Rows - 1 -> [level: Nat, kind: Kinds]]
      /\ TowerIsStacked' /\ NeverAhead'
  BY TowerStep
<1>2. /\ scroll' \in -1..5 /\ next_speed' \in 0..5 /\ ccc' \subseteq 0..4
      /\ fall_count' \in Int /\ clock_angle' \in Int
      /\ SpeedIsTheSchedule' /\ StartedAbove' /\ HurriesOnTime' /\ ClockIsTrue'
  BY SpeedStep
<1>3. scroll_acc' \in 0..18 /\ offset' \in Nat /\ odd' \in BOOLEAN
  BY MoveFacts DEF IInv, Tick
<1>4. dead' \in BOOLEAN /\ start' \in start_speeds /\ speed_increase' \in BOOLEAN
  BY DEF IInv, TypeOK, Tick, Die, game
<1>5. TypeOK'
  BY <1>1, <1>2, <1>3, <1>4 DEF TypeOK
<1> QED BY <1>1, <1>2, <1>5 DEF IInv

LEMMA StutterStep == IInv /\ UNCHANGED vars => IInv'
PROOF
<1> SUFFICES ASSUME IInv, UNCHANGED vars PROVE IInv'
  OBVIOUS
<1> USE DEF vars, pace, game
<1>1. TypeOK'
  BY DEF IInv, TypeOK
<1>2. SpeedIsTheSchedule' /\ StartedAbove' /\ ClockIsTrue'
  BY DEF IInv, SpeedIsTheSchedule, StartedAbove, ClockIsTrue
<1>3. HurriesOnTime'
  BY DEF IInv, HurriesOnTime, speeds
<1>4. TowerIsStacked' /\ NeverAhead'
  BY DEF IInv, TowerIsStacked, NeverAhead, Top
<1> QED BY <1>1, <1>2, <1>3, <1>4 DEF IInv

LEMMA NextInv == IInv /\ [Next]_vars => IInv'
BY BuildStep, TickStep, StutterStep DEF Next

\* The invariant all of the following rest on.
LEMMA Invariant == Spec => []IInv
BY InitInv, NextInv, PTL DEF Spec

-----------------------------------------------------------------------------
(***************************************************************************)
(* Every variable keeps its type; in particular next_speed stays inside    *)
(* speeds[9] and ccc[5] is never written outside (play.c 842-844).         *)
(***************************************************************************)
THEOREM TypeCorrect == Spec => []TypeOK
PROOF
<1>1. IInv => TypeOK
  BY DEF IInv
<1> QED BY <1>1, Invariant, PTL

(***************************************************************************)
(* The speed is the start speed plus the speed-ups counted, each reported  *)
(* once (play.c 812-857).                                                  *)
(***************************************************************************)
THEOREM ScheduleKept == Spec => []SpeedIsTheSchedule
PROOF
<1>1. IInv => SpeedIsTheSchedule
  BY DEF IInv
<1> QED BY <1>1, Invariant, PTL

(***************************************************************************)
(* Each speed-up happens in the tick that passes its threshold (play.c     *)
(* 840-857).                                                               *)
(***************************************************************************)
THEOREM OnTime == Spec => []HurriesOnTime
PROOF
<1>1. IInv => HurriesOnTime
  BY DEF IInv
<1> QED BY <1>1, Invariant, PTL

(***************************************************************************)
(* The clock shown to a living player is the count the speed-ups depend    *)
(* on (play.c 809-857).                                                    *)
(***************************************************************************)
THEOREM ClockTrue == Spec => []ClockIsTrue
PROOF
<1>1. IInv => ClockIsTrue
  BY DEF IInv
<1> QED BY <1>1, Invariant, PTL

(***************************************************************************)
(* The ring holds the last rows generated, in order, each what its number  *)
(* alone makes it (map.c 206-274).                                         *)
(***************************************************************************)
THEOREM TowerStands == Spec => []TowerIsStacked
PROOF
<1>1. IInv => TowerIsStacked
  BY DEF IInv
<1> QED BY <1>1, Invariant, PTL

(***************************************************************************)
(* No row is generated before the tower has moved for it (play.c 859).     *)
(***************************************************************************)
THEOREM RowsInTime == Spec => []NeverAhead
PROOF
<1>1. IInv => NeverAhead
  BY DEF IInv
<1> QED BY <1>1, Invariant, PTL

(***************************************************************************)
(* The floors move with the player in every tick of 16 pixels or less, and *)
(* a longer tick misses at most one row (play.c 803, 818, 859).            *)
(***************************************************************************)
THEOREM FloorsCarry == Spec => FloorsCarryThePlayer
PROOF
<1> DEFINE Carried == \/ Top < FirstRows
                      \/ FloorsMoved = scroll_acc'
                      \/ scroll_acc' > 16 /\ FloorsMoved = scroll_acc' - 16
<1>1. IInv /\ [Next]_vars => [Carried]_vars
  BY TowerStep DEF Next, new_game
<1> QED BY <1>1, Invariant, PTL DEF Spec, FloorsCarryThePlayer
=============================================================================
