----------------------------- MODULE TowerScroll -----------------------------
(***************************************************************************)
(* How the tower scrolls under the player: the scroll step of a tick of    *)
(* play() (play.c 788-861), which speeds the game up as time passes, and   *)
(* the ring of rows of map.c that it advances.  Physics decides how far up *)
(* the screen the player is; here that is a free choice of the number of   *)
(* pixels it lifts the world by.  What is only drawn (the width and place  *)
(* of a platform, signs, tiles, the hurry-up banner) is left out.          *)
(***************************************************************************)
EXTENDS Integers

CONSTANTS
  MaxOffset,    \* bound: the game is followed up to this height in pixels
  MaxCount,     \* bound: and while fall_count stays this close to zero
  ScrollFrom,   \* height above which the tower moves by itself; 100
  Interval,     \* ticks from one speed to the next; 1500
  Penalty,      \* what the clock loses every tick at top speed; 45
  Rows,         \* rows in the ring Tmap.room; 32
  FirstRows,    \* rows new_game builds; 30
  Every,        \* one row in so many is a platform; 5
  Check,        \* spacing of the full-width floors; 250
  CheckUntil,   \* ... up to this row; 5004
  CheckLater    \* ... and beyond it; 2500

ASSUME TowerAssumption ==
  /\ MaxOffset \in Nat /\ MaxCount \in Nat /\ ScrollFrom \in Nat
  /\ Interval \in Nat \ {0} /\ Penalty \in Nat
  /\ Rows \in Nat \ {0} /\ FirstRows \in Nat
  /\ Every \in Nat \ {0} /\ Check \in Nat \ {0}
  /\ CheckUntil \in Nat /\ CheckLater \in Nat \ {0}

VARIABLES
  room,            \* map.room: what each row of the ring is, lowest first
  offset,          \* map.offset: pixels the tower has moved
  scroll,          \* pixels it moves by itself each tick, -1 before it starts
  scroll_acc,      \* pixels it moved in the last tick (published in any13)
  odd,             \* step_count & 1
  fall_count,      \* ticks since the tower started, what the speed depends on
  clock_angle,     \* the same as the clock on the screen shows it
  next_speed,      \* speed-ups so far
  ccc,             \* entries of ply->ccc[5] written
  dead,            \* ply->dead # 0
  start,           \* start_speeds[demo->start_speed]
  speed_increase   \* demo->speed_increase # 0

pace == <<scroll, fall_count, clock_angle, next_speed, ccc>>
game == <<start, speed_increase>>
vars == <<room, offset, scroll_acc, odd, dead, pace, game>>

\* What a row can be: nothing, a platform, or a platform across the screen.
Kinds == {"empty", "platform", "checkpoint"}

\* The speeds of the custom game (external, the image's start_speeds).
start_speeds == 0..5

\* play.c 565-567: the fall_count above which each speed-up happens.
speeds == [i \in 0..8 |-> CASE i < 7 -> Interval * (i + 1)
                            [] i = 7 -> Interval * 1200
                            [] i = 8 -> Interval * 6000]

\* play.c 793-806: pixels a player high on the screen lifts the world by.
Lifts == {0, 1, 2, 3, 4, 5, 6, 8, 10, 13}

-----------------------------------------------------------------------------
(***************************************************************************)
(* add_floor.  The level of the last row is the count of rows so far, read *)
(* before the shift and written back incremented; it decides alone what    *)
(* the new row is.                                                         *)
(***************************************************************************)
IsCheckpoint(k) == (k % Check = 0 /\ k <= CheckUntil) \/ k % CheckLater = 0

RowKind(k) == CASE IsCheckpoint(k) -> "checkpoint"
                [] ~IsCheckpoint(k) /\ k % Every # 0 -> "empty"
                [] ~IsCheckpoint(k) /\ k % Every = 0 -> "platform"

\* The early return of a full-width floor taken before the count is advanced.
NewRowForgetful(k) ==
  [level |-> IF IsCheckpoint(k) /\ k > 0 THEN k ELSE k + 1, kind |-> RowKind(k)]

NewRow(k) == [level |-> k + 1, kind |-> RowKind(k)]

add_floor(r) ==
  [i \in 0..Rows - 1 |-> IF i < Rows - 1 THEN r[i + 1] ELSE NewRow(r[Rows - 1].level)]

\* reset_map
EmptyMap == [i \in 0..Rows - 1 |-> [level |-> 0, kind |-> "empty"]]

Top == room[Rows - 1].level

(***************************************************************************)
(* reset_map and the head of play().  In between new_game (external) calls *)
(* add_floor FirstRows times.                                              *)
(***************************************************************************)
Init ==
  /\ room = EmptyMap /\ offset = 0
  /\ scroll = -1 /\ scroll_acc = 0 /\ odd = FALSE
  /\ fall_count = 0 /\ clock_angle = 0 /\ next_speed = 0 /\ ccc = {}
  /\ dead = FALSE
  /\ start \in start_speeds /\ speed_increase \in BOOLEAN

new_game ==
  /\ Top < FirstRows
  /\ room' = add_floor(room)
  /\ UNCHANGED <<offset, scroll_acc, odd, dead, pace, game>>

-----------------------------------------------------------------------------
(***************************************************************************)
(* One tick in which the player's height lifts the world by lift pixels.   *)
(***************************************************************************)
\* play.c 812: from here up the tower moves by itself.
Rolls(lift) == offset + lift > ScrollFrom /\ ~dead

\* play.c 813-814: the speed of the tick, set when the tower starts.
Speed(lift) == IF Rolls(lift) /\ scroll = -1 THEN start ELSE scroll

\* play.c 815-827: at speed 0 it moves one pixel every other tick.
Drift(lift) == CASE ~Rolls(lift) -> 0
                 [] Rolls(lift) /\ Speed(lift) # 0 -> Speed(lift)
                 [] Rolls(lift) /\ Speed(lift) = 0 -> IF odd THEN 0 ELSE 1

Move(lift) ==
  /\ scroll_acc' = lift + Drift(lift)
  /\ offset' = offset + scroll_acc'
  /\ odd' = ~odd

\* play.c 655 and 831: the ticks counted, none before the tower moves.
Counted(lift) == IF Rolls(lift) \/ dead THEN fall_count + 1 ELSE 0

\* play.c 809-810 and 830: the clock on the screen, which stops with death.
Shown(lift) == CASE dead -> clock_angle
                 [] ~dead /\ Rolls(lift) -> clock_angle + 1
                 [] ~dead /\ ~Rolls(lift) -> 0

\* A threshold test that lets the speed step a tick early.
TimeToHurryEarly(lift) ==
  /\ speed_increase /\ ~dead
  /\ speeds[next_speed] <= Counted(lift)
  /\ Speed(lift) <= 4

\* play.c 840-843
TimeToHurry(lift) ==
  /\ speed_increase /\ ~dead
  /\ speeds[next_speed] < Counted(lift)
  /\ Speed(lift) <= 4

\* A speed-up that counts itself but forgets the speed.
HurryInName(lift) ==
  \/ /\ TimeToHurry(lift)
     /\ ccc' = ccc \union {next_speed}
     /\ next_speed' = next_speed + 1
     /\ scroll' = Speed(lift)
  \/ /\ ~TimeToHurry(lift)
     /\ scroll' = Speed(lift)
     /\ UNCHANGED <<ccc, next_speed>>

\* play.c 844-846
Hurry(lift) ==
  \/ /\ TimeToHurry(lift)
     /\ ccc' = ccc \union {next_speed}
     /\ next_speed' = next_speed + 1
     /\ scroll' = Speed(lift) + 1
  \/ /\ ~TimeToHurry(lift)
     /\ scroll' = Speed(lift)
     /\ UNCHANGED <<ccc, next_speed>>

\* The clock left out of the top-speed correction.
CountBackAlone(lift) ==
  /\ fall_count' = Counted(lift) - (IF scroll' = 5 THEN Penalty ELSE 0)
  /\ clock_angle' = Shown(lift)

\* play.c 853-857: at top speed the count runs back, and so does the clock.
CountBack(lift) ==
  /\ fall_count' = Counted(lift) - (IF scroll' = 5 THEN Penalty ELSE 0)
  /\ clock_angle' = Shown(lift) - (IF scroll' = 5 /\ ~dead THEN Penalty ELSE 0)

\* The remainder alone: a tick of exactly one row leaves it as it was.
NeedsRowByRemainder == offset % 16 > offset' % 16

\* A row for every tick that moves a whole row, and one for the remainder.
NeedsRowOften == offset % 16 >= offset' % 16 \/ scroll_acc' > 15

\* play.c 859-860
NeedsRow == offset % 16 > offset' % 16 \/ scroll_acc' > 15

Advance == room' = IF NeedsRow THEN add_floor(room) ELSE room

\* play.c 1002-1010: a player that falls off the screen is not high on it.
Die(lift) ==
  \/ dead' = dead
  \/ ~dead /\ lift = 0 /\ dead' = TRUE

Tick(lift) ==
  /\ Top >= FirstRows
  /\ offset < MaxOffset /\ fall_count \in -MaxCount..MaxCount
  /\ dead => lift = 0
  /\ Move(lift) /\ Hurry(lift) /\ CountBack(lift) /\ Advance /\ Die(lift)
  /\ UNCHANGED game

Next == new_game \/ \E lift \in Lifts : Tick(lift)

Spec == Init /\ [][Next]_vars

-----------------------------------------------------------------------------
\* Every variable keeps its type: next_speed stays an index of speeds[9], ccc
\* an index of ccc[5], scroll a speed the code has.
TypeOK ==
  /\ room \in [0..Rows - 1 -> [level: Nat, kind: Kinds]]
  /\ offset \in Nat /\ scroll \in -1..5 /\ scroll_acc \in 0..18
  /\ odd \in BOOLEAN /\ dead \in BOOLEAN
  /\ fall_count \in Int /\ clock_angle \in Int
  /\ next_speed \in 0..5 /\ ccc \subseteq 0..4
  /\ start \in start_speeds /\ speed_increase \in BOOLEAN

(***************************************************************************)
(* The speed is the start speed plus the speed-ups, each of which is       *)
(* reported in its own entry of ccc, and until the top speed each happens  *)
(* in the very tick its threshold is passed, however high the player is    *)
(* (play.c 812-857): nothing but the ticks since the tower started counts. *)
(***************************************************************************)
SpeedIsTheSchedule ==
  /\ scroll = -1 => next_speed = 0 /\ (~dead => fall_count = 0)
  /\ scroll # -1 => scroll = start + next_speed
  /\ ccc = 0..next_speed - 1

HurriesOnTime ==
  speed_increase /\ ~dead /\ scroll \in 0..4 =>
    /\ fall_count <= speeds[next_speed]
    /\ next_speed > 0 => fall_count > speeds[next_speed - 1]

(***************************************************************************)
(* While the player lives the clock on the screen shows the count the      *)
(* speed depends on: two variables, advanced, reset and set back at        *)
(* different places (play.c 655, 810, 829-831, 854-856).                   *)
(***************************************************************************)
ClockIsTrue == ~dead => clock_angle = fall_count

(***************************************************************************)
(* The ring always holds the last Rows rows generated, in order and none   *)
(* twice, and what a row is depends on its number alone, so the tower is   *)
(* the same however fast it was climbed (map.c 206-274).                   *)
(***************************************************************************)
TowerIsStacked ==
  \A i \in 0..Rows - 1 :
    LET level == Top - (Rows - 1 - i)
    IN IF level > 0 THEN room[i] = [level |-> level, kind |-> RowKind(level - 1)]
       ELSE room[i] = [level |-> 0, kind |-> "empty"]

\* No row is generated before the tower has moved for it: one per 16 pixels
\* (play.c 859, which guesses that from a remainder).
NeverAhead == Top <= FirstRows + offset \div 16

(***************************************************************************)
(* A row is drawn and stood on at 16 pixels for its place in the ring plus *)
(* offset % 16 (getFloorData, map.c 53).  In a tick the floors move by     *)
(* scroll_acc, as the player riding them does (play.c 803, 818), except    *)
(* that one row is missed when more than 16 pixels pass two row            *)
(* boundaries: add_floor is called once a tick.                            *)
(***************************************************************************)
FloorsMoved == 16 * (Top' - Top) + (offset' % 16) - (offset % 16)
FloorsCarryThePlayer ==
  [][\/ Top < FirstRows
     \/ FloorsMoved = scroll_acc'
     \/ scroll_acc' > 16 /\ FloorsMoved = scroll_acc' - 16]_vars
=============================================================================
