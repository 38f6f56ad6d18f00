------------------------------- MODULE Landing -------------------------------
(***************************************************************************)
(* How the player stands on the tower and falls onto it: the vertical part *)
(* of update_player(), the scrolling of a tick of play(), the row lookup   *)
(* of getFloorData() and handle_player_collision_vector(), the algorithm   *)
(* of the five that new_game() selects.                                    *)
(*                                                                         *)
(* Everything is in whole pixels, as the collision sees it: y is           *)
(* (int)p->y.  How fast the player rises or falls and how far the tower    *)
(* scrolls are free choices within the code's limits; where the player is  *)
(* from left to right is reduced to the question whether one of his feet   *)
(* is over the floor where its way crosses it.  Left out: sx and the       *)
(* walls, rotate and edge (drawing), and the end of the screen.            *)
(***************************************************************************)
EXTENDS Integers

CONSTANTS
  Bottom,    \* the lowest row of the screen that is in the map, 29
  Every,     \* one row in so many has a floor, 5
  MaxFall,   \* pixels a falling player moves in a tick: max_speed, rounded up
  MaxRise,   \* bound: pixels a rising player moves in a tick
  Scrolls,   \* pixels the tower moves in a tick
  Above, MaxY \* bound: the player is followed from -Above to MaxY

ASSUME LandingAssumption ==
  /\ Bottom \in Nat /\ Every \in Nat /\ Every >= 3
  /\ MaxFall \in 0 .. 16
  /\ MaxRise \in Nat
  /\ Scrolls \subseteq 0 .. 16
  /\ Above \in Nat /\ MaxY \in Nat

VARIABLES
  y,         \* (int)p->y; the feet are at y + 1
  status,    \* p->status
  offset,    \* map.offset % 16
  floors,    \* the rows of the screen with a floor: 29 - i for room[i]
  lost       \* history: in the last tick the player lost a floor under his feet

vars == <<y, status, offset, floors, lost>>

\* p->status: 0 to 3
Standing == "standing"
Rising   == "rising"
Falling  == "falling"
Dropped  == "dropped"

Statuses == {Standing, Rising, Falling, Dropped}
Airborne == {Falling, Dropped}

\* The 32 rows of the map: two of them are above the screen.
OnMap == -2 .. Bottom

\* getFloorData: the row of a height, which ignores the offset, and the
\* height of the floor in it, which does not.
Row(cy) == (cy + 1) \div 16
Height(k, o) == 16 * k + o

\* A player standing on a floor has his feet on it.
On(k, o) == Height(k, o) - 1

\* new_game puts the player on a floor (external).
Init ==
  /\ offset = 0
  /\ \E p \in 0 .. Every - 1 : floors = {k \in OnMap : k % Every = p}
  /\ \E k \in floors \cap Nat : y = On(k, 0)
  /\ status = Standing
  /\ lost = FALSE

-----------------------------------------------------------------------------
(* update_player, after handle_player_input may have started a jump: the   *)
(* pixels moved and the status this leads to.                              *)

Moves ==
  CASE status = Standing -> {<<Standing, 0>>}
                            \cup ({Rising} \X (-MaxRise .. 0))
    [] status = Rising   -> ({Rising} \X (-MaxRise .. 0))
                            \cup ({Falling} \X (-2 .. 0))
    [] OTHER             -> {status} \X (-1 .. MaxFall)

(* The scrolling: a row of floors for every sixteen pixels.                *)

\* The test without its second half.
RowByRemainder(o, s) == o > (o + s) % 16

\* play.c 859
NewRow(o, s) == o > (o + s) % 16 \/ s > 15

\* add_floor
Lower == {k + 1 : k \in floors} \cap OnMap
AddFloor == Lower \cup {k \in {-2} : Every - 2 \in Lower}

(* handle_player_collision_vector, at height now after a tick that began   *)
(* at height last (both after the scrolling).                              *)

\* A lookup of the new height alone.
RowAtNew(now, last, fs) == {Row(now)} \cap fs

\* The floor in the row of the new height, else in that of the old one.
RowOf(now, last, fs) ==
  IF Row(now) \in fs THEN {Row(now)} ELSE {Row(last)} \cap fs

\* line_intersect of the floor with the way of the feet, which goes from
\* the pixel the player was at to the pixel below the one he is at.
Crosses(fy, now, last) ==
  \/ last <= fy /\ fy <= now + 1
  \/ now + 1 <= fy /\ fy <= last

\* Both ends on the floor: 0/0 passes every range test and puts the crossing
\* at a place the +-10000 guard refuses.
Degenerate(fy, now, last) == last = fy /\ now + 1 = fy

\* Where the player lands: the feet beside the floor.
LandsBeside(fy) == fy

LandsAt(fy) == fy - 1

Land(st, now, last, over, k) ==
  LET fy == Height(k, offset')
  IN  CASE Degenerate(fy, now, last) -> y' = now /\ status' = st
        [] /\ ~Degenerate(fy, now, last)
           /\ over /\ Crosses(fy, now, last) ->
             IF st \in Airborne
             THEN y' = LandsAt(fy) /\ status' = Standing
             ELSE y' = now /\ status' = st
        [] OTHER ->
             /\ y' = now
             /\ status' = IF st = Rising THEN Rising ELSE Dropped

Collide(st, now, last, over) ==
  LET rows == RowOf(now, last, floors')
  IN  \/ \E k \in rows : Land(st, now, last, over, k)
      \/ /\ rows = {}
         /\ y' = now
         /\ status' = IF st = Rising THEN Rising ELSE Dropped

\* A falling player was above a floor and is below it.
FellThrough(st, last) ==
  st \in Airborne /\ \E k \in floors' : last < Height(k, offset') /\ y' >= Height(k, offset')

\* A standing player stood still, and the map did not end, but he drops.
SlippedOff(st, now) == st = Standing /\ Row(now) \in OnMap /\ status' # Standing

\* A tick of play(), from 773 to 880.
Tick(move, s, over) ==
  LET last == y + s
      now  == y + move[2] + s
  IN  /\ now \in -Above .. MaxY
      /\ offset' = (offset + s) % 16
      /\ floors' = IF NewRow(offset, s) THEN AddFloor ELSE floors
      /\ Collide(move[1], now, last, over)
      /\ lost' = (over /\ \/ FellThrough(move[1], last)
                            \/ SlippedOff(move[1], now))

Next == \E move \in Moves, s \in Scrolls, over \in BOOLEAN : Tick(move, s, over)

Spec == Init /\ [][Next]_vars

-----------------------------------------------------------------------------
(* Properties.                                                             *)

TypeOK ==
  /\ y \in Int /\ status \in Statuses /\ offset \in 0 .. 15
  /\ floors \in SUBSET OnMap /\ lost \in BOOLEAN

\* A player that stands, stands on a floor of the map: scrolling, the rows
\* that move on under it, the lookup that ignores the offset and the pixel a
\* landing is rounded to never leave him in the air, or in the floor.
StandsOnAFloor == status = Standing => \E k \in floors : y = On(k, offset)

\* At any fall of up to MaxFall and any scroll of up to 16 pixels in a tick, a
\* player with a foot over a floor does not pass it on his way down, nor does
\* it leave from under him when he stands.
FloorsHold == ~lost
=============================================================================
