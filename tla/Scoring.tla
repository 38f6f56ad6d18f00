------------------------------- MODULE Scoring -------------------------------
(***************************************************************************)
(* Score, combos and jump sequences of one game: the accounting part of a  *)
(* tick of play() (play.c 887-1029) with add_combo and add_jump_sequence.  *)
(* Collision has already decided whether the player stands on a floor and  *)
(* on which; here that is a free choice, except that a floor is only left  *)
(* through the air: jump_player sets status to 1, and                      *)
(* handle_player_collision_vector lands only a player whose status is 2    *)
(* or 3.  Ghost variables (last group) record what the results are about. *)
(***************************************************************************)
EXTENDS Integers, SequencesExt

CONSTANTS
  MaxLevel,   \* bound: the highest floor of the instance
  MaxMoves,   \* bound: landings on a different floor in one game
  ComboTime,  \* ticks a combo waits for its next jump; 100 in the code
  JumpSizes,  \* lengths with a jump-sequence counter; 5 in the code
  MaxCombos,  \* room in gd->combos; 5000 in the code
  MaxJumps    \* room in gd->jumps; 5000 in the code

ASSUME ScoringAssumption ==
  /\ MaxLevel \in Nat \ {0} /\ MaxMoves \in Nat
  /\ ComboTime \in Nat \ {0, 1}
  /\ JumpSizes \in Nat \ {0} /\ MaxCombos \in Nat \ {0}
  /\ MaxJumps \in Nat \ {0}

VARIABLES
  status,               \* "stand" for ply->status 0, "air" for 1, 2 and 3
  level,                \* the floor the player last stood on
  dead,
  in_combo,             \* ticks left to the running combo, 0: none runs
  acc_level,            \* floors and jumps of the running or last combo
  acc_jumps,
  score, latest_combo, best_combo,
  numComboJumps, totComboFloors,
  combos,               \* gd->combos[0 .. gd->comboPosts - 1]
  biggest_lost_combo,
  gdComboStart,
  no_combo_top_floor,
  jc, jcTop,            \* current and longest run of climbs of each length
  lastJumpLength,
  jumpSequence,         \* start and num; dist is set when it is stored
  gdLastJumpDiff,
  jumps,                \* gd->jumps[0 .. gd->jumpPosts - 1]
  \* ghosts
  moves,                \* landings on a different floor so far
  chained,              \* floors climbed by combos of two jumps or more
  freeTop,              \* highest floor stood on with no combo running
  fresh,                \* such a tick has ended on the current floor
  rested                \* the last floor left on which a standing tick, the
                        \* landing of a fall aside, ended with no combo

pay == <<score, latest_combo, best_combo, numComboJumps, totComboFloors, combos>>
chain == <<in_combo, acc_level, acc_jumps>>
runs == <<jc, jcTop, lastJumpLength>>
seqs == <<jumpSequence, gdLastJumpDiff, jumps>>
ends == <<dead, biggest_lost_combo>>
marks == <<gdComboStart, no_combo_top_floor>>
ghosts == <<moves, chained, freeTop, fresh, rested>>
vars == <<status, level, pay, chain, runs, seqs, ends, marks, ghosts>>

Larger(a, b) == IF a > b THEN a ELSE b

(***************************************************************************)
(* reset_player, the head of play() and the zeroed globals of the first    *)
(* game of a process (state.c).                                            *)
(***************************************************************************)
Init ==
  /\ status = "stand" /\ level = 0 /\ dead = FALSE
  /\ in_combo = 0 /\ acc_level = 0 /\ acc_jumps = 0
  /\ score = 0 /\ latest_combo = 0 /\ best_combo = 0
  /\ numComboJumps = 0 /\ totComboFloors = 0 /\ combos = <<>>
  /\ biggest_lost_combo = 0 /\ gdComboStart = 0 /\ no_combo_top_floor = 0
  /\ jc = [d \in 1..JumpSizes |-> 0] /\ jcTop = jc /\ lastJumpLength = 0
  /\ jumpSequence = [start |-> 0, num |-> 0] /\ gdLastJumpDiff = 0
  /\ jumps = <<>>
  /\ moves = 0 /\ chained = 0 /\ freeTop = 0 /\ fresh = FALSE /\ rested = 0

-----------------------------------------------------------------------------
\* A countdown without its guard.
TimerUnguarded == in_combo - 1

(***************************************************************************)
(* The countdown at the top of the tick (play.c 891-913): Timer is         *)
(* in_combo after it; a combo that runs out and chained jumps is paid.     *)
(***************************************************************************)
Timer == IF in_combo = 0 THEN 0 ELSE in_combo - 1

\* The capacity test off by one.
add_combo_early(c) ==
  combos' = IF Len(combos) >= MaxCombos - 1 THEN combos ELSE Append(combos, c)

add_combo(c) ==
  combos' = IF Len(combos) >= MaxCombos THEN combos ELSE Append(combos, c)

Pays == in_combo = 1 /\ acc_jumps > 1

Countdown ==
  \/ /\ Pays
     /\ score' = score + acc_level * acc_level
     /\ totComboFloors' = totComboFloors + acc_level
     /\ numComboJumps' = numComboJumps + 1
     /\ add_combo([start |-> gdComboStart, end |-> gdComboStart + acc_level,
                   length |-> acc_level])
     /\ latest_combo' = acc_level
     /\ best_combo' = Larger(best_combo, acc_level)
  \/ ~Pays /\ UNCHANGED pay

(***************************************************************************)
(* The jump counters are folded into their tops and cleared whenever the   *)
(* run of equal climbs ends (play.c 947-951, 985-989, 1013-1017).          *)
(***************************************************************************)
Tops == [d \in 1..JumpSizes |-> Larger(jcTop[d], jc[d])]
NoRuns == [d \in 1..JumpSizes |-> 0]
FlushRuns == jcTop' = Tops /\ jc' = NoRuns /\ lastJumpLength' = 0

add_jump_sequence ==
  jumps' = IF jumpSequence.num = 0 \/ Len(jumps) >= MaxJumps THEN jumps
           ELSE Append(jumps, [start |-> jumpSequence.start,
                               dist |-> gdLastJumpDiff,
                               num |-> jumpSequence.num])

\* A sequence that starts on the floor its first jump reached.
SequenceFromLanding(diff) ==
  /\ gdLastJumpDiff' = diff
  /\ \/ /\ gdLastJumpDiff = diff
        /\ jumpSequence' = [jumpSequence EXCEPT !.num = @ + 1]
        /\ UNCHANGED jumps
     \/ /\ gdLastJumpDiff # diff
        /\ add_jump_sequence
        /\ jumpSequence' = [start |-> level + diff, num |-> 1]

\* play.c 930-941: a landing on another floor extends the sequence or ends it.
Sequence(diff) ==
  /\ gdLastJumpDiff' = diff
  /\ \/ /\ gdLastJumpDiff = diff
        /\ jumpSequence' = [jumpSequence EXCEPT !.num = @ + 1]
        /\ UNCHANGED jumps
     \/ /\ gdLastJumpDiff # diff
        /\ add_jump_sequence
        /\ jumpSequence' = [start |-> level, num |-> 1]

\* A combo's floors counted as they are reached.
NoComboTopNow ==
  no_combo_top_floor' =
    IF numComboJumps' = 0 THEN Larger(no_combo_top_floor, level')
    ELSE no_combo_top_floor

\* play.c 995-998, at the end of every tick spent standing.
NoComboTop ==
  no_combo_top_floor' =
    IF numComboJumps' = 0 /\ no_combo_top_floor < level' THEN gdComboStart'
    ELSE no_combo_top_floor

LeaveFloor == rested' = IF fresh THEN level ELSE rested

StoodFree == freeTop' = IF in_combo' = 0 THEN Larger(freeTop, level') ELSE freeTop

\* The start moved along with a running combo.
RefreshStartAlways == gdComboStart' = level'

\* play.c 980-981, in every standing tick but the landing of a fall.
RefreshStart == gdComboStart' = IF in_combo' = 0 THEN level' ELSE gdComboStart

-----------------------------------------------------------------------------
\* A tick that ends off the floor: only the countdown runs.
Airborne ==
  /\ ~dead
  /\ status' = "air"
  /\ Countdown
  /\ in_combo' = Timer
  /\ UNCHANGED <<level, acc_level, acc_jumps, runs, seqs, ends, marks, ghosts>>

\* play.c 943-981 with diff = 0: standing still, or landing where one left.
Stand ==
  /\ ~dead
  /\ status' = "stand"
  /\ Countdown
  /\ in_combo' = Timer
  /\ UNCHANGED level
  /\ RefreshStart
  /\ NoComboTop
  /\ StoodFree
  /\ fresh' = (fresh \/ Timer = 0)
  /\ UNCHANGED <<acc_level, acc_jumps, runs, seqs, ends, moves, chained, rested>>

\* A run that a climb of another length does not end.
CountClimbKeeping(diff) ==
  /\ UNCHANGED jcTop
  /\ jc' = IF diff \in 1..JumpSizes THEN [jc EXCEPT ![diff] = @ + 1] ELSE jc
  /\ lastJumpLength' = diff

\* play.c 946-952, 957-970: the run of equal climbs goes on or starts over.
CountClimb(diff) ==
  LET kept == IF diff = lastJumpLength THEN jc ELSE NoRuns
  IN /\ jcTop' = IF diff = lastJumpLength THEN jcTop ELSE Tops
     /\ jc' = IF diff \in 1..JumpSizes THEN [kept EXCEPT ![diff] = @ + 1] ELSE kept
     /\ lastJumpLength' = diff

\* A break that clears the combo instead of leaving it to the countdown.
BreakComboAtOnce ==
  /\ in_combo' = 0
  /\ UNCHANGED <<acc_level, acc_jumps, chained>>

\* play.c 957-981: a climb of one floor breaks the combo, a longer one
\* extends the running combo or starts one.
BreakCombo ==
  /\ in_combo' = IF Timer > 0 THEN 1 ELSE 0
  /\ UNCHANGED <<acc_level, acc_jumps, chained>>

ExtendCombo(diff) ==
  /\ in_combo' = ComboTime
  /\ acc_level' = IF Timer > 0 THEN acc_level + diff ELSE diff
  /\ acc_jumps' = IF Timer > 0 THEN acc_jumps + 1 ELSE 1
  /\ chained' = chained + (IF acc_jumps' = 1 THEN 0
                           ELSE IF acc_jumps' = 2 THEN acc_level' ELSE diff)

Climb(l) ==
  LET diff == l - level
  IN /\ ~dead /\ status = "air" /\ moves < MaxMoves
     /\ l > level
     /\ status' = "stand" /\ level' = l /\ moves' = moves + 1
     /\ Countdown
     /\ Sequence(diff)
     /\ CountClimb(diff)
     /\ \/ diff = 1 /\ BreakCombo
        \/ diff > 1 /\ ExtendCombo(diff)
     /\ RefreshStart
     /\ fresh' = (in_combo' = 0)
     /\ LeaveFloor
     /\ NoComboTop
     /\ StoodFree
     /\ UNCHANGED ends

\* play.c 982-991: landing on a lower floor.  gdComboStart is left alone.
Fall(l) ==
  /\ ~dead /\ status = "air" /\ moves < MaxMoves
  /\ l < level
  /\ status' = "stand" /\ level' = l /\ moves' = moves + 1
  /\ Countdown
  /\ Sequence(l - level)
  /\ in_combo' = IF Timer > 0 THEN 1 ELSE 0
  /\ FlushRuns
  /\ UNCHANGED gdComboStart
  /\ fresh' = FALSE
  /\ LeaveFloor
  /\ NoComboTop
  /\ StoodFree
  /\ UNCHANGED <<acc_level, acc_jumps, ends, chained>>

(***************************************************************************)
(* The fall off the screen (play.c 1002-1029): rows the map knows end at   *)
(* y = 479, so the player has been in the air for ticks when y passes 540. *)
(* The countdown of the same tick comes first.                             *)
(***************************************************************************)
Die ==
  /\ ~dead /\ status = "air"
  /\ dead' = TRUE
  /\ Countdown
  /\ biggest_lost_combo' = IF Timer > 0 /\ acc_jumps > 1 THEN acc_level
                           ELSE biggest_lost_combo
  /\ in_combo' = 0
  /\ FlushRuns
  /\ add_jump_sequence
  /\ no_combo_top_floor' = IF numComboJumps' = 0
                           THEN Larger(no_combo_top_floor, level)
                           ELSE no_combo_top_floor
  /\ UNCHANGED <<level, acc_level, acc_jumps, jumpSequence, gdLastJumpDiff,
                 gdComboStart, status, ghosts>>

Next ==
  \/ Airborne \/ Stand \/ Die
  \/ \E l \in 0..MaxLevel : Climb(l) \/ Fall(l)

Spec == Init /\ [][Next]_vars
-----------------------------------------------------------------------------
ComboRecords == [start: Nat, end: Nat, length: Nat]
JumpRecords == [start: 0..MaxLevel, dist: -MaxLevel..MaxLevel, num: Nat]

PayType ==
  /\ score \in Nat /\ latest_combo \in Nat /\ best_combo \in Nat
  /\ numComboJumps \in Nat /\ totComboFloors \in Nat
  /\ combos \in Seq(ComboRecords) /\ Len(combos) <= MaxCombos

ChainType ==
  /\ in_combo \in 0..ComboTime
  /\ acc_level \in Nat /\ acc_jumps \in Nat /\ chained \in Nat

RunsType ==
  /\ jc \in [1..JumpSizes -> Nat] /\ jcTop \in [1..JumpSizes -> Nat]
  /\ lastJumpLength \in 0..MaxLevel

SeqsType ==
  /\ jumpSequence \in [start: 0..MaxLevel, num: Nat]
  /\ gdLastJumpDiff \in -MaxLevel..MaxLevel
  /\ jumps \in Seq(JumpRecords) /\ Len(jumps) <= MaxJumps

MarksType ==
  /\ gdComboStart \in 0..MaxLevel
  /\ no_combo_top_floor \in 0..MaxLevel /\ freeTop \in 0..MaxLevel

PlayerType ==
  /\ status \in {"stand", "air"} /\ level \in 0..MaxLevel
  /\ dead \in BOOLEAN /\ biggest_lost_combo \in Nat
  /\ moves \in 0..MaxMoves /\ fresh \in BOOLEAN /\ rested \in 0..MaxLevel

\* Every variable keeps its type: the timer and the arrays of play.c stay in
\* their ranges, whatever the player does.
TypeOK == PlayerType /\ PayType /\ ChainType /\ RunsType /\ SeqsType /\ MarksType

(***************************************************************************)
(* Every floor climbed by a combo of two jumps or more is paid once, or    *)
(* lost once by dying, or still pending: timer, break, fall and death may  *)
(* all end the same combo in neighbouring ticks (play.c 891, 973, 983,     *)
(* 1005).                                                                  *)
(***************************************************************************)
Pending == IF in_combo > 0 /\ acc_jumps > 1 THEN acc_level ELSE 0
ComboFloorsConserved == chained = totComboFloors + biggest_lost_combo + Pending

\* A list of numbers accumulated from the left, starting at 0.
Accumulate(op, list) ==
  LET acc[i \in 0..Len(list)] == IF i = 0 THEN 0 ELSE op[<<acc[i - 1], list[i]>>]
  IN  acc[Len(list)]

Plus == [p \in Int \X Int |-> p[1] + p[2]]
Maximum == [p \in Int \X Int |-> Larger(p[1], p[2])]

(***************************************************************************)
(* While gd->combos has room, score and combo statistics are those of its  *)
(* entries (play.c 896-910): itrcheck -combos lists what was scored.       *)
(***************************************************************************)
Lengths == [i \in DOMAIN combos |-> combos[i].length]
Squares == [i \in DOMAIN combos |-> combos[i].length * combos[i].length]
ScoreIsTheCombos ==
  numComboJumps <= MaxCombos =>
    /\ numComboJumps = Len(combos)
    /\ score = Accumulate(Plus, Squares)
    /\ totComboFloors = Accumulate(Plus, Lengths)
    /\ best_combo = Accumulate(Maximum, Lengths)
    /\ combos # <<>> => latest_combo = Last(combos).length

(***************************************************************************)
(* The jump sequences, the open one included, tile the game: each starts   *)
(* where the one before ended, neighbours differ in length, and they end   *)
(* on the floor the player is on (play.c 930-941, 1020).                   *)
(***************************************************************************)
Open == [start |-> jumpSequence.start, dist |-> gdLastJumpDiff, num |-> jumpSequence.num]
AllSequences == IF dead \/ jumpSequence.num = 0 THEN jumps ELSE Append(jumps, Open)
EndOf(s) == s.start + s.dist * s.num
Complete == Len(AllSequences) < MaxJumps
Tiles(s, floor, landings) ==
  /\ s = <<>> => floor = 0
  /\ s # <<>> => s[1].start = 0 /\ EndOf(Last(s)) = floor
  /\ \A i \in 1..Len(s) - 1 :
        EndOf(s[i]) = s[i + 1].start /\ s[i].dist # s[i + 1].dist
  /\ landings = Accumulate(Plus, [i \in DOMAIN s |-> s[i].num])
SequencesTileTheGame == Complete => Tiles(AllSequences, level, moves)

(***************************************************************************)
(* The counters of jumps of one length (jc, jcTop: the profile's "double   *)
(* jump sequence" records) agree with the jump sequences, which are kept   *)
(* by other code: the top is the longest sequence of that length.          *)
(***************************************************************************)
LongestOf(s, d) ==
  Accumulate(Maximum, [i \in DOMAIN s |-> IF s[i].dist = d THEN s[i].num ELSE 0])
TopsAreTheLongestSequences ==
  Complete => /\ \A d \in 1..JumpSizes : Tops[d] = LongestOf(AllSequences, d)
              /\ dead => jcTop = Tops

(***************************************************************************)
(* A running combo is reported from the last floor the player rested on    *)
(* before it.  That is the floor its first jump left if he rested there,   *)
(* and an older one if that jump followed a break or a fall at once, or    *)
(* the timer of the combo before ran out in the air (play.c 957-991).      *)
(***************************************************************************)
ComboStartHonest == in_combo > 0 => gdComboStart = rested

(***************************************************************************)
(* How the "no combo" floor may move (play.c 980, 995-998, 1022-1025):     *)
(* never above the floors stood on with no combo running; before the first *)
(* paid combo, up to any floor rested on and to the floor a game ends on;  *)
(* and down only to the combo's start, by a climb of a running combo that  *)
(* jumps past it from a floor not above it.                                *)
(***************************************************************************)
TopMoves ==
  /\ no_combo_top_floor' <= IF dead' THEN Larger(freeTop', level') ELSE freeTop'
  /\ (fresh' \/ dead') /\ numComboJumps' = 0 => no_combo_top_floor' >= level'
  /\ no_combo_top_floor' < no_combo_top_floor =>
       /\ numComboJumps' = 0 /\ in_combo' > 0
       /\ no_combo_top_floor \in level .. level' - 1
       /\ no_combo_top_floor' = gdComboStart'
NoComboTopEarned == [][TopMoves]_vars
=============================================================================
