------------------------------ MODULE HiscTable ------------------------------
(***************************************************************************)
(* One high-score table and its life with play(): the game-over half asks  *)
(* qualify_hisc_table() which place a result takes, shows it, lets a guest *)
(* type his initials, and only then overwrites the worst entry with        *)
(* enter_hisc_table() and re-sorts with sort_hisc_table().  Closing the    *)
(* window between the two loses the entry.                                 *)
(*                                                                         *)
(* The array posts[0..4] is a sequence here, so a C index i is i + 1; the  *)
(* loops over it are functions of the index, computed from the left.       *)
(***************************************************************************)
EXTENDS Integers, SequencesExt

CONSTANTS
  Posts,      \* HISC_POSTS
  Ceiling,    \* enter_hisc_table's first threshold, 10000000
  MaxValue,   \* bound: largest result
  Names       \* names and initials

ASSUME HiscAssumption ==
  /\ Posts \in Nat \ {0}
  /\ Ceiling \in Nat
  /\ MaxValue \in Nat

VARIABLES
  posts,     \* the table
  value,     \* qualifyValue, -1 when no game is on its results screen
  qualify    \* what qualify_hisc_table returned for it

vars == <<posts, value, qualify>>

Values == 0 .. MaxValue

Thisc == [name : Names, value : Values]

Sorted(t) == \A i, j \in 1 .. Posts : i < j => t[i].value >= t[j].value

-----------------------------------------------------------------------------
(* The three list operations.                                              *)

Beats(t, i, v) == t[i].value < v

\* A search that returns its index when it runs off the end.
qualify_off_end(t, v) ==
  LET beaten == {i \in 1 .. Posts : Beats(t, i, v)} IN
  IF v = 0 THEN 0 ELSE Min(beaten \cup {Posts + 1})

\* The 1-based place of the first entry that v beats, 0 for none or for v = 0.
qualify_hisc_table(t, v) ==
  LET beaten == {i \in 1 .. Posts : Beats(t, i, v)} IN
  IF v = 0 \/ beaten = {} THEN 0 ELSE Min(beaten)

\* A sort the other way round.
ShiftsPastLarger(t, j, e) == t[j - 1].value > e.value

\* A shift that also passes entries of the same value: no longer stable.
ShiftsPastTies(t, j, e) == t[j - 1].value <= e.value

ShiftsPast(t, j, e) == t[j - 1].value < e.value

\* sort_hisc_table's inner loop: element i moves left past all smaller ones.
SortIn(t, i) ==
  LET e == t[i]
      stop[j \in 1 .. Posts] ==
        IF j > 1 /\ ShiftsPast(t, j, e) THEN stop[j - 1] ELSE j
  IN  InsertAt(RemoveAt(t, i), stop[i], e)

sort_hisc_table(t) ==
  LET sorted[i \in 1 .. Posts] == IF i = 1 THEN t ELSE SortIn(sorted[i - 1], i)
  IN  sorted[Posts]

\* The slot enter_hisc_table overwrites, 0 for none: each entry below the
\* threshold becomes the threshold, and the last one to do so is overwritten.
Slot(t) ==
  LET scan[i \in 0 .. Posts] ==
        IF i = 0 THEN [pos |-> 0, threshold |-> Ceiling]
        ELSE IF t[i].value < scan[i - 1].threshold
             THEN [pos |-> i, threshold |-> t[i].value]
             ELSE scan[i - 1]
  IN  scan[Posts].pos

enter_hisc_table(t, v, n) ==
  IF Slot(t) = 0 THEN t ELSE [t EXCEPT ![Slot(t)] = [name |-> n, value |-> v]]

-----------------------------------------------------------------------------
Init ==
  /\ posts \in [1 .. Posts -> Thisc]
  /\ Sorted(posts)
  /\ value = -1
  /\ qualify = 0

\* play()'s gate into the game-over half.
Qualify ==
  /\ value = -1
  /\ value' \in Values
  /\ qualify' = qualify_hisc_table(posts, value')
  /\ UNCHANGED posts

\* The results screen ran to its end: the commit.
Enter ==
  /\ value # -1
  /\ \E n \in Names :
       posts' = IF qualify > 0
                THEN sort_hisc_table(enter_hisc_table(posts, value, n))
                ELSE posts
  /\ value' = -1
  /\ qualify' = 0

\* The window was closed on it.
Abandon ==
  /\ value # -1
  /\ value' = -1
  /\ qualify' = 0
  /\ UNCHANGED posts

Next == Qualify \/ Enter \/ Abandon

Spec == Init /\ [][Next]_vars

-----------------------------------------------------------------------------
(* Properties.                                                             *)

TypeOK ==
  /\ posts \in [1 .. Posts -> Thisc]
  /\ value \in Values \cup {-1}
  /\ qualify \in 0 .. Posts

\* The table is in order whenever anybody can look at it.
AlwaysSorted == Sorted(posts)

\* The place a player is shown is the place his result then has - under the
\* ceiling: a table whose entries all reached it takes no more.
PlaceKept ==
  [][Enter /\ qualify > 0 /\ (\E i \in 1 .. Posts : posts[i].value < Ceiling)
       => /\ posts'[qualify].value = value
          /\ \A i \in 1 .. qualify - 1 : posts'[i] = posts[i]]_vars

\* "The winner is slot 4, the lowest score": a result that qualifies for a
\* full table takes the place of its last entry.
LosesLastSlot ==
  qualify > 0 /\ (\A i \in 1 .. Posts : posts[i].value \in 1 .. Ceiling - 1)
    => Slot(posts) = Posts

\* The table implements the promise.
Promise == INSTANCE HighScores WITH best <- posts

ImplementsHighScores == Promise!Spec
=============================================================================
