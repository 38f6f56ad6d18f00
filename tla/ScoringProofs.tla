---------------------------- MODULE ScoringProofs ----------------------------
(***************************************************************************)
(* What Scoring promises, for every tower height, combo time, number of    *)
(* counters and array size: types, the conservation of combo floors, where *)
(* combos start, and the agreement of the statistics with the combo and    *)
(* jump lists.  The last ones are about values accumulated over a list;    *)
(* their lemmas rest on induction over the naturals, which is derived here *)
(* from the least element every nonempty set of naturals has.              *)
(***************************************************************************)
EXTENDS Scoring, WellFoundedInduction, TLAPS

\* The squares play.c 896 adds to the score are numbers.
LEMMA SquareIsNat == \A n \in Nat : n * n \in Nat
  OBVIOUS

\* add_combo and add_jump_sequence: an append that stops at the capacity.
LEMMA BoundedAppend ==
  ASSUME NEW S, NEW s \in Seq(S), NEW e \in S, NEW n \in Nat, Len(s) <= n
  PROVE  LET t == IF Len(s) >= n THEN s ELSE Append(s, e)
         IN  t \in Seq(S) /\ Len(t) <= n
  OBVIOUS

\* A new game is well typed.
LEMMA InitType == Init => TypeOK
  <1> SUFFICES ASSUME Init PROVE TypeOK
    OBVIOUS
  <1>1. PlayerType
    <2>1. rested \in 0..MaxLevel /\ level \in 0..MaxLevel /\ moves \in 0..MaxMoves
      BY ScoringAssumption DEF Init
    <2>2. QED
      BY <2>1 DEF Init, PlayerType
  <1>6. ChainType /\ MarksType
    BY ScoringAssumption DEF Init, ChainType, MarksType
  <1>2. PayType
    BY ScoringAssumption DEF Init, PayType
  <1>3. RunsType
    BY ScoringAssumption DEF Init, RunsType
  <1>4. SeqsType
    <2>1. jumps \in Seq(JumpRecords) /\ Len(jumps) <= MaxJumps
      BY ScoringAssumption DEF Init
    <2>2. /\ jumpSequence \in [start: 0..MaxLevel, num: Nat]
          /\ gdLastJumpDiff \in -MaxLevel..MaxLevel
      BY ScoringAssumption DEF Init
    <2>3. QED
      BY <2>1, <2>2 DEF SeqsType
  <1>5. QED
    BY <1>1, <1>2, <1>3, <1>4, <1>6 DEF TypeOK

-----------------------------------------------------------------------------
(* What the parts of a tick do to the types of what they assign.           *)

\* The countdown leaves the timer in range.
LEMMA TimerType ==
  ASSUME ChainType
  PROVE  Timer \in 0..ComboTime
  BY ScoringAssumption DEF ChainType, Timer

\* Paying a combo, or not.
LEMMA CountdownType ==
  ASSUME PayType, ChainType, MarksType, Countdown
  PROVE  PayType'
  <1>1. CASE UNCHANGED pay
    BY <1>1 DEF PayType, pay
  <1>2. CASE ~UNCHANGED pay
    <2>1. acc_level * acc_level \in Nat
      BY SquareIsNat DEF ChainType
    <2>2. score' \in Nat /\ latest_combo' \in Nat /\ best_combo' \in Nat
          /\ numComboJumps' \in Nat /\ totComboFloors' \in Nat
      BY <1>2, <2>1 DEF Countdown, PayType, ChainType, Larger
    <2> DEFINE c == [start |-> gdComboStart, end |-> gdComboStart + acc_level,
                     length |-> acc_level]
    <2>3. c \in ComboRecords
      BY ScoringAssumption DEF MarksType, ChainType, ComboRecords
    <2>4. combos' = IF Len(combos) >= MaxCombos THEN combos ELSE Append(combos, c)
      BY <1>2 DEF Countdown, add_combo
    <2>5. combos' \in Seq(ComboRecords) /\ Len(combos') <= MaxCombos
      <3> HIDE DEF c
      <3> QED
        BY <2>3, <2>4, BoundedAppend, ScoringAssumption DEF PayType
    <2>6. QED
      BY <2>2, <2>5 DEF PayType
  <1>3. QED
    BY <1>1, <1>2

\* The maxima of two arrays of counters.
LEMMA TopsType ==
  ASSUME RunsType
  PROVE  Tops \in [1..JumpSizes -> Nat] /\ NoRuns \in [1..JumpSizes -> Nat]
  <1>1. \A d \in 1..JumpSizes : jcTop[d] \in Nat /\ jc[d] \in Nat
    BY DEF RunsType
  <1>2. \A d \in 1..JumpSizes : Larger(jcTop[d], jc[d]) \in Nat
    BY <1>1 DEF Larger
  <1>3. QED
    BY <1>2 DEF Tops, NoRuns

LEMMA FlushType ==
  ASSUME RunsType, FlushRuns
  PROVE  RunsType'
  BY TopsType, ScoringAssumption DEF RunsType, FlushRuns

LEMMA CountClimbType ==
  ASSUME RunsType, NEW diff \in 1..MaxLevel, CountClimb(diff)
  PROVE  RunsType'
  <1> DEFINE kept == IF diff = lastJumpLength THEN jc ELSE NoRuns
  <1>1. kept \in [1..JumpSizes -> Nat]
    BY TopsType DEF RunsType
  <1>2. jc' = IF diff \in 1..JumpSizes THEN [kept EXCEPT ![diff] = @ + 1] ELSE kept
    BY DEF CountClimb
  <1>3. jc' \in [1..JumpSizes -> Nat]
    <2> HIDE DEF kept
    <2> QED
      BY <1>1, <1>2
  <1>4. jcTop' \in [1..JumpSizes -> Nat] /\ lastJumpLength' \in 0..MaxLevel
    <2>1. /\ jcTop' = IF diff = lastJumpLength THEN jcTop ELSE Tops
          /\ lastJumpLength' = diff
      BY DEF CountClimb
    <2>2. jcTop' = jcTop \/ jcTop' = Tops
      BY <2>1
    <2>3. jcTop' \in [1..JumpSizes -> Nat]
      BY <2>2, TopsType DEF RunsType
    <2>4. QED
      BY <2>1, <2>3, ScoringAssumption
  <1>5. QED
    BY <1>3, <1>4 DEF RunsType

\* The sequence that is stored, and the one that replaces it.
LEMMA AddSequenceType ==
  ASSUME SeqsType, add_jump_sequence
  PROVE  jumps' \in Seq(JumpRecords) /\ Len(jumps') <= MaxJumps
  <1> DEFINE q == [start |-> jumpSequence.start, dist |-> gdLastJumpDiff,
                   num |-> jumpSequence.num]
  <1>1. q \in JumpRecords
    BY DEF SeqsType, JumpRecords
  <1>2. jumps' = IF jumpSequence.num = 0 \/ Len(jumps) >= MaxJumps THEN jumps
                 ELSE Append(jumps, q)
    BY DEF add_jump_sequence
  <1>3. jumps' = jumps \/ jumps' = IF Len(jumps) >= MaxJumps THEN jumps
                                   ELSE Append(jumps, q)
    BY <1>2
  <1>4. QED
    <2> HIDE DEF q
    <2> QED
      BY <1>1, <1>3, BoundedAppend, ScoringAssumption DEF SeqsType

LEMMA SequenceType ==
  ASSUME SeqsType, level \in 0..MaxLevel, NEW diff \in -MaxLevel..MaxLevel,
         Sequence(diff)
  PROVE  SeqsType'
  <1>1. gdLastJumpDiff' \in -MaxLevel..MaxLevel
    BY DEF Sequence
  <1>2. CASE gdLastJumpDiff = diff
    <2>1. jumpSequence' = [jumpSequence EXCEPT !.num = @ + 1] /\ jumps' = jumps
      BY <1>2 DEF Sequence
    <2>2. jumpSequence' \in [start: 0..MaxLevel, num: Nat]
      BY <2>1 DEF SeqsType
    <2>3. jumps' \in Seq(JumpRecords) /\ Len(jumps') <= MaxJumps
      BY <2>1 DEF SeqsType
    <2>4. QED
      BY <1>1, <2>2, <2>3 DEF SeqsType
  <1>3. CASE gdLastJumpDiff # diff
    <2>1. add_jump_sequence /\ jumpSequence' = [start |-> level, num |-> 1]
      BY <1>3 DEF Sequence
    <2>2. jumps' \in Seq(JumpRecords) /\ Len(jumps') <= MaxJumps
      BY <2>1, AddSequenceType
    <2>3. jumpSequence' \in [start: 0..MaxLevel, num: Nat]
      BY <2>1
    <2>4. QED
      BY <1>1, <2>2, <2>3 DEF SeqsType
  <1>4. QED
    BY <1>2, <1>3

\* The end of a tick spent standing.
LEMMA StandingType ==
  ASSUME MarksType, level' \in 0..MaxLevel, gdComboStart' \in 0..MaxLevel,
         NoComboTop, StoodFree
  PROVE  MarksType'
  BY ScoringAssumption DEF MarksType, NoComboTop, StoodFree, Larger

LEMMA ExtendType ==
  ASSUME ChainType, NEW diff \in 1..MaxLevel, ExtendCombo(diff)
  PROVE  ChainType'
  BY ScoringAssumption DEF ChainType, ExtendCombo

LEMMA BreakType ==
  ASSUME ChainType, BreakCombo
  PROVE  ChainType'
  BY ScoringAssumption DEF ChainType, BreakCombo

-----------------------------------------------------------------------------
\* Every tick keeps every variable in its type.
LEMMA NextType == TypeOK /\ [Next]_vars => TypeOK'
  <1> SUFFICES ASSUME TypeOK, [Next]_vars PROVE TypeOK'
    OBVIOUS
  <1> USE DEF TypeOK
  <1>1. CASE Airborne
    <2>1. PayType'
      BY <1>1, CountdownType DEF Airborne
    <2>2. ChainType'
      BY <1>1, TimerType DEF Airborne, ChainType, ghosts
    <2>3. RunsType'
      BY <1>1 DEF Airborne, RunsType, runs
    <2>4. SeqsType'
      BY <1>1 DEF Airborne, SeqsType, seqs
    <2>5. MarksType' /\ PlayerType'
      BY <1>1 DEF Airborne, MarksType, PlayerType, marks, ends, ghosts
    <2>6. QED
      BY <2>1, <2>2, <2>3, <2>4, <2>5
  <1>2. CASE Stand
    <2>1. PayType'
      BY <1>2, CountdownType DEF Stand
    <2>2. ChainType'
      BY <1>2, TimerType DEF Stand, ChainType
    <2>3. RunsType'
      BY <1>2 DEF Stand, RunsType, runs
    <2>4. SeqsType'
      BY <1>2 DEF Stand, SeqsType, seqs
    <2>5. level' \in 0..MaxLevel /\ gdComboStart' \in 0..MaxLevel
      BY <1>2 DEF Stand, RefreshStart, PlayerType, MarksType
    <2>6. MarksType'
      BY <1>2, <2>5, StandingType DEF Stand
    <2>7. PlayerType'
      BY <1>2 DEF Stand, PlayerType, ends
    <2>8. QED
      BY <2>1, <2>2, <2>3, <2>4, <2>6, <2>7
  <1>3. ASSUME NEW l \in 0..MaxLevel, Climb(l) PROVE TypeOK'
    <2>1. l - level \in 1..MaxLevel /\ l - level \in -MaxLevel..MaxLevel
      BY <1>3, ScoringAssumption DEF Climb, PlayerType
    <2>2. PayType'
      BY <1>3, CountdownType DEF Climb
    <2>3. ChainType'
      BY <1>3, <2>1, ExtendType, BreakType DEF Climb
    <2>4. RunsType'
      BY <1>3, <2>1, CountClimbType DEF Climb
    <2>5. SeqsType'
      BY <1>3, <2>1, SequenceType DEF Climb, PlayerType
    <2>6. level' \in 0..MaxLevel /\ gdComboStart' \in 0..MaxLevel
      BY <1>3 DEF Climb, RefreshStart, MarksType
    <2>7. MarksType'
      BY <1>3, <2>6, StandingType DEF Climb
    <2>8. rested' \in 0..MaxLevel
      BY <1>3, ScoringAssumption DEF Climb, LeaveFloor, PlayerType
    <2>9. PlayerType'
      BY <1>3, <2>6, <2>8, ScoringAssumption DEF Climb, PlayerType, ends
    <2>10. QED
      BY <2>2, <2>3, <2>4, <2>5, <2>7, <2>9
  <1>4. ASSUME NEW l \in 0..MaxLevel, Fall(l) PROVE TypeOK'
    <2>1. l - level \in -MaxLevel..MaxLevel
      BY <1>4, ScoringAssumption DEF Fall, PlayerType
    <2>2. PayType'
      BY <1>4, CountdownType DEF Fall
    <2>3. ChainType'
      BY <1>4, ScoringAssumption DEF Fall, ChainType
    <2>4. RunsType'
      BY <1>4, FlushType DEF Fall
    <2>5. SeqsType'
      BY <1>4, <2>1, SequenceType DEF Fall, PlayerType
    <2>6. level' \in 0..MaxLevel /\ gdComboStart' \in 0..MaxLevel
      BY <1>4 DEF Fall, MarksType
    <2>7. MarksType'
      BY <1>4, <2>6, StandingType DEF Fall
    <2>8. PlayerType'
      <3>1. moves' \in 0..MaxMoves
        BY <1>4, ScoringAssumption DEF Fall, PlayerType
      <3>2. UNCHANGED ends /\ fresh' = FALSE /\ rested' \in 0..MaxLevel
            /\ status' = "stand"
        BY <1>4 DEF Fall, LeaveFloor, PlayerType
      <3>3. QED
        BY <2>6, <3>1, <3>2 DEF PlayerType, ends
    <2>9. QED
      BY <2>2, <2>3, <2>4, <2>5, <2>7, <2>8
  <1>5. CASE Die
    <2>1. PayType'
      BY <1>5, CountdownType DEF Die
    <2>2. ChainType'
      BY <1>5, ScoringAssumption DEF Die, ChainType, ghosts
    <2>3. RunsType'
      BY <1>5, FlushType DEF Die
    <2>4. SeqsType'
      BY <1>5, AddSequenceType DEF Die, SeqsType
    <2>5. MarksType'
      BY <1>5 DEF Die, MarksType, PlayerType, Larger, ghosts
    <2>6. PlayerType'
      BY <1>5 DEF Die, PlayerType, ChainType, ghosts
    <2>7. QED
      BY <2>1, <2>2, <2>3, <2>4, <2>5, <2>6
  <1>6. CASE UNCHANGED vars
    BY <1>6 DEF vars, pay, chain, runs, seqs, ends, marks, ghosts, PlayerType,
                PayType, ChainType, RunsType, SeqsType, MarksType
  <1>7. QED
    BY <1>1, <1>2, <1>3, <1>4, <1>5, <1>6 DEF Next

\* The accounting keeps its types: timers, arrays and counters in range.
THEOREM TypeCorrect == Spec => []TypeOK
  <1>1. QED
    BY InitType, NextType, PTL DEF Spec

-----------------------------------------------------------------------------
(***************************************************************************)
(* Conservation of combo floors.  The strengthening: only a dead player    *)
(* has lost a combo, he has none running, and a running combo has jumps.   *)
(***************************************************************************)
OneFate ==
  /\ dead => in_combo = 0
  /\ ~dead => biggest_lost_combo = 0
  /\ in_combo > 0 => acc_jumps > 0

Conserved == TypeOK /\ OneFate /\ ComboFloorsConserved

\* The countdown moves the floors of a combo that ends from pending to paid:
\* what is pending afterwards is judged by Timer.
LeftPending == IF Timer > 0 /\ acc_jumps > 1 THEN acc_level ELSE 0

LEMMA CountdownConserves ==
  ASSUME TypeOK, ComboFloorsConserved, Countdown
  PROVE  chained = totComboFloors' + biggest_lost_combo + LeftPending
  <1> USE DEF TypeOK, PayType, ChainType, PlayerType, ComboFloorsConserved,
              Pending, LeftPending, Timer
  <1>1. CASE Pays
    <2>1. totComboFloors' = totComboFloors + acc_level
      BY <1>1 DEF Countdown
    <2>2. QED
      BY <1>1, <2>1, ScoringAssumption DEF Pays
  <1>2. CASE ~Pays
    <2>1. totComboFloors' = totComboFloors
      BY <1>2 DEF Countdown, pay
    <2>2. QED
      BY <1>2, <2>1, ScoringAssumption DEF Pays
  <1>3. QED
    BY <1>1, <1>2

\* Each tick gives every chained floor exactly one fate.
LEMMA NextConserves == Conserved /\ [Next]_vars => Conserved'
  <1> SUFFICES ASSUME Conserved, [Next]_vars PROVE Conserved'
    OBVIOUS
  <1>t. TypeOK /\ TypeOK' /\ OneFate /\ ComboFloorsConserved
    BY NextType DEF Conserved
  <1>a. ASSUME Countdown
        PROVE  chained = totComboFloors' + biggest_lost_combo + LeftPending
    BY <1>a, <1>t, CountdownConserves
  <1>n. /\ Timer \in Nat /\ acc_level \in Nat /\ acc_jumps \in Nat
        /\ totComboFloors' \in Nat /\ biggest_lost_combo \in Nat
        /\ in_combo \in Nat /\ (Timer > 0 => in_combo > 0)
        /\ dead \in BOOLEAN /\ chained \in Nat
    <2>1. totComboFloors' \in Nat
      BY <1>t DEF TypeOK, PayType
    <2>2. /\ acc_level \in Nat /\ acc_jumps \in Nat /\ chained \in Nat
          /\ in_combo \in Nat
      BY <1>t, ScoringAssumption DEF TypeOK, ChainType
    <2>3. biggest_lost_combo \in Nat /\ dead \in BOOLEAN
      BY <1>t DEF TypeOK, PlayerType
    <2>4. QED
      BY <2>1, <2>2, <2>3 DEF Timer
  <1> USE DEF OneFate, ComboFloorsConserved, Pending, LeftPending
  <1>1. CASE Airborne
    BY <1>1, <1>a, <1>t, <1>n DEF Airborne, ends, ghosts, Conserved
  <1>2. CASE Stand
    BY <1>2, <1>a, <1>t, <1>n DEF Stand, ends, Conserved
  <1>3. ASSUME NEW l \in 0..MaxLevel, Climb(l) PROVE Conserved'
    <2> DEFINE diff == l - level
    <2>1. chained = totComboFloors' + biggest_lost_combo + LeftPending
      BY <1>3, <1>a DEF Climb
    <2>2. ~dead /\ dead' = dead /\ biggest_lost_combo' = biggest_lost_combo
      BY <1>3 DEF Climb, ends
    <2>3. CASE diff = 1
      <3>1. BreakCombo
        BY <1>3, <2>3 DEF Climb
      <3>2. QED
        BY <2>1, <2>2, <3>1, <1>t, <1>n DEF BreakCombo, Conserved
    <2>4. CASE diff # 1
      <3>1. ExtendCombo(diff) /\ diff \in Nat
        BY <1>3, <2>4, <1>t DEF Climb, TypeOK, PlayerType
      <3> HIDE DEF diff
      <3>2. in_combo' > 0 /\ acc_jumps' > 0
        BY <3>1, <1>n, ScoringAssumption DEF ExtendCombo
      <3>3. CASE Timer > 0
        <4>1. /\ acc_jumps > 0 /\ acc_level' = acc_level + diff
              /\ acc_jumps' = acc_jumps + 1
              /\ chained' = chained + IF acc_jumps' = 2 THEN acc_level' ELSE diff
          BY <3>1, <3>3, <1>t, <1>n DEF ExtendCombo
        <4>2. QED
          BY <2>1, <2>2, <3>1, <3>2, <3>3, <4>1, <1>t, <1>n DEF Conserved
      <3>4. CASE ~(Timer > 0)
        <4>1. acc_jumps' = 1 /\ chained' = chained
          BY <3>1, <3>4, <1>n DEF ExtendCombo
        <4>2. QED
          BY <2>1, <2>2, <3>2, <3>4, <4>1, <1>t, <1>n DEF Conserved
      <3>5. QED
        BY <3>3, <3>4
    <2>5. QED
      BY <2>3, <2>4
  <1>4. ASSUME NEW l \in 0..MaxLevel, Fall(l) PROVE Conserved'
    BY <1>4, <1>a, <1>t, <1>n DEF Fall, ends, Conserved
  <1>5. CASE Die
    BY <1>5, <1>a, <1>t, <1>n DEF Die, ghosts, Conserved
  <1>6. CASE UNCHANGED vars
    BY <1>6, <1>t DEF vars, pay, chain, ends, ghosts, Conserved
  <1>7. QED
    BY <1>1, <1>2, <1>3, <1>4, <1>5, <1>6 DEF Next

\* Every floor climbed by a chained combo is paid once, lost once, or pending,
\* for every combo time and tower.
THEOREM FloorsConserved == Spec => []ComboFloorsConserved
  <1>1. Init => Conserved
    BY InitType DEF Init, Conserved, OneFate, ComboFloorsConserved, Pending
  <1>2. Conserved => ComboFloorsConserved
    BY DEF Conserved
  <1>3. QED
    BY <1>1, <1>2, NextConserves, PTL DEF Spec
-----------------------------------------------------------------------------
(***************************************************************************)
(* Induction, and what Accumulate computes.  The induction theorems of the *)
(* library take the property as an operator; for a set of naturals the     *)
(* same follows from the well-foundedness of <.                            *)
(***************************************************************************)
\* < as a relation, which WellFoundedInduction knows to be well founded.
LEMMA LessIsWellFounded ==
  \E R : IsWellFoundedOn(R, Nat) /\ \A k, m \in Nat : k < m => <<k, m>> \in R
  <1>1. \A k, m \in Nat : k < m => <<k, m>> \in OpToRel(<, Nat)
    BY DEF OpToRel
  <1> QED
    BY <1>1, NatLessThanWellFounded, Zenon

\* Every non-empty set of naturals has a least element.
LEMMA Least ==
  ASSUME NEW T \in SUBSET Nat, T # {}
  PROVE  \E m \in T : \A k \in T : m <= k
  <1>1. PICK R : IsWellFoundedOn(R, Nat) /\ \A k, m \in Nat : k < m => <<k, m>> \in R
    BY LessIsWellFounded
  <1>0. T \subseteq Nat
    OBVIOUS
  <1>a. IsWellFoundedOn(R, Nat)
    BY <1>1
  <1>b. \A k, m \in Nat : k < m => <<k, m>> \in R
    BY <1>1
  <1>2. PICK m \in T : \A k \in T : ~(<<k, m>> \in R)
    BY <1>0, <1>a, WFMin
  <1>3. \A k \in T : m <= k
    <2> SUFFICES ASSUME NEW k \in T, ~(m <= k) PROVE FALSE
      OBVIOUS
    <2>1. k < m
      OBVIOUS
    <2>2. <<k, m>> \in R
      BY <2>1, <1>b
    <2> QED
      BY <2>2, <1>2
  <1> QED
    BY <1>3

\* Induction, for the set of the naturals that have the property.
LEMMA SetInduction ==
  ASSUME NEW S \in SUBSET Nat, 0 \in S, \A n \in S : n + 1 \in S
  PROVE  S = Nat
  <1> DEFINE T == Nat \ S
  <1>1. SUFFICES ASSUME T # {} PROVE FALSE
    OBVIOUS
  <1>2. PICK m \in T : \A k \in T : m <= k
    BY <1>1, Least
  <1>3. m - 1 \in S
    BY <1>2
  <1> QED
    BY <1>2, <1>3

\* g holds the first n accumulated values of the list w.
IsRun(op, w, n, g) ==
  /\ g \in [0 .. n -> Int]
  /\ g[0] = 0
  /\ \A i \in 1 .. n : g[i] = op[<<g[i - 1], w[i]>>]

\* A list has an accumulation ...
LEMMA RunExists ==
  ASSUME NEW op \in [Int \X Int -> Int], NEW w \in Seq(Int)
  PROVE  \E g : IsRun(op, w, Len(w), g)
  <1> DEFINE S == {n \in Nat : n <= Len(w) => \E g : IsRun(op, w, n, g)}
  <1>1. 0 \in S
    <2> DEFINE g == [i \in 0 .. 0 |-> 0]
    <2>1. IsRun(op, w, 0, g)
      BY DEF IsRun
    <2> QED
      BY <2>1
  <1>2. ASSUME NEW n \in S
        PROVE  n + 1 \in S
    <2> SUFFICES ASSUME n + 1 <= Len(w)
                 PROVE  \E h : IsRun(op, w, n + 1, h)
      OBVIOUS
    <2>1. PICK g : IsRun(op, w, n, g)
      OBVIOUS
    <2> DEFINE h == [i \in 0 .. n + 1 |-> IF i = n + 1 THEN op[<<g[n], w[n + 1]>>] ELSE g[i]]
    <2>0. n \in Nat /\ w[n + 1] \in Int /\ g[n] \in Int
      BY <2>1 DEF IsRun
    <2>4. op[<<g[n], w[n + 1]>>] \in Int
      BY <2>0
    <2>2. h \in [0 .. n + 1 -> Int]
      BY <2>1, <2>0, <2>4 DEF IsRun
    <2>5. \A i \in 0 .. n : h[i] = g[i]
      BY <2>0
    <2>6. h[n + 1] = op[<<g[n], w[n + 1]>>]
      BY <2>0
    <2> HIDE DEF h
    <2>3. \A i \in 1 .. n + 1 : h[i] = op[<<h[i - 1], w[i]>>]
      <3> TAKE i \in 1 .. n + 1
      <3>1. CASE i = n + 1
        <4>1. h[i - 1] = g[n]
           BY <2>0, <2>5, <3>1
        <4> QED
          BY <2>6, <4>1, <3>1
      <3>2. CASE i # n + 1
        <4>1. i \in 1 .. n /\ i \in 0 .. n /\ i - 1 \in 0 .. n
          BY <3>2, <2>0
        <4>2. h[i] = g[i] /\ h[i - 1] = g[i - 1]
          BY <4>1, <2>5
        <4> QED
          BY <4>1, <4>2, <2>1 DEF IsRun
      <3> QED
        BY <3>1, <3>2
    <2>7. h[0] = 0
      BY <2>0, <2>1, <2>5 DEF IsRun
    <2> QED
      BY <2>2, <2>3, <2>7 DEF IsRun
  <1>3. S = Nat
    <2> HIDE DEF S
    <2>1. S \in SUBSET Nat
      BY DEF S
    <2> QED
    BY <1>1, <1>2, <2>1, SetInduction
  <1>4. Len(w) \in S
    <2> HIDE DEF S
    <2> QED
      BY <1>3
  <1> QED
    BY <1>4

\* ... and only one,
LEMMA RunUnique ==
  ASSUME NEW op \in [Int \X Int -> Int], NEW w \in Seq(Int), NEW g, NEW h,
         IsRun(op, w, Len(w), g), IsRun(op, w, Len(w), h)
  PROVE  g[Len(w)] = h[Len(w)]
  <1> DEFINE S == {n \in Nat : n <= Len(w) => g[n] = h[n]}
  <1>1. 0 \in S
    BY DEF IsRun
  <1>2. ASSUME NEW n \in S
        PROVE  n + 1 \in S
    <2> SUFFICES ASSUME n + 1 <= Len(w)
                 PROVE  g[n + 1] = h[n + 1]
      OBVIOUS
    <2>1. n + 1 \in 1 .. Len(w) /\ (n + 1) - 1 = n /\ g[n] = h[n]
      OBVIOUS
    <2>2. g[n + 1] = op[<<g[(n + 1) - 1], w[n + 1]>>] /\ h[n + 1] = op[<<h[(n + 1) - 1], w[n + 1]>>]
      BY <2>1 DEF IsRun
    <2> QED
      BY <2>1, <2>2
  <1>3. S = Nat
    <2> HIDE DEF S
    <2>1. S \in SUBSET Nat
      BY DEF S
    <2> QED
      BY <1>1, <1>2, <2>1, SetInduction
  <1> QED
    BY <1>3, SMTT(30)

\* ... of which Accumulate is the last value.
LEMMA AccumulateRun ==
  ASSUME NEW op \in [Int \X Int -> Int], NEW w \in Seq(Int)
  PROVE  \E g : IsRun(op, w, Len(w), g) /\ Accumulate(op, w) = g[Len(w)]
  <1> DEFINE Def(g) == [i \in 0 .. Len(w) |-> IF i = 0 THEN 0 ELSE op[<<g[i - 1], w[i]>>]]
  <1>1. PICK g : IsRun(op, w, Len(w), g)
    BY RunExists
  <1>2. g = Def(g)
    BY <1>1 DEF IsRun
  <1> DEFINE acc == CHOOSE h : h = Def(h)
  <1>3. acc = Def(acc)
    BY <1>2
  <1>4. Accumulate(op, w) = acc[Len(w)]
    BY DEF Accumulate
  <1>5. IsRun(op, w, Len(w), acc)
    <2> HIDE DEF acc
    <2>1. DOMAIN acc = 0 .. Len(w) /\ acc[0] = 0
      BY <1>3
    <2>2. \A i \in 1 .. Len(w) : acc[i] = op[<<acc[i - 1], w[i]>>]
      <3> SUFFICES ASSUME NEW i \in 1 .. Len(w)
                   PROVE  acc[i] = op[<<acc[i - 1], w[i]>>]
        OBVIOUS
      <3>1. i \in 0 .. Len(w) /\ i # 0
        OBVIOUS
      <3>2. Def(acc)[i] = op[<<acc[i - 1], w[i]>>]
        BY <3>1
      <3> QED
        BY <3>2, <1>3
    <2> DEFINE S == {n \in Nat : n <= Len(w) => acc[n] \in Int}
    <2>3. 0 \in S
      BY <2>1
    <2>4. ASSUME NEW n \in S PROVE n + 1 \in S
      <3> SUFFICES ASSUME n + 1 <= Len(w)
                 PROVE  acc[n + 1] \in Int
        OBVIOUS
      <3>1. acc[n] \in Int /\ w[n + 1] \in Int /\ n + 1 \in 1 .. Len(w) /\ (n + 1) - 1 = n
        OBVIOUS
      <3>2. acc[n + 1] = op[<<acc[(n + 1) - 1], w[n + 1]>>]
        BY <3>1, <2>2
      <3> QED
        BY <3>1, <3>2
    <2>5. S = Nat
      <3> HIDE DEF S
      <3>1. S \in SUBSET Nat
        BY DEF S
      <3> QED
        BY <2>3, <2>4, <3>1, SetInduction
    <2>6. \A i \in 0 .. Len(w) : acc[i] \in Int
      <3>1. \A i \in 0 .. Len(w) : i \in S
        <4> HIDE DEF S
        <4> QED
          BY <2>5
      <3> QED
        BY <3>1
    <2>7. acc = [i \in 0 .. Len(w) |-> acc[i]]
      BY <1>3
    <2>8. acc \in [0 .. Len(w) -> Int]
      BY <2>6, <2>7
    <2> QED
      BY <2>1, <2>2, <2>8 DEF IsRun
  <1> QED
    BY <1>4, <1>5

\* One more number is one more operation.
LEMMA AccumulateAppend ==
  ASSUME NEW op \in [Int \X Int -> Int], NEW w \in Seq(Int), NEW e \in Int
  PROVE  /\ Accumulate(op, w) \in Int
         /\ Accumulate(op, Append(w, e)) = op[<<Accumulate(op, w), e>>]
  <1>1. PICK g : IsRun(op, w, Len(w), g) /\ Accumulate(op, w) = g[Len(w)]
    BY AccumulateRun
  <1> DEFINE v == Append(w, e)
  <1>2. v \in Seq(Int) /\ Len(v) = Len(w) + 1 /\ v[Len(w) + 1] = e
        /\ \A i \in 1 .. Len(w) : v[i] = w[i]
    OBVIOUS
  <1> HIDE DEF v
  <1>3. PICK h : IsRun(op, v, Len(v), h) /\ Accumulate(op, v) = h[Len(v)]
    BY <1>2, AccumulateRun
  <1> DEFINE k == [i \in 0 .. Len(w) |-> h[i]]
  <1>4. IsRun(op, w, Len(w), k)
    <2>1. k \in [0 .. Len(w) -> Int] /\ k[0] = 0
      BY <1>2, <1>3 DEF IsRun
    <2>2. \A i \in 1 .. Len(w) : k[i] = op[<<k[i - 1], w[i]>>]
      BY <1>2, <1>3, SMTT(30) DEF IsRun
    <2> QED
      BY <2>1, <2>2 DEF IsRun
  <1>5. g[Len(w)] = h[Len(w)]
    BY <1>1, <1>4, RunUnique
  <1>6. h[Len(w) + 1] = op[<<h[Len(w)], e>>]
    <2>1. Len(w) + 1 \in 1 .. Len(v) /\ (Len(w) + 1) - 1 = Len(w)
      BY <1>2
    <2>2. h[Len(w) + 1] = op[<<h[(Len(w) + 1) - 1], v[Len(w) + 1]>>]
      BY <2>1, <1>3 DEF IsRun
    <2> QED
      BY <2>1, <2>2, <1>2
  <1>7. g[Len(w)] \in Int
    <2>1. Len(w) \in 0 .. Len(w)
      OBVIOUS
    <2> QED
      BY <2>1, <1>1 DEF IsRun
  <1> QED
    BY <1>1, <1>2, <1>3, <1>5, <1>6, <1>7 DEF v

\* Of no numbers.
LEMMA AccumulateEmpty ==
  ASSUME NEW op \in [Int \X Int -> Int]
  PROVE  Accumulate(op, <<>>) = 0
  <1>0. <<>> \in Seq(Int) /\ Len(<<>>) = 0
    OBVIOUS
  <1>1. PICK g : IsRun(op, <<>>, 0, g) /\ Accumulate(op, <<>>) = g[0]
    BY <1>0, AccumulateRun
  <1> QED
    BY <1>1 DEF IsRun

LEMMA PlusType ==
  Plus \in [Int \X Int -> Int] /\ \A m, n \in Int : Plus[<<m, n>>] = m + n
  BY DEF Plus

LEMMA MaximumType ==
  Maximum \in [Int \X Int -> Int] /\ \A m, n \in Int : Maximum[<<m, n>>] = Larger(m, n)
  BY DEF Maximum, Larger

-----------------------------------------------------------------------------
(***************************************************************************)
(* Where a combo is said to start, and the "no combo" floor.  Both rest on *)
(* gdComboStart: it is the current floor once the player rested there, the *)
(* last one he rested on before that, and never above the highest floor    *)
(* stood on with no combo running.  Before the first paid combo the "no    *)
(* combo" floor lies below the player only while it is that start.         *)
(***************************************************************************)
StartsHold ==
  /\ gdComboStart = IF fresh THEN level ELSE rested
  /\ fresh => in_combo = 0
  /\ gdComboStart <= freeTop
  /\ no_combo_top_floor <= IF dead THEN Larger(freeTop, level) ELSE freeTop
  /\ numComboJumps = 0 /\ no_combo_top_floor < level =>
       ~dead /\ no_combo_top_floor = gdComboStart

\* The marks are floors, and the countdown pays at most one combo.
LEMMA StartsTypes ==
  ASSUME TypeOK
  PROVE  /\ gdComboStart \in Nat /\ level \in Nat /\ freeTop \in Nat
         /\ no_combo_top_floor \in Nat /\ rested \in Nat /\ in_combo \in Nat
         /\ Timer \in Nat /\ (in_combo = 0 => Timer = 0)
         /\ fresh \in BOOLEAN /\ dead \in BOOLEAN
         /\ (Countdown /\ numComboJumps' = 0 => numComboJumps = 0)
  <1>1. gdComboStart \in Nat /\ freeTop \in Nat /\ no_combo_top_floor \in Nat
    BY ScoringAssumption DEF TypeOK, MarksType
  <1>2. /\ level \in Nat /\ rested \in Nat
        /\ fresh \in BOOLEAN /\ dead \in BOOLEAN
    BY ScoringAssumption DEF TypeOK, PlayerType
  <1>3. in_combo \in Nat
    BY ScoringAssumption DEF TypeOK, ChainType
  <1>4. Timer \in Nat /\ (in_combo = 0 => Timer = 0)
    BY <1>3 DEF Timer
  <1>5. Countdown /\ numComboJumps' = 0 => numComboJumps = 0
    BY DEF Countdown, pay, TypeOK, PayType
  <1> QED
    BY <1>1, <1>2, <1>3, <1>4, <1>5

(***************************************************************************)
(* The end of a standing tick, seen from the two marks: the start is the   *)
(* player's floor or is left alone, and the second only with a combo       *)
(* running or on a floor below the one left.                               *)
(***************************************************************************)
LEMMA StandingStarts ==
  ASSUME TypeOK, StartsHold, Countdown, NoComboTop, StoodFree,
         level' \in Nat, ~dead, ~dead',
         \/ gdComboStart' = level' /\ in_combo' = 0
         \/ /\ gdComboStart' = gdComboStart /\ ~fresh'
            /\ in_combo' > 0 \/ level' < level
  PROVE  /\ gdComboStart' <= freeTop'
         /\ no_combo_top_floor' <= freeTop'
         /\ numComboJumps' = 0 /\ no_combo_top_floor' < level' =>
              no_combo_top_floor' = gdComboStart'
         /\ TopMoves
  <1>1. freeTop' >= freeTop /\ (in_combo' = 0 => freeTop' >= level') /\ freeTop' \in Nat
    BY StartsTypes DEF StoodFree, Larger
  <1>2. gdComboStart' <= freeTop'
    BY <1>1, StartsTypes DEF StartsHold
  <1>3. no_combo_top_floor' <= freeTop'
    BY <1>1, <1>2, StartsTypes DEF StartsHold, NoComboTop
  <1>4. numComboJumps' = 0 /\ no_combo_top_floor' < level' =>
          no_combo_top_floor' = gdComboStart'
    BY StartsTypes DEF NoComboTop
  <1>5. fresh' /\ numComboJumps' = 0 => no_combo_top_floor' >= level'
    BY StartsTypes DEF NoComboTop
  <1>6. ASSUME no_combo_top_floor' < no_combo_top_floor
        PROVE  /\ numComboJumps' = 0 /\ in_combo' > 0
               /\ no_combo_top_floor \in level .. level' - 1
               /\ no_combo_top_floor' = gdComboStart'
    <2>1. /\ numComboJumps' = 0 /\ no_combo_top_floor < level'
          /\ no_combo_top_floor' = gdComboStart'
      BY <1>6, StartsTypes DEF NoComboTop
    <2>2. gdComboStart' = gdComboStart /\ (in_combo' > 0 \/ level' < level)
      BY <1>6, <2>1, StartsTypes
    <2>3. no_combo_top_floor >= level
      BY <1>6, <2>1, <2>2, StartsTypes DEF StartsHold
    <2> QED
      BY <2>1, <2>2, <2>3, StartsTypes
  <1> QED
    BY <1>2, <1>3, <1>4, <1>5, <1>6 DEF TopMoves

LEMMA NextStarts == TypeOK /\ StartsHold /\ [Next]_vars => StartsHold' /\ [TopMoves]_vars
  <1> SUFFICES ASSUME TypeOK, StartsHold, [Next]_vars
               PROVE  StartsHold' /\ [TopMoves]_vars
    OBVIOUS
  <1>1. CASE Airborne
    <2>1. /\ UNCHANGED <<level, dead, gdComboStart, no_combo_top_floor, freeTop,
                         fresh, rested>>
          /\ in_combo' = Timer /\ ~dead /\ Countdown
      BY <1>1 DEF Airborne, ends, marks, ghosts
    <2>2. StartsHold'
      BY <2>1, StartsTypes DEF StartsHold
    <2>3. TopMoves
      BY <2>1, StartsTypes DEF StartsHold, TopMoves
    <2> QED
      BY <2>2, <2>3
  <1>2. CASE Stand
    <2>1. /\ level' = level /\ in_combo' = Timer /\ rested' = rested
          /\ gdComboStart' = IF Timer = 0 THEN level ELSE gdComboStart
          /\ fresh' = (fresh \/ Timer = 0)
          /\ ~dead /\ dead' = dead /\ Countdown /\ NoComboTop /\ StoodFree
      BY <1>2 DEF Stand, RefreshStart, ends
    <2>2. fresh => Timer = 0
      BY StartsTypes DEF StartsHold
    <2>3. \/ gdComboStart' = level' /\ in_combo' = 0
          \/ gdComboStart' = gdComboStart /\ ~fresh' /\ in_combo' > 0
      BY <2>1, <2>2, StartsTypes
    <2>4. /\ gdComboStart' <= freeTop' /\ no_combo_top_floor' <= freeTop'
          /\ numComboJumps' = 0 /\ no_combo_top_floor' < level' =>
               no_combo_top_floor' = gdComboStart'
          /\ TopMoves
      BY <2>1, <2>3, StandingStarts, StartsTypes
    <2>5. (gdComboStart = IF fresh THEN level ELSE rested)' /\ (fresh => in_combo = 0)'
      BY <2>1, <2>2 DEF StartsHold
    <2> QED
      BY <2>1, <2>4, <2>5 DEF StartsHold
  <1>3. ASSUME NEW l \in 0..MaxLevel, Climb(l) PROVE StartsHold' /\ [TopMoves]_vars
    <2>1. /\ level' = l /\ l \in Nat
          /\ gdComboStart' = IF in_combo' = 0 THEN l ELSE gdComboStart
          /\ fresh' = (in_combo' = 0)
          /\ rested' = IF fresh THEN level ELSE rested
          /\ ~dead /\ dead' = dead /\ Countdown /\ NoComboTop /\ StoodFree
      BY <1>3, ScoringAssumption DEF Climb, RefreshStart, LeaveFloor, ends
    <2>2. in_combo' \in Nat
      BY <1>3, ScoringAssumption DEF Climb, BreakCombo, ExtendCombo
    <2>3. \/ gdComboStart' = level' /\ in_combo' = 0
          \/ gdComboStart' = gdComboStart /\ ~fresh' /\ in_combo' > 0
      <3>1. CASE in_combo' = 0
        BY <2>1, <3>1
      <3>2. CASE in_combo' # 0
        <4>1. in_combo' > 0 /\ gdComboStart' = gdComboStart
          BY <2>1, <2>2, <3>2
        <4>2. ~fresh'
          BY <2>1, <3>2
        <4> QED
          BY <4>1, <4>2
      <3> QED
        BY <3>1, <3>2
    <2>4. /\ gdComboStart' <= freeTop' /\ no_combo_top_floor' <= freeTop'
          /\ numComboJumps' = 0 /\ no_combo_top_floor' < level' =>
               no_combo_top_floor' = gdComboStart'
          /\ TopMoves
      BY <2>1, <2>3, StandingStarts, StartsTypes
    <2>5. (gdComboStart = IF fresh THEN level ELSE rested)' /\ (fresh => in_combo = 0)'
      BY <2>1 DEF StartsHold
    <2> QED
      BY <2>1, <2>4, <2>5 DEF StartsHold
  <1>4. ASSUME NEW l \in 0..MaxLevel, Fall(l) PROVE StartsHold' /\ [TopMoves]_vars
    <2>1. /\ level' = l /\ l \in Nat /\ l < level
          /\ gdComboStart' = gdComboStart /\ fresh' = FALSE
          /\ rested' = IF fresh THEN level ELSE rested
          /\ ~dead /\ dead' = dead /\ Countdown /\ NoComboTop /\ StoodFree
      BY <1>4, ScoringAssumption DEF Fall, LeaveFloor, ends
    <2>2. /\ gdComboStart' <= freeTop' /\ no_combo_top_floor' <= freeTop'
          /\ numComboJumps' = 0 /\ no_combo_top_floor' < level' =>
               no_combo_top_floor' = gdComboStart'
          /\ TopMoves
      BY <2>1, StandingStarts, StartsTypes
    <2>3. (gdComboStart = IF fresh THEN level ELSE rested)' /\ (fresh => in_combo = 0)'
      BY <2>1 DEF StartsHold
    <2> QED
      BY <2>1, <2>2, <2>3 DEF StartsHold
  <1>5. CASE Die
    <2>1. /\ UNCHANGED <<level, gdComboStart, freeTop, fresh, rested>>
          /\ in_combo' = 0 /\ dead' = TRUE /\ ~dead /\ Countdown
          /\ no_combo_top_floor' = IF numComboJumps' = 0
                                   THEN Larger(no_combo_top_floor, level)
                                   ELSE no_combo_top_floor
      BY <1>5 DEF Die, ghosts
    <2>2. StartsHold'
      BY <2>1, StartsTypes DEF StartsHold, Larger
    <2>3. TopMoves
      BY <2>1, StartsTypes DEF StartsHold, TopMoves, Larger
    <2> QED
      BY <2>2, <2>3
  <1>6. CASE UNCHANGED vars
    <2>1. UNCHANGED <<level, dead, in_combo, numComboJumps, gdComboStart,
                      no_combo_top_floor, freeTop, fresh, rested>>
      BY <1>6 DEF vars, pay, chain, ends, marks, ghosts
    <2> QED
      BY <1>6, <2>1 DEF StartsHold
  <1> QED
    BY <1>1, <1>2, <1>3, <1>4, <1>5, <1>6 DEF Next

LEMMA StartsInvariant == Spec => []StartsHold
  <1>1. Init => StartsHold
    BY DEF Init, StartsHold
  <1> QED
    BY <1>1, NextStarts, TypeCorrect, PTL DEF Spec

\* A combo is reported from the last floor rested on before it, for every
\* combo time and tower (play.c 957-991).
THEOREM StartHonest == Spec => []ComboStartHonest
  <1>1. StartsHold => ComboStartHonest
    BY DEF StartsHold, ComboStartHonest
  <1> QED
    BY <1>1, StartsInvariant, PTL

\* The "no combo" floor stays under the floors stood on with no combo running,
\* reaches every floor rested on before the first paid combo, and is lowered
\* only to a running combo's start (play.c 980, 995-998, 1022-1025).
THEOREM TopEarned == Spec => NoComboTopEarned
  <1> QED
    BY NextStarts, StartsInvariant, TypeCorrect, PTL DEF Spec, NoComboTopEarned

-----------------------------------------------------------------------------
(***************************************************************************)
(* The score is that of the listed combos.  ScoreIsTheCombos is inductive: *)
(* while there is room, a combo that is paid is listed in the same tick.   *)
(***************************************************************************)

\* One number for each record of a list, and for one record more.
LEMMA MapAppend ==
  ASSUME NEW S, NEW s \in Seq(S), NEW e \in S,
         NEW f \in [S -> Int]
  PROVE  /\ [i \in DOMAIN s |-> f[s[i]]] \in Seq(Int)
         /\ [i \in DOMAIN Append(s, e) |-> f[Append(s, e)[i]]]
              = Append([i \in DOMAIN s |-> f[s[i]]], f[e])
  <1> DEFINE t == Append(s, e)
             v == [i \in DOMAIN s |-> f[s[i]]]
             w == [i \in DOMAIN t |-> f[t[i]]]
  <1>1. /\ DOMAIN s = 1..Len(s) /\ Len(s) \in Nat /\ DOMAIN t = 1..Len(s) + 1
        /\ \A i \in 1..Len(s) : t[i] = s[i] /\ s[i] \in S
        /\ t[Len(s) + 1] = e
    OBVIOUS
  <1> HIDE DEF t
  <1>2. v \in Seq(Int) /\ Len(v) = Len(s)
    BY <1>1
  <1>3. f[e] \in Int
    OBVIOUS
  <1>4. w = Append(v, f[e])
    <2>1. /\ DOMAIN w = 1..Len(s) + 1
          /\ \A i \in 1..Len(s) : w[i] = v[i]
          /\ w[Len(s) + 1] = f[e]
      BY <1>1
    <2>2. /\ DOMAIN Append(v, f[e]) = 1..Len(s) + 1
          /\ \A i \in 1..Len(s) : Append(v, f[e])[i] = v[i]
          /\ Append(v, f[e])[Len(s) + 1] = f[e]
      <3> HIDE DEF v
      <3> QED
        BY <1>1, <1>2, <1>3
    <2>3. w = [i \in 1..Len(s) + 1 |-> w[i]]
      BY <1>1
    <2>4. Append(v, f[e]) \in Seq(Int)
      <3> HIDE DEF v
      <3> QED
        BY <1>2, <1>3
    <2>5. Append(v, f[e]) = [i \in 1..Len(s) + 1 |-> Append(v, f[e])[i]]
      <3> HIDE DEF v
      <3> QED
        BY <2>2, <2>4
    <2>6. \A i \in 1..Len(s) + 1 : w[i] = Append(v, f[e])[i]
      <3> HIDE DEF v, w
      <3> QED
        BY <2>1, <2>2, <1>1
    <2> QED
      <3> HIDE DEF v, w
      <3> QED
        BY <2>3, <2>5, <2>6
  <1> QED
    BY <1>2, <1>4 DEF t
\* What listing one more combo does to the lists the statistics are about.
LEMMA OneMoreCombo ==
  ASSUME combos \in Seq(ComboRecords), NEW c \in ComboRecords,
         combos' = Append(combos, c)
  PROVE  /\ Lengths \in Seq(Int) /\ Squares \in Seq(Int)
         /\ Lengths' = Append(Lengths, c.length)
         /\ Squares' = Append(Squares, c.length * c.length)
  <1> DEFINE f == [r \in ComboRecords |-> r.length]
             g == [r \in ComboRecords |-> r.length * r.length]
  <1>1. \A r \in ComboRecords : f[r] \in Int /\ f[r] = r.length
    BY DEF ComboRecords
  <1>2. \A r \in ComboRecords : g[r] \in Int /\ g[r] = r.length * r.length
    <2> TAKE r \in ComboRecords
    <2>1. r.length \in Nat
      BY DEF ComboRecords
    <2> QED
      BY <2>1, SquareIsNat
  <1>3. f \in [ComboRecords -> Int] /\ g \in [ComboRecords -> Int]
    BY <1>1, <1>2
  <1> HIDE DEF f, g
  <1>4. \A i \in DOMAIN combos : combos[i] \in ComboRecords
    OBVIOUS
  <1>5. \A i \in DOMAIN combos' : combos'[i] \in ComboRecords
    OBVIOUS
  <1>6. /\ Lengths = [i \in DOMAIN combos |-> f[combos[i]]]
        /\ Squares = [i \in DOMAIN combos |-> g[combos[i]]]
    BY <1>1, <1>2, <1>4 DEF Lengths, Squares
  <1>7. /\ Lengths' = [i \in DOMAIN combos' |-> f[combos'[i]]]
        /\ Squares' = [i \in DOMAIN combos' |-> g[combos'[i]]]
    BY <1>1, <1>2, <1>5 DEF Lengths, Squares
  <1>8. /\ [i \in DOMAIN combos |-> f[combos[i]]] \in Seq(Int)
        /\ [i \in DOMAIN Append(combos, c) |-> f[Append(combos, c)[i]]]
             = Append([i \in DOMAIN combos |-> f[combos[i]]], f[c])
    BY <1>3, MapAppend
  <1>9. /\ [i \in DOMAIN combos |-> g[combos[i]]] \in Seq(Int)
        /\ [i \in DOMAIN Append(combos, c) |-> g[Append(combos, c)[i]]]
             = Append([i \in DOMAIN combos |-> g[combos[i]]], g[c])
    BY <1>3, MapAppend
  <1> QED
    BY <1>1, <1>2, <1>6, <1>7, <1>8, <1>9

LEMMA CountdownBooks ==
  ASSUME TypeOK, ScoreIsTheCombos, Countdown
  PROVE  ScoreIsTheCombos'
  <1>1. CASE UNCHANGED pay
    BY <1>1 DEF pay, ScoreIsTheCombos, Lengths, Squares
  <1>2. CASE ~UNCHANGED pay
    <2> SUFFICES ASSUME numComboJumps' <= MaxCombos
                 PROVE  /\ numComboJumps' = Len(combos')
                        /\ score' = Accumulate(Plus, Squares')
                        /\ totComboFloors' = Accumulate(Plus, Lengths')
                        /\ best_combo' = Accumulate(Maximum, Lengths')
                        /\ combos' # <<>> => latest_combo' = Last(combos').length
      BY DEF ScoreIsTheCombos
    <2> DEFINE c == [start |-> gdComboStart, end |-> gdComboStart + acc_level,
                     length |-> acc_level]
    <2>1. /\ score' = score + acc_level * acc_level
          /\ totComboFloors' = totComboFloors + acc_level
          /\ numComboJumps' = numComboJumps + 1
          /\ combos' = IF Len(combos) >= MaxCombos THEN combos ELSE Append(combos, c)
          /\ latest_combo' = acc_level
          /\ best_combo' = Larger(best_combo, acc_level)
      BY <1>2 DEF Countdown, add_combo
    <2>2. c \in ComboRecords /\ c.length = acc_level
      BY ScoringAssumption DEF TypeOK, MarksType, ChainType, ComboRecords
    <2>3. /\ numComboJumps \in Nat /\ acc_level \in Int /\ best_combo \in Int
          /\ score \in Int /\ totComboFloors \in Int
          /\ combos \in Seq(ComboRecords) /\ Len(combos) \in Nat
      BY DEF TypeOK, PayType, ChainType
    <2>4. /\ numComboJumps = Len(combos)
          /\ score = Accumulate(Plus, Squares)
          /\ totComboFloors = Accumulate(Plus, Lengths)
          /\ best_combo = Accumulate(Maximum, Lengths)
          /\ Len(combos) < MaxCombos
      BY <2>1, <2>3, ScoringAssumption DEF ScoreIsTheCombos
    <2>5. acc_level * acc_level \in Int
      BY SquareIsNat DEF TypeOK, ChainType
    <2> DEFINE square == acc_level * acc_level
    <2> HIDE DEF c, square
    <2>6. combos' = Append(combos, c)
      BY <2>1, <2>3, <2>4, ScoringAssumption
    <2>7. /\ Lengths \in Seq(Int) /\ Squares \in Seq(Int)
          /\ Lengths' = Append(Lengths, acc_level)
          /\ Squares' = Append(Squares, square)
      BY <2>2, <2>3, <2>6, OneMoreCombo DEF square
    <2>8. square \in Int /\ score' = score + square
      BY <2>1, <2>5 DEF square
    <2>9. score' = Accumulate(Plus, Squares')
      <3>1. Accumulate(Plus, Squares') = Plus[<<score, square>>]
        BY <2>4, <2>7, <2>8, PlusType, AccumulateAppend
      <3> QED
        BY <3>1, <2>3, <2>8, PlusType
    <2>10. totComboFloors' = Accumulate(Plus, Lengths')
      <3>1. Accumulate(Plus, Lengths') = Plus[<<totComboFloors, acc_level>>]
        BY <2>3, <2>4, <2>7, PlusType, AccumulateAppend
      <3> QED
        BY <3>1, <2>1, <2>3, PlusType
    <2>11. best_combo' = Accumulate(Maximum, Lengths')
      <3>1. Accumulate(Maximum, Lengths') = Maximum[<<best_combo, acc_level>>]
        BY <2>3, <2>4, <2>7, MaximumType, AccumulateAppend
      <3> QED
        BY <3>1, <2>1, <2>3, MaximumType
    <2>12. Len(combos') = Len(combos) + 1 /\ Last(combos') = c
      BY <2>2, <2>3, <2>6 DEF Last
    <2> QED
      BY <2>1, <2>2, <2>4, <2>9, <2>10, <2>11, <2>12
  <1> QED
    BY <1>1, <1>2

LEMMA NextBooks == TypeOK /\ ScoreIsTheCombos /\ [Next]_vars => ScoreIsTheCombos'
  <1> SUFFICES ASSUME TypeOK, ScoreIsTheCombos, [Next]_vars PROVE ScoreIsTheCombos'
    OBVIOUS
  <1>1. CASE UNCHANGED vars
    BY <1>1 DEF vars, pay, ScoreIsTheCombos, Lengths, Squares
  <1>2. CASE Next
    BY <1>2, CountdownBooks DEF Next, Airborne, Stand, Die, Climb, Fall
  <1> QED
    BY <1>1, <1>2

\* While gd->combos has room, score, combo floors, number of combos and best
\* combo are those of the entries in it, for every capacity (play.c 896-910).
THEOREM ScoreListed == Spec => []ScoreIsTheCombos
  <1>1. Init => ScoreIsTheCombos
    <2> SUFFICES ASSUME Init PROVE ScoreIsTheCombos
      OBVIOUS
    <2>1. Lengths = <<>> /\ Squares = <<>>
      BY DEF Init, Lengths, Squares
    <2> QED
      BY <2>1, PlusType, MaximumType, AccumulateEmpty DEF Init, ScoreIsTheCombos
  <1> QED
    BY <1>1, NextBooks, TypeCorrect, PTL DEF Spec
-----------------------------------------------------------------------------
(***************************************************************************)
(* The jump sequences tile the game.  Only what was stored can be lost: as *)
(* long as gd->jumps is not full, the stored sequences and the open one    *)
(* are all there are.  A sequence is open from the first landing on, so    *)
(* that gdLastJumpDiff is never compared with a landing's before it means  *)
(* something.                                                              *)
(***************************************************************************)
SequencesHold ==
  /\ jumpSequence.num = 0 => jumps = <<>> /\ gdLastJumpDiff = 0
  /\ Len(jumps) < MaxJumps => Tiles(AllSequences, level, moves)

\* The jumps in a list of sequences.
Total(s) == Accumulate(Plus, [i \in DOMAIN s |-> s[i].num])

LEMMA TotalAppend ==
  ASSUME NEW s \in Seq(JumpRecords), NEW e \in JumpRecords
  PROVE  Total(s) \in Int /\ Total(Append(s, e)) = Total(s) + e.num
  <1> DEFINE f == [r \in JumpRecords |-> r.num]
             t == Append(s, e)
  <1>1. f \in [JumpRecords -> Int] /\ \A r \in JumpRecords : f[r] = r.num
    BY DEF JumpRecords
  <1>2. \A i \in DOMAIN s : s[i] \in JumpRecords
    OBVIOUS
  <1>3. \A i \in DOMAIN t : t[i] \in JumpRecords
    OBVIOUS
  <1> HIDE DEF f, t
  <1> DEFINE v == [i \in DOMAIN s |-> s[i].num]
             w == [i \in DOMAIN t |-> t[i].num]
  <1>4. v = [i \in DOMAIN s |-> f[s[i]]] /\ w = [i \in DOMAIN t |-> f[t[i]]]
    BY <1>1, <1>2, <1>3
  <1>5. /\ [i \in DOMAIN s |-> f[s[i]]] \in Seq(Int)
        /\ [i \in DOMAIN Append(s, e) |-> f[Append(s, e)[i]]]
             = Append([i \in DOMAIN s |-> f[s[i]]], f[e])
    BY <1>1, MapAppend
  <1> HIDE DEF v, w
  <1>6. v \in Seq(Int) /\ w = Append(v, e.num) /\ e.num \in Int
    BY <1>1, <1>4, <1>5 DEF t, JumpRecords
  <1>7. /\ Accumulate(Plus, v) \in Int
        /\ Accumulate(Plus, w) = Plus[<<Accumulate(Plus, v), e.num>>]
    BY <1>6, PlusType, AccumulateAppend
  <1>8. Accumulate(Plus, w) = Accumulate(Plus, v) + e.num
    BY <1>6, <1>7, PlusType
  <1> QED
    BY <1>7, <1>8 DEF Total, v, w, t

LEMMA TotalEmpty == Total(<<>>) = 0
  <1>1. [i \in DOMAIN <<>> |-> <<>>[i].num] = <<>>
    OBVIOUS
  <1> QED
    BY <1>1, PlusType, AccumulateEmpty DEF Total

\* A jump of another length starts the next tile where the last one ends.
LEMMA NewTile ==
  ASSUME NEW s \in Seq(JumpRecords), NEW floor \in Nat, NEW n \in Nat,
         Tiles(s, floor, n),
         NEW e \in JumpRecords, e.num = 1, e.start = floor,
         s # <<>> => Last(s).dist # e.dist
  PROVE  Tiles(Append(s, e), floor + e.dist, n + 1)
  <1> DEFINE t == Append(s, e)
  <1>1. /\ Len(t) = Len(s) + 1 /\ t # <<>> /\ Len(s) \in Nat
        /\ \A i \in 1..Len(s) : t[i] = s[i]
        /\ t[Len(s) + 1] = e
    OBVIOUS
  <1>6. s # <<>> => Len(s) >= 1
    OBVIOUS
  <1>2. n + 1 = Total(t)
    BY TotalAppend DEF Tiles, Total
  <1> HIDE DEF t
  <1>3. EndOf(Last(t)) = floor + e.dist
    <2>1. e.dist \in Int
      BY DEF JumpRecords
    <2> QED
      BY <1>1, <2>1 DEF EndOf, Last
  <1>4. t[1].start = 0
    BY <1>1, <1>6 DEF Tiles
  <1>5. ASSUME NEW i \in 1..Len(t) - 1
        PROVE  EndOf(t[i]) = t[i + 1].start /\ t[i].dist # t[i + 1].dist
    <2>1. CASE i = Len(s)
      <3>1. s # <<>> /\ Last(s) = s[i] /\ t[i] = s[i] /\ t[i + 1] = e
        BY <1>1, <1>6, <2>1 DEF Last
      <3> QED
        BY <3>1 DEF Tiles
    <2>2. CASE i # Len(s)
      <3>1. i \in 1..Len(s) - 1 /\ t[i] = s[i] /\ t[i + 1] = s[i + 1]
        BY <1>1, <2>2
      <3> QED
        BY <3>1 DEF Tiles
    <2> QED
      BY <2>1, <2>2
  <1> QED
    BY <1>1, <1>2, <1>3, <1>4, <1>5 DEF Tiles, Total, t

LEMMA OneMoreTime == \A a, b \in Int : a * (b + 1) = a * b + a
  OBVIOUS

\* A jump of the same length makes the last tile longer.
LEMMA LongerTile ==
  ASSUME NEW q \in Seq(JumpRecords), NEW o \in JumpRecords, NEW p \in JumpRecords,
         NEW floor \in Nat, NEW n \in Nat,
         Tiles(Append(q, o), floor, n),
         p.start = o.start, p.dist = o.dist, p.num = o.num + 1
  PROVE  Tiles(Append(q, p), floor + o.dist, n + 1)
  <1> DEFINE s == Append(q, o)
             t == Append(q, p)
  <1>1. /\ Len(s) = Len(q) + 1 /\ Len(t) = Len(q) + 1 /\ Len(q) \in Nat
        /\ \A i \in 1..Len(q) : s[i] = q[i] /\ t[i] = q[i]
        /\ s[Len(q) + 1] = o /\ t[Len(q) + 1] = p
        /\ s # <<>> /\ t # <<>>
    OBVIOUS
  <1>2. n + 1 = Total(t)
    <2>1. Total(s) = Total(q) + o.num /\ Total(t) = Total(q) + p.num /\ Total(q) \in Int
      BY TotalAppend
    <2>2. n = Total(s) /\ o.num \in Int
      BY DEF Tiles, Total, JumpRecords
    <2> QED
      BY <2>1, <2>2
  <1> HIDE DEF s, t
  <1>3. EndOf(Last(t)) = floor + o.dist
    <2>1. o.start \in Int /\ o.dist \in Int /\ o.num \in Int
      BY ScoringAssumption DEF JumpRecords
    <2>2. EndOf(Last(s)) = floor
      BY <1>1 DEF Tiles, s
    <2>3. o.start + o.dist * o.num = floor
      BY <1>1, <2>2 DEF Last, EndOf
    <2>4. o.dist * (o.num + 1) = o.dist * o.num + o.dist
      BY <2>1, OneMoreTime
    <2>5. EndOf(Last(t)) = o.start + o.dist * (o.num + 1)
      BY <1>1 DEF Last, EndOf
    <2> QED
      BY <2>1, <2>3, <2>4, <2>5
  <1>4. t[1].start = 0
    <2>1. s[1].start = 0
      BY <1>1 DEF Tiles, s
    <2> QED
      BY <1>1, <2>1
  <1>5. ASSUME NEW i \in 1..Len(t) - 1
        PROVE  EndOf(t[i]) = t[i + 1].start /\ t[i].dist # t[i + 1].dist
    <2>1. i \in 1..Len(s) - 1
      BY <1>1
    <2>2. EndOf(s[i]) = s[i + 1].start /\ s[i].dist # s[i + 1].dist
      BY <2>1 DEF Tiles, s
    <2>3. t[i] = s[i] /\ t[i + 1].start = s[i + 1].start /\ t[i + 1].dist = s[i + 1].dist
      BY <1>1, <2>1
    <2> QED
      BY <2>2, <2>3
  <1> QED
    BY <1>1, <1>2, <1>3, <1>4, <1>5 DEF Tiles, Total, t

\* The stored sequences and the open one, as lists of records.
LEMMA AllType ==
  ASSUME SeqsType
  PROVE  /\ Open \in JumpRecords
         /\ jumps \in Seq(JumpRecords) /\ Len(jumps) \in Nat
         /\ AllSequences \in Seq(JumpRecords)
  <1>1. Open \in JumpRecords
    BY DEF SeqsType, Open, JumpRecords
  <1>2. jumps \in Seq(JumpRecords)
    BY DEF SeqsType
  <1> HIDE DEF Open
  <1> QED
    BY <1>1, <1>2 DEF AllSequences

\* What is closed while there is room is stored.
LEMMA Stores ==
  ASSUME SeqsType, SequencesHold, ~dead, add_jump_sequence, Len(jumps') < MaxJumps
  PROVE  Len(jumps) < MaxJumps /\ jumps' = AllSequences
  <1>0. jumps \in Seq(JumpRecords) /\ Len(jumps) \in Nat /\ Open \in JumpRecords
    BY AllType
  <1>1. jumps' = IF jumpSequence.num = 0 \/ Len(jumps) >= MaxJumps THEN jumps
                 ELSE Append(jumps, Open)
    BY DEF add_jump_sequence, Open
  <1>2. Len(jumps) < MaxJumps
    BY <1>0, <1>1, ScoringAssumption
  <1>3. ~(Len(jumps) >= MaxJumps)
    BY <1>0, <1>2, ScoringAssumption
  <1> QED
    BY <1>1, <1>2, <1>3 DEF AllSequences

\* A landing on another floor (play.c 930-941).
LEMMA LandingTiles ==
  ASSUME TypeOK, SequencesHold, ~dead, dead' = dead,
         NEW l \in 0..MaxLevel, l # level, level' = l, moves' = moves + 1,
         Sequence(l - level), SeqsType'
  PROVE  SequencesHold'
  <1> DEFINE diff == l - level
  <1>1. level \in Nat /\ l \in Nat /\ moves \in Nat /\ diff \in Int /\ diff # 0
        /\ level' = level + diff
    BY ScoringAssumption DEF TypeOK, PlayerType
  <1>2. /\ Open \in JumpRecords /\ Open' \in JumpRecords
        /\ jumps \in Seq(JumpRecords) /\ AllSequences \in Seq(JumpRecords)
    BY AllType DEF TypeOK, SeqsType, JumpRecords, Open
  <1>3. jumpSequence.num \in Nat /\ jumpSequence \in [start: 0..MaxLevel, num: Nat]
    BY DEF TypeOK, SeqsType
  <1>4. CASE gdLastJumpDiff = diff
    <2>1. /\ jumpSequence' = [jumpSequence EXCEPT !.num = @ + 1]
          /\ jumps' = jumps /\ gdLastJumpDiff' = diff
      BY <1>4 DEF Sequence
    <2>2. jumpSequence.num # 0
      BY <1>1, <1>4 DEF SequencesHold
    <2>3. /\ jumpSequence'.num = jumpSequence.num + 1
          /\ jumpSequence'.start = jumpSequence.start
          /\ jumpSequence'.num # 0
      BY <1>3, <2>1
    <2>4. /\ Open'.start = Open.start /\ Open'.dist = Open.dist /\ Open.dist = diff
          /\ Open'.num = Open.num + 1
      BY <1>4, <2>1, <2>3 DEF Open
    <2>5. AllSequences = Append(jumps, Open) /\ AllSequences' = Append(jumps, Open')
      BY <2>1, <2>2, <2>3 DEF AllSequences
    <2>6. ASSUME Len(jumps') < MaxJumps PROVE Tiles(AllSequences', level', moves')
      <3>1. Tiles(Append(jumps, Open), level, moves)
        BY <2>1, <2>5, <2>6 DEF SequencesHold
      <3> HIDE DEF Open
      <3>2. Tiles(Append(jumps, Open'), level + Open.dist, moves + 1)
        BY <1>1, <1>2, <2>4, <3>1, LongerTile
      <3> QED
        BY <1>1, <2>4, <2>5, <3>2
    <2> QED
      BY <2>3, <2>6 DEF SequencesHold
  <1>5. CASE gdLastJumpDiff # diff
    <2>1. /\ add_jump_sequence /\ jumpSequence' = [start |-> level, num |-> 1]
          /\ gdLastJumpDiff' = diff
      BY <1>5 DEF Sequence
    <2>2. Open' = [start |-> level, dist |-> diff, num |-> 1]
      BY <2>1 DEF Open
    <2>3. AllSequences' = Append(jumps', Open')
      BY <2>1 DEF AllSequences
    <2>4. ASSUME Len(jumps') < MaxJumps PROVE Tiles(AllSequences', level', moves')
      <3>1. Len(jumps) < MaxJumps /\ jumps' = AllSequences
        BY <2>1, <2>4, Stores DEF TypeOK
      <3>2. Tiles(AllSequences, level, moves)
        BY <3>1 DEF SequencesHold
      <3>3. AllSequences # <<>> => Last(AllSequences).dist # diff
        <4>1. CASE jumpSequence.num = 0
          BY <4>1 DEF SequencesHold, AllSequences
        <4>2. CASE jumpSequence.num # 0
          <5>1. AllSequences = Append(jumps, Open) /\ Open.dist = gdLastJumpDiff
            BY <4>2 DEF AllSequences, Open
          <5>2. Last(Append(jumps, Open)) = Open
            <6> HIDE DEF Open
            <6> QED
              BY <1>2 DEF Last
          <5> QED
            BY <5>1, <5>2, <1>5
        <4> QED
          BY <4>1, <4>2
      <3>4. Open'.num = 1 /\ Open'.start = level /\ Open'.dist = diff
        BY <2>2
      <3>5. AllSequences' = Append(AllSequences, Open')
        BY <2>3, <3>1
      <3> HIDE DEF Open, AllSequences
      <3>6. Tiles(Append(AllSequences, Open'), level + Open'.dist, moves + 1)
        BY <1>1, <1>2, <3>2, <3>3, <3>4, NewTile
      <3> QED
        BY <1>1, <3>4, <3>5, <3>6
    <2> QED
      BY <2>1, <2>4 DEF SequencesHold
  <1> QED
    BY <1>4, <1>5
LEMMA NextSequences == TypeOK /\ SequencesHold /\ [Next]_vars => SequencesHold'
  <1> SUFFICES ASSUME TypeOK, SequencesHold, [Next]_vars PROVE SequencesHold'
    OBVIOUS
  <1>t. TypeOK'
    BY NextType
  <1>1. ASSUME UNCHANGED <<seqs, level, moves, dead>> PROVE SequencesHold'
    BY <1>1 DEF seqs, SequencesHold, AllSequences, Open
  <1>2. CASE Airborne \/ Stand
    BY <1>1, <1>2 DEF Airborne, Stand, ends, ghosts
  <1>3. ASSUME NEW l \in 0..MaxLevel, Climb(l) \/ Fall(l) PROVE SequencesHold'
    <2>1. /\ ~dead /\ dead' = dead /\ level' = l /\ moves' = moves + 1
          /\ Sequence(l - level) /\ l # level
      BY <1>3, ScoringAssumption DEF Climb, Fall, ends, TypeOK, PlayerType
    <2> QED
      BY <1>t, <2>1, LandingTiles DEF TypeOK
  <1>4. CASE Die
    <2>1. /\ ~dead /\ dead' = TRUE /\ add_jump_sequence
          /\ UNCHANGED <<level, moves, jumpSequence, gdLastJumpDiff>>
      BY <1>4 DEF Die, ghosts
    <2>2. AllSequences' = jumps'
      BY <2>1 DEF AllSequences
    <2>3. ASSUME Len(jumps') < MaxJumps PROVE Tiles(AllSequences', level', moves')
      <3>1. Len(jumps) < MaxJumps /\ jumps' = AllSequences
        BY <2>1, <2>3, Stores DEF TypeOK
      <3> QED
        BY <2>1, <2>2, <3>1 DEF SequencesHold
    <2>4. jumpSequence'.num = 0 => jumps' = <<>> /\ gdLastJumpDiff' = 0
      BY <2>1 DEF add_jump_sequence, SequencesHold
    <2> QED
      BY <2>3, <2>4 DEF SequencesHold
  <1>5. CASE UNCHANGED vars
    BY <1>1, <1>5 DEF vars, ends, ghosts
  <1> QED
    BY <1>2, <1>3, <1>4, <1>5 DEF Next

LEMMA SequencesInvariant == Spec => []SequencesHold
  <1>1. Init => SequencesHold
    <2> SUFFICES ASSUME Init PROVE SequencesHold
      OBVIOUS
    <2>1. AllSequences = <<>> /\ level = 0 /\ moves = 0 /\ jumps = <<>> /\ gdLastJumpDiff = 0
      BY DEF Init, AllSequences
    <2>2. \A i \in 1..Len(<<>>) - 1 : FALSE
      OBVIOUS
    <2> QED
      BY <2>1, <2>2, TotalEmpty DEF SequencesHold, Tiles, Total
  <1> QED
    BY <1>1, NextSequences, TypeCorrect, PTL DEF Spec

\* Until gd->jumps is full, the jump sequences follow one another from the
\* ground to the floor the player is on, and count every landing (play.c
\* 930-941, 1020).
THEOREM SequencesTile == Spec => []SequencesTileTheGame
  <1>1. TypeOK /\ SequencesHold => SequencesTileTheGame
    <2> SUFFICES ASSUME TypeOK, SequencesHold, Complete
                 PROVE  Len(jumps) < MaxJumps
      BY DEF SequencesTileTheGame, SequencesHold
    <2>1. jumps \in Seq(JumpRecords) /\ Open \in JumpRecords
      BY AllType DEF TypeOK
    <2>2. Len(AllSequences) = Len(jumps) \/ Len(AllSequences) = Len(jumps) + 1
      <3> HIDE DEF Open
      <3> QED
        BY <2>1 DEF AllSequences
    <2> QED
      BY <2>1, <2>2, ScoringAssumption DEF Complete
  <1> QED
    BY <1>1, SequencesInvariant, TypeCorrect, PTL
-----------------------------------------------------------------------------
(***************************************************************************)
(* The counters and the sequences tell the same story.  Between landings   *)
(* the only counter that runs is the one of the open sequence's length,    *)
(* and the tops are those of the sequences already stored.                 *)
(***************************************************************************)
RunsHold ==
  /\ jc = [d \in 1..JumpSizes |->
             IF ~dead /\ d = gdLastJumpDiff THEN jumpSequence.num ELSE 0]
  /\ ~dead => lastJumpLength = Larger(0, gdLastJumpDiff)
  /\ Len(jumps) < MaxJumps => \A d \in 1..JumpSizes : jcTop[d] = LongestOf(jumps, d)

\* One more sequence in the list.
LEMMA LongestAppend ==
  ASSUME NEW s \in Seq(JumpRecords), NEW e \in JumpRecords, NEW d \in Int
  PROVE  LongestOf(Append(s, e), d)
           = Larger(LongestOf(s, d), IF e.dist = d THEN e.num ELSE 0)
  <1> DEFINE f == [r \in JumpRecords |-> IF r.dist = d THEN r.num ELSE 0]
             t == Append(s, e)
  <1>1. /\ f \in [JumpRecords -> Int]
        /\ \A r \in JumpRecords : f[r] = IF r.dist = d THEN r.num ELSE 0
    BY DEF JumpRecords
  <1>2. \A i \in DOMAIN s : s[i] \in JumpRecords
    OBVIOUS
  <1>3. \A i \in DOMAIN t : t[i] \in JumpRecords
    OBVIOUS
  <1> HIDE DEF f, t
  <1> DEFINE v == [i \in DOMAIN s |-> IF s[i].dist = d THEN s[i].num ELSE 0]
             w == [i \in DOMAIN t |-> IF t[i].dist = d THEN t[i].num ELSE 0]
  <1>4. v = [i \in DOMAIN s |-> f[s[i]]] /\ w = [i \in DOMAIN t |-> f[t[i]]]
    BY <1>1, <1>2, <1>3
  <1>5. /\ [i \in DOMAIN s |-> f[s[i]]] \in Seq(Int)
        /\ [i \in DOMAIN Append(s, e) |-> f[Append(s, e)[i]]]
             = Append([i \in DOMAIN s |-> f[s[i]]], f[e])
    BY <1>1, MapAppend
  <1> HIDE DEF v, w
  <1>6. v \in Seq(Int) /\ w = Append(v, f[e]) /\ f[e] \in Int
    BY <1>1, <1>4, <1>5 DEF t
  <1>7. /\ Accumulate(Maximum, v) \in Int
        /\ Accumulate(Maximum, w) = Maximum[<<Accumulate(Maximum, v), f[e]>>]
    BY <1>6, MaximumType, AccumulateAppend
  <1>8. Accumulate(Maximum, w) = Larger(Accumulate(Maximum, v), f[e])
    BY <1>6, <1>7, MaximumType
  <1> QED
    BY <1>1, <1>8 DEF LongestOf, v, w, t

LEMMA LongestEmpty == \A d \in Int : LongestOf(<<>>, d) = 0
  <1> TAKE d \in Int
  <1>1. [i \in DOMAIN <<>> |-> IF <<>>[i].dist = d THEN <<>>[i].num ELSE 0] = <<>>
    OBVIOUS
  <1> QED
    BY <1>1, MaximumType, AccumulateEmpty DEF LongestOf

\* Tops, computed from the counters, is the top over the open sequence too.
LEMMA TopsOfAll ==
  ASSUME TypeOK, RunsHold, SequencesHold, ~dead, Len(jumps) < MaxJumps,
         NEW d \in 1..JumpSizes
  PROVE  Tops[d] = LongestOf(AllSequences, d)
  <1>1. /\ Open \in JumpRecords /\ jumps \in Seq(JumpRecords)
        /\ jumpSequence.num \in Nat /\ d \in Int
        /\ jcTop[d] \in Nat
    BY AllType, ScoringAssumption DEF TypeOK, SeqsType, RunsType
  <1>2. /\ jc[d] = IF d = gdLastJumpDiff THEN jumpSequence.num ELSE 0
        /\ jcTop[d] = LongestOf(jumps, d)
        /\ Tops[d] = Larger(jcTop[d], jc[d])
    BY DEF RunsHold, Tops
  <1>3. CASE jumpSequence.num = 0
    <2>1. AllSequences = jumps /\ Tops[d] = jcTop[d]
      BY <1>1, <1>2, <1>3 DEF AllSequences, Larger
    <2> QED
      BY <1>2, <2>1
  <1>4. CASE jumpSequence.num # 0
    <2>1. AllSequences = Append(jumps, Open)
      BY <1>4 DEF AllSequences
    <2>2. Open.dist = gdLastJumpDiff /\ Open.num = jumpSequence.num
      BY DEF Open
    <2> HIDE DEF Open
    <2>3. LongestOf(Append(jumps, Open), d)
            = Larger(LongestOf(jumps, d), IF Open.dist = d THEN Open.num ELSE 0)
      BY <1>1, LongestAppend
    <2> QED
      BY <1>2, <2>1, <2>2, <2>3
  <1> QED
    BY <1>3, <1>4

\* A sequence that is closed takes its counter with it into the tops.
LEMMA ClosedTops ==
  ASSUME TypeOK, RunsHold, SequencesHold, ~dead, add_jump_sequence, jcTop' = Tops
  PROVE  (Len(jumps) < MaxJumps => \A d \in 1..JumpSizes : jcTop[d] = LongestOf(jumps, d))'
  <1> SUFFICES ASSUME Len(jumps') < MaxJumps, NEW d \in 1..JumpSizes
               PROVE  jcTop'[d] = LongestOf(jumps', d)
    OBVIOUS
  <1>1. Len(jumps) < MaxJumps /\ jumps' = AllSequences
    BY Stores DEF TypeOK
  <1>2. Tops[d] = LongestOf(AllSequences, d)
    BY <1>1, TopsOfAll
  <1> QED
    BY <1>1, <1>2

\* A climb counts for the sequence and for the counter alike.
LEMMA ClimbRuns ==
  ASSUME TypeOK, RunsHold, SequencesHold, ~dead, dead' = dead,
         NEW diff \in 1..MaxLevel, Sequence(diff), CountClimb(diff)
  PROVE  RunsHold'
  <1>0. gdLastJumpDiff \in Int /\ jumpSequence \in [start: 0..MaxLevel, num: Nat]
        /\ gdLastJumpDiff' = diff /\ lastJumpLength' = diff /\ diff \in Nat \ {0}
        /\ ~dead'
    BY ScoringAssumption DEF TypeOK, SeqsType, Sequence, CountClimb
  <1>1. diff = lastJumpLength <=> diff = gdLastJumpDiff
    BY <1>0 DEF RunsHold, Larger
  <1>2. lastJumpLength' = Larger(0, gdLastJumpDiff')
    BY <1>0 DEF Larger
  <1>3. CASE gdLastJumpDiff = diff
    <2>1. /\ jumpSequence'.num = jumpSequence.num + 1 /\ jumps' = jumps
          /\ jcTop' = jcTop
          /\ jc' = IF diff \in 1..JumpSizes THEN [jc EXCEPT ![diff] = @ + 1] ELSE jc
      BY <1>0, <1>1, <1>3 DEF Sequence, CountClimb
    <2>2. jc' = [d \in 1..JumpSizes |-> IF d = diff THEN jumpSequence.num + 1 ELSE 0]
      BY <1>0, <1>3, <2>1 DEF RunsHold
    <2>3. jc' = [d \in 1..JumpSizes |->
                   IF ~dead' /\ d = gdLastJumpDiff' THEN jumpSequence'.num ELSE 0]
      BY <1>0, <2>1, <2>2
    <2> QED
      BY <1>2, <2>1, <2>3 DEF RunsHold
  <1>4. CASE gdLastJumpDiff # diff
    <2>1. /\ add_jump_sequence /\ jumpSequence'.num = 1
          /\ jcTop' = Tops
          /\ jc' = IF diff \in 1..JumpSizes THEN [NoRuns EXCEPT ![diff] = @ + 1] ELSE NoRuns
      BY <1>1, <1>4 DEF Sequence, CountClimb
    <2>2. jc' = [d \in 1..JumpSizes |-> IF d = diff THEN 1 ELSE 0]
      <3>1. NoRuns = [d \in 1..JumpSizes |-> 0]
        BY DEF NoRuns
      <3>2. diff \in 1..JumpSizes =>
              [NoRuns EXCEPT ![diff] = @ + 1]
                = [d \in 1..JumpSizes |-> IF d = diff THEN 1 ELSE 0]
        <4> SUFFICES ASSUME diff \in 1..JumpSizes
                     PROVE  [NoRuns EXCEPT ![diff] = @ + 1]
                              = [d \in 1..JumpSizes |-> IF d = diff THEN 1 ELSE 0]
          OBVIOUS
        <4>1. [NoRuns EXCEPT ![diff] = @ + 1]
                = [d \in 1..JumpSizes |-> IF d = diff THEN NoRuns[diff] + 1 ELSE NoRuns[d]]
          BY <3>1
        <4>2. NoRuns[diff] + 1 = 1 /\ \A d \in 1..JumpSizes : NoRuns[d] = 0
          BY <3>1
        <4> HIDE DEF NoRuns
        <4> QED
          BY <4>1, <4>2
      <3>3. diff \notin 1..JumpSizes =>
              NoRuns = [d \in 1..JumpSizes |-> IF d = diff THEN 1 ELSE 0]
        BY <3>1
      <3> HIDE DEF NoRuns
      <3> QED
        BY <2>1, <3>2, <3>3
    <2>3. jc' = [d \in 1..JumpSizes |->
                   IF ~dead' /\ d = gdLastJumpDiff' THEN jumpSequence'.num ELSE 0]
      BY <1>0, <2>1, <2>2
    <2>4. (Len(jumps) < MaxJumps => \A d \in 1..JumpSizes : jcTop[d] = LongestOf(jumps, d))'
      BY <2>1, ClosedTops
    <2> QED
      BY <1>2, <2>3, <2>4 DEF RunsHold
  <1> QED
    BY <1>3, <1>4

\* A fall ends the run of climbs, and opens a sequence no counter counts.
LEMMA FallRuns ==
  ASSUME TypeOK, RunsHold, SequencesHold, ~dead, dead' = dead,
         NEW diff \in Int, diff < 0, Sequence(diff), FlushRuns
  PROVE  RunsHold'
  <1>1. /\ jcTop' = Tops /\ jc' = NoRuns /\ lastJumpLength' = 0
        /\ gdLastJumpDiff' = diff
    BY DEF FlushRuns, Sequence
  <1>2. lastJumpLength' = Larger(0, gdLastJumpDiff')
    BY <1>1 DEF Larger
  <1>3. jc' = [d \in 1..JumpSizes |->
                 IF ~dead' /\ d = gdLastJumpDiff' THEN jumpSequence'.num ELSE 0]
    BY <1>1, ScoringAssumption DEF NoRuns
  <1>4. CASE gdLastJumpDiff = diff
    <2>1. jumps' = jumps
      BY <1>4 DEF Sequence
    <2>2. \A d \in 1..JumpSizes : jc[d] = 0 /\ jcTop[d] \in Nat
      BY <1>4, ScoringAssumption DEF RunsHold, TypeOK, RunsType
    <2>3. \A d \in 1..JumpSizes : jcTop'[d] = jcTop[d]
      BY <1>1, <2>2 DEF Tops, Larger
    <2> QED
      BY <1>2, <1>3, <2>1, <2>3 DEF RunsHold
  <1>5. CASE gdLastJumpDiff # diff
    <2>1. add_jump_sequence
      BY <1>5 DEF Sequence
    <2> QED
      BY <1>1, <1>2, <1>3, <2>1, ClosedTops DEF RunsHold
  <1> QED
    BY <1>4, <1>5

LEMMA NextRuns == TypeOK /\ SequencesHold /\ RunsHold /\ [Next]_vars => RunsHold'
  <1> SUFFICES ASSUME TypeOK, SequencesHold, RunsHold, [Next]_vars PROVE RunsHold'
    OBVIOUS
  <1>1. ASSUME UNCHANGED <<seqs, runs, dead>> PROVE RunsHold'
    BY <1>1 DEF seqs, runs, RunsHold
  <1>2. CASE Airborne \/ Stand
    BY <1>1, <1>2 DEF Airborne, Stand, ends
  <1>3. ASSUME NEW l \in 0..MaxLevel, Climb(l) PROVE RunsHold'
    <2>1. l - level \in 1..MaxLevel
      BY <1>3, ScoringAssumption DEF Climb, TypeOK, PlayerType
    <2>2. /\ ~dead /\ dead' = dead /\ Sequence(l - level) /\ CountClimb(l - level)
      BY <1>3 DEF Climb, ends
    <2> QED
      BY <2>1, <2>2, ClimbRuns
  <1>4. ASSUME NEW l \in 0..MaxLevel, Fall(l) PROVE RunsHold'
    <2>1. l - level \in Int /\ l - level < 0
      BY <1>4, ScoringAssumption DEF Fall, TypeOK, PlayerType
    <2>2. /\ ~dead /\ dead' = dead /\ Sequence(l - level) /\ FlushRuns
      BY <1>4 DEF Fall, ends
    <2> QED
      BY <2>1, <2>2, FallRuns
  <1>5. CASE Die
    <2>1. /\ ~dead /\ dead' = TRUE /\ add_jump_sequence /\ FlushRuns
      BY <1>5 DEF Die
    <2>2. jc' = [d \in 1..JumpSizes |->
                   IF ~dead' /\ d = gdLastJumpDiff' THEN jumpSequence'.num ELSE 0]
      BY <2>1 DEF FlushRuns, NoRuns
    <2>3. jcTop' = Tops
      BY <2>1 DEF FlushRuns
    <2> QED
      BY <2>1, <2>2, <2>3, ClosedTops DEF RunsHold
  <1>6. CASE UNCHANGED vars
    BY <1>1, <1>6 DEF vars, ends
  <1> QED
    BY <1>2, <1>3, <1>4, <1>5, <1>6 DEF Next

\* The invariants of this section imply the property.
LEMMA RunsAgree == TypeOK /\ SequencesHold /\ RunsHold => TopsAreTheLongestSequences
  <1> SUFFICES ASSUME TypeOK, SequencesHold, RunsHold, Complete
               PROVE  /\ \A d \in 1..JumpSizes : Tops[d] = LongestOf(AllSequences, d)
                      /\ dead => jcTop = Tops
    BY DEF TopsAreTheLongestSequences
  <1>1. Len(jumps) < MaxJumps
    <2>1. jumps \in Seq(JumpRecords) /\ Open \in JumpRecords
      BY AllType DEF TypeOK
    <2>2. Len(AllSequences) = Len(jumps) \/ Len(AllSequences) = Len(jumps) + 1
      <3> HIDE DEF Open
      <3> QED
        BY <2>1 DEF AllSequences
    <2> QED
      BY <2>1, <2>2, ScoringAssumption DEF Complete
  <1>2. CASE ~dead
    BY <1>1, <1>2, TopsOfAll
  <1>3. CASE dead
    <2>1. \A d \in 1..JumpSizes : jc[d] = 0
      BY <1>3 DEF RunsHold
    <2>2. jcTop \in [1..JumpSizes -> Nat]
      BY DEF TypeOK, RunsType
    <2>3. jcTop = Tops
      BY <2>1, <2>2 DEF Tops, Larger
    <2>4. AllSequences = jumps
      BY <1>3 DEF AllSequences
    <2> QED
      BY <1>1, <2>3, <2>4 DEF RunsHold
  <1> QED
    BY <1>2, <1>3

\* Until gd->jumps is full, the jump counters of the profile's records and
\* the jump sequences of the replay agree on the longest run of jumps of each
\* length, for every number of lengths and floors (play.c 943-991, 1013-1022).
THEOREM TopsAgree == Spec => []TopsAreTheLongestSequences
  <1>1. Init => RunsHold
    <2> SUFFICES ASSUME Init PROVE RunsHold
      OBVIOUS
    <2>1. /\ jc = [d \in 1..JumpSizes |-> 0] /\ jcTop = jc /\ jumps = <<>>
          /\ gdLastJumpDiff = 0 /\ lastJumpLength = 0 /\ jumpSequence.num = 0
      BY DEF Init
    <2>2. \A d \in 1..JumpSizes : jcTop[d] = LongestOf(jumps, d)
      BY <2>1, LongestEmpty
    <2> QED
      BY <2>1, <2>2 DEF RunsHold, Larger
  <1> QED
    BY <1>1, NextRuns, RunsAgree, SequencesInvariant, TypeCorrect, PTL DEF Spec
=============================================================================
