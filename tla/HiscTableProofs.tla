--------------------------- MODULE HiscTableProofs ---------------------------
(***************************************************************************)
(* The high-score table implements its promise, for every table size, any  *)
(* results and any names: the loop of enter_hisc_table finds the highest   *)
(* of the lowest entries, and the insertion sort moves the new entry to    *)
(* the place qualify_hisc_table announced and nothing else.                *)
(***************************************************************************)
EXTENDS HiscTable, FiniteSetTheorems, SequenceTheorems, WellFoundedInduction, TLAPS

-----------------------------------------------------------------------------
(* Induction over the naturals, from the well-foundedness of <.            *)

\* < as a relation, which WellFoundedInduction knows to be well founded.
LEMMA LessIsWellFounded ==
  \E R : IsWellFoundedOn(R, Nat) /\ \A k, m \in Nat : k < m => <<k, m>> \in R
  <1>1. \A k, m \in Nat : k < m => <<k, m>> \in OpToRel(<, Nat)
    BY DEF OpToRel
  <1> QED
    BY <1>1, NatLessThanWellFounded, Zenon

\* Every non-empty set of naturals has a least element.
LEMMA Least ==
  ASSUME NEW T \in SUBSET Nat, T # {}
  PROVE  \E m \in T : \A k \in T : m <= k
  <1>1. PICK R : IsWellFoundedOn(R, Nat) /\ \A k, m \in Nat : k < m => <<k, m>> \in R
    BY LessIsWellFounded
  <1>0. T \subseteq Nat
    OBVIOUS
  <1>a. IsWellFoundedOn(R, Nat)
    BY <1>1
  <1>b. \A k, m \in Nat : k < m => <<k, m>> \in R
    BY <1>1
  <1>2. PICK m \in T : \A k \in T : ~(<<k, m>> \in R)
    BY <1>0, <1>a, WFMin
  <1>3. \A k \in T : m <= k
    <2> SUFFICES ASSUME NEW k \in T, ~(m <= k) PROVE FALSE
      OBVIOUS
    <2>1. k < m
      OBVIOUS
    <2>2. <<k, m>> \in R
      BY <2>1, <1>b
    <2> QED
      BY <2>2, <1>2
  <1> QED
    BY <1>3

\* Induction, for the set of the naturals that have the property.
LEMMA SetInduction ==
  ASSUME NEW S \in SUBSET Nat, 0 \in S, \A n \in S : n + 1 \in S
  PROVE  S = Nat
  <1> DEFINE T == Nat \ S
  <1>1. SUFFICES ASSUME T # {} PROVE FALSE
    OBVIOUS
  <1>2. PICK m \in T : \A k \in T : m <= k
    BY <1>1, Least
  <1>3. m - 1 \in S
    BY <1>2
  <1> QED
    BY <1>2, <1>3

\* The least of some naturals.
LEMMA MinIsLeast ==
  ASSUME NEW T \in SUBSET Nat, T # {}
  PROVE  Min(T) \in T /\ \A k \in T : Min(T) <= k
  BY Least DEF Min

-----------------------------------------------------------------------------
(* Taking an entry out of a list and putting one in.                       *)

LEMMA RemoveIs ==
  ASSUME NEW S, NEW s \in Seq(S), NEW i \in 1 .. Len(s)
  PROVE  /\ RemoveAt(s, i) \in Seq(S)
         /\ Len(RemoveAt(s, i)) = Len(s) - 1
         /\ \A m \in 1 .. Len(s) - 1 :
              RemoveAt(s, i)[m] = IF m < i THEN s[m] ELSE s[m + 1]
  <1> DEFINE a == SubSeq(s, 1, i - 1)
             b == SubSeq(s, i + 1, Len(s))
  <1>0. /\ Len(s) \in Nat /\ i \in Nat /\ i >= 1 /\ i <= Len(s)
        /\ \A m \in 1 .. Len(s) : s[m] \in S
    OBVIOUS
  <1>1. /\ a \in Seq(S) /\ Len(a) = i - 1
        /\ \A m \in 1 .. i - 1 : a[m] = s[m]
    <2>1. \A m \in 1 .. i - 1 : s[m] \in S
      BY <1>0
    <2> QED
      BY <1>0, <2>1, SubSeqProperties
  <1>2. /\ b \in Seq(S) /\ Len(b) = Len(s) - i
        /\ \A m \in 1 .. Len(s) - i : b[m] = s[i + m]
    <2>1. \A m \in i + 1 .. Len(s) : s[m] \in S
      BY <1>0
    <2> QED
      BY <1>0, <2>1, SubSeqProperties
  <1> HIDE DEF a, b
  <1>3. /\ a \o b \in Seq(S) /\ Len(a \o b) = Len(a) + Len(b)
        /\ \A m \in 1 .. Len(a) + Len(b) :
             (a \o b)[m] = IF m <= Len(a) THEN a[m] ELSE b[m - Len(a)]
    BY <1>1, <1>2, ConcatProperties
  <1>4. ASSUME NEW m \in 1 .. Len(s) - 1
        PROVE  (a \o b)[m] = IF m < i THEN s[m] ELSE s[m + 1]
    <2>1. CASE m < i
      BY <1>0, <1>1, <1>2, <1>3, <2>1
    <2>2. CASE ~(m < i)
      <3>1. (a \o b)[m] = b[m - (i - 1)] /\ m - (i - 1) \in 1 .. Len(s) - i
        BY <1>0, <1>1, <1>2, <1>3, <2>2
      <3>2. b[m - (i - 1)] = s[i + (m - (i - 1))]
        BY <1>2, <3>1
      <3>3. i + (m - (i - 1)) = m + 1
        BY <1>0
      <3> QED
        BY <2>2, <3>1, <3>2, <3>3
    <2> QED
      BY <2>1, <2>2
  <1>5. RemoveAt(s, i) = a \o b
    BY DEF RemoveAt, a, b
  <1>6. Len(a) + Len(b) = Len(s) - 1
    BY <1>0, <1>1, <1>2
  <1> QED
    BY <1>3, <1>4, <1>5, <1>6

LEMMA InsertIs ==
  ASSUME NEW S, NEW s \in Seq(S), NEW k \in 1 .. Len(s) + 1, NEW e \in S
  PROVE  /\ InsertAt(s, k, e) \in Seq(S)
         /\ Len(InsertAt(s, k, e)) = Len(s) + 1
         /\ \A m \in 1 .. Len(s) + 1 :
              InsertAt(s, k, e)[m] = IF m < k THEN s[m]
                                     ELSE IF m = k THEN e ELSE s[m - 1]
  <1> DEFINE a == SubSeq(s, 1, k - 1)
             b == SubSeq(s, k, Len(s))
             c == a \o <<e>>
  <1>0. /\ Len(s) \in Nat /\ k \in Nat /\ k >= 1 /\ k <= Len(s) + 1
        /\ \A m \in 1 .. Len(s) : s[m] \in S
    OBVIOUS
  <1>1. /\ a \in Seq(S) /\ Len(a) = k - 1
        /\ \A m \in 1 .. k - 1 : a[m] = s[m]
    <2>1. \A m \in 1 .. k - 1 : s[m] \in S
      BY <1>0
    <2> QED
      BY <1>0, <2>1, SubSeqProperties
  <1>2. /\ b \in Seq(S) /\ Len(b) = Len(s) - k + 1
        /\ \A m \in 1 .. Len(s) - k + 1 : b[m] = s[k + m - 1]
    <2>1. \A m \in k .. Len(s) : s[m] \in S
      BY <1>0
    <2> QED
      BY <1>0, <2>1, SubSeqProperties
  <1> HIDE DEF a, b
  <1>3. /\ c \in Seq(S) /\ Len(c) = k
        /\ \A m \in 1 .. k - 1 : c[m] = s[m]
        /\ c[k] = e
    <2>1. <<e>> \in Seq(S) /\ Len(<<e>>) = 1 /\ <<e>>[1] = e
      OBVIOUS
    <2>2. /\ c \in Seq(S) /\ Len(c) = Len(a) + Len(<<e>>)
          /\ \A m \in 1 .. Len(a) + Len(<<e>>) :
               c[m] = IF m <= Len(a) THEN a[m] ELSE <<e>>[m - Len(a)]
      BY <1>1, <2>1, ConcatProperties
    <2> HIDE DEF c
    <2> QED
      BY <1>0, <1>1, <2>1, <2>2
  <1> HIDE DEF c
  <1>4. /\ c \o b \in Seq(S) /\ Len(c \o b) = Len(c) + Len(b)
        /\ \A m \in 1 .. Len(c) + Len(b) :
             (c \o b)[m] = IF m <= Len(c) THEN c[m] ELSE b[m - Len(c)]
    BY <1>2, <1>3, ConcatProperties
  <1>5. ASSUME NEW m \in 1 .. Len(s) + 1
        PROVE  (c \o b)[m] = IF m < k THEN s[m] ELSE IF m = k THEN e ELSE s[m - 1]
    <2>1. CASE m <= k
      BY <1>0, <1>2, <1>3, <1>4, <2>1
    <2>2. CASE ~(m <= k)
      <3>1. (c \o b)[m] = b[m - k] /\ m - k \in 1 .. Len(s) - k + 1
        BY <1>0, <1>2, <1>3, <1>4, <2>2
      <3>2. b[m - k] = s[k + (m - k) - 1]
        BY <1>2, <3>1
      <3>3. k + (m - k) - 1 = m - 1 /\ ~(m < k) /\ m # k
        BY <1>0, <2>2
      <3> QED
        BY <3>1, <3>2, <3>3
    <2> QED
      BY <2>1, <2>2
  <1>6. InsertAt(s, k, e) = c \o b
    BY DEF InsertAt, a, b, c
  <1>7. Len(c) + Len(b) = Len(s) + 1
    BY <1>0, <1>2, <1>3
  <1> QED
    BY <1>4, <1>5, <1>6, <1>7

Tables == [1 .. Posts -> Thisc]

\* A table is a list of Posts entries, and the other way round.
LEMMA TableIsSeq ==
  /\ \A t \in Tables : t \in Seq(Thisc) /\ Len(t) = Posts
  /\ \A s \in Seq(Thisc) : Len(s) = Posts => s \in Tables
  BY HiscAssumption DEF Tables

\* The entry at i replaced by e, which goes to k: those between shift down.
Moved(t, i, k, e) ==
  [m \in 1 .. Posts |-> IF m < k THEN t[m]
                        ELSE IF m = k THEN e
                        ELSE IF m <= i THEN t[m - 1] ELSE t[m]]

LEMMA MoveIs ==
  ASSUME NEW t \in Tables, NEW i \in 1 .. Posts, NEW k \in 1 .. i, NEW e \in Thisc
  PROVE  InsertAt(RemoveAt(t, i), k, e) = Moved(t, i, k, e) /\ Moved(t, i, k, e) \in Tables
  <1>0. Posts \in Nat /\ i \in Nat /\ k \in Nat /\ k <= i /\ i <= Posts /\ 1 <= k
    BY HiscAssumption
  <1>1. t \in Seq(Thisc) /\ Len(t) = Posts /\ i \in 1 .. Len(t)
    BY TableIsSeq
  <1>a. PICK s : s = RemoveAt(t, i)
    OBVIOUS
  <1>2. /\ s \in Seq(Thisc) /\ Len(s) = Posts - 1
        /\ \A m \in 1 .. Posts - 1 : s[m] = IF m < i THEN t[m] ELSE t[m + 1]
    BY <1>1, <1>a, RemoveIs
  <1>b. PICK u : u = InsertAt(s, k, e)
    OBVIOUS
  <1>3. /\ u \in Seq(Thisc) /\ Len(u) = Posts
        /\ \A m \in 1 .. Posts : u[m] = IF m < k THEN s[m]
                                        ELSE IF m = k THEN e ELSE s[m - 1]
    <2>1. k \in 1 .. Len(s) + 1 /\ Len(s) + 1 = Posts
      BY <1>0, <1>2
    <2>2. /\ u \in Seq(Thisc) /\ Len(u) = Len(s) + 1
          /\ \A m \in 1 .. Len(s) + 1 : u[m] = IF m < k THEN s[m]
                                               ELSE IF m = k THEN e ELSE s[m - 1]
      <3>1. e \in Thisc
        OBVIOUS
      <3>2. s \in Seq(Thisc)
        BY <1>2
      <3>3. k \in 1 .. Len(s) + 1
        BY <2>1
      <3>4. /\ InsertAt(s, k, e) \in Seq(Thisc) /\ Len(InsertAt(s, k, e)) = Len(s) + 1
            /\ \A m \in 1 .. Len(s) + 1 :
                 InsertAt(s, k, e)[m] = IF m < k THEN s[m]
                                        ELSE IF m = k THEN e ELSE s[m - 1]
        BY ONLY <3>1, <3>2, <3>3, InsertIs
      <3> QED
        BY <3>4, <1>b
    <2> QED
      BY <2>1, <2>2
  <1>4. u \in Tables
    BY <1>3, TableIsSeq
  <1>5. \A m \in 1 .. Posts : u[m] = Moved(t, i, k, e)[m]
    <2> TAKE m \in 1 .. Posts
    <2>1. CASE m < k
      BY <1>0, <1>2, <1>3, <2>1 DEF Moved
    <2>2. CASE m = k
      BY <1>3, <2>2 DEF Moved
    <2>3. CASE m > k
      <3>1. m - 1 \in 1 .. Posts - 1 /\ u[m] = s[m - 1] /\ (m - 1) + 1 = m
            /\ (m - 1 < i <=> m <= i)
        BY <1>0, <1>3, <2>3
      <3>2. s[m - 1] = IF m <= i THEN t[m - 1] ELSE t[m]
        BY <1>2, <3>1
      <3> QED
        BY <1>0, <2>3, <3>1, <3>2 DEF Moved
    <2> QED
      BY <1>0, <2>1, <2>2, <2>3
  <1>6. u = Moved(t, i, k, e)
    <2>1. u = [m \in 1 .. Posts |-> u[m]]
      BY <1>4 DEF Tables
    <2>2. Moved(t, i, k, e) = [m \in 1 .. Posts |-> Moved(t, i, k, e)[m]]
      BY DEF Moved
    <2> QED
      BY <1>5, <2>1, <2>2
  <1> QED
    BY <1>4, <1>6, <1>a, <1>b

\* Replacing an entry by itself where it is.
LEMMA MovedNowhere ==
  ASSUME NEW t \in Tables, NEW i \in 1 .. Posts
  PROVE  Moved(t, i, i, t[i]) = t
  <1>1. \A m \in 1 .. Posts : Moved(t, i, i, t[i])[m] = t[m]
    BY HiscAssumption DEF Moved
  <1>2. Moved(t, i, i, t[i]) = [m \in 1 .. Posts |-> Moved(t, i, i, t[i])[m]]
    BY DEF Moved
  <1>3. t = [m \in 1 .. Posts |-> t[m]]
    BY DEF Tables
  <1> QED
    BY <1>1, <1>2, <1>3

-----------------------------------------------------------------------------
(***************************************************************************)
(* sort_hisc_table.  Its inner loop is a function stop of the index, of    *)
(* which one exists, whatever entries the loop passes.                     *)
(***************************************************************************)
LEMMA StopExists ==
  ASSUME NEW P
  PROVE  \E f : f = [j \in 1 .. Posts |-> IF j > 1 /\ j \in P THEN f[j - 1] ELSE j]
  <1> DEFINE Upto(n, f) == \A j \in 1 .. n : f[j] = IF j > 1 /\ j \in P THEN f[j - 1] ELSE j
             S == {n \in Nat : \E f \in [1 .. n -> Nat] : Upto(n, f)}
  <1>1. 0 \in S
    <2>1. [j \in 1 .. 0 |-> 0] \in [1 .. 0 -> Nat] /\ Upto(0, [j \in 1 .. 0 |-> 0])
      OBVIOUS
    <2> QED
      BY <2>1
  <1>2. ASSUME NEW n \in S PROVE n + 1 \in S
    <2>1. PICK f \in [1 .. n -> Nat] : Upto(n, f)
      OBVIOUS
    <2> DEFINE e == IF n + 1 > 1 /\ n + 1 \in P THEN f[n] ELSE n + 1
               g == [j \in 1 .. n + 1 |-> IF j = n + 1 THEN e ELSE f[j]]
    <2>2. n \in Nat /\ e \in Nat
      OBVIOUS
    <2>3. g \in [1 .. n + 1 -> Nat] /\ g[n + 1] = e /\ \A j \in 1 .. n : g[j] = f[j]
      BY <2>2
    <2>4. ASSUME NEW j \in 1 .. n + 1
          PROVE  g[j] = IF j > 1 /\ j \in P THEN g[j - 1] ELSE j
      <3> HIDE DEF g
      <3>1. CASE j = n + 1
        <4>1. j > 1 => j - 1 \in 1 .. n /\ j - 1 = n
          BY <2>2, <3>1
        <4> QED
          BY <2>3, <3>1, <4>1
      <3>2. CASE j # n + 1
        <4>1. j \in 1 .. n /\ (j > 1 => j - 1 \in 1 .. n)
          BY <2>2, <3>2
        <4> QED
          BY <2>1, <2>3, <4>1
      <3> QED
        BY <3>1, <3>2
    <2>5. Upto(n + 1, g)
      BY <2>4
    <2> HIDE DEF g, Upto
    <2> QED
      BY <2>2, <2>3, <2>5
  <1>3. S = Nat
    <2> HIDE DEF S
    <2>1. S \in SUBSET Nat
      BY DEF S
    <2> QED
      BY <1>1, <1>2, <2>1, SetInduction
  <1>4. PICK f \in [1 .. Posts -> Nat] : Upto(Posts, f)
    <2>1. Posts \in S
      <3> HIDE DEF S
      <3> QED
        BY <1>3, HiscAssumption
    <2> QED
      BY <2>1
  <1>5. f = [j \in 1 .. Posts |-> IF j > 1 /\ j \in P THEN f[j - 1] ELSE j]
    <2>1. f = [j \in 1 .. Posts |-> f[j]]
      OBVIOUS
    <2> QED
      BY <1>4, <2>1
  <1> QED
    BY <1>5

\* Entry i goes to the place k when all between are smaller and the one
\* before k is not.
LEMMA SortInIs ==
  ASSUME NEW t \in Tables, NEW i \in 1 .. Posts, NEW k \in 1 .. i,
         \A j \in k + 1 .. i : t[j - 1].value < t[i].value,
         k > 1 => ~(t[k - 1].value < t[i].value)
  PROVE  SortIn(t, i) = Moved(t, i, k, t[i])
  <1> DEFINE P == {j \in 1 .. Posts : t[j - 1].value < t[i].value}
             Loop(f) == [j \in 1 .. Posts |->
                           IF j > 1 /\ ShiftsPast(t, j, t[i]) THEN f[j - 1] ELSE j]
             stop == CHOOSE f : f = Loop(f)
  <1>0. i \in Nat /\ k \in Nat /\ 1 <= k /\ k <= i /\ i <= Posts /\ Posts \in Nat
    BY HiscAssumption
  <1>1. stop = Loop(stop)
    <2>1. PICK f : f = [j \in 1 .. Posts |-> IF j > 1 /\ j \in P THEN f[j - 1] ELSE j]
      BY StopExists
    <2>2. Loop(f) = [j \in 1 .. Posts |-> IF j > 1 /\ j \in P THEN f[j - 1] ELSE j]
      BY DEF ShiftsPast
    <2>3. f = Loop(f)
      BY <2>1, <2>2
    <2> HIDE DEF Loop
    <2> QED
      BY <2>3
  <1> HIDE DEF stop
  <1>2. \A j \in 1 .. Posts :
          stop[j] = IF j > 1 /\ t[j - 1].value < t[i].value THEN stop[j - 1] ELSE j
    BY <1>1 DEF ShiftsPast
  <1> HIDE DEF Loop, P
  <1> DEFINE S == {n \in Nat : k + n <= i => stop[k + n] = k}
  <1>3. 0 \in S
    BY <1>0, <1>2
  <1>4. ASSUME NEW n \in S PROVE n + 1 \in S
    <2>1. n \in Nat /\ (k + n <= i => stop[k + n] = k)
      OBVIOUS
    <2>2. k + (n + 1) <= i => stop[k + (n + 1)] = k
      <3> SUFFICES ASSUME k + (n + 1) <= i PROVE stop[k + (n + 1)] = k
        OBVIOUS
      <3> DEFINE j == k + (n + 1)
      <3>1. j \in k + 1 .. i /\ j \in 1 .. Posts /\ j > 1 /\ j - 1 = k + n /\ k + n <= i
        BY <1>0, <2>1
      <3> HIDE DEF j
      <3>2. stop[j] = stop[j - 1]
        BY <1>2, <3>1
      <3> QED
        BY <2>1, <3>1, <3>2 DEF j
    <2> QED
      BY <2>1, <2>2
  <1>5. S = Nat
    <2> HIDE DEF S
    <2>1. S \in SUBSET Nat
      BY DEF S
    <2> QED
      BY <1>3, <1>4, <2>1, SetInduction
  <1>6. stop[i] = k
    <2>1. i - k \in Nat /\ k + (i - k) = i
      BY <1>0
    <2>2. i - k \in S
      <3> HIDE DEF S
      <3> QED
        BY <1>5, <2>1
    <2> QED
      BY <1>0, <2>1, <2>2
  <1>7. SortIn(t, i) = InsertAt(RemoveAt(t, i), stop[i], t[i])
    BY DEF SortIn, stop, Loop
  <1>8. t[i] \in Thisc
    BY DEF Tables
  <1> QED
    BY <1>6, <1>7, <1>8, MoveIs

\* An entry that is not larger than the one before stays.
LEMMA SortInStays ==
  ASSUME NEW t \in Tables, NEW i \in 1 .. Posts,
         i > 1 => t[i - 1].value >= t[i].value
  PROVE  SortIn(t, i) = t
  <1>0. \A m \in 1 .. Posts : t[m].value \in Nat
    BY HiscAssumption DEF Tables, Thisc, Values
  <1>1. i > 1 => ~(t[i - 1].value < t[i].value)
    <2> SUFFICES ASSUME i > 1 PROVE ~(t[i - 1].value < t[i].value)
      OBVIOUS
    <2>1. i - 1 \in 1 .. Posts
      BY HiscAssumption
    <2> QED
      BY <1>0, <2>1
  <1>2. i \in 1 .. i /\ \A j \in i + 1 .. i : FALSE
    BY HiscAssumption
  <1>3. SortIn(t, i) = Moved(t, i, i, t[i])
    BY <1>1, <1>2, SortInIs
  <1> QED
    BY <1>3, MovedNowhere

\* The outer loop, in a table of which one entry is out of place, and above
\* it only.
LEMMA SortIs ==
  ASSUME NEW u \in Tables, NEW s \in 1 .. Posts, NEW k \in 1 .. s,
         \A j \in 2 .. s - 1 : u[j - 1].value >= u[j].value,
         \A j \in k + 1 .. s : u[j - 1].value < u[s].value,
         k > 1 => ~(u[k - 1].value < u[s].value),
         Sorted(Moved(u, s, k, u[s]))
  PROVE  sort_hisc_table(u) = Moved(u, s, k, u[s])
  <1> DEFINE w == Moved(u, s, k, u[s])
             Loop(f) == [i \in 1 .. Posts |-> IF i = 1 THEN u ELSE SortIn(f[i - 1], i)]
             sorted == CHOOSE f : f = Loop(f)
             g == [i \in 1 .. Posts |-> IF i < s THEN u ELSE w]
  <1>0. /\ s \in Nat /\ k \in Nat /\ 1 <= k /\ k <= s /\ s <= Posts /\ Posts \in Nat
        /\ Posts >= 1
    BY HiscAssumption
  <1>1. w \in Tables
    <2>1. u[s] \in Thisc
      BY DEF Tables
    <2> QED
      BY <2>1, MoveIs
  <1>2. s = 1 => w = u
    BY <1>0, MovedNowhere
  <1>3. SortIn(u, s) = w
    BY SortInIs
  <1>4. ASSUME NEW i \in 2 .. Posts, i < s PROVE SortIn(u, i) = u
    <2>1. i \in 2 .. s - 1 /\ i \in 1 .. Posts
      BY <1>0, <1>4
    <2> QED
      BY <2>1, SortInStays
  <1>5. ASSUME NEW i \in 2 .. Posts, i > s PROVE SortIn(w, i) = w
    <2>1. i \in 1 .. Posts /\ i - 1 \in 1 .. Posts /\ i - 1 < i
      BY <1>0
    <2> HIDE DEF w
    <2>2. w[i - 1].value >= w[i].value
      BY <2>1 DEF Sorted, w
    <2> QED
      BY <1>1, <2>1, <2>2, SortInStays
  <1> HIDE DEF w
  <1>6. g = Loop(g)
    <2>1. ASSUME NEW i \in 1 .. Posts
          PROVE  g[i] = IF i = 1 THEN u ELSE SortIn(g[i - 1], i)
      <3>1. CASE i = 1
        BY <1>0, <1>2, <3>1
      <3>2. CASE i # 1
        <4>1. i \in 2 .. Posts /\ i - 1 \in 1 .. Posts
          BY <1>0, <3>2
        <4>2. g[i] = (IF i < s THEN u ELSE w) /\ g[i - 1] = (IF i - 1 < s THEN u ELSE w)
          BY <4>1
        <4> HIDE DEF g
        <4>3. CASE i < s
          BY <1>0, <1>4, <3>2, <4>1, <4>2, <4>3
        <4>4. CASE i = s
          BY <1>0, <1>3, <3>2, <4>1, <4>2, <4>4
        <4>5. CASE i > s
          <5>1. g[i] = w /\ g[i - 1] = w
            BY <1>0, <4>2, <4>1, <4>5
          <5> QED
            BY <1>5, <3>2, <4>1, <4>5, <5>1
        <4> QED
          BY <1>0, <4>3, <4>4, <4>5
      <3> QED
        BY <3>1, <3>2
    <2>2. g = [i \in 1 .. Posts |-> g[i]]
      OBVIOUS
    <2> HIDE DEF g
    <2> QED
      BY <2>1, <2>2
  <1>7. sorted = Loop(sorted)
    <2> HIDE DEF Loop, g
    <2> QED
      BY <1>6
  <1>8. sort_hisc_table(u) = sorted[Posts]
    BY DEF sort_hisc_table
  <1> HIDE DEF sorted
  <1> DEFINE S == {n \in Nat : n + 1 <= Posts => sorted[n + 1] = g[n + 1]}
  <1>9. 0 \in S
    <2>1. 1 \in 1 .. Posts
      BY <1>0
    <2>2. sorted[1] = u /\ g[1] = u
      <3>1. sorted[1] = Loop(sorted)[1] /\ g[1] = Loop(g)[1]
        BY <1>6, <1>7
      <3> HIDE DEF g
      <3> QED
        BY <2>1, <3>1
    <2> QED
      BY <2>2
  <1>10. ASSUME NEW n \in S PROVE n + 1 \in S
    <2>1. n \in Nat /\ (n + 1 <= Posts => sorted[n + 1] = g[n + 1])
      OBVIOUS
    <2>2. (n + 1) + 1 <= Posts => sorted[(n + 1) + 1] = g[(n + 1) + 1]
      <3> SUFFICES ASSUME (n + 1) + 1 <= Posts
                   PROVE  sorted[(n + 1) + 1] = g[(n + 1) + 1]
        OBVIOUS
      <3> DEFINE i == (n + 1) + 1
      <3>1. i \in 1 .. Posts /\ i # 1 /\ i - 1 = n + 1 /\ n + 1 <= Posts
        BY <1>0, <2>1
      <3> HIDE DEF i, g
      <3>2. sorted[i] = Loop(sorted)[i] /\ g[i] = Loop(g)[i]
        BY <1>6, <1>7
      <3>3. sorted[i] = SortIn(sorted[i - 1], i) /\ g[i] = SortIn(g[i - 1], i)
        BY <3>1, <3>2
      <3> QED
        BY <2>1, <3>1, <3>3 DEF i
    <2> QED
      BY <2>1, <2>2
  <1>11. S = Nat
    <2> HIDE DEF S
    <2>1. S \in SUBSET Nat
      BY DEF S
    <2> QED
      BY <1>9, <1>10, <2>1, SetInduction
  <1>12. sorted[Posts] = g[Posts]
    <2>1. Posts - 1 \in Nat /\ (Posts - 1) + 1 = Posts
      BY <1>0
    <2>2. Posts - 1 \in S
      <3> HIDE DEF S
      <3> QED
        BY <1>11, <2>1
    <2> HIDE DEF g
    <2> QED
      BY <1>0, <2>1, <2>2
  <1>13. g[Posts] = w
    BY <1>0
  <1> QED
    BY <1>8, <1>12, <1>13 DEF w
-----------------------------------------------------------------------------
(***************************************************************************)
(* enter_hisc_table's loop: in a sorted table whose last entry is below    *)
(* the ceiling it ends at the first of the entries equal to the last.      *)
(***************************************************************************)
First(t, i) == Min({m \in 1 .. Posts : t[m].value = t[i].value})

LEMMA FirstIs ==
  ASSUME NEW t, NEW i \in 1 .. Posts
  PROVE  /\ First(t, i) \in 1 .. i /\ First(t, i) \in 1 .. Posts
         /\ t[First(t, i)].value = t[i].value
         /\ \A m \in 1 .. Posts : t[m].value = t[i].value => First(t, i) <= m
  <1> DEFINE T == {m \in 1 .. Posts : t[m].value = t[i].value}
  <1>1. T \in SUBSET Nat /\ T # {}
    BY HiscAssumption
  <1>2. Min(T) \in T /\ \A m \in T : Min(T) <= m
    <2> HIDE DEF T
    <2> QED
      BY <1>1, MinIsLeast
  <1>3. First(t, i) = Min(T)
    BY DEF First
  <1> QED
    BY <1>2, <1>3, HiscAssumption

LEMMA ValuesAreNat ==
  ASSUME NEW t \in Tables
  PROVE  \A m \in 1 .. Posts : t[m] \in Thisc /\ t[m].value \in Nat /\ t[m].value \in Values
  BY HiscAssumption DEF Tables, Thisc, Values

\* What the loop has found after entry i.
Found(t, i) ==
  IF i = 0 \/ ~(t[i].value < Ceiling)
  THEN [pos |-> 0, threshold |-> Ceiling]
  ELSE [pos |-> First(t, i), threshold |-> t[i].value]

\* One round of the loop.
Round(t, i, found) ==
  IF t[i].value < found.threshold
  THEN [pos |-> i, threshold |-> t[i].value]
  ELSE found

LEMMA FoundStep ==
  ASSUME NEW t \in Tables, Sorted(t), NEW i \in 1 .. Posts
  PROVE  Found(t, i) = Round(t, i, Found(t, i - 1))
  <1>0. /\ Posts \in Nat /\ Ceiling \in Nat /\ i \in Nat /\ i >= 1 /\ i <= Posts
        /\ \A m \in 1 .. Posts : t[m].value \in Nat
    BY HiscAssumption, ValuesAreNat
  <1>1. First(t, i) \in 1 .. i /\ t[First(t, i)].value = t[i].value
        /\ First(t, i) \in 1 .. Posts
    BY FirstIs
  <1>2. CASE i = 1 \/ ~(t[i - 1].value < Ceiling)
    <2>1. Found(t, i - 1) = [pos |-> 0, threshold |-> Ceiling]
      BY <1>0, <1>2 DEF Found
    <2>2. ASSUME t[i].value < Ceiling PROVE First(t, i) = i
      <3>1. CASE i = 1
        BY <1>1, <3>1
      <3>2. CASE i # 1
        <4>1. i - 1 \in 1 .. Posts
          BY <1>0, <3>2
        <4>2. ASSUME First(t, i) # i PROVE FALSE
          <5>1. First(t, i) = i - 1 \/ First(t, i) < i - 1
            BY <1>0, <1>1, <4>2
          <5>2. t[First(t, i)].value >= t[i - 1].value
            BY <1>0, <1>1, <4>1, <5>1 DEF Sorted
          <5> QED
            BY <1>0, <1>1, <1>2, <2>2, <3>2, <4>1, <5>2
        <4> QED
          BY <4>2
      <3> QED
        BY <3>1, <3>2
    <2> QED
      BY <1>0, <2>1, <2>2 DEF Found, Round
  <1>3. CASE i # 1 /\ t[i - 1].value < Ceiling
    <2>1. i - 1 \in 1 .. Posts /\ i - 1 < i /\ i - 1 # 0
      BY <1>0, <1>3
    <2>2. t[i - 1].value >= t[i].value
      BY <2>1 DEF Sorted
    <2>3. Found(t, i - 1) = [pos |-> First(t, i - 1), threshold |-> t[i - 1].value]
      BY <1>3, <2>1 DEF Found
    <2>4. t[i].value < Ceiling
      BY <1>0, <1>3, <2>1, <2>2
    <2>5. Found(t, i) = [pos |-> First(t, i), threshold |-> t[i].value]
      BY <1>0, <2>4 DEF Found
    <2>6. CASE t[i].value = t[i - 1].value
      <3>1. First(t, i) = First(t, i - 1)
        BY <2>6 DEF First
      <3>2. ~(t[i].value < t[i - 1].value)
        BY <1>0, <2>1, <2>6
      <3> QED
        BY <2>3, <2>5, <2>6, <3>1, <3>2 DEF Round
    <2>7. CASE t[i].value # t[i - 1].value
      <3>1. t[i].value < t[i - 1].value
        BY <1>0, <2>1, <2>2, <2>7
      <3>2. First(t, i) = i
        <4>1. ASSUME First(t, i) # i PROVE FALSE
          <5>1. First(t, i) = i - 1 \/ First(t, i) < i - 1
            BY <1>0, <1>1, <4>1
          <5>2. t[First(t, i)].value >= t[i - 1].value
            BY <1>0, <1>1, <2>1, <5>1 DEF Sorted
          <5> QED
            BY <1>0, <1>1, <2>1, <3>1, <5>2
        <4> QED
          BY <4>1
      <3> QED
        BY <2>3, <2>5, <3>1, <3>2 DEF Round
    <2> QED
      BY <2>6, <2>7
  <1> QED
    BY <1>2, <1>3

LEMMA SlotIs ==
  ASSUME NEW t \in Tables, Sorted(t)
  PROVE  Slot(t) = Found(t, Posts).pos
  <1> DEFINE Loop(f) == [i \in 0 .. Posts |->
                           IF i = 0 THEN [pos |-> 0, threshold |-> Ceiling]
                           ELSE IF t[i].value < f[i - 1].threshold
                                THEN [pos |-> i, threshold |-> t[i].value]
                                ELSE f[i - 1]]
             scan == CHOOSE f : f = Loop(f)
             g == [i \in 0 .. Posts |-> Found(t, i)]
  <1>0. Posts \in Nat /\ Posts >= 1 /\ Posts \in 0 .. Posts
    BY HiscAssumption
  <1>1. g = Loop(g)
    <2>1. ASSUME NEW i \in 0 .. Posts
          PROVE  Found(t, i) = IF i = 0 THEN [pos |-> 0, threshold |-> Ceiling]
                               ELSE Round(t, i, g[i - 1])
      <3>1. CASE i = 0
        BY <3>1 DEF Found
      <3>2. CASE i # 0
        <4>1. i \in 1 .. Posts /\ i - 1 \in 0 .. Posts
          BY <1>0, <3>2
        <4>2. g[i - 1] = Found(t, i - 1)
          BY <4>1
        <4> HIDE DEF g
        <4> QED
          BY <3>2, <4>1, <4>2, FoundStep
      <3> QED
        BY <3>1, <3>2
    <2>2. Loop(g) = [i \in 0 .. Posts |-> IF i = 0 THEN [pos |-> 0, threshold |-> Ceiling]
                                          ELSE Round(t, i, g[i - 1])]
      BY DEF Round
    <2> HIDE DEF Loop
    <2>3. g = [i \in 0 .. Posts |-> Found(t, i)]
      OBVIOUS
    <2> HIDE DEF g
    <2> QED
      BY <2>1, <2>2, <2>3
  <1>2. scan = Loop(scan)
    <2> HIDE DEF Loop, g
    <2> QED
      BY <1>1
  <1>3. Slot(t) = scan[Posts].pos
    BY DEF Slot
  <1> HIDE DEF scan
  <1>4. /\ scan[0] = [pos |-> 0, threshold |-> Ceiling]
        /\ \A i \in 1 .. Posts : scan[i] = Round(t, i, scan[i - 1])
    <2>1. \A i \in 0 .. Posts : scan[i] = Loop(scan)[i]
      <3> HIDE DEF Loop
      <3> QED
        BY <1>2
    <2>2. 0 \in 0 .. Posts
      BY <1>0
    <2>3. scan[0] = [pos |-> 0, threshold |-> Ceiling]
      BY <2>1, <2>2
    <2>4. ASSUME NEW i \in 1 .. Posts PROVE scan[i] = Round(t, i, scan[i - 1])
      <3>1. i \in 0 .. Posts /\ i # 0
        BY <1>0
      <3> QED
        BY <2>1, <3>1 DEF Round
    <2> QED
      BY <2>3, <2>4
  <1> HIDE DEF Loop, g
  <1> DEFINE S == {n \in Nat : n <= Posts => scan[n] = Found(t, n)}
  <1>5. 0 \in S
    BY <1>4 DEF Found
  <1>6. ASSUME NEW n \in S PROVE n + 1 \in S
    <2>1. n \in Nat /\ (n <= Posts => scan[n] = Found(t, n))
      OBVIOUS
    <2>2. n + 1 <= Posts => scan[n + 1] = Found(t, n + 1)
      <3> SUFFICES ASSUME n + 1 <= Posts PROVE scan[n + 1] = Found(t, n + 1)
        OBVIOUS
      <3>1. n + 1 \in 1 .. Posts /\ (n + 1) - 1 = n /\ n <= Posts
        BY <1>0, <2>1
      <3>2. scan[n + 1] = Round(t, n + 1, scan[(n + 1) - 1])
        BY <1>4, <3>1
      <3>3. Found(t, n + 1) = Round(t, n + 1, Found(t, (n + 1) - 1))
        BY <3>1, FoundStep
      <3> QED
        BY <2>1, <3>1, <3>2, <3>3
    <2> QED
      BY <2>1, <2>2
  <1>7. S = Nat
    <2> HIDE DEF S
    <2>1. S \in SUBSET Nat
      BY DEF S
    <2> QED
      BY <1>5, <1>6, <2>1, SetInduction
  <1>8. Posts \in S
    <2> HIDE DEF S
    <2> QED
      BY <1>0, <1>7
  <1> QED
    BY <1>0, <1>3, <1>8
-----------------------------------------------------------------------------
(* The whole operation.                                                    *)

\* The place a result is shown: behind everything at least as good.
LEMMA QualifyIs ==
  ASSUME NEW t \in Tables, Sorted(t), NEW v \in Values
  PROVE  LET q == qualify_hisc_table(t, v)
         IN  /\ q \in 0 .. Posts
             /\ q > 0 => /\ \A m \in 1 .. q - 1 : t[m].value >= v
                         /\ \A m \in q .. Posts : t[m].value < v
  <1> DEFINE T == {m \in 1 .. Posts : t[m].value < v}
             q == qualify_hisc_table(t, v)
  <1>0. Posts \in Nat /\ v \in Nat /\ \A m \in 1 .. Posts : t[m].value \in Nat
    BY HiscAssumption, ValuesAreNat DEF Values
  <1>1. q = IF v = 0 \/ T = {} THEN 0 ELSE Min(T)
    BY DEF qualify_hisc_table, Beats
  <1>2. CASE v = 0 \/ T = {}
    BY <1>0, <1>1, <1>2
  <1>3. CASE ~(v = 0 \/ T = {})
    <2>1. T \in SUBSET Nat /\ T # {}
      BY <1>0, <1>3
    <2>2. q \in T /\ \A m \in T : q <= m
      <3> HIDE DEF T
      <3> QED
        BY <1>1, <1>3, <2>1, MinIsLeast
    <2> HIDE DEF q
    <2>3. q \in 1 .. Posts /\ t[q].value < v
      BY <2>2
    <2>4. ASSUME NEW m \in 1 .. q - 1 PROVE t[m].value >= v
      <3>1. m \in 1 .. Posts /\ m < q
        BY <1>0, <2>3
      <3>2. m \notin T
        BY <1>0, <2>2, <2>3, <3>1
      <3> QED
        BY <1>0, <3>1, <3>2
    <2>5. ASSUME NEW m \in q .. Posts PROVE t[m].value < v
      <3>1. m \in 1 .. Posts /\ (m = q \/ q < m)
        BY <1>0, <2>3
      <3>2. t[q].value >= t[m].value
        BY <1>0, <2>3, <3>1 DEF Sorted
      <3> QED
        BY <1>0, <2>3, <3>1, <3>2
    <2>6. q \in 0 .. Posts
      BY <2>3
    <2> QED
      BY <2>4, <2>5, <2>6 DEF q
  <1> QED
    BY <1>2, <1>3

\* A sorted table that takes no more is left alone.
LEMMA FullIs ==
  ASSUME NEW t \in Tables, Sorted(t), ~(t[Posts].value < Ceiling), NEW v, NEW n
  PROVE  sort_hisc_table(enter_hisc_table(t, v, n)) = t
  <1>0. Posts \in Nat /\ Posts >= 1 /\ \A m \in 1 .. Posts : t[m].value \in Nat
    BY HiscAssumption, ValuesAreNat
  <1>1. Slot(t) = 0
    BY SlotIs DEF Found
  <1>2. enter_hisc_table(t, v, n) = t
    BY <1>1 DEF enter_hisc_table
  <1>3. Moved(t, 1, 1, t[1]) = t /\ 1 \in 1 .. Posts /\ 1 \in 1 .. 1
    BY <1>0, MovedNowhere
  <1>4. sort_hisc_table(t) = t
    <2>1. \A j \in 2 .. 1 - 1 : t[j - 1].value >= t[j].value
      OBVIOUS
    <2>2. \A j \in 1 + 1 .. 1 : t[j - 1].value < t[1].value
      OBVIOUS
    <2>3. sort_hisc_table(t) = Moved(t, 1, 1, t[1])
      BY <1>3, <2>1, <2>2, SortIs
    <2> QED
      BY <1>3, <2>3
  <1> QED
    BY <1>2, <1>4

\* Otherwise the first of its lowest entries makes room, and the result is
\* where it was announced.
LEMMA EnterIs ==
  ASSUME NEW t \in Tables, Sorted(t), t[Posts].value < Ceiling,
         NEW v \in Values, NEW n \in Names, qualify_hisc_table(t, v) > 0
  PROVE  LET q == qualify_hisc_table(t, v)
             s == First(t, Posts)
             w == Moved(t, s, q, [name |-> n, value |-> v])
         IN  /\ s \in 1 .. Posts /\ q \in 1 .. s
             /\ sort_hisc_table(enter_hisc_table(t, v, n)) = w
             /\ w \in Tables /\ Sorted(w)
  <1> DEFINE q == qualify_hisc_table(t, v)
             s == First(t, Posts)
             e == [name |-> n, value |-> v]
             u == [t EXCEPT ![s] = e]
             w == Moved(t, s, q, e)
  <1>0. /\ Posts \in Nat /\ Posts >= 1 /\ Posts \in 1 .. Posts /\ v \in Nat
        /\ \A m \in 1 .. Posts : t[m].value \in Nat
    BY HiscAssumption, ValuesAreNat DEF Values
  <1>1. /\ s \in 1 .. Posts /\ s <= Posts /\ t[s].value = t[Posts].value
    BY <1>0, FirstIs
  <1>2. /\ q \in 0 .. Posts /\ q > 0
        /\ \A m \in 1 .. q - 1 : t[m].value >= v
        /\ \A m \in q .. Posts : t[m].value < v
    BY QualifyIs
  <1>e. e \in Thisc /\ e.value = v
    BY DEF Thisc
  <1>3. Slot(t) = s /\ s # 0
    <2>1. Slot(t) = s
      BY <1>0, SlotIs DEF Found
    <2> QED
      BY <1>1, <2>1
  <1>4. enter_hisc_table(t, v, n) = u
    BY <1>3 DEF enter_hisc_table
  <1> HIDE DEF q, s, e
  <1>5. q \in 1 .. s /\ q \in 1 .. Posts
    <2>1. ASSUME s < q PROVE FALSE
      <3>1. s \in 1 .. q - 1 /\ Posts \in q .. Posts
        BY <1>0, <1>1, <1>2, <2>1
      <3> QED
        BY <1>0, <1>1, <1>2, <3>1
    <2> QED
      BY <1>1, <1>2, <2>1
  <1>6. u \in Tables /\ u[s] = e /\ \A m \in 1 .. Posts : m # s => u[m] = t[m]
    BY <1>1, <1>e DEF Tables
  <1> HIDE DEF u
  <1>7. Moved(u, s, q, e) = w
    <2>1. ASSUME NEW m \in 1 .. Posts
          PROVE  Moved(u, s, q, e)[m] = w[m]
      <3>1. CASE m < q
        <4>1. m # s
          BY <1>0, <1>1, <1>5, <3>1
        <4> QED
          BY <1>6, <3>1, <4>1 DEF Moved
      <3>2. CASE m > q /\ m <= s
        <4>1. m - 1 \in 1 .. Posts /\ m - 1 # s
          BY <1>0, <1>1, <1>5, <3>2
        <4>2. ~(m < q) /\ m # q
          BY <1>5, <3>2
        <4> QED
          BY <1>6, <3>2, <4>1, <4>2 DEF Moved
      <3>3. CASE m > q /\ ~(m <= s)
        <4>1. m # s
          BY <1>0, <1>1, <3>3
        <4>2. ~(m < q) /\ m # q
          BY <1>5, <3>3
        <4> QED
          BY <1>6, <3>3, <4>1, <4>2 DEF Moved
      <3>4. CASE m = q
        BY <3>4 DEF Moved
      <3> QED
        BY <1>5, <3>1, <3>2, <3>3, <3>4
    <2>2. /\ w = [m \in 1 .. Posts |-> w[m]]
          /\ Moved(u, s, q, e) = [m \in 1 .. Posts |-> Moved(u, s, q, e)[m]]
      BY DEF Moved
    <2> HIDE DEF w
    <2> QED
      BY <2>1, <2>2
  <1>8. w \in Tables
    BY <1>1, <1>5, <1>e, MoveIs
  <1>9. /\ \A m \in 1 .. q - 1 : w[m] = t[m]
        /\ w[q] = e
        /\ \A m \in q + 1 .. s : w[m] = t[m - 1]
        /\ \A m \in s + 1 .. Posts : w[m] = t[m]
    <2>1. \A m \in 1 .. q - 1 : w[m] = t[m]
      BY <1>0, <1>5 DEF Moved
    <2>2. w[q] = e
      BY <1>0, <1>5 DEF Moved
    <2>3. \A m \in q + 1 .. s : w[m] = t[m - 1]
      BY <1>0, <1>1, <1>5 DEF Moved
    <2>4. \A m \in s + 1 .. Posts : w[m] = t[m]
      BY <1>0, <1>1, <1>5 DEF Moved
    <2> QED
      BY <2>1, <2>2, <2>3, <2>4
  <1> HIDE DEF w
  <1>10. ASSUME NEW i \in 1 .. Posts, NEW j \in 1 .. Posts, i < j
         PROVE  w[i].value >= w[j].value
    <2>t. /\ q \in Nat /\ q >= 1 /\ q <= s /\ s \in Nat /\ s <= Posts
          /\ i \in Nat /\ j \in Nat /\ 1 <= i /\ j <= Posts /\ Posts \in Nat
      BY <1>0, <1>1, <1>5
    <2>1. CASE i < q
      <3>1. w[i] = t[i] /\ t[i].value >= v /\ i \in 1 .. q - 1
        BY <1>2, <1>9, <2>t, <2>1
      <3>2. CASE j < q
        <4>1. w[j] = t[j]
          BY <1>9, <2>t, <3>2
        <4> QED
          BY <1>10, <3>1, <4>1 DEF Sorted
      <3>3. CASE j = q
        BY <1>9, <1>e, <3>1, <3>3
      <3>4. CASE j > q /\ j <= s
        <4>1. j \in q + 1 .. s /\ j - 1 \in 1 .. Posts /\ i < j - 1
          BY <2>t, <2>1, <3>4
        <4>2. w[j] = t[j - 1] /\ t[i].value >= t[j - 1].value
          BY <1>9, <4>1 DEF Sorted
        <4> QED
          BY <3>1, <4>2
      <3>5. CASE j > s
        <4>1. w[j] = t[j]
          BY <1>9, <2>t, <3>5
        <4> QED
          BY <1>10, <3>1, <4>1 DEF Sorted
      <3> QED
        BY <2>t, <3>2, <3>3, <3>4, <3>5
    <2>2. CASE i = q
      <3>1. w[i].value = v
        BY <1>9, <1>e, <2>2
      <3>2. CASE j <= s
        <4>1. j \in q + 1 .. s /\ j - 1 \in q .. Posts /\ j - 1 \in 1 .. Posts
          BY <1>10, <2>t, <2>2, <3>2
        <4>2. w[j] = t[j - 1] /\ t[j - 1].value < v
          BY <1>2, <1>9, <4>1
        <4> QED
          BY <1>0, <3>1, <4>1, <4>2
      <3>3. CASE j > s
        <4>1. w[j] = t[j] /\ j \in q .. Posts
          BY <1>9, <2>t, <3>3
        <4>2. t[j].value < v
          BY <1>2, <4>1
        <4> QED
          BY <1>0, <3>1, <4>1, <4>2
      <3> QED
        BY <2>t, <3>2, <3>3
    <2>3. CASE i > q /\ i <= s
      <3>1. w[i] = t[i - 1] /\ i - 1 \in 1 .. Posts
        BY <1>9, <2>t, <2>3
      <3>2. CASE j <= s
        <4>1. j \in q + 1 .. s /\ j - 1 \in 1 .. Posts /\ i - 1 < j - 1
          BY <1>10, <2>t, <2>3, <3>2
        <4>2. w[j] = t[j - 1]
          BY <1>9, <4>1
        <4> QED
          BY <3>1, <4>1, <4>2 DEF Sorted
      <3>3. CASE j > s
        <4>1. w[j] = t[j] /\ i - 1 < j
          BY <1>9, <1>10, <2>t, <3>3
        <4> QED
          BY <3>1, <4>1 DEF Sorted
      <3> QED
        BY <2>t, <3>2, <3>3
    <2>4. CASE i > s
      <3>1. w[i] = t[i] /\ w[j] = t[j]
        BY <1>9, <1>10, <2>t, <2>4
      <3> QED
        BY <1>10, <3>1 DEF Sorted
    <2> QED
      BY <2>t, <2>1, <2>2, <2>3, <2>4
  <1>11. Sorted(w)
    BY <1>10 DEF Sorted
  <1>12. sort_hisc_table(u) = w
    <2>1. \A j \in 2 .. s - 1 : u[j - 1].value >= u[j].value
      <3> TAKE j \in 2 .. s - 1
      <3>1. j \in 1 .. Posts /\ j - 1 \in 1 .. Posts /\ j # s /\ j - 1 # s /\ j - 1 < j
        BY <1>0, <1>1
      <3> QED
        BY <1>6, <3>1 DEF Sorted
    <2>2. \A j \in q + 1 .. s : u[j - 1].value < u[s].value
      <3> TAKE j \in q + 1 .. s
      <3>1. j - 1 \in q .. Posts /\ j - 1 \in 1 .. Posts /\ j - 1 # s
        BY <1>0, <1>1, <1>5
      <3> QED
        BY <1>2, <1>6, <1>e, <3>1
    <2>3. q > 1 => ~(u[q - 1].value < u[s].value)
      <3> SUFFICES ASSUME q > 1 PROVE ~(u[q - 1].value < u[s].value)
        OBVIOUS
      <3>1. q - 1 \in 1 .. q - 1 /\ q - 1 \in 1 .. Posts /\ q - 1 # s
        BY <1>0, <1>1, <1>5
      <3>2. u[q - 1] = t[q - 1] /\ t[q - 1].value >= v
        BY <1>2, <1>6, <3>1
      <3> QED
        BY <1>0, <1>6, <1>e, <3>1, <3>2
    <2>4. Sorted(Moved(u, s, q, u[s]))
      BY <1>6, <1>7, <1>11
    <2>5. sort_hisc_table(u) = Moved(u, s, q, u[s])
      BY <1>1, <1>5, <1>6, <2>1, <2>2, <2>3, <2>4, SortIs
    <2> QED
      BY <1>6, <1>7, <2>5
  <1> QED
    BY <1>1, <1>4, <1>5, <1>8, <1>11, <1>12 DEF q, s, e, w
-----------------------------------------------------------------------------
(***************************************************************************)
(* The table between games.  While a result is on screen the table does    *)
(* not change, so that the place it was shown is still the one it takes.   *)
(***************************************************************************)
Shown ==
  /\ value = -1 => qualify = 0
  /\ value # -1 => qualify = qualify_hisc_table(posts, value)

TableInv == TypeOK /\ Sorted(posts) /\ Shown

LEMMA InitTable == Init => TableInv
  BY HiscAssumption DEF Init, TableInv, TypeOK, Shown

\* What a commit of a place does to the table.
LEMMA CommitIs ==
  ASSUME TableInv, Enter, qualify > 0, posts[Posts].value < Ceiling
  PROVE  \E n \in Names :
           LET s == First(posts, Posts)
               w == Moved(posts, s, qualify, [name |-> n, value |-> value])
           IN  /\ s \in 1 .. Posts /\ qualify \in 1 .. s
               /\ posts' = w /\ w \in Tables /\ Sorted(w)
  <1>1. PICK n \in Names :
          posts' = IF qualify > 0 THEN sort_hisc_table(enter_hisc_table(posts, value, n))
                   ELSE posts
    BY DEF Enter
  <1>2. /\ posts \in Tables /\ Sorted(posts) /\ value \in Values
        /\ qualify = qualify_hisc_table(posts, value)
    BY DEF Enter, TableInv, TypeOK, Shown, Tables
  <1> DEFINE s == First(posts, Posts)
             w == Moved(posts, s, qualify, [name |-> n, value |-> value])
  <1>3. /\ s \in 1 .. Posts /\ qualify \in 1 .. s
        /\ sort_hisc_table(enter_hisc_table(posts, value, n)) = w
        /\ w \in Tables /\ Sorted(w)
    BY <1>2, EnterIs
  <1> QED
    BY <1>1, <1>3

\* What every other commit does: nothing.
LEMMA NoCommit ==
  ASSUME TableInv, Enter, ~(qualify > 0 /\ posts[Posts].value < Ceiling)
  PROVE  posts' = posts
  <1>1. PICK n \in Names :
          posts' = IF qualify > 0 THEN sort_hisc_table(enter_hisc_table(posts, value, n))
                   ELSE posts
    BY DEF Enter
  <1>2. posts \in Tables /\ Sorted(posts)
    BY DEF TableInv, TypeOK, Tables
  <1> QED
    BY <1>1, <1>2, FullIs

LEMMA NextTable == TableInv /\ [Next]_vars => TableInv'
  <1> SUFFICES ASSUME TableInv, [Next]_vars PROVE TableInv'
    OBVIOUS
  <1>0. posts \in Tables /\ Sorted(posts)
    BY DEF TableInv, TypeOK, Tables
  <1>1. CASE Qualify
    <2>1. /\ value' \in Values /\ posts' = posts
          /\ qualify' = qualify_hisc_table(posts, value')
      BY <1>1 DEF Qualify
    <2>2. qualify' \in 0 .. Posts
      BY <1>0, <2>1, QualifyIs
    <2>3. value' # -1
      BY <2>1, HiscAssumption DEF Values
    <2> QED
      BY <2>1, <2>2, <2>3 DEF TableInv, TypeOK, Shown
  <1>2. CASE Enter
    <2>1. value' = -1 /\ qualify' = 0 /\ 0 \in 0 .. Posts
      BY <1>2, HiscAssumption DEF Enter
    <2>2. posts' \in Tables /\ Sorted(posts')
      BY <1>0, <1>2, CommitIs, NoCommit
    <2> QED
      BY <2>1, <2>2 DEF TableInv, TypeOK, Shown, Tables
  <1>3. CASE Abandon
    BY <1>3, HiscAssumption DEF Abandon, TableInv, TypeOK, Shown
  <1>4. CASE UNCHANGED vars
    BY <1>4 DEF vars, TableInv, TypeOK, Shown
  <1> QED
    BY <1>1, <1>2, <1>3, <1>4 DEF Next

LEMMA TableHolds == Spec => []TableInv
  <1> QED
    BY InitTable, NextTable, PTL DEF Spec

\* The table keeps its size and its entries their types.
THEOREM TypeCorrect == Spec => []TypeOK
  <1>1. TableInv => TypeOK
    BY DEF TableInv
  <1> QED
    BY <1>1, TableHolds, PTL

\* The table is in order whenever anybody can look at it, for every number
\* of entries: sort_hisc_table sorts what enter_hisc_table leaves.
THEOREM StaysSorted == Spec => []AlwaysSorted
  <1>1. TableInv => AlwaysSorted
    BY DEF TableInv, AlwaysSorted
  <1> QED
    BY <1>1, TableHolds, PTL

\* The place qualify_hisc_table announces is the place the result has after
\* enter_hisc_table and the sort, and the entries above it are untouched.
THEOREM PlaceIsKept == Spec => PlaceKept
  <1>1. ASSUME TableInv, Enter, qualify > 0,
               \E i \in 1 .. Posts : posts[i].value < Ceiling
        PROVE  /\ posts'[qualify].value = value
               /\ \A i \in 1 .. qualify - 1 : posts'[i] = posts[i]
    <2>0. /\ Posts \in Nat /\ Posts >= 1 /\ Ceiling \in Nat
          /\ Sorted(posts) /\ \A m \in 1 .. Posts : posts[m].value \in Nat
      BY <1>1, HiscAssumption, ValuesAreNat DEF TableInv, TypeOK, Tables
    <2>1. posts[Posts].value < Ceiling
      <3>1. PICK i \in 1 .. Posts : posts[i].value < Ceiling
        BY <1>1
      <3>2. posts[Posts].value <= posts[i].value
        <4>1. i = Posts \/ i < Posts
          BY <2>0
        <4>2. Posts \in 1 .. Posts
          BY <2>0
        <4> QED
          BY <2>0, <4>1, <4>2 DEF Sorted
      <3>3. Posts \in 1 .. Posts
        BY <2>0
      <3> QED
        BY <2>0, <3>1, <3>2, <3>3
    <2>2. PICK n \in Names, s \in 1 .. Posts :
            /\ qualify \in 1 .. s
            /\ posts' = Moved(posts, s, qualify, [name |-> n, value |-> value])
      BY <1>1, <2>1, CommitIs
    <2>3. qualify \in 1 .. Posts
      BY <2>0, <2>2
    <2>4. posts'[qualify] = [name |-> n, value |-> value]
      BY <2>2, <2>3 DEF Moved
    <2>5. \A i \in 1 .. qualify - 1 : posts'[i] = posts[i]
      <3> TAKE i \in 1 .. qualify - 1
      <3>1. i \in 1 .. Posts /\ i < qualify
        BY <2>0, <2>3
      <3> QED
        BY <2>2, <3>1 DEF Moved
    <2> QED
      BY <2>4, <2>5
  <1>2. TableInv /\ [Next]_vars
        => [Enter /\ qualify > 0 /\ (\E i \in 1 .. Posts : posts[i].value < Ceiling)
              => /\ posts'[qualify].value = value
                 /\ \A i \in 1 .. qualify - 1 : posts'[i] = posts[i]]_vars
    BY <1>1
  <1> QED
    BY <1>2, TableHolds, PTL DEF Spec, PlaceKept

-----------------------------------------------------------------------------
(* The refinement.                                                         *)

\* Entering e as promised, in terms of the list operations used here.
LEMMA PromisedPlace ==
  ASSUME posts \in Tables, NEW q \in 1 .. Posts, NEW e \in Thisc,
         \A m \in 1 .. q - 1 : posts[m].value >= e.value,
         \A m \in q .. Posts : posts[m].value < e.value
  PROVE  Promise!Rank(e) = q
  <1> DEFINE T == {i \in 1 .. Posts : posts[i].value >= e.value}
  <1>0. /\ Posts \in Nat /\ q \in Nat /\ q >= 1 /\ q <= Posts
        /\ e.value \in Nat /\ \A m \in 1 .. Posts : posts[m].value \in Nat
    BY HiscAssumption, ValuesAreNat DEF Thisc, Values
  <1>1. T = 1 .. q - 1
    <2>1. ASSUME NEW m \in T PROVE m \in 1 .. q - 1
      <3>1. m \notin q .. Posts
        BY <1>0
      <3> QED
        BY <1>0, <3>1
    <2>2. ASSUME NEW m \in 1 .. q - 1 PROVE m \in T
      BY <1>0
    <2> HIDE DEF T
    <2> QED
      BY <2>1, <2>2
  <1>2. Cardinality(T) = q - 1
    <2>1. Cardinality(1 .. q - 1) = IF 1 > q - 1 THEN 0 ELSE (q - 1) - 1 + 1
      BY <1>0, FS_Interval
    <2>2. (IF 1 > q - 1 THEN 0 ELSE (q - 1) - 1 + 1) = q - 1
      BY <1>0
    <2> HIDE DEF T
    <2> QED
      BY <1>1, <2>1, <2>2
  <1>3. Promise!Rank(e) = 1 + Cardinality(T)
    BY DEF Promise!Rank, Promise!Cardinality, Cardinality
  <1> QED
    BY <1>0, <1>2, <1>3

LEMMA PromiseStep == TableInv /\ [Next]_vars => [Promise!Next]_posts
  <1> SUFFICES ASSUME TableInv, [Next]_vars PROVE Promise!Next \/ posts' = posts
    OBVIOUS
  <1>1. CASE ~Enter
    BY <1>1 DEF Next, Qualify, Abandon, vars
  <1>2. CASE Enter /\ ~(qualify > 0 /\ posts[Posts].value < Ceiling)
    BY <1>2, NoCommit
  <1>3. CASE Enter /\ qualify > 0 /\ posts[Posts].value < Ceiling
    <2> DEFINE s == First(posts, Posts)
    <2>1. PICK n \in Names :
            /\ s \in 1 .. Posts /\ qualify \in 1 .. s
            /\ posts' = Moved(posts, s, qualify, [name |-> n, value |-> value])
      BY <1>3, CommitIs
    <2>2. PICK e : e = [name |-> n, value |-> value]
      OBVIOUS
    <2>3. posts \in Tables /\ Sorted(posts) /\ value \in Values
          /\ qualify = qualify_hisc_table(posts, value)
      BY <1>3 DEF Enter, TableInv, TypeOK, Shown, Tables
    <2>4. e \in Thisc /\ e.value = value
      BY <2>2, <2>3 DEF Thisc
    <2>5. qualify \in 1 .. Posts
      BY <2>1, HiscAssumption
    <2>6. Promise!Rank(e) = qualify
      BY <1>3, <2>3, <2>4, <2>5, QualifyIs, PromisedPlace
    <2>7. Promise!Loser = s
      BY DEF Promise!Loser, Promise!Min, First, Min
    <2>8. posts' = InsertAt(RemoveAt(posts, s), qualify, e)
      BY <2>1, <2>2, <2>3, <2>4, MoveIs
    <2>9. Promise!Enter(e)
      <3>1. Promise!InsertAt(Promise!RemoveAt(posts, s), qualify, e)
              = InsertAt(RemoveAt(posts, s), qualify, e)
        BY DEF Promise!InsertAt, Promise!RemoveAt, InsertAt, RemoveAt
      <3>2. Promise!Rank(e) <= Posts
        BY <2>5, <2>6, HiscAssumption
      <3> QED
        BY <2>6, <2>7, <2>8, <3>1, <3>2 DEF Promise!Enter
    <2> QED
      BY <2>4, <2>9 DEF Promise!Next, Promise!Entry, Thisc
  <1> QED
    BY <1>1, <1>2, <1>3

\* Overwriting the entry the loop finds and sorting is what the table
\* promises: the new result goes behind everything at least as good, and the
\* highest of the lowest entries goes.
THEOREM TableImplementsPromise == Spec => ImplementsHighScores
  <1>1. Init => Promise!Init
    BY DEF Init, Sorted, Promise!Init, Promise!Entry, Promise!Descending, Thisc
  <1>2. Spec => Promise!Spec
    BY <1>1, PromiseStep, TableHolds, PTL DEF Spec, Promise!Spec
  <1> QED
    BY <1>2 DEF ImplementsHighScores
=============================================================================
