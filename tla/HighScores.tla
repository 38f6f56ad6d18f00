----------------------------- MODULE HighScores -----------------------------
(***************************************************************************)
(* What a high-score table of Icy Tower promises: it holds the best few    *)
(* results ever entered, best first, and an equal later result goes below  *)
(* an earlier one.  A new result pushes out one of the lowest; of several  *)
(* it is the highest-placed.  HiscTable implements this by overwriting an  *)
(* entry and sorting.                                                      *)
(***************************************************************************)
EXTENDS Naturals, SequencesExt

CONSTANTS
  Posts,     \* entries of the table
  Values,    \* results
  Names

VARIABLE best

Entry == [name : Names, value : Values]

Descending == \A i, j \in 1 .. Posts : i < j => best[i].value >= best[j].value

Init == best \in [1 .. Posts -> Entry] /\ Descending

\* Behind everything at least as good.
Rank(e) == 1 + Cardinality({i \in 1 .. Posts : best[i].value >= e.value})

Loser == Min({i \in 1 .. Posts : best[i].value = best[Posts].value})

Enter(e) ==
  /\ Rank(e) <= Posts
  /\ best' = InsertAt(RemoveAt(best, Loser), Rank(e), e)

Next == \E e \in Entry : Enter(e)

Spec == Init /\ [][Next]_best
=============================================================================
