-------------------------------- MODULE Lists --------------------------------
(***************************************************************************)
(* What the models compute of the lists of the code, by folds and choices  *)
(* that the proofs can follow: sum, a comprehension with a condition,      *)
(* sorted.                                                                 *)
(***************************************************************************)
EXTENDS Integers, FiniteSets, SequencesExt

\* sum(numbers)
Total(numbers) == FoldLeft(LAMBDA total, n : total + n, 0, numbers)

\* [x for x in list if x in wanted]
Kept(list, wanted) ==
  FoldLeft(LAMBDA kept, x : IF x \in wanted THEN Append(kept, x) ELSE kept, <<>>, list)

\* sorted(set), where `before` holds the pairs <<x, y>> with x before y.
Arranged(set, before) ==
  CHOOSE list \in [1..Cardinality(set) -> set] :
    \A i, j \in 1..Cardinality(set) : i < j => <<list[i], list[j]>> \in before

\* The order of the numbers in a set.
Ascending(set) == {pair \in set \X set : pair[1] < pair[2]}
=============================================================================
