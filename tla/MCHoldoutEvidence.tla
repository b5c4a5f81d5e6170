------------------------- MODULE MCHoldoutEvidence -------------------------
(***************************************************************************)
(* Five applications.  In the second snapshot the label of one of them is  *)
(* corrected.  One split holds out the same rows, of both classes, in both *)
(* snapshots, the other different rows, of one class.  Three kinds of      *)
(* model: one that ranks well, one that scores all alike, one that ranks   *)
(* the wrong way round.                                                    *)
(***************************************************************************)
EXTENDS HoldoutEvidence, TLC

Ids == 1 .. 5
First     == [i \in Ids |-> IF i \in {1, 4} THEN 1 ELSE 0]
Corrected == [First EXCEPT ![5] = 1]

SomeSnapshots == {First, Corrected}
TheTestIds(d, c) ==
  IF c = 1 THEN {1, 2, 3} ELSE IF d = First THEN {2, 3} ELSE {4, 5}
Ranking == [i \in Ids |-> IF First[i] = 1 THEN 4 ELSE IF i = 3 THEN 2 ELSE 0]
SomeModels(rows) == {Ranking, [i \in Ids |-> 2], [i \in Ids |-> 4 - Ranking[i]]}
TheGroup == [i \in Ids |-> IF i = 3 THEN "b" ELSE "a"]

Policy(minAuc, same) ==
  [minAuc |-> minAuc, maxBrier |-> <<1, 2>>, maxEce |-> <<1, 2>>, minN |-> 2,
   aucMargin |-> <<1, 100>>, brierMargin |-> <<1, 10>>, sliceAuc |-> <<1, 2>>, sliceMinN |-> 2,
   sameSnapshot |-> same]
SomePolicies == {Policy(<<1, 2>>, FALSE), Policy(<<3, 4>>, TRUE)}
TheCutoffs == {1, 3, 5, 7}

\* Runs differ in their names only.
RunSymmetry == Permutations(Runs)
=============================================================================
