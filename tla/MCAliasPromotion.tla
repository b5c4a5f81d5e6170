-------------------------- MODULE MCAliasPromotion --------------------------
(***************************************************************************)
(* Instances of AliasPromotion for TLC: a baseline that passes alone, a    *)
(* challenger that beats it and one that only passes against the baseline. *)
(* Two splits are in use, and the strong one has evidence for one of them  *)
(* only.  While the commands run in one slot, one after the other, there   *)
(* are three versions; when they overlap, the baseline and the weak one.   *)
(***************************************************************************)
EXTENDS AliasPromotion, TLC

CONSTANTS base, strong, weak, job1, job2

TwoVersions   == {base, weak}
ThreeVersions == {base, strong, weak}

\* The gate is not an order: it is a margin against each champion.
GateOutcomes ==
  {<<base, None>>, <<strong, None>>, <<strong, base>>, <<strong, weak>>,
   <<weak, base>>, <<base, weak>>} \cap (Versions \X VersionOrNone)

TwoSplits == {Versions, Versions \ {strong}}

OneJob  == {job1}
TwoJobs == {job1, job2}

\* The bound on overlapping commands.
VersionsFit == Alone \/ registered \subseteq TwoVersions

MCNext ==
  \E j \in Jobs :
    \/ Begins(j) /\ VersionsFit'
    \/ Continues(j)

MCSpec == Init /\ [][MCNext]_vars

JobSymmetry == Permutations(TwoJobs)
=============================================================================
