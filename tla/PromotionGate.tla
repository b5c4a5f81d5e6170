--------------------------- MODULE PromotionGate ---------------------------
(***************************************************************************)
(* The champion / challenger gate: absolute checks of the challenger, and, *)
(* when there is a champion, paired bootstrap intervals of the difference, *)
(* score stability and the data snapshot, and a floor for every slice.     *)
(* Both models are scored on the same rows, so a model is here the scores  *)
(* it gives the rows of the holdout.                                       *)
(***************************************************************************)
EXTENDS ScoreMetrics

\* [minAuc, maxBrier, maxEce, minN, aucMargin, brierMargin, sliceAuc, sliceMinN,
\* sameSnapshot]; the thresholds are fractions.
CONSTANT Policies

\* Mutant: the check fails when the value is below the bound.
NotBelow(x, bound) == x = NaN \/ x[1] * bound[2] >= bound[1] * x[2]

\* Comparisons of floats: every comparison with NaN is false.
AtLeast(x, bound) == x # NaN /\ x[1] * bound[2] >= bound[1] * x[2]
AtMost(x, bound)  == x # NaN /\ x[1] * bound[2] <= bound[1] * x[2]

Minus(x, y) ==
  IF x = NaN \/ y = NaN THEN NaN ELSE <<x[1] * y[2] - y[1] * x[2], x[2] * y[2]>>
Negated(x) == <<-x[1], x[2]>>

\* A sample of the holdout: the rows drawn, with the labels y and scores p.
Sample(rows, y, p) == [k \in DOMAIN rows |-> [y |-> y[rows[k]], p |-> p[rows[k]]]]

\* The rows drawn with replacement, the same for both models.
Resamples(rows) == {[k \in DOMAIN rows |-> rows[d[k]]] : d \in [DOMAIN rows -> DOMAIN rows]}

\* The end points of the percentile interval are order statistics of the
\* differences that are finite; which ones depends on the draws.
PairedDeltas(metric, rows, y, champion, challenger) ==
  LET Value(s) == IF metric = "auc" THEN RocAuc(s) ELSE Brier(s)
      deltas == {Minus(Value(Sample(d, y, challenger)), Value(Sample(d, y, champion))) :
                   d \in Resamples(rows)}
  IN  IF deltas \subseteq {NaN} THEN {NaN} ELSE deltas \ {NaN}

\* Whether the PSI of the scores is within the policy: certain for equal scores
\* and for a champion that scores all rows alike, else a matter of the values.
Stable(rows, champion, challenger) ==
  IF \A k \in DOMAIN rows : champion[rows[k]] = challenger[rows[k]] THEN {TRUE}
  ELSE IF \A j, k \in DOMAIN rows : champion[rows[j]] = champion[rows[k]] THEN {FALSE}
  ELSE BOOLEAN

AbsoluteChecks(policy, s) ==
  /\ Size(s) >= policy.minN
  /\ AtLeast(RocAuc(s), policy.minAuc)
  /\ AtMost(Brier(s), policy.maxBrier)
  /\ AtMost(ExpectedCalibrationError(s), policy.maxEce)

\* A slice that is too small, or of one class, has no AUC and is passed over.
SliceChecks(policy, rows, group, s) ==
  \A g \in {group[rows[k]] : k \in DOMAIN rows} :
    LET slice == [k \in {i \in DOMAIN rows : group[rows[i]] = g} |-> s[k]]
    IN  Size(slice) >= policy.sliceMinN /\ RocAuc(slice) # NaN
          => AtLeast(RocAuc(slice), policy.sliceAuc)

\* champion is NaN when there is none; the decisions the gate may come to.
EvaluateGate(policy, rows, y, group, challenger, champion, sameSnapshot) ==
  LET s == Sample(rows, y, challenger)
      firm == AbsoluteChecks(policy, s) /\ SliceChecks(policy, rows, group, s)
      relative ==
        {AtLeast(lower, Negated(policy.aucMargin)) /\ AtMost(upper, policy.brierMargin)
           /\ stable /\ (policy.sameSnapshot => sameSnapshot) :
             lower \in PairedDeltas("auc", rows, y, champion, challenger),
             upper \in PairedDeltas("brier", rows, y, champion, challenger),
             stable \in Stable(rows, champion, challenger)}
  IN  {IF firm /\ passed THEN "PROMOTE" ELSE "HOLD" :
         passed \in IF champion = NaN THEN {TRUE} ELSE relative}
=============================================================================
