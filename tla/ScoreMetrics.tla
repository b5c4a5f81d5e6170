---------------------------- MODULE ScoreMetrics ----------------------------
(***************************************************************************)
(* The metrics that mlreg and mlwatch compute of labelled scores, in exact *)
(* arithmetic.  A sample is a function from the numbers of its rows in the *)
(* file to rows [y, p], where p stands for the score p / Grid; a metric is *)
(* a fraction <<numerator, denominator>> with a positive denominator, or   *)
(* NaN.  The two packages hold the same rank, Brier and calibration code   *)
(* twice; it is defined once here.                                         *)
(***************************************************************************)
EXTENDS Integers, FiniteSets, FiniteSetsExt, Functions

CONSTANTS
  Grid,      \* scores are 0 .. Grid
  Bins,      \* bins of the calibration table
  Deciles,   \* groups of the lift table
  Cutoffs,   \* grid of the threshold search, in units of 1 / (2 * Grid)
  NaN        \* the value of an undefined metric

ASSUME MetricAssumption ==
  /\ {Grid, Bins, Deciles} \subseteq Nat \ {0}
  /\ Cutoffs \subseteq 1 .. 2 * Grid - 1 /\ Cutoffs # {}
  /\ NaN \notin Int \X Int

Size(s) == Cardinality(DOMAIN s)

\* What _check admits.
IsSample(s) ==
  IsFiniteSet(DOMAIN s) /\ \A k \in DOMAIN s : s[k].y \in {0, 1} /\ s[k].p \in 0 .. Grid
Distance(a, b) == IF a < b THEN b - a ELSE a - b
Smaller(a, b) == IF a < b THEN a ELSE b

Bad(s)  == {k \in DOMAIN s : s[k].y = 1}
Good(s) == {k \in DOMAIN s : s[k].y = 0}
OneClass(s) == Bad(s) = {} \/ Good(s) = {}

-----------------------------------------------------------------------------
(* Rank statistics.                                                         *)

\* Mutant: ties are ranked in the order of the file.
RankInFileOrder(s, k) ==
  2 * (Cardinality({i \in DOMAIN s : s[i].p < s[k].p})
         + Cardinality({i \in DOMAIN s : s[i].p = s[k].p /\ i <= k}))

\* Twice the average rank of the rows of the tie k is in: the first of them is
\* preceded by the smaller scores, the last by all that are not larger.
AverageRank(s, k) ==
  Cardinality({i \in DOMAIN s : s[i].p < s[k].p})
    + Cardinality({i \in DOMAIN s : s[i].p <= s[k].p}) + 1

RocAuc(s) ==
  LET n == Cardinality(Bad(s))
      m == Cardinality(Good(s))
  IN  IF OneClass(s) THEN NaN
      ELSE <<SumFunction([k \in Bad(s) |-> AverageRank(s, k)]) - n * (n + 1), 2 * n * m>>

\* argsort is stable: the rows of the sorted sample up to and including row k.
UpTo(s, k) ==
  {i \in DOMAIN s : s[i].p < s[k].p \/ (s[i].p = s[k].p /\ i <= k)}

\* The rows at which the two distributions are read.
LastOfTies(s) == {k \in DOMAIN s : \A i \in DOMAIN s : s[i].p = s[k].p => i <= k}

KsStatistic(s) ==
  LET n == Cardinality(Bad(s))
      m == Cardinality(Good(s))
      Gap(k) == Distance(Cardinality(UpTo(s, k) \cap Bad(s)) * m,
                         Cardinality(UpTo(s, k) \cap Good(s)) * n)
  IN  IF OneClass(s) THEN NaN ELSE <<Max({Gap(k) : k \in LastOfTies(s)}), n * m>>

-----------------------------------------------------------------------------
(* Brier score and calibration.                                             *)

Brier(s) ==
  <<SumFunction([k \in DOMAIN s |-> (s[k].p - Grid * s[k].y) * (s[k].p - Grid * s[k].y)]),
    Size(s) * Grid * Grid>>

\* searchsorted on the right of the edges; a score of 1 is clipped into the
\* last bin.
BinOf(p) == Smaller((p * Bins) \div Grid, Bins - 1)

CalibrationTable(s) ==
  [b \in 0 .. Bins - 1 |->
     LET rows == {k \in DOMAIN s : BinOf(s[k].p) = b}
     IN  [n |-> Cardinality(rows),
          pred |-> SumFunction([k \in rows |-> s[k].p]),
          obs |-> SumFunction([k \in rows |-> s[k].y])]]

ExpectedCalibrationError(s) ==
  LET table == CalibrationTable(s)
  IN  <<SumFunction([b \in DOMAIN table |-> Distance(table[b].pred, Grid * table[b].obs)]),
        Size(s) * Grid>>

-----------------------------------------------------------------------------
(* The lift table: numpy's array_split gives the first groups the rows left *)
(* over.                                                                    *)

GroupEnd(n, d) == d * (n \div Deciles) + Smaller(d, n % Deciles)

\* The place of row k when the highest scores come first, ties in file order.
Place(s, k) ==
  Cardinality({i \in DOMAIN s : s[i].p > s[k].p \/ (s[i].p = s[k].p /\ i <= k)})

\* A group is the rows in its places; captured counts the bad rows up to it.
DecileLift(s) ==
  LET End(d) == GroupEnd(Size(s), d)
      Caught(d) == Cardinality({k \in Bad(s) : Place(s, k) <= End(d)})
  IN  [d \in {g \in 1 .. Deciles : End(g) > End(g - 1)} |->
         [n |-> End(d) - End(d - 1),
          bad |-> Cardinality({k \in Bad(s) : End(d - 1) < Place(s, k) /\ Place(s, k) <= End(d)}),
          captured |-> Caught(d)]]

-----------------------------------------------------------------------------
(* Decisions at a cut-off: an applicant is declined at or above it.         *)

Declined(s, t) == {k \in DOMAIN s : 2 * s[k].p >= t}

ConfusionAt(s, t) ==
  [tp |-> Cardinality(Declined(s, t) \cap Bad(s)),
   fp |-> Cardinality(Declined(s, t) \cap Good(s)),
   tn |-> Cardinality(Good(s) \ Declined(s, t)),
   fn |-> Cardinality(Bad(s) \ Declined(s, t))]

\* A missed default costs five, a lost good customer one.
ExpectedCost(s, t) == 5 * ConfusionAt(s, t).fn + ConfusionAt(s, t).fp

OptimalThresholdByCost(s) ==
  Max({t \in Cutoffs : \A u \in Cutoffs : ExpectedCost(s, t) <= ExpectedCost(s, u)})

\* mlreg's summary, and mlwatch's of the labelled rows of a window.
Summarize(s) ==
  [n |-> Size(s), auc |-> RocAuc(s), ks |-> KsStatistic(s), brier |-> Brier(s),
   ece |-> ExpectedCalibrationError(s)]
=============================================================================
