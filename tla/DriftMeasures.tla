---------------------------- MODULE DriftMeasures ----------------------------
(***************************************************************************)
(* What mlwatch measures of the columns of a window against the baseline's *)
(* profile of them: counts on the baseline's bins and categories, quality  *)
(* issues, and the adjustment of the p-values of all features.  A cell is  *)
(* a number, a text, an infinite number or missing; a column is a function *)
(* from the numbers of the rows to their cells.  PSI is reduced to whether *)
(* it is undefined, zero or positive, the p-value of a test is an input.   *)
(***************************************************************************)
EXTENDS ScoreMetrics, Sequences, SequencesExt

CONSTANTS
  Features,      \* the names of the columns
  QuantileBins,  \* n_bins of the numeric profiles
  Rules,         \* the quality rules, as fractions
  PScale         \* p-values are 0 .. PScale, standing for p / PScale

ASSUME MeasureAssumption ==
  /\ IsFiniteSet(Features) /\ {QuantileBins, PScale} \subseteq Nat \ {0}
  /\ \A rule \in DOMAIN Rules : Rules[rule] \in Nat \X (Nat \ {0})
  /\ {"missingIncrease", "unseen", "outOfRange", "typeError"} \subseteq DOMAIN Rules
  /\ NaN \notin Int

Missing     == [is |-> "missing", v |-> 0]
Number(v)   == [is |-> "number", v |-> v]
Infinite    == [is |-> "infinite", v |-> 0]
Text(v)     == [is |-> "text", v |-> v]

\* The rows that hold a value, a finite number, a text.
Present(column) == {k \in DOMAIN column : column[k].is # "missing"}
Finite(column)  == {k \in DOMAIN column : column[k].is = "number"}
Texts(column)   == {k \in DOMAIN column : column[k].is = "text"}

Exceeds(a, n, bound) == a * bound[2] > bound[1] * n

-----------------------------------------------------------------------------
(* The baseline's profile of a column.                                      *)

\* A column is numeric when all that is there is; "inf" is.
InferKind(column) ==
  IF Present(column) # {} /\ Texts(column) = {} THEN "numeric" ELSE "categorical"

\* The value in the n-th place when the values are sorted.
NthSmallest(values, n) ==
  CHOOSE v \in Range(values) :
    /\ Cardinality({k \in DOMAIN values : values[k] < v}) < n
    /\ Cardinality({k \in DOMAIN values : values[k] <= v}) >= n

\* Quantiles i / QuantileBins with linear interpolation, in units of
\* 1 / QuantileBins; equal ones collapse.
QuantileEdges(values) ==
  LET At(i)   == (i * (Size(values) - 1)) \div QuantileBins
      Rest(i) == (i * (Size(values) - 1)) % QuantileBins
      Low(i)  == NthSmallest(values, At(i) + 1)
  IN  {QuantileBins * Low(i)
         + (IF Rest(i) = 0 THEN 0 ELSE Rest(i) * (NthSmallest(values, At(i) + 2) - Low(i))) :
           i \in 1 .. QuantileBins - 1}

\* Mutant: the quantiles are taken for the outer edges, as np.histogram does.
BinsBetweenEdges(values, edges) ==
  [b \in 1 .. Cardinality(edges) - 1 |->
     Cardinality({k \in DOMAIN values :
                    Cardinality({e \in edges : e <= QuantileBins * values[k]}) = b})]

\* searchsorted on the right of the edges: a value on an edge is above it.
BinCounts(values, edges) ==
  [b \in 0 .. Cardinality(edges) |->
     Cardinality({k \in DOMAIN values :
                    Cardinality({e \in edges : e <= QuantileBins * values[k]}) = b})]

Values(column) == [k \in Finite(column) |-> column[k].v]

NumericProfile(column) ==
  LET values == Values(column)
  IN  [kind |-> "numeric", n |-> Size(column), missing |-> Size(column) - Size(values),
       edges |-> QuantileEdges(values),
       bins |-> BinCounts(values, QuantileEdges(values)),
       min |-> Min(Range(values)), max |-> Max(Range(values))]

\* Categories are their text already: that astype(str) makes one category of
\* the number 5 and the text 5, and two of 5 and 5.0, is left out.
CategoryCounts(column, categories) ==
  [c \in categories |-> Cardinality({k \in DOMAIN column : column[k] = c})]

CategoricalProfile(column) ==
  [kind |-> "categorical", n |-> Size(column),
   missing |-> Size(column) - Cardinality(Present(column)),
   bins |-> CategoryCounts(column, {column[k] : k \in Present(column)})]

Profile(column) ==
  IF InferKind(column) = "numeric" THEN NumericProfile(column) ELSE CategoricalProfile(column)

\* A column without a value cannot be profiled: build_baseline raises.
Profilable(column) ==
  IF InferKind(column) = "numeric" THEN Finite(column) # {} ELSE Present(column) # {}

-----------------------------------------------------------------------------
(* Drift of a column.                                                       *)

\* The proportions of the bins are the same; n is what they are proportions of.
Psi(reference, m, current, n) ==
  IF \A b \in DOMAIN reference : reference[b] * n = current[b] * m THEN "zero" ELSE "positive"

NumericDrift(profile, column) ==
  LET values == Values(column)
      bins == BinCounts(values, profile.edges)
  IN  IF Finite(column) = {}
      THEN [psi |-> "nan", usable |-> 0, unseen |-> 0, tested |-> FALSE, bins |-> bins]
      ELSE [psi |-> Psi(profile.bins, SumFunction(profile.bins), bins, Size(values)),
            usable |-> Size(values), unseen |-> 0, tested |-> TRUE, bins |-> bins]

\* The rows with a value that is no category of the baseline.
Unseen(profile, column) == {k \in Present(column) : column[k] \notin DOMAIN profile.bins}

\* Chi-square needs two categories and a value the baseline knows.
CategoricalDrift(profile, column) ==
  LET usable == Cardinality(Present(column))
      bins == CategoryCounts(column, DOMAIN profile.bins)
  IN  IF Present(column) = {}
      THEN [psi |-> "nan", usable |-> 0, unseen |-> 0, tested |-> FALSE, bins |-> bins]
      ELSE [psi |-> Psi(profile.bins, SumFunction(profile.bins), bins, usable),
            usable |-> usable, unseen |-> Cardinality(Unseen(profile, column)),
            tested |-> Cardinality(DOMAIN bins) >= 2 /\ SumFunction(bins) > 0, bins |-> bins]

FeatureDrift(profile, column) ==
  IF profile.kind = "numeric" THEN NumericDrift(profile, column) ELSE CategoricalDrift(profile, column)

-----------------------------------------------------------------------------
(* Benjamini-Hochberg: the p-values of the features that have one, in       *)
(* order; the adjusted value of the k-th smallest is the least p * m / j    *)
(* from there on, at most 1.  Fractions.                                    *)

Tested(p) == {f \in DOMAIN p : p[f] # NaN}
Ordered(p) ==
  CHOOSE t \in SetToSeqs(Tested(p)) : \A i, j \in DOMAIN t : i <= j => p[t[i]] <= p[t[j]]

\* Mutant: the values are not made monotone.
UnaccumulatedBH(p, f) ==
  LET t == Ordered(p)
      k == CHOOSE i \in DOMAIN t : t[i] = f
  IN  <<Smaller(p[f] * Len(t), k * PScale), k * PScale>>

BenjaminiHochberg(p, f) ==
  LET t == Ordered(p)
      k == CHOOSE i \in DOMAIN t : t[i] = f
      Ranked(j) == <<Smaller(p[t[j]] * Len(t), j * PScale), j * PScale>>
  IN  CHOOSE x \in {Ranked(j) : j \in k .. Len(t)} :
        \A j \in k .. Len(t) : x[1] * Ranked(j)[2] <= Ranked(j)[1] * x[2]

-----------------------------------------------------------------------------
(* Quality of a column: the kinds of issue it raises.  A column without     *)
(* rows is of a feature that no record of the window has.                   *)

\* Mutant: infinite values are left out of the range check.
FiniteOutOfRange(profile, column) ==
  LET outside == {k \in Finite(column) : column[k].v < profile.min \/ column[k].v > profile.max}
  IN  Finite(column) # {}
      /\ Exceeds(Cardinality(outside), Cardinality(Finite(column)), Rules.outOfRange)

OutOfRange(profile, column) ==
  LET values == {k \in DOMAIN column : column[k].is \in {"number", "infinite"}}
      outside == {k \in values : \/ column[k].is = "infinite"
                                 \/ column[k].v < profile.min \/ column[k].v > profile.max}
  IN  values # {} /\ Exceeds(Cardinality(outside), Cardinality(values), Rules.outOfRange)

\* The shares of missing values are compared over the common denominator.
MissingRate(profile, column) ==
  Exceeds((Size(column) - Cardinality(Present(column))) * profile.n - profile.missing * Size(column),
          Size(column) * profile.n, Rules.missingIncrease)

TypeError(column) ==
  Exceeds(Cardinality(Texts(column)), Cardinality(Present(column)), Rules.typeError)

UnseenCategory(profile, column) ==
  Exceeds(Cardinality(Unseen(profile, column)), Cardinality(Present(column)), Rules.unseen)

\* A column of missing cells alone exceeds no share of the values there are.
QualityIssues(profile, column) ==
  IF DOMAIN column = {} THEN {"missing_column"}
  ELSE {issue \in {"missing_rate", "type_error", "out_of_range", "unseen_category"} :
          \/ issue = "missing_rate" /\ MissingRate(profile, column)
          \/ /\ profile.kind = "numeric"
             /\ \/ issue = "type_error" /\ TypeError(column)
                \/ issue = "out_of_range" /\ OutOfRange(profile, column)
          \/ /\ profile.kind = "categorical"
             /\ issue = "unseen_category" /\ UnseenCategory(profile, column)}
=============================================================================
