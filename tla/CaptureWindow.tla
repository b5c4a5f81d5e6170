---------------------------- MODULE CaptureWindow ----------------------------
(***************************************************************************)
(* From the capture and label files to the measures of a window: mlwatch   *)
(* baseline profiles a file once; labels keep arriving late and corrected; *)
(* mlwatch run takes the records of [start, end), the labels known as of a *)
(* date, and measures drift, quality and performance.  MonitorLoop is what *)
(* happens to the verdict.  Times are small integers.                      *)
(***************************************************************************)
EXTENDS DriftMeasures

CONSTANTS
  Files,      \* capture files: sequences of [id, ts, score, cells]
  BaselineFiles, \* <<captures, labels>>: what mlwatch baseline may be given
  Labels,     \* label records [id, y, ts]; ts None when the record has none
  Windows,    \* <<start, end>>, None for an open bound
  AsOf,       \* dates for --as-of, or None
  PValues(_), \* p-values the tests of a frame may have, for each feature
  Threshold,  \* decision threshold, in units of 1 / (2 * Grid)
  MinLabels,  \* min_labels of the policy
  None,
  MaxLabels   \* bound: records of the label file

\* What the schema admits for a record of a capture file.
Kinds == {"number", "text", "infinite", "missing"}
Admitted(r) ==
  /\ r.score \in 0 .. Grid
  /\ DOMAIN r.cells \subseteq Features
  /\ \A f \in DOMAIN r.cells : r.cells[f].is \in Kinds

ASSUME WindowAssumption ==
  /\ MinLabels \in Nat \ {0, 1} /\ MaxLabels \in Nat
  /\ Windows \subseteq (Nat \cup {None}) \X (Nat \cup {None})
  /\ "*" \notin Features
  /\ \A file \in Files \cup {b[1] : b \in BaselineFiles} :
       /\ IsFiniteSet(DOMAIN file) /\ DOMAIN file \subseteq Nat
       /\ \A k \in DOMAIN file : Admitted(file[k])
  /\ \A l \in Labels : l.y \in {0, 1}

VARIABLES
  baseline,   \* the profile, or None when baseline raised
  captured,   \* the capture file
  labels,     \* the label file
  report      \* the last report, or None

vars == <<baseline, captured, labels, report>>

-----------------------------------------------------------------------------
(* Reading.                                                                 *)

\* A frame is the rows of a file that are looked at, by their numbers.
Rows(file, rows) == [k \in rows |-> file[k]]

SelectWindow(file, start, end) ==
  Rows(file, {k \in DOMAIN file : /\ start # None => file[k].ts >= start
                                  /\ end # None => file[k].ts < end})

ASSUME TestAssumption ==
  \A file \in Files, w \in Windows :
    PValues(SelectWindow(file, w[1], w[2])) \subseteq [Features -> 0 .. PScale]

\* The columns of a frame: a record without the feature leaves its cell
\* missing, a feature no record has is no column.
Column(frame, f) ==
  [k \in {i \in DOMAIN frame : \E j \in DOMAIN frame : f \in DOMAIN frame[j].cells} |->
     IF f \in DOMAIN frame[k].cells THEN frame[k].cells[f] ELSE Missing]

\* Mutant: the first record of a request is kept, so corrections are lost.
KeepFirst(file) ==
  Rows(file, {k \in DOMAIN file : \A i \in DOMAIN file : i < k => file[i].id # file[k].id})

\* drop_duplicates(keep="last").
LabelsToFrame(file) ==
  Rows(file, {k \in DOMAIN file : \A i \in DOMAIN file : i > k => file[i].id # file[k].id})

KnownAsOf(frame, date) ==
  Rows(frame, {k \in DOMAIN frame : date = None \/ frame[k].ts = None \/ frame[k].ts <= date})

\* The left join: the labelled rows, as a sample.
JoinLabels(frame, known) ==
  LET LabelsOf(r) == {k \in DOMAIN known : known[k].id = r.id}
      Label(r) == known[CHOOSE k \in LabelsOf(r) : TRUE].y
  IN  [k \in {i \in DOMAIN frame : LabelsOf(frame[i]) # {}} |->
         [y |-> Label(frame[k]), p |-> frame[k].score]]

-----------------------------------------------------------------------------
(* Profiling and measuring.                                                 *)

ScoreCounts(frame) ==
  [b \in 0 .. Bins - 1 |-> Cardinality({k \in DOMAIN frame : BinOf(frame[k].score) = b})]
DeclineRate(frame) ==
  <<Cardinality({k \in DOMAIN frame : 2 * frame[k].score >= Threshold}), Size(frame)>>

\* build_baseline: raises on an empty frame and on a column without values.
\* The performance is what two labels make of it, NaN for a single class.
BuildBaseline(frame, file) ==
  LET sample == JoinLabels(frame, LabelsToFrame(file))
      columns == {f \in Features : DOMAIN Column(frame, f) # {}}
  IN  IF DOMAIN frame = {} \/ \E f \in columns : ~Profilable(Column(frame, f)) THEN None
      ELSE [profile |-> [f \in columns |-> Profile(Column(frame, f))],
            scores |-> ScoreCounts(frame), decline |-> DeclineRate(frame),
            performance |-> IF Size(sample) < 2 THEN None ELSE Summarize(sample)]

ScoreDrift(frame) ==
  IF DOMAIN frame = {} THEN [psi |-> "nan", n |-> 0, change |-> NaN]
  ELSE [psi |-> Psi(baseline.scores, SumFunction(baseline.scores), ScoreCounts(frame), Size(frame)),
        n |-> Size(frame),
        change |-> <<DeclineRate(frame)[1] * baseline.decline[2]
                       - baseline.decline[1] * DeclineRate(frame)[2],
                     DeclineRate(frame)[2] * baseline.decline[2]>>]

Change(a, b) ==
  IF a = NaN \/ b = NaN THEN NaN ELSE <<a[1] * b[2] - b[1] * a[2], a[2] * b[2]>>

\* Not evaluated below the minimum of labels or on a single class.
PerformanceCheck(frame, known) ==
  LET sample == JoinLabels(frame, known)
      metrics == Summarize(sample)
      none == [scored |-> Size(frame), sample |-> sample, metrics |-> None, aucDrop |-> None]
  IN  IF Size(sample) < MinLabels \/ OneClass(sample) THEN none
      ELSE [none EXCEPT !.metrics = metrics,
                        !.aucDrop = IF baseline.performance = None THEN None
                                    ELSE Change(baseline.performance.auc, metrics.auc)]

\* The features without a test, or with a test that could not be done, have no
\* p-value.
Drifts(frame, p) ==
  LET drift == [f \in DOMAIN baseline.profile |->
                  FeatureDrift(baseline.profile[f], Column(frame, f))]
  IN  [f \in DOMAIN drift |->
         [drift |-> drift[f], p |-> IF drift[f].tested THEN p[f] ELSE NaN]]

\* "*" stands for the window as a whole; an empty one is looked at no further.
QualityChecks(frame) ==
  LET repeated == Size(frame) - Cardinality({frame[k].id : k \in DOMAIN frame})
      Whole == IF DOMAIN frame = {} THEN {"row_count"}
               ELSE IF Exceeds(repeated, Size(frame), Rules.duplicates) THEN {"duplicate_ids"}
               ELSE {}
  IN  [f \in {"*"} \cup DOMAIN baseline.profile |->
         IF f = "*" THEN Whole
         ELSE IF DOMAIN frame = {} THEN {}
         ELSE QualityIssues(baseline.profile[f], Column(frame, f))]

\* run_window: all of a window's measures, p are the p-values of its tests.
Report(window, date, p) ==
  LET frame == SelectWindow(captured, window[1], window[2])
      drifts == Drifts(frame, p)
      tests == [f \in DOMAIN drifts |-> drifts[f].p]
  IN  [window |-> window, asOf |-> date, rows |-> frame, tests |-> tests,
       adjusted |-> [f \in Tested(tests) |-> BenjaminiHochberg(tests, f)],
       drifts |-> [f \in DOMAIN drifts |-> drifts[f].drift],
       quality |-> QualityChecks(frame),
       score |-> ScoreDrift(frame),
       performance |-> PerformanceCheck(frame, KnownAsOf(LabelsToFrame(labels), date))]

-----------------------------------------------------------------------------
Init ==
  /\ \E b \in BaselineFiles : baseline = BuildBaseline(b[1], b[2])
  /\ captured \in Files
  /\ labels = <<>>
  /\ report = None

Observe(l) ==
  /\ Len(labels) < MaxLabels
  /\ \E k \in DOMAIN captured : captured[k].id = l.id
  /\ labels' = Append(labels, l)
  /\ report' = None
  /\ UNCHANGED <<baseline, captured>>

RunWindow(window, date) ==
  /\ baseline # None /\ report = None
  /\ \E p \in PValues(SelectWindow(captured, window[1], window[2])) :
       report' = Report(window, date, p)
  /\ UNCHANGED <<baseline, captured, labels>>

Next ==
  \/ \E l \in Labels : Observe(l)
  \/ \E window \in Windows, date \in AsOf : RunWindow(window, date)

Spec == Init /\ [][Next]_vars

-----------------------------------------------------------------------------
(* Properties.                                                              *)

Reported == report # None
Sampled == report.performance.sample

\* The metrics by their definitions: the AUC counts ordered pairs of a bad and a
\* good row, a tie half; KS is the widest gap of the two distributions over all
\* scores; no cut-off of the grid is cheaper than the one chosen, and none above
\* it is as cheap; the calibration bins and the lift groups count every row and
\* every bad row once (mlreg and mlwatch metrics.py).
MetricsMeetDefinitions ==
  Reported /\ ~OneClass(Sampled) =>
    LET s == Sampled
        n == Cardinality(Bad(s))
        m == Cardinality(Good(s))
        pairs == Bad(s) \X Good(s)
        Below(rows, x) == Cardinality({k \in rows : s[k].p <= x})
        gaps == {Distance(Below(Bad(s), x) * m, Below(Good(s), x) * n) : x \in 0 .. Grid}
        table == CalibrationTable(s)
        lift == DecileLift(s)
        best == OptimalThresholdByCost(s)
    IN  /\ RocAuc(s)[1] = 2 * Cardinality({q \in pairs : s[q[1]].p > s[q[2]].p})
                            + Cardinality({q \in pairs : s[q[1]].p = s[q[2]].p})
        /\ KsStatistic(s)[1] = Max(gaps)
        /\ \A t \in Cutoffs : /\ ExpectedCost(s, best) <= ExpectedCost(s, t)
                              /\ t > best => ExpectedCost(s, best) < ExpectedCost(s, t)
        /\ SumFunction([b \in DOMAIN table |-> table[b].n]) = Size(s)
        /\ SumFunction([b \in DOMAIN table |-> table[b].obs]) = n
        /\ SumFunction([d \in DOMAIN lift |-> lift[d].n]) = Size(s)
        /\ SumFunction([d \in DOMAIN lift |-> lift[d].bad]) = n
        /\ lift[Max(DOMAIN lift)].captured = n

\* The rules let the loss of a feature show: so many of its values are there in
\* the baseline that all of them missing is too many more, and not every value
\* may be of a wrong type or out of range.
LossShows(q) ==
  /\ Exceeds(q.n - q.missing, q.n, Rules.missingIncrease)
  /\ Exceeds(1, 1, Rules.typeError) /\ Exceeds(1, 1, Rules.outOfRange)

\* A feature of the baseline that has no usable value in a window with rows, be
\* it absent, empty, unparsable or infinite, raises no drift but a quality issue
\* of its own, as far as the rules let that show (README, "Quality is not
\* drift").
UnusableFeatureIsReported ==
  Reported =>
    \A f \in DOMAIN report.drifts :
      report.drifts[f].usable = 0 /\ DOMAIN report.rows # {} =>
        /\ report.drifts[f].psi = "nan"
        /\ LossShows(baseline.profile[f]) => report.quality[f] # {}

\* Every usable value of a column is counted in one bin, one category or as
\* unseen, so that the proportions PSI compares are of all of them.
UsableValuesAreCounted ==
  Reported =>
    \A f \in DOMAIN report.drifts :
      LET d == report.drifts[f] IN SumFunction(d.bins) + d.unseen = d.usable

\* At every level the adjusted p-values reject what the step-up rule rejects of
\* the tests that could be done: with the largest k whose p-value is at most k
\* times the level over their number, all up to it (stats.py).
AdjustedIsStepUp ==
  Reported =>
    LET p == report.tests
        m == Cardinality(Tested(p))
        NotAbove(f) == Cardinality({g \in Tested(p) : p[g] <= p[f]})
    IN  \A level \in 0 .. PScale, f \in Tested(p) :
          LET x == report.adjusted[f]
          IN  x[1] * PScale <= level * x[2]
                <=> (level = PScale \/ \E g \in Tested(p) : p[f] <= p[g] /\ p[g] * m <= NotAbove(g) * level)

\* Performance is measured on the rows of the window whose request has a label
\* as of the date, with the latest record of it, never with one that was
\* corrected or came later, and not at all on a single class (--as-of).
LabelsAreCurrent ==
  Reported =>
    LET Latest(id) == Max({k \in DOMAIN labels : labels[k].id = id})
        known == {k \in DOMAIN report.rows :
                    /\ \E i \in DOMAIN labels : labels[i].id = report.rows[k].id
                    /\ LET l == labels[Latest(report.rows[k].id)]
                       IN  report.asOf = None \/ l.ts = None \/ l.ts <= report.asOf}
    IN  /\ Sampled = [k \in known |-> [y |-> labels[Latest(report.rows[k].id)].y,
                                       p |-> report.rows[k].score]]
        /\ report.performance.metrics # None => Bad(Sampled) # {} /\ Good(Sampled) # {}
=============================================================================
