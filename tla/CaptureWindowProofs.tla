------------------------ MODULE CaptureWindowProofs -------------------------
(***************************************************************************)
(* Theorems of CaptureWindow for any capture files, baselines, labels,     *)
(* windows and dates: what a report says is true of the files.             *)
(***************************************************************************)
EXTENDS CaptureWindow, ScoreMetricsProofs

\* The files a report is made of.
WindowInvariant ==
  /\ captured \in Files
  /\ labels \in Seq(Labels)
  /\ baseline # None => \E b \in BaselineFiles : baseline = BuildBaseline(b[1], b[2])

\* The invariant holds at first and is kept by each step.
LEMMA WindowInvariantHolds == Spec => []WindowInvariant
<1>1. Init => WindowInvariant
  BY DEF Init, WindowInvariant
<1>2. WindowInvariant /\ [Next]_vars => WindowInvariant'
  <2> SUFFICES ASSUME WindowInvariant, [Next]_vars PROVE WindowInvariant'
    OBVIOUS
  <2>1. ASSUME NEW l \in Labels, Observe(l) PROVE WindowInvariant'
    BY <2>1 DEF Observe, WindowInvariant
  <2>2. ASSUME NEW w \in Windows, NEW date \in AsOf, RunWindow(w, date) PROVE WindowInvariant'
    BY <2>2 DEF RunWindow, WindowInvariant
  <2>3. CASE UNCHANGED vars
    BY <2>3 DEF vars, WindowInvariant
  <2> QED
    BY <2>1, <2>2, <2>3 DEF Next
<1> QED
  BY <1>1, <1>2, PTL DEF Spec

\* The frame of a window.
Frame(w) == SelectWindow(captured, w[1], w[2])

\* A step makes a report or leaves one as it was, with the files it is of.
LEMMA WindowStep ==
  ASSUME [Next]_vars
  PROVE  \/ report' = None
         \/ UNCHANGED vars
         \/ \E w \in Windows, date \in AsOf : \E p \in PValues(Frame(w)) :
              baseline # None /\ report' = Report(w, date, p) /\ UNCHANGED <<baseline, captured, labels>>
BY DEF Next, Observe, RunWindow, Frame

\* The rows of a window are rows of the file.
LEMMA FrameFacts ==
  ASSUME WindowInvariant, NEW w
  PROVE  /\ IsFiniteSet(DOMAIN Frame(w)) /\ DOMAIN Frame(w) \subseteq Nat
         /\ \A k \in DOMAIN Frame(w) : Admitted(Frame(w)[k])
<1>1. DOMAIN Frame(w) \in SUBSET DOMAIN captured
  BY DEF Frame, SelectWindow, Rows
<1>2. \A k \in DOMAIN Frame(w) : Frame(w)[k] = captured[k]
  BY DEF Frame, SelectWindow, Rows
<1>3. /\ IsFiniteSet(DOMAIN captured) /\ DOMAIN captured \subseteq Nat
      /\ \A k \in DOMAIN captured : Admitted(captured[k])
  BY WindowAssumption DEF WindowInvariant
<1> QED
  BY <1>1, <1>2, <1>3, FS_Subset

-----------------------------------------------------------------------------
(* Labels.                                                                  *)

\* The record of the last label of a request.
Latest(id) == Max({k \in DOMAIN labels : labels[k].id = id})

\* It is a record of the request, and none is later.
LEMMA LatestFacts ==
  ASSUME WindowInvariant, NEW id, \E i \in DOMAIN labels : labels[i].id = id
  PROVE  /\ Latest(id) \in DOMAIN labels /\ labels[Latest(id)].id = id
         /\ \A i \in DOMAIN labels : labels[i].id = id => i <= Latest(id)
         /\ labels[Latest(id)].y \in {0, 1}
<1> DEFINE S == {k \in DOMAIN labels : labels[k].id = id}
<1>1. DOMAIN labels = 1 .. Len(labels) /\ Len(labels) \in Nat /\ \A k \in DOMAIN labels : labels[k] \in Labels
  BY DEF WindowInvariant
<1>2. IsFiniteSet(DOMAIN labels)
  BY <1>1, FS_Interval
<1>3. S \in SUBSET Int /\ S # {} /\ S \in SUBSET DOMAIN labels
  BY <1>1
<1>4. IsFiniteSet(S)
  BY <1>2, <1>3, FS_Subset
<1>5. Max(S) \in S /\ \A i \in S : Max(S) >= i
  BY <1>3, <1>4, MaxIsGreatest
<1>6. Max(S) = Latest(id)
  BY DEF Latest
<1> HIDE DEF S
<1>7. Latest(id) \in S /\ \A i \in S : i <= Latest(id)
  BY <1>1, <1>3, <1>5, <1>6
<1> QED
  BY <1>1, <1>7, WindowAssumption DEF S

\* What the join takes of the labels.
Known(frame, date) ==
  {k \in DOMAIN frame :
     /\ \E i \in DOMAIN labels : labels[i].id = frame[k].id
     /\ LET l == labels[Latest(frame[k].id)] IN date = None \/ l.ts = None \/ l.ts <= date}

\* The join of a frame with the labels known as of a date takes the last label of
\* each request, if it was known.
LEMMA JoinedLabels ==
  ASSUME WindowInvariant, NEW frame, NEW date
  PROVE  JoinLabels(frame, KnownAsOf(LabelsToFrame(labels), date))
           = [k \in Known(frame, date) |->
                [y |-> labels[Latest(frame[k].id)].y, p |-> frame[k].score]]
<1> DEFINE known == KnownAsOf(LabelsToFrame(labels), date)
<1> DEFINE LabelsOf(r) == {k \in DOMAIN known : known[k].id = r.id}
<1> DEFINE Label(r) == known[CHOOSE k \in LabelsOf(r) : TRUE].y
<1>1. /\ DOMAIN known \subseteq DOMAIN labels
      /\ \A k \in DOMAIN known : known[k] = labels[k]
      /\ \A k \in DOMAIN labels :
           k \in DOMAIN known <=>
             /\ \A i \in DOMAIN labels : i > k => labels[i].id # labels[k].id
             /\ date = None \/ labels[k].ts = None \/ labels[k].ts <= date
  BY DEF KnownAsOf, LabelsToFrame, Rows
<1> HIDE DEF known
<1>2. DOMAIN labels \subseteq Int
  BY DEF WindowInvariant
<1>3. ASSUME NEW k \in DOMAIN frame
      PROVE  /\ k \in Known(frame, date) <=> LabelsOf(frame[k]) # {}
             /\ k \in Known(frame, date) => Label(frame[k]) = labels[Latest(frame[k].id)].y
  <2> DEFINE id == frame[k].id
  <2>1. CASE ~(\E i \in DOMAIN labels : labels[i].id = id)
    BY <1>1, <2>1 DEF Known
  <2>2. CASE \E i \in DOMAIN labels : labels[i].id = id
    <3>1. /\ Latest(id) \in DOMAIN labels /\ labels[Latest(id)].id = id
          /\ \A i \in DOMAIN labels : labels[i].id = id => i <= Latest(id)
      BY <2>2, LatestFacts
    <3>2. \A i \in LabelsOf(frame[k]) : i = Latest(id)
      <4> SUFFICES ASSUME NEW i \in LabelsOf(frame[k]) PROVE i = Latest(id)
        OBVIOUS
      <4>1. i \in DOMAIN labels /\ labels[i].id = id /\ ~(Latest(id) > i)
        BY <1>1, <3>1
      <4>2. i <= Latest(id) /\ i \in Int /\ Latest(id) \in Int
        BY <1>2, <3>1, <4>1
      <4> QED
        BY <4>1, <4>2
    <3>3. Latest(id) \in LabelsOf(frame[k]) <=>
            date = None \/ labels[Latest(id)].ts = None \/ labels[Latest(id)].ts <= date
      <4>1. \A i \in DOMAIN labels : i > Latest(id) => labels[i].id # labels[Latest(id)].id
        BY <1>2, <3>1
      <4> QED
        BY <1>1, <3>1, <4>1
    <3>4. k \in Known(frame, date) <=>
            date = None \/ labels[Latest(id)].ts = None \/ labels[Latest(id)].ts <= date
      BY <2>2 DEF Known
    <3>5. LabelsOf(frame[k]) # {} => (CHOOSE i \in LabelsOf(frame[k]) : TRUE) = Latest(id)
      BY <3>2
    <3>6. k \in Known(frame, date) => Latest(id) \in LabelsOf(frame[k])
      BY <3>3, <3>4
    <3>7. k \in Known(frame, date) => Label(frame[k]) = known[Latest(id)].y /\ Latest(id) \in DOMAIN known
      BY <3>5, <3>6
    <3>8. LabelsOf(frame[k]) # {} => Latest(id) \in LabelsOf(frame[k])
      BY <3>2
    <3> HIDE DEF LabelsOf, Label
    <3> QED
      BY <1>1, <3>3, <3>4, <3>6, <3>7, <3>8
  <2> QED
    BY <2>1, <2>2
<1>4. JoinLabels(frame, known)
        = [k \in {i \in DOMAIN frame : LabelsOf(frame[i]) # {}} |->
             [y |-> Label(frame[k]), p |-> frame[k].score]]
  BY DEF JoinLabels
<1>5. {i \in DOMAIN frame : LabelsOf(frame[i]) # {}} = Known(frame, date)
  <2>1. Known(frame, date) \subseteq DOMAIN frame
    BY DEF Known
  <2> HIDE DEF LabelsOf
  <2> QED
    BY <1>3, <2>1
<1>6. \A k \in Known(frame, date) : k \in DOMAIN frame /\ Label(frame[k]) = labels[Latest(frame[k].id)].y
  <2>1. Known(frame, date) \subseteq DOMAIN frame
    BY DEF Known
  <2> HIDE DEF Label
  <2> QED
    BY <1>3, <2>1
<1> HIDE DEF LabelsOf, Label
<1> QED
  BY <1>4, <1>5, <1>6 DEF known

\* The performance of a frame is of the join, and measured when there are labels
\* of both classes.
LEMMA PerformanceFacts ==
  ASSUME NEW frame, NEW known
  PROVE  /\ PerformanceCheck(frame, known).sample = JoinLabels(frame, known)
         /\ PerformanceCheck(frame, known).metrics # None => ~OneClass(JoinLabels(frame, known))
<1> DEFINE sample == JoinLabels(frame, known)
<1> DEFINE metrics == Summarize(sample)
<1> DEFINE none == [scored |-> Size(frame), sample |-> sample, metrics |-> None, aucDrop |-> None]
<1> DEFINE drop == IF baseline.performance = None THEN None
                   ELSE Change(baseline.performance.auc, metrics.auc)
<1> DEFINE few == Size(sample) < MinLabels \/ OneClass(sample)
<1>1. PerformanceCheck(frame, known) =
        IF few THEN none ELSE [none EXCEPT !.metrics = metrics, !.aucDrop = drop]
  BY DEF PerformanceCheck
<1> HIDE DEF sample, metrics, drop
<1>2. none.sample = sample /\ none.metrics = None
  OBVIOUS
<1>3. [none EXCEPT !.metrics = metrics, !.aucDrop = drop].sample = sample
  OBVIOUS
<1>4. few \/ ~OneClass(sample)
  OBVIOUS
<1> HIDE DEF none, few
<1> QED
  BY <1>1, <1>2, <1>3, <1>4 DEF sample

\* Performance is measured on the rows of the window whose request has a label as
\* of the date, with the last record of it, whatever labels came in which order.
THEOREM PerformanceIsOfCurrentLabels == Spec => []LabelsAreCurrent
<1>1. Init => LabelsAreCurrent
  BY DEF Init, LabelsAreCurrent, Reported
<1>2. WindowInvariant /\ LabelsAreCurrent /\ [Next]_vars => LabelsAreCurrent'
  <2> SUFFICES ASSUME WindowInvariant, LabelsAreCurrent, [Next]_vars PROVE LabelsAreCurrent'
    OBVIOUS
  <2>1. CASE report' = None
    BY <2>1 DEF LabelsAreCurrent, Reported
  <2>2. CASE UNCHANGED vars
    BY <2>2 DEF LabelsAreCurrent, Reported, Sampled, vars
  <2>3. ASSUME NEW w \in Windows, NEW date \in AsOf, NEW p \in PValues(Frame(w)),
               report' = Report(w, date, p), UNCHANGED <<baseline, captured, labels>>
        PROVE  LabelsAreCurrent'
    <3> DEFINE known == KnownAsOf(LabelsToFrame(labels), date)
    <3>1. /\ report'.rows = Frame(w) /\ report'.asOf = date
          /\ report'.performance = PerformanceCheck(Frame(w), known)
      BY <2>3 DEF Report, Frame
    <3> DEFINE last == [k \in Known(Frame(w), date) |->
                          [y |-> labels[Latest(Frame(w)[k].id)].y, p |-> Frame(w)[k].score]]
    <3>2. /\ report'.performance.sample = last
          /\ report'.performance.metrics # None => ~OneClass(last)
      <4> HIDE DEF last
      <4>1. JoinLabels(Frame(w), known) = last
        BY JoinedLabels DEF last
      <4> HIDE DEF known
      <4> QED
        BY <3>1, <4>1, PerformanceFacts
    <3>3. labels' = labels
      BY <2>3
    <3> HIDE DEF known
    <3>4. report'.performance.metrics # None => Bad(last) # {} /\ Good(last) # {}
      BY <3>2 DEF OneClass
    <3> DEFINE LastOf(id) == Max({k \in DOMAIN labels' : labels'[k].id = id})
    <3> DEFINE knownNow == {k \in DOMAIN report'.rows :
                            /\ \E i \in DOMAIN labels' : labels'[i].id = report'.rows[k].id
                            /\ LET l == labels'[LastOf(report'.rows[k].id)]
                               IN  report'.asOf = None \/ l.ts = None \/ l.ts <= report'.asOf}
    <3>5. \A id : LastOf(id) = Latest(id)
      BY <3>3 DEF Latest
    <3> HIDE DEF LastOf
    <3>6. knownNow = Known(Frame(w), date)
      <4>1. \A k \in DOMAIN Frame(w) : k \in knownNow <=> k \in Known(Frame(w), date)
        BY <3>1, <3>3, <3>5 DEF Known
      <4>2. knownNow \subseteq DOMAIN Frame(w) /\ Known(Frame(w), date) \subseteq DOMAIN Frame(w)
        BY <3>1 DEF Known
      <4> HIDE DEF knownNow
      <4> QED
        BY <4>1, <4>2
    <3> HIDE DEF knownNow
    <3>7. last = [k \in knownNow |-> [y |-> labels'[LastOf(report'.rows[k].id)].y,
                                    p |-> report'.rows[k].score]]
      BY <3>1, <3>3, <3>5, <3>6
    <3> HIDE DEF last
    <3> QED
      BY <3>2, <3>4, <3>7 DEF LabelsAreCurrent, Reported, Sampled, LastOf, knownNow
  <2> QED
    BY <2>1, <2>2, <2>3, WindowStep
<1> QED
  BY <1>1, <1>2, WindowInvariantHolds, PTL DEF Spec

-----------------------------------------------------------------------------
(* Columns and profiles.                                                    *)

IsColumn(c) == IsFiniteSet(DOMAIN c) /\ \A k \in DOMAIN c : c[k].is \in Kinds

\* The columns of a frame of admitted records are columns.
LEMMA ColumnFacts ==
  ASSUME NEW frame, IsFiniteSet(DOMAIN frame), \A k \in DOMAIN frame : Admitted(frame[k]), NEW f
  PROVE  IsColumn(Column(frame, f))
<1> DEFINE c == Column(frame, f)
<1>1. DOMAIN c \in SUBSET DOMAIN frame
  BY DEF Column
<1>2. IsFiniteSet(DOMAIN c)
  BY <1>1, FS_Subset
<1>3. ASSUME NEW k \in DOMAIN c PROVE c[k].is \in Kinds
  <2>1. k \in DOMAIN frame /\ c[k] = IF f \in DOMAIN frame[k].cells THEN frame[k].cells[f] ELSE Missing
    BY DEF Column
  <2>2. CASE f \in DOMAIN frame[k].cells
    BY <2>1, <2>2 DEF Admitted
  <2>3. CASE f \notin DOMAIN frame[k].cells
    BY <2>1, <2>3 DEF Missing, Kinds
  <2> QED
    BY <2>2, <2>3
<1> QED
  BY <1>2, <1>3 DEF IsColumn

\* Each profile of the baseline is of a column with values, of a feature.
LEMMA BaselineProfiles ==
  ASSUME WindowInvariant, baseline # None, NEW f \in DOMAIN baseline.profile
  PROVE  f \in Features /\ \E c : IsColumn(c) /\ Profilable(c) /\ baseline.profile[f] = Profile(c)
<1>1. PICK b \in BaselineFiles : baseline = BuildBaseline(b[1], b[2])
  BY DEF WindowInvariant
<1> DEFINE frame == b[1]
<1> DEFINE columns == {g \in Features : DOMAIN Column(frame, g) # {}}
<1> DEFINE sample == JoinLabels(frame, LabelsToFrame(b[2]))
<1> DEFINE profile == [g \in columns |-> Profile(Column(frame, g))]
<1>2. /\ ~(DOMAIN frame = {} \/ \E g \in columns : ~Profilable(Column(frame, g)))
      /\ baseline.profile = profile
  <2> DEFINE raises == DOMAIN frame = {} \/ \E g \in columns : ~Profilable(Column(frame, g))
  <2> DEFINE performance == IF Size(sample) < 2 THEN None ELSE Summarize(sample)
  <2>1. baseline = IF raises THEN None
                   ELSE [profile |-> profile, scores |-> ScoreCounts(frame),
                         decline |-> DeclineRate(frame), performance |-> performance]
    BY <1>1 DEF BuildBaseline
  <2> HIDE DEF raises, profile, performance
  <2>2. ~raises
    BY <2>1
  <2>3. baseline.profile = profile
    BY <2>1, <2>2
  <2> QED
    BY <2>2, <2>3 DEF raises
<1>3. f \in columns /\ baseline.profile[f] = Profile(Column(frame, f)) /\ Profilable(Column(frame, f))
  BY <1>2
<1>4. IsFiniteSet(DOMAIN frame) /\ \A k \in DOMAIN frame : Admitted(frame[k])
  BY WindowAssumption
<1>5. IsColumn(Column(frame, f))
  BY <1>4, ColumnFacts
<1> QED
  BY <1>3, <1>5

\* The parts of a column.
LEMMA PartsOfColumn ==
  ASSUME NEW c, IsColumn(c)
  PROVE  /\ IsFiniteSet(DOMAIN c) /\ IsFiniteSet(Finite(c)) /\ IsFiniteSet(Present(c))
         /\ Finite(c) \in SUBSET Present(c) /\ Present(c) \in SUBSET DOMAIN c
<1>1. Finite(c) \in SUBSET DOMAIN c /\ Present(c) \in SUBSET DOMAIN c
      /\ Finite(c) \in SUBSET Present(c)
  BY DEF Finite, Present
<1> QED
  BY <1>1, FS_Subset DEF IsColumn

\* Whatever the edges, each finite value is in one bin.
LEMMA BinsHoldTheValues ==
  ASSUME NEW c, IsColumn(c), NEW edges, IsFiniteSet(edges)
  PROVE  SumFunction(BinCounts(Values(c), edges)) = Cardinality(Finite(c))
<1> DEFINE K == Finite(c)
<1> DEFINE Under(k) == {e \in edges : e <= QuantileBins * c[k].v}
<1> DEFINE group == [k \in K |-> Cardinality(Under(k))]
<1> DEFINE B == 0 .. Cardinality(edges)
<1> DEFINE n == [b \in B |-> Cardinality({k \in K : group[k] = b})]
<1>1. IsFiniteSet(K) /\ Cardinality(edges) \in Nat
  BY PartsOfColumn, FS_CardinalityType
<1>2. IsFiniteSet(B)
  BY <1>1, FS_Interval
<1>3. ASSUME NEW k \in K PROVE group[k] \in B
  <2>1. Under(k) \in SUBSET edges
    OBVIOUS
  <2>2. IsFiniteSet(Under(k)) /\ Cardinality(Under(k)) <= Cardinality(edges)
    BY <2>1, FS_Subset
  <2>3. Cardinality(Under(k)) \in Nat
    BY <2>2, FS_CardinalityType
  <2> HIDE DEF Under
  <2> QED
    BY <1>1, <2>2, <2>3
<1>4. BinCounts(Values(c), edges) = n
  <2>1. \A b \in B : {k \in DOMAIN Values(c) : Cardinality({e \in edges : e <= QuantileBins * Values(c)[k]}) = b}
                      = {k \in K : group[k] = b}
    <3>1. DOMAIN Values(c) = K /\ \A k \in K : Values(c)[k] = c[k].v
      BY DEF Values
    <3>2. \A k \in K : {e \in edges : e <= QuantileBins * Values(c)[k]} = Under(k)
      BY <3>1
    <3>3. \A k \in K : group[k] = Cardinality(Under(k))
      OBVIOUS
    <3> HIDE DEF group, Under, K
    <3> QED
      BY <3>1, <3>2, <3>3
  <2> HIDE DEF group, K
  <2> QED
    BY <2>1 DEF BinCounts
<1> HIDE DEF group, K, B
<1>5. SumFunction(n) = Cardinality({k \in K : group[k] \in B})
  BY <1>1, <1>2, CountsAddUp
<1>6. {k \in K : group[k] \in B} = K
  BY <1>3
<1> HIDE DEF n
<1> QED
  BY <1>4, <1>5, <1>6 DEF K

\* What a profile is on: finitely many edges, or categories that are values.
LEMMA ProfileFacts ==
  ASSUME NEW c, IsColumn(c), NEW q, q = Profile(c)
  PROVE  /\ \/ q.kind = "numeric" /\ IsFiniteSet(q.edges)
            \/ /\ q.kind = "categorical" /\ IsFiniteSet(DOMAIN q.bins)
               /\ \A x \in DOMAIN q.bins : x.is # "missing"
         /\ q.n \in Nat /\ q.missing \in Int
<1>1. CASE InferKind(c) = "numeric"
  <2> DEFINE values == Values(c)
  <2> DEFINE At(i) == (i * (Size(values) - 1)) \div QuantileBins
  <2> DEFINE Rest(i) == (i * (Size(values) - 1)) % QuantileBins
  <2> DEFINE Low(i)  == NthSmallest(values, At(i) + 1)
  <2> DEFINE Edge(i) == QuantileBins * Low(i)
         + (IF Rest(i) = 0 THEN 0 ELSE Rest(i) * (NthSmallest(values, At(i) + 2) - Low(i)))
  <2> DEFINE I == 1 .. QuantileBins - 1
  <2>1. QuantileEdges(values) = {Edge(i) : i \in I}
    BY DEF QuantileEdges
  <2>2. IsFiniteSet(I)
    BY FS_Interval, MeasureAssumption
  <2>3. IsFiniteSet({Edge(i) : i \in I})
    <3> DEFINE edge == [i \in I |-> Edge(i)]
    <3>1. {Edge(i) : i \in I} = {edge[i] : i \in I}
      OBVIOUS
    <3> HIDE DEF edge, I
    <3> QED
      BY <2>2, <3>1, ImageIsFinite
  <2>4. q = NumericProfile(c)
    BY <1>1 DEF Profile
  <2> HIDE DEF I, Edge
  <2>5. /\ q.kind = "numeric" /\ q.edges = QuantileEdges(values)
        /\ q.n = Size(c) /\ q.missing = Size(c) - Size(values)
    BY <2>4 DEF NumericProfile
  <2>6. Size(c) \in Nat /\ Size(values) \in Nat
    <3>1. IsFiniteSet(DOMAIN c) /\ IsFiniteSet(DOMAIN values)
      BY PartsOfColumn DEF Values
    <3> QED
      BY <3>1, FS_CardinalityType DEF Size
  <2> HIDE DEF values
  <2> QED
    BY <2>1, <2>3, <2>5, <2>6
<1>2. CASE InferKind(c) # "numeric"
  <2> DEFINE categories == {c[k] : k \in Present(c)}
  <2>1. q = CategoricalProfile(c)
    BY <1>2 DEF Profile
  <2>2. q.kind = "categorical" /\ q.n = Size(c) /\ q.missing = Size(c) - Cardinality(Present(c))
        /\ DOMAIN q.bins = categories
    BY <2>1 DEF CategoricalProfile, CategoryCounts
  <2>3. IsFiniteSet(categories)
    BY PartsOfColumn, ImageIsFinite
  <2>4. \A x \in categories : x.is # "missing"
    BY DEF Present
  <2>5. Size(c) \in Nat /\ Cardinality(Present(c)) \in Nat
    BY PartsOfColumn, FS_CardinalityType DEF Size
  <2> HIDE DEF categories
  <2> QED
    BY <2>2, <2>3, <2>4, <2>5
<1> QED
  BY <1>1, <1>2

\* The rows of a column whose values count as usable for a profile.
Usable(q, c) == IF q.kind = "numeric" THEN Finite(c) ELSE Present(c)

\* The drift of a column counts the usable values, once each.
LEMMA DriftCounts ==
  ASSUME NEW c, IsColumn(c), NEW base, IsColumn(base), NEW q, q = Profile(base)
  PROVE  LET d == FeatureDrift(q, c)
         IN  /\ SumFunction(d.bins) + d.unseen = d.usable
             /\ d.usable = Cardinality(Usable(q, c))
             /\ Usable(q, c) = {} => d.psi = "nan"
<1> DEFINE d == FeatureDrift(q, c)
<1>0. IsFiniteSet(Finite(c)) /\ IsFiniteSet(Present(c)) /\ IsFiniteSet(DOMAIN c)
  BY PartsOfColumn
<1>1. CASE q.kind = "numeric"
  <2>1. IsFiniteSet(q.edges)
    BY <1>1, ProfileFacts
  <2> DEFINE bins == BinCounts(Values(c), q.edges)
  <2>2. SumFunction(bins) = Cardinality(Finite(c)) /\ Cardinality(Finite(c)) \in Nat
    BY <1>0, <2>1, BinsHoldTheValues, FS_CardinalityType
  <2>3. Size(Values(c)) = Cardinality(Finite(c))
    BY DEF Size, Values
  <2>4. d = NumericDrift(q, c) /\ Usable(q, c) = Finite(c)
    BY <1>1 DEF FeatureDrift, Usable
  <2> DEFINE some == [psi |-> Psi(q.bins, SumFunction(q.bins), bins, Size(Values(c))),
                      usable |-> Size(Values(c)), unseen |-> 0, tested |-> TRUE, bins |-> bins]
  <2> DEFINE none == [psi |-> "nan", usable |-> 0, unseen |-> 0, tested |-> FALSE, bins |-> bins]
  <2>5. d = IF Finite(c) = {} THEN none ELSE some
    BY <2>4 DEF NumericDrift
  <2> HIDE DEF d, bins
  <2>6. CASE Finite(c) = {}
    <3>1. Cardinality(Finite(c)) = 0
      BY <2>6, FS_EmptySet
    <3>2. d.bins = bins /\ d.unseen = 0 /\ d.usable = 0 /\ d.psi = "nan"
      BY <2>5, <2>6
    <3> QED
      BY <2>2, <2>4, <3>1, <3>2 DEF d
  <2>7. CASE Finite(c) # {}
    <3>1. d.bins = bins /\ d.unseen = 0 /\ d.usable = Cardinality(Finite(c))
      BY <2>3, <2>5, <2>7
    <3> QED
      BY <2>2, <2>4, <2>7, <3>1 DEF d
  <2> QED
    BY <2>6, <2>7
<1>2. CASE q.kind # "numeric"
  <2> DEFINE categories == DOMAIN q.bins
  <2> DEFINE known == {k \in DOMAIN c : c[k] \in categories}
  <2> DEFINE bins == CategoryCounts(c, categories)
  <2> DEFINE unseen == Unseen(q, c)
  <2>1. IsFiniteSet(categories) /\ \A x \in categories : x.is # "missing"
    BY <1>2, ProfileFacts
  <2>2. SumFunction(bins) = Cardinality(known)
    <3>1. bins = [x \in categories |-> Cardinality({k \in DOMAIN c : c[k] = x})]
      BY DEF CategoryCounts
    <3> HIDE DEF bins, categories
    <3> QED
      BY <1>0, <2>1, <3>1, CountsAddUp
  <2>3. /\ known \in SUBSET Present(c) /\ unseen \in SUBSET Present(c)
        /\ known \cup unseen = Present(c) /\ known \cap unseen = {}
    BY <2>1 DEF Unseen, Present
  <2> HIDE DEF known, unseen
  <2>4. /\ Cardinality(Present(c)) = Cardinality(known) + Cardinality(unseen)
        /\ Cardinality(Present(c)) \in Nat /\ Cardinality(known) \in Nat /\ Cardinality(unseen) \in Nat
    BY <1>0, <2>3, PartsOfSet, Zenon
  <2>5. d = CategoricalDrift(q, c) /\ Usable(q, c) = Present(c)
    BY <1>2 DEF FeatureDrift, Usable
  <2> DEFINE some == [psi |-> Psi(q.bins, SumFunction(q.bins), bins, Cardinality(Present(c))),
                      usable |-> Cardinality(Present(c)), unseen |-> Cardinality(unseen),
                      tested |-> Cardinality(DOMAIN bins) >= 2 /\ SumFunction(bins) > 0, bins |-> bins]
  <2> DEFINE none == [psi |-> "nan", usable |-> 0, unseen |-> 0, tested |-> FALSE, bins |-> bins]
  <2>6. d = IF Present(c) = {} THEN none ELSE some
    BY <2>5 DEF CategoricalDrift, unseen
  <2> HIDE DEF d, bins
  <2>7. CASE Present(c) = {}
    <3>1. Cardinality(Present(c)) = 0
      BY <2>7, FS_EmptySet
    <3>2. d.bins = bins /\ d.unseen = 0 /\ d.usable = 0 /\ d.psi = "nan"
      BY <2>6, <2>7
    <3> QED
      BY <2>2, <2>4, <2>5, <3>1, <3>2 DEF d
  <2>8. CASE Present(c) # {}
    <3>1. d.bins = bins /\ d.unseen = Cardinality(unseen) /\ d.usable = Cardinality(Present(c))
      BY <2>6, <2>8
    <3> QED
      BY <2>2, <2>4, <2>5, <2>8, <3>1 DEF d
  <2> QED
    BY <2>7, <2>8
<1> QED
  BY <1>1, <1>2

\* The drifts and the quality of a report, by the profiles and the columns.
LEMMA ReportedDrifts ==
  ASSUME WindowInvariant, baseline # None, NEW w, NEW date, NEW p
  PROVE  LET r == Report(w, date, p)
         IN  /\ r.rows = Frame(w)
             /\ r.drifts = [f \in DOMAIN baseline.profile |->
                              FeatureDrift(baseline.profile[f], Column(Frame(w), f))]
             /\ r.quality = QualityChecks(Frame(w))
<1> DEFINE drifts == Drifts(Frame(w), p)
<1>1. drifts = [f \in DOMAIN baseline.profile |->
                 [drift |-> FeatureDrift(baseline.profile[f], Column(Frame(w), f)),
                  p |-> IF FeatureDrift(baseline.profile[f], Column(Frame(w), f)).tested
                        THEN p[f] ELSE NaN]]
  BY DEF Drifts
<1>2. /\ Report(w, date, p).rows = Frame(w)
      /\ Report(w, date, p).drifts = [f \in DOMAIN drifts |-> drifts[f].drift]
      /\ Report(w, date, p).quality = QualityChecks(Frame(w))
  BY DEF Report, Frame
<1> HIDE DEF drifts
<1> QED
  BY <1>1, <1>2

\* Every usable value of a column is counted in one bin, one category or as unseen,
\* for any columns and any baseline.
THEOREM DriftIsOfAllValues == Spec => []UsableValuesAreCounted
<1>1. Init => UsableValuesAreCounted
  BY DEF Init, UsableValuesAreCounted, Reported
<1>2. WindowInvariant /\ UsableValuesAreCounted /\ [Next]_vars => UsableValuesAreCounted'
  <2> SUFFICES ASSUME WindowInvariant, UsableValuesAreCounted, [Next]_vars
               PROVE  UsableValuesAreCounted'
    OBVIOUS
  <2>1. CASE report' = None
    BY <2>1 DEF UsableValuesAreCounted, Reported
  <2>2. CASE UNCHANGED vars
    BY <2>2 DEF UsableValuesAreCounted, Reported, vars
  <2>3. ASSUME NEW w \in Windows, NEW date \in AsOf, NEW p \in PValues(Frame(w)),
               baseline # None, report' = Report(w, date, p)
        PROVE  UsableValuesAreCounted'
    <3>1. report'.drifts = [f \in DOMAIN baseline.profile |->
                              FeatureDrift(baseline.profile[f], Column(Frame(w), f))]
      BY <2>3, ReportedDrifts
    <3>2. ASSUME NEW f \in DOMAIN baseline.profile
          PROVE  LET d == FeatureDrift(baseline.profile[f], Column(Frame(w), f))
                 IN  SumFunction(d.bins) + d.unseen = d.usable
      <4>1. PICK base : IsColumn(base) /\ baseline.profile[f] = Profile(base)
        BY <2>3, BaselineProfiles
      <4>2. IsColumn(Column(Frame(w), f))
        BY FrameFacts, ColumnFacts
      <4> QED
        BY <4>1, <4>2, DriftCounts
    <3> QED
      BY <3>1, <3>2 DEF UsableValuesAreCounted, Reported
  <2> QED
    BY <2>1, <2>2, <2>3, WindowStep
<1> QED
  BY <1>1, <1>2, WindowInvariantHolds, PTL DEF Spec

-----------------------------------------------------------------------------
(* Quality.                                                                 *)

\* A share of one exceeds a rule below one.
LEMMA WholeExceeds ==
  ASSUME NEW n \in Nat \ {0}, NEW rule \in Nat \X (Nat \ {0}), Exceeds(1, 1, rule)
  PROVE  Exceeds(n, n, rule)
<1> DEFINE a == rule[1]
<1> DEFINE b == rule[2]
<1>1. a \in Nat /\ b \in Nat /\ b > a
  BY DEF Exceeds
<1> HIDE DEF a, b
<1>2. n * b > a * n
  <2>1. n * b = n * a + n * (b - a)
    BY <1>1
  <2>2. n * (b - a) > 0
    BY <1>1
  <2>3. n * a \in Int /\ a * n = n * a /\ n * (b - a) \in Int
    BY <1>1
  <2> QED
    BY <2>1, <2>2, <2>3
<1> QED
  BY <1>2 DEF Exceeds, a, b

\* A column that lost all its values exceeds what the baseline was missing, when
\* the rules let it.
LEMMA AllMissingExceeds ==
  ASSUME NEW c, IsColumn(c), DOMAIN c # {}, Present(c) = {}, NEW q, q.n \in Nat, q.missing \in Int,
         Exceeds(q.n - q.missing, q.n, Rules.missingIncrease),
         Rules.missingIncrease \in Nat \X (Nat \ {0})
  PROVE  MissingRate(q, c)
<1> DEFINE s == Size(c)
<1> DEFINE n == q.n
<1> DEFINE m == q.missing
<1> DEFINE a == Rules.missingIncrease[1]
<1> DEFINE b == Rules.missingIncrease[2]
<1>1. /\ s \in Nat /\ s # 0 /\ n \in Nat /\ m \in Int /\ a \in Nat /\ b \in Nat
      /\ (n - m) * b > a * n
  <2>1. Cardinality(DOMAIN c) \in Nat /\ Cardinality(DOMAIN c) # 0
    BY PartsOfColumn, FS_CardinalityType, FS_EmptySet
  <2> QED
    BY <2>1 DEF Size, Exceeds
<1>2. Size(c) - Cardinality(Present(c)) = s
  BY <1>1, FS_EmptySet
<1>3. MissingRate(q, c) <=> (s * n - m * s) * b > a * (s * n)
  BY <1>2 DEF MissingRate, Exceeds
<1> HIDE DEF s, n, m, a, b
<1> DEFINE x == (n - m) * b
<1> DEFINE y == a * n
<1>4. x \in Int /\ y \in Int /\ x > y
  BY <1>1
<1>5. s * n - m * s = s * (n - m)
  BY <1>1
<1>6. (s * n - m * s) * b = s * x
  <2>1. (s * (n - m)) * b = s * ((n - m) * b)
    BY <1>1
  <2> QED
    BY <1>5, <2>1
<1>7. a * (s * n) = s * y
  BY <1>1
<1> HIDE DEF x, y
<1>8. s * x > s * y
  BY <1>1, <1>4
<1> QED
  BY <1>3, <1>6, <1>7, <1>8

\* The quality of a column without usable values.
LEMMA LostColumnHasIssue ==
  ASSUME NEW c, IsColumn(c), NEW base, IsColumn(base), NEW q, q = Profile(base),
         Usable(q, c) = {}, LossShows(q)
  PROVE  QualityIssues(q, c) # {}
<1>1. q.n \in Nat /\ q.missing \in Int /\ (q.kind = "numeric" \/ q.kind = "categorical")
  BY ProfileFacts
<1>2. /\ Rules.missingIncrease \in Nat \X (Nat \ {0}) /\ Rules.typeError \in Nat \X (Nat \ {0})
      /\ Rules.outOfRange \in Nat \X (Nat \ {0})
  BY MeasureAssumption
<1>3. CASE DOMAIN c = {}
  BY <1>3 DEF QualityIssues
<1>4. CASE DOMAIN c # {} /\ Present(c) = {}
  <2>1. MissingRate(q, c)
    BY <1>1, <1>2, <1>4, AllMissingExceeds DEF LossShows
  <2>2. "missing_rate" \in QualityIssues(q, c)
    BY <1>4, <2>1 DEF QualityIssues
  <2> QED
    BY <2>2
<1>5. CASE DOMAIN c # {} /\ Present(c) # {}
  <2>1. q.kind = "numeric" /\ Finite(c) = {}
    BY <1>1, <1>5 DEF Usable
  <2> DEFINE values == {k \in DOMAIN c : c[k].is \in {"number", "infinite"}}
  <2> DEFINE outside == {k \in values : \/ c[k].is = "infinite"
                                        \/ c[k].v < q.min \/ c[k].v > q.max}
  <2>2. CASE values # {}
    <3>1. outside = values
      BY <2>1 DEF Finite
    <3>2. Cardinality(values) \in Nat \ {0}
      <4>1. values \in SUBSET DOMAIN c
        OBVIOUS
      <4>2. IsFiniteSet(values)
        BY <4>1, PartsOfColumn, FS_Subset
      <4> HIDE DEF values
      <4> QED
        BY <2>2, <4>2, FS_CardinalityType, FS_EmptySet
    <3>3. Exceeds(Cardinality(values), Cardinality(values), Rules.outOfRange)
      <4> HIDE DEF values
      <4> QED
        BY <1>2, <3>2, WholeExceeds DEF LossShows
    <3>4. OutOfRange(q, c) <=> values # {} /\ Exceeds(Cardinality(outside), Cardinality(values), Rules.outOfRange)
      BY Zenon DEF OutOfRange
    <3> HIDE DEF values, outside
    <3>5. OutOfRange(q, c)
      BY <2>2, <3>1, <3>3, <3>4
    <3>6. "out_of_range" \in QualityIssues(q, c)
      BY <1>5, <2>1, <3>5 DEF QualityIssues
    <3> QED
      BY <3>6
  <2>3. CASE values = {}
    <3>1. Texts(c) = Present(c)
      <4>1. \A k \in DOMAIN c : c[k].is \in {"text", "missing"}
        BY <2>3 DEF IsColumn, Kinds
      <4> QED
        BY <4>1 DEF Texts, Present
    <3>2. Cardinality(Present(c)) \in Nat \ {0}
      BY <1>5, PartsOfColumn, FS_CardinalityType, FS_EmptySet
    <3>3. TypeError(c)
      BY <1>2, <3>1, <3>2, WholeExceeds DEF TypeError, LossShows
    <3>4. "type_error" \in QualityIssues(q, c)
      BY <1>5, <2>1, <3>3 DEF QualityIssues
    <3> QED
      BY <3>4
  <2> QED
    BY <2>2, <2>3
<1> QED
  BY <1>3, <1>4, <1>5

\* Whatever the baseline, a feature that has lost its usable values raises no
\* drift and, when the rules let it show, a quality issue.
THEOREM LostFeatureIsReported == Spec => []UnusableFeatureIsReported
<1>1. Init => UnusableFeatureIsReported
  BY DEF Init, UnusableFeatureIsReported, Reported
<1>2. WindowInvariant /\ UnusableFeatureIsReported /\ [Next]_vars => UnusableFeatureIsReported'
  <2> SUFFICES ASSUME WindowInvariant, UnusableFeatureIsReported, [Next]_vars
               PROVE  UnusableFeatureIsReported'
    OBVIOUS
  <2>1. CASE report' = None
    BY <2>1 DEF UnusableFeatureIsReported, Reported
  <2>2. CASE UNCHANGED vars
    BY <2>2 DEF UnusableFeatureIsReported, Reported, vars
  <2>3. ASSUME NEW w \in Windows, NEW date \in AsOf, NEW p \in PValues(Frame(w)),
               baseline # None, report' = Report(w, date, p), baseline' = baseline
        PROVE  UnusableFeatureIsReported'
    <3>1. /\ report'.rows = Frame(w)
          /\ report'.drifts = [f \in DOMAIN baseline.profile |->
                                 FeatureDrift(baseline.profile[f], Column(Frame(w), f))]
          /\ report'.quality = QualityChecks(Frame(w))
      BY <2>3, ReportedDrifts
    <3>2. ASSUME NEW f \in DOMAIN baseline.profile, DOMAIN Frame(w) # {},
                 FeatureDrift(baseline.profile[f], Column(Frame(w), f)).usable = 0
          PROVE  /\ FeatureDrift(baseline.profile[f], Column(Frame(w), f)).psi = "nan"
                 /\ LossShows(baseline.profile[f]) => QualityChecks(Frame(w))[f] # {}
      <4> DEFINE q == baseline.profile[f]
      <4> DEFINE c == Column(Frame(w), f)
      <4>1. PICK base : IsColumn(base) /\ q = Profile(base) /\ f \in Features
        BY <2>3, BaselineProfiles
      <4>2. IsColumn(c)
        BY FrameFacts, ColumnFacts
      <4> HIDE DEF q, c
      <4>3. FeatureDrift(q, c).usable = Cardinality(Usable(q, c))
            /\ (Usable(q, c) = {} => FeatureDrift(q, c).psi = "nan")
        BY <4>1, <4>2, DriftCounts
      <4>4. Usable(q, c) = {}
        <5>1. IsFiniteSet(Usable(q, c))
          BY <4>2, PartsOfColumn DEF Usable
        <5> QED
          BY <3>2, <4>3, <5>1, FS_EmptySet DEF q, c
      <4>5. LossShows(q) => QualityIssues(q, c) # {}
        BY <4>1, <4>2, <4>4, LostColumnHasIssue
      <4>6. QualityChecks(Frame(w))[f] = QualityIssues(q, c)
        <5>1. f # "*"
          BY <4>1, WindowAssumption
        <5> QED
          BY <3>2, <5>1 DEF QualityChecks, q, c
      <4> QED
        BY <4>3, <4>4, <4>5, <4>6 DEF q, c
    <3> QED
      BY <2>3, <3>1, <3>2 DEF UnusableFeatureIsReported, Reported, LossShows, Exceeds
  <2> QED
    BY <2>1, <2>2, <2>3, WindowStep
<1> QED
  BY <1>1, <1>2, WindowInvariantHolds, PTL DEF Spec

-----------------------------------------------------------------------------
(* Performance.                                                             *)

\* What is joined is a sample.
LEMMA JoinIsSample ==
  ASSUME WindowInvariant, NEW w, NEW date
  PROVE  LET s == JoinLabels(Frame(w), KnownAsOf(LabelsToFrame(labels), date))
         IN  IsSample(s) /\ DOMAIN s \subseteq Nat
<1> DEFINE K == Known(Frame(w), date)
<1> DEFINE s == [k \in K |-> [y |-> labels[Latest(Frame(w)[k].id)].y, p |-> Frame(w)[k].score]]
<1>1. JoinLabels(Frame(w), KnownAsOf(LabelsToFrame(labels), date)) = s
  BY JoinedLabels
<1>2. K \in SUBSET DOMAIN Frame(w) /\ \A k \in K : \E i \in DOMAIN labels : labels[i].id = Frame(w)[k].id
  BY DEF Known
<1>3. IsFiniteSet(K) /\ K \subseteq Nat
  BY <1>2, FrameFacts, FS_Subset
<1>4. \A k \in K : labels[Latest(Frame(w)[k].id)].y \in {0, 1}
  BY <1>2, LatestFacts
<1>5. \A k \in K : Frame(w)[k].score \in 0 .. Grid
  BY <1>2, FrameFacts DEF Admitted
<1> HIDE DEF K
<1>6. DOMAIN s = K /\ \A k \in K : s[k].y \in {0, 1} /\ s[k].p \in 0 .. Grid
  BY <1>4, <1>5
<1> HIDE DEF s
<1>7. IsSample(s) /\ DOMAIN s \subseteq Nat
  BY <1>3, <1>6 DEF IsSample
<1> QED
  BY <1>1, <1>7

\* The metrics of a sample with both classes meet their definitions.
LEMMA MetricsOfSample ==
  ASSUME NEW s, IsSample(s), DOMAIN s \subseteq Nat, ~OneClass(s)
  PROVE  LET n == Cardinality(Bad(s))
             m == Cardinality(Good(s))
             pairs == Bad(s) \X Good(s)
             Under(rows, x) == Cardinality({k \in rows : s[k].p <= x})
             gaps == {Distance(Under(Bad(s), x) * m, Under(Good(s), x) * n) : x \in 0 .. Grid}
             table == CalibrationTable(s)
             lift == DecileLift(s)
             best == OptimalThresholdByCost(s)
         IN  /\ RocAuc(s)[1] = 2 * Cardinality({q \in pairs : s[q[1]].p > s[q[2]].p})
                                 + Cardinality({q \in pairs : s[q[1]].p = s[q[2]].p})
             /\ KsStatistic(s)[1] = Max(gaps)
             /\ \A t \in Cutoffs : /\ ExpectedCost(s, best) <= ExpectedCost(s, t)
                                   /\ t > best => ExpectedCost(s, best) < ExpectedCost(s, t)
             /\ SumFunction([b \in DOMAIN table |-> table[b].n]) = Size(s)
             /\ SumFunction([b \in DOMAIN table |-> table[b].obs]) = n
             /\ SumFunction([d \in DOMAIN lift |-> lift[d].n]) = Size(s)
             /\ SumFunction([d \in DOMAIN lift |-> lift[d].bad]) = n
             /\ lift[Max(DOMAIN lift)].captured = n
<1> DEFINE pairs == Bad(s) \X Good(s)
<1>1. RocAuc(s)[1] = 2 * Cardinality({q \in pairs : s[q[1]].p > s[q[2]].p})
                      + Cardinality({q \in pairs : s[q[1]].p = s[q[2]].p})
  <2>1. RocAuc(s)[1] = 2 * Cardinality(Concordant(s)) + Cardinality(Tied(s))
    <3>1. RocAuc(s) = <<2 * Cardinality(Concordant(s)) + Cardinality(Tied(s)),
                        2 * Cardinality(Bad(s)) * Cardinality(Good(s))>>
      BY AucIsPairs
    <3> QED
      BY <3>1
  <2> QED
    BY <2>1, Zenon DEF Concordant, Tied, Pairs
<1>2. KsStatistic(s)[1]
        = Max({Distance(Cardinality({k \in Bad(s) : s[k].p <= x}) * Cardinality(Good(s)),
                        Cardinality({k \in Good(s) : s[k].p <= x}) * Cardinality(Bad(s))) : x \in 0 .. Grid})
  BY KsIsWidest, Zenon DEF GapAt, Below
<1>3. \A t \in Cutoffs :
        /\ ExpectedCost(s, OptimalThresholdByCost(s)) <= ExpectedCost(s, t)
        /\ t > OptimalThresholdByCost(s) =>
              ExpectedCost(s, OptimalThresholdByCost(s)) < ExpectedCost(s, t)
  BY CutoffIsCheapest
<1>4. DOMAIN s # {}
  BY DEF OneClass, Bad
<1> QED
  BY <1>1, <1>2, <1>3, <1>4, CalibrationCounts, LiftCounts, Zenon

\* The metrics of a window are by their definitions, for windows of any size.
THEOREM MetricsAreByDefinition == Spec => []MetricsMeetDefinitions
<1>1. Init => MetricsMeetDefinitions
  BY DEF Init, MetricsMeetDefinitions, Reported
<1>2. WindowInvariant /\ MetricsMeetDefinitions /\ [Next]_vars => MetricsMeetDefinitions'
  <2> SUFFICES ASSUME WindowInvariant, MetricsMeetDefinitions, [Next]_vars
               PROVE  MetricsMeetDefinitions'
    OBVIOUS
  <2>1. CASE report' = None
    BY <2>1 DEF MetricsMeetDefinitions, Reported
  <2>2. CASE UNCHANGED vars
    BY <2>2 DEF MetricsMeetDefinitions, Reported, Sampled, vars
  <2>3. ASSUME NEW w \in Windows, NEW date \in AsOf, NEW p \in PValues(Frame(w)),
               report' = Report(w, date, p)
        PROVE  MetricsMeetDefinitions'
    <3> DEFINE known == KnownAsOf(LabelsToFrame(labels), date)
    <3>1. report'.performance = PerformanceCheck(Frame(w), known)
      BY <2>3 DEF Report, Frame
    <3>2. report'.performance.sample = JoinLabels(Frame(w), known)
      BY <3>1, PerformanceFacts
    <3>3. IsSample(JoinLabels(Frame(w), known)) /\ DOMAIN JoinLabels(Frame(w), known) \subseteq Nat
      BY JoinIsSample
    <3>4. IsSample(report'.performance.sample) /\ DOMAIN report'.performance.sample \subseteq Nat
      BY <3>2, <3>3
    <3> QED
      BY <3>4, MetricsOfSample, Zenon DEF MetricsMeetDefinitions, Reported, Sampled
  <2> QED
    BY <2>1, <2>2, <2>3, WindowStep
<1> QED
  BY <1>1, <1>2, WindowInvariantHolds, PTL DEF Spec

-----------------------------------------------------------------------------
(* Fractions, compared by cross-multiplication.                             *)

\* A positive factor keeps the order.
LEMMA Scaled ==
  ASSUME NEW x \in Int, NEW y \in Int, NEW k \in Nat \ {0}
  PROVE  (x <= y <=> x * k <= y * k) /\ (x < y <=> x * k < y * k)
OBVIOUS

\* What follows from two comparisons of fractions.
LEMMA FractionsCompose ==
  ASSUME NEW a \in Int, NEW b \in Nat \ {0}, NEW c \in Int, NEW d \in Nat \ {0},
         NEW e \in Int, NEW f \in Nat \ {0}
  PROVE  /\ a * d <= c * b /\ c * f <= e * d => a * f <= e * b
         /\ a * d < c * b /\ c * f < e * d => a * f < e * b
<1> DEFINE X == a * f
<1> DEFINE Y == e * b
<1> DEFINE P == a * d
<1> DEFINE Q == c * b
<1> DEFINE R == c * f
<1> DEFINE S == e * d
<1>1. X \in Int /\ Y \in Int /\ P \in Int /\ Q \in Int /\ R \in Int /\ S \in Int
  OBVIOUS
<1>2. X * d = P * f /\ Q * f = R * b /\ S * b = Y * d
  OBVIOUS
<1> HIDE DEF X, Y, P, Q, R, S
<1>3. ASSUME P <= Q, R <= S PROVE X <= Y
  <2>1. P * f <= Q * f /\ R * b <= S * b
    BY <1>1, <1>3, Scaled
  <2>2. P * f \in Int /\ Q * f \in Int /\ S * b \in Int
    BY <1>1
  <2>3. X * d <= Y * d
    BY <1>2, <2>1, <2>2
  <2> QED
    BY <1>1, <2>3, Scaled
<1>4. ASSUME P < Q, R < S PROVE X < Y
  <2>1. P * f < Q * f /\ R * b < S * b
    BY <1>1, <1>4, Scaled
  <2>2. P * f \in Int /\ Q * f \in Int /\ S * b \in Int
    BY <1>1
  <2>3. X * d < Y * d
    BY <1>2, <2>1, <2>2
  <2> QED
    BY <1>1, <2>3, Scaled
<1> QED
  BY <1>3, <1>4 DEF X, Y, P, Q, R, S

\* Among finitely many fractions one is least.
LEMMA LeastFraction ==
  ASSUME NEW J, IsFiniteSet(J), J # {}, NEW a \in [J -> Int], NEW b \in [J -> Nat \ {0}]
  PROVE  \E j \in J : \A i \in J : a[j] * b[i] <= a[i] * b[j]
<1> DEFINE Less(j) == {i \in J : a[i] * b[j] < a[j] * b[i]}
<1> DEFINE C == {Less(j) : j \in J}
<1>1. \A j \in J : IsFiniteSet(Less(j))
  <2>1. \A j \in J : Less(j) \in SUBSET J
    OBVIOUS
  <2> HIDE DEF Less
  <2> QED
    BY <2>1, FS_Subset
<1>2. PICK T \in C : \A U \in C : Cardinality(T) <= Cardinality(U)
  <2> HIDE DEF Less
  <2>1. \A T \in C : IsFiniteSet(T)
    BY <1>1
  <2>2. PICK j \in J : TRUE
    OBVIOUS
  <2>3. Less(j) \in C
    BY <2>2
  <2> HIDE DEF C
  <2> QED
    BY <2>1, <2>3, SmallestSet
<1>3. PICK j \in J : T = Less(j)
  BY <1>2
<1>4. ASSUME NEW i \in J, a[i] * b[j] < a[j] * b[i] PROVE FALSE
  <2>1. i \in Less(j) /\ i \notin Less(i)
    <3>1. a[i] * b[i] \in Int
      <4>1. a[i] \in Int /\ b[i] \in Int
        OBVIOUS
      <4> QED
        BY <4>1
    <3> QED
      BY <1>4, <3>1
  <2>2. Less(i) \subseteq Less(j)
    <3> SUFFICES ASSUME NEW h \in J, a[h] * b[i] < a[i] * b[h] PROVE a[h] * b[j] < a[j] * b[h]
      OBVIOUS
    <3>1. /\ a[h] \in Int /\ a[i] \in Int /\ a[j] \in Int
          /\ b[h] \in Nat \ {0} /\ b[i] \in Nat \ {0} /\ b[j] \in Nat \ {0}
      OBVIOUS
    <3> QED
      BY <1>4, <3>1, FractionsCompose
  <2>3. Cardinality(Less(j)) <= Cardinality(Less(i))
    <3>1. Less(i) \in C
      BY <1>4
    <3> HIDE DEF C, Less
    <3> QED
      BY <1>2, <1>3, <3>1
  <2>4. IsFiniteSet(Less(j)) /\ IsFiniteSet(Less(i))
    BY <1>1, <1>4
  <2> HIDE DEF Less
  <2>5. Cardinality(Less(i)) <= Cardinality(Less(j)) /\ Cardinality(Less(i)) # Cardinality(Less(j))
    BY <2>1, <2>2, <2>4, FS_Subset
  <2>6. Cardinality(Less(i)) \in Nat /\ Cardinality(Less(j)) \in Nat
    BY <2>4, FS_CardinalityType
  <2> QED
    BY <2>3, <2>5, <2>6
<1>5. ASSUME NEW i \in J PROVE a[j] * b[i] <= a[i] * b[j]
  <2>1. a[j] \in Int /\ b[i] \in Int /\ a[i] \in Int /\ b[j] \in Int
    OBVIOUS
  <2>2. a[j] * b[i] \in Int /\ a[i] * b[j] \in Int
    BY <2>1
  <2>3. ~(a[i] * b[j] < a[j] * b[i])
    BY <1>4
  <2> QED
    BY <2>2, <2>3
<1> QED
  BY <1>5

-----------------------------------------------------------------------------
(* The p-values in order.                                                   *)

\* Tests whose values can be ordered.
AreTests(p) == IsFiniteSet(Tested(p)) /\ \A f \in Tested(p) : p[f] \in Nat

\* There is an enumeration of the tests in which the p-values ascend.
LEMMA AscendingExists ==
  ASSUME NEW p, AreTests(p)
  PROVE  \E t \in SetToSeqs(Tested(p)) : \A i, j \in DOMAIN t : i <= j => p[t[i]] <= p[t[j]]
<1> DEFINE S == Tested(p)
<1> DEFINE m == Cardinality(S)
<1> DEFINE D == 1 .. m
<1>1. IsFiniteSet(S) /\ m \in Nat /\ \A f \in S : p[f] \in Nat
  BY FS_CardinalityType DEF AreTests
<1>2. IsFiniteSet(D) /\ Cardinality(D) = m
  <2>1. 1 \in Int /\ m \in Int
    BY <1>1
  <2>2. IsFiniteSet(1 .. m) /\ Cardinality(1 .. m) = IF 1 > m THEN 0 ELSE m - 1 + 1
    <3> HIDE DEF m
    <3> QED
      BY <2>1, FS_Interval
  <2> QED
    BY <1>1, <2>2
<1>3. PICK b : b \in Bijection(D, S)
  BY <1>1, FS_CardinalityType DEF ExistsBijection
<1> HIDE DEF S, m
<1> DEFINE number == [f \in S |-> CHOOSE i \in D : b[i] = f]
<1>4. \A f \in S : number[f] \in Int /\ b[number[f]] = f
  BY <1>3 DEF Bijection, Surjection
<1> HIDE DEF number
<1> DEFINE First(g, f) == p[g] < p[f] \/ (p[g] = p[f] /\ number[g] <= number[f])
<1> DEFINE Before(f) == {g \in S : First(g, f)}
<1> DEFINE rank == [f \in S |-> Cardinality(Before(f))]
<1>5. ASSUME NEW f \in S, NEW g \in S PROVE First(f, f) /\ (First(f, g) \/ First(g, f))
  BY <1>1, <1>4
<1>6. ASSUME NEW f \in S, NEW g \in S, NEW h \in S, First(f, g), First(g, h) PROVE First(f, h)
  <2>1. /\ p[f] \in Nat /\ p[g] \in Nat /\ p[h] \in Nat
        /\ number[f] \in Int /\ number[g] \in Int /\ number[h] \in Int
    BY <1>1, <1>4
  <2> QED
    BY <1>6, <2>1
<1>7. ASSUME NEW f \in S, NEW g \in S, First(f, g), First(g, f) PROVE f = g
  <2>1. p[f] \in Nat /\ p[g] \in Nat /\ number[f] \in Int /\ number[g] \in Int
    BY <1>1, <1>4
  <2>2. number[f] = number[g]
    BY <1>7, <2>1
  <2> QED
    BY <1>4, <2>2
<1>8. \A f, g \in S : p[f] < p[g] => ~First(g, f)
  BY <1>1
<1> HIDE DEF First
<1>9. \A f \in S : Before(f) \in SUBSET S /\ IsFiniteSet(Before(f)) /\ f \in Before(f)
  <2>1. \A f \in S : Before(f) \in SUBSET S /\ f \in Before(f)
    BY <1>5
  <2> HIDE DEF Before
  <2> QED
    BY <1>1, <2>1, FS_Subset
<1>10. ASSUME NEW f \in S PROVE rank[f] \in D
  <2> HIDE DEF Before
  <2>1. Cardinality(Before(f)) \in Nat /\ Cardinality(Before(f)) <= m /\ Cardinality(Before(f)) # 0
    BY <1>1, <1>9, FS_Subset, FS_CardinalityType, FS_EmptySet DEF m
  <2> QED
    BY <1>1, <2>1
<1>11. ASSUME NEW f \in S, NEW g \in S, ~First(g, f) PROVE rank[f] < rank[g]
  <2>1. Before(f) \subseteq Before(g)
    BY <1>5, <1>6, <1>11
  <2>2. g \in Before(g) /\ g \notin Before(f)
    BY <1>5, <1>11
  <2> HIDE DEF Before
  <2>3. Cardinality(Before(f)) <= Cardinality(Before(g)) /\ Cardinality(Before(f)) # Cardinality(Before(g))
    BY <1>9, <2>1, <2>2, FS_Subset
  <2>4. Cardinality(Before(f)) \in Nat /\ Cardinality(Before(g)) \in Nat
    BY <1>9, FS_CardinalityType
  <2> QED
    BY <2>3, <2>4
<1> HIDE DEF rank
<1>12. rank \in Injection(S, D)
  <2>1. rank \in [S -> D]
    BY <1>10 DEF rank
  <2>2. \A f, g \in S : rank[f] = rank[g] => f = g
    <3> SUFFICES ASSUME NEW f \in S, NEW g \in S, f # g PROVE rank[f] # rank[g]
      OBVIOUS
    <3>1. ~First(f, g) \/ ~First(g, f)
      BY <1>7
    <3>2. rank[f] < rank[g] \/ rank[g] < rank[f]
      BY <1>11, <3>1
    <3>3. rank[f] \in Int /\ rank[g] \in Int
      BY <1>10
    <3> QED
      BY <3>2, <3>3
  <2> QED
    BY <2>1, <2>2 DEF Injection, IsInjective
<1>13. \A i \in D : \E f \in S : rank[f] = i
  <2>1. rank \in Surjection(S, D)
    BY <1>2, <1>12, FS_Injection DEF m
  <2> QED
    BY <2>1 DEF Surjection
<1> DEFINE t == [i \in D |-> CHOOSE f \in S : rank[f] = i]
<1>14. \A i \in D : t[i] \in S /\ rank[t[i]] = i
  BY <1>13
<1>15. t \in SetToSeqs(S)
  <2>1. t \in [D -> S]
    BY <1>13
  <2>2. \A i, j \in D : i # j => t[i] # t[j]
    BY <1>14
  <2> HIDE DEF t
  <2> QED
    BY <2>1, <2>2 DEF SetToSeqs, m
<1>16. ASSUME NEW i \in D, NEW j \in D, i <= j PROVE p[t[i]] <= p[t[j]]
  <2>1. /\ t[i] \in S /\ t[j] \in S /\ rank[t[i]] = i /\ rank[t[j]] = j
        /\ p[t[i]] \in Nat /\ p[t[j]] \in Nat
    BY <1>1, <1>14
  <2>2. p[t[j]] < p[t[i]] => j < i
    <3> HIDE DEF t
    <3> QED
      BY <1>8, <1>11, <2>1
  <2> HIDE DEF t
  <2> QED
    BY <1>16, <2>1, <2>2
<1>17. DOMAIN t = D
  OBVIOUS
<1> HIDE DEF t
<1> QED
  BY <1>15, <1>16, <1>17 DEF S

\* What Ordered returns.
LEMMA OrderedFacts ==
  ASSUME NEW p, AreTests(p)
  PROVE  LET t == Ordered(p)
             m == Cardinality(Tested(p))
         IN  /\ m \in Nat /\ Len(t) = m /\ DOMAIN t = 1 .. m
             /\ \A i \in 1 .. m : t[i] \in Tested(p)
             /\ \A i, j \in 1 .. m : t[i] = t[j] => i = j
             /\ \A f \in Tested(p) : \E i \in 1 .. m : t[i] = f
             /\ \A i, j \in 1 .. m : i <= j => p[t[i]] <= p[t[j]]
<1> DEFINE S == Tested(p)
<1> DEFINE m == Cardinality(S)
<1> DEFINE t == Ordered(p)
<1>1. IsFiniteSet(S) /\ m \in Nat
  BY FS_CardinalityType DEF AreTests
<1>2. t \in SetToSeqs(S) /\ \A i, j \in DOMAIN t : i <= j => p[t[i]] <= p[t[j]]
  BY AscendingExists DEF Ordered
<1> HIDE DEF t
<1>3. t \in [1 .. m -> S] /\ \A i, j \in 1 .. m : i # j => t[i] # t[j]
  BY <1>2 DEF SetToSeqs
<1>4. Len(t) = m
  <2> HIDE DEF m, S
  <2>1. t \in Seq(S) /\ DOMAIN t = 1 .. m
    BY <1>1, <1>3
  <2> QED
    BY <1>1, <2>1
<1>5. \A f \in S : \E i \in 1 .. m : t[i] = f
  <2>1. t \in Injection(1 .. m, S)
    BY <1>3 DEF Injection, IsInjective
  <2>2. Cardinality(1 .. m) = m
    <3>1. 1 \in Int /\ m \in Int
      BY <1>1
    <3>2. Cardinality(1 .. m) = IF 1 > m THEN 0 ELSE m - 1 + 1
      <4> HIDE DEF m
      <4> QED
        BY <3>1, FS_Interval
    <3> QED
      BY <1>1, <3>2
  <2>3. t \in Surjection(1 .. m, S)
    <3> HIDE DEF S
    <3> QED
      BY <1>1, <2>1, <2>2, FS_Injection
  <2> QED
    BY <2>3 DEF Surjection
<1> QED
  BY <1>1, <1>2, <1>3, <1>4, <1>5 DEF t

\* How many tests have a p-value of at most p[f].
NotAbove(p, f) == Cardinality({g \in Tested(p) : p[g] <= p[f]})

\* They are the first in the order, and the last of them has the value p[f].
LEMMA FirstInOrder ==
  ASSUME NEW p, AreTests(p), NEW f \in Tested(p)
  PROVE  LET t == Ordered(p)
             m == Cardinality(Tested(p))
         IN  \E k \in 1 .. m : /\ NotAbove(p, f) = k /\ p[t[k]] = p[f]
                               /\ \A i \in 1 .. m : p[t[i]] <= p[f] <=> i <= k
<1> DEFINE S == Tested(p)
<1> DEFINE m == Cardinality(S)
<1> DEFINE t == Ordered(p)
<1>1. IsFiniteSet(S) /\ \A g \in S : p[g] \in Nat
  BY DEF AreTests
<1>2. /\ m \in Nat
      /\ \A i \in 1 .. m : t[i] \in S
      /\ \A i, j \in 1 .. m : t[i] = t[j] => i = j
      /\ \A g \in S : \E i \in 1 .. m : t[i] = g
      /\ \A i, j \in 1 .. m : i <= j => p[t[i]] <= p[t[j]]
  BY OrderedFacts
<1> HIDE DEF S, m, t
<1>3. f \in S
  BY DEF S
<1> DEFINE I == {i \in 1 .. m : p[t[i]] <= p[f]}
<1>4. I \in SUBSET (1 .. m) /\ I \in SUBSET Int
  BY <1>2
<1>5. PICK i0 \in I : t[i0] = f
  BY <1>1, <1>2, <1>3
<1>6. IsFiniteSet(I)
  <2>1. 1 \in Int /\ m \in Int
    BY <1>2
  <2>2. IsFiniteSet(1 .. m)
    BY <2>1, FS_Interval
  <2> QED
    BY <1>4, <2>2, FS_Subset
<1>7. PICK k \in I : \A i \in I : i <= k
  <2> HIDE DEF I
  <2> QED
    BY <1>4, <1>5, <1>6, GreatestElement
<1>8. k \in 1 .. m /\ \A i \in 1 .. m : p[t[i]] <= p[f] <=> i <= k
  <2>1. k \in 1 .. m /\ p[t[k]] <= p[f] /\ \A i \in 1 .. m : p[t[i]] <= p[f] => i <= k
    BY <1>7
  <2>2. ASSUME NEW i \in 1 .. m, i <= k PROVE p[t[i]] <= p[f]
    <3>1. p[t[i]] <= p[t[k]]
      BY <1>2, <2>1, <2>2
    <3>2. p[t[i]] \in Nat /\ p[t[k]] \in Nat /\ p[f] \in Nat
      BY <1>1, <1>2, <1>3, <2>1
    <3> QED
      BY <2>1, <3>1, <3>2
  <2> QED
    BY <2>1, <2>2
<1>9. p[t[k]] = p[f]
  <2>1. i0 \in 1 .. m /\ i0 <= k
    BY <1>4, <1>5, <1>7
  <2>2. p[t[i0]] <= p[t[k]] /\ p[t[k]] <= p[f]
    BY <1>2, <1>7, <1>8, <2>1
  <2>3. p[t[k]] \in Nat /\ p[f] \in Nat
    BY <1>1, <1>2, <1>3, <1>8
  <2> QED
    BY <1>5, <2>2, <2>3
<1>10. NotAbove(p, f) = k
  <2> DEFINE N == {g \in S : p[g] <= p[f]}
  <2> DEFINE u == [i \in 1 .. k |-> t[i]]
  <2>1. k \in 1 .. m /\ k \in Nat /\ \A i \in 1 .. k : i \in 1 .. m /\ i <= k
    BY <1>2, <1>8
  <2>2. u \in [1 .. k -> N]
    BY <1>2, <1>8, <2>1
  <2>3. \A i, j \in 1 .. k : u[i] = u[j] => i = j
    BY <1>2, <2>1
  <2>4. ASSUME NEW g \in N PROVE \E i \in 1 .. k : u[i] = g
    <3>1. PICK i \in 1 .. m : t[i] = g
      BY <1>2
    <3>2. i <= k
      BY <1>8, <3>1
    <3> QED
      BY <2>1, <3>1, <3>2
  <2>5. IsFiniteSet(1 .. k) /\ Cardinality(1 .. k) = IF 1 > k THEN 0 ELSE k - 1 + 1
    <3>1. 1 \in Int /\ k \in Int
      BY <2>1
    <3> QED
      BY <3>1, FS_Interval
  <2>6. Cardinality(1 .. k) = k
    BY <2>1, <2>5
  <2>7. Cardinality(N) = Cardinality(1 .. k)
    <3> HIDE DEF N, u
    <3> QED
      BY <2>2, <2>3, <2>4, <2>5, OneToOne
  <2> QED
    BY <2>6, <2>7 DEF NotAbove, S
<1> QED
  BY <1>8, <1>9, <1>10 DEF m, t, S

\* Some test from the k-th on is small enough for its place exactly when some test
\* not below the k-th is small enough for how many are not above it.
LEMMA StepUpByPlace ==
  ASSUME NEW p, AreTests(p), NEW k \in 1 .. Cardinality(Tested(p)), NEW level \in Nat
  PROVE  LET t == Ordered(p)
             m == Cardinality(Tested(p))
         IN  (\E j \in k .. m : p[t[j]] * m <= j * level)
               <=> \E g \in Tested(p) : p[t[k]] <= p[g] /\ p[g] * m <= NotAbove(p, g) * level
<1> DEFINE S == Tested(p)
<1> DEFINE m == Cardinality(S)
<1> DEFINE t == Ordered(p)
<1>1. \A g \in S : p[g] \in Nat
  BY DEF AreTests
<1>2. /\ m \in Nat
      /\ \A i \in 1 .. m : t[i] \in S
      /\ \A i, j \in 1 .. m : i <= j => p[t[i]] <= p[t[j]]
  BY OrderedFacts
<1>3. \A g \in S : \E i \in 1 .. m : /\ NotAbove(p, g) = i /\ p[t[i]] = p[g]
                                     /\ \A h \in 1 .. m : p[t[h]] <= p[g] <=> h <= i
  BY FirstInOrder
<1>4. k \in 1 .. m
  OBVIOUS
<1> HIDE DEF S, m, t
<1>5. ASSUME NEW j \in k .. m, p[t[j]] * m <= j * level
      PROVE  \E g \in S : p[t[k]] <= p[g] /\ p[g] * m <= NotAbove(p, g) * level
  <2>1. j \in 1 .. m /\ t[j] \in S /\ p[t[k]] <= p[t[j]] /\ p[t[j]] \in Nat
    BY <1>1, <1>2, <1>4
  <2>2. PICK i \in 1 .. m : NotAbove(p, t[j]) = i /\ \A h \in 1 .. m : p[t[h]] <= p[t[j]] <=> h <= i
    BY <1>3, <2>1
  <2>3. j <= i
    BY <2>1, <2>2
  <2>4. j * level <= i * level
    BY <1>2, <2>1, <2>2, <2>3
  <2>5. p[t[j]] * m \in Int /\ j * level \in Int /\ i * level \in Int
    BY <1>2, <2>1, <2>2
  <2>6. p[t[j]] * m <= NotAbove(p, t[j]) * level
    BY <1>5, <2>2, <2>4, <2>5
  <2> QED
    BY <2>1, <2>6
<1>6. ASSUME NEW g \in S, p[t[k]] <= p[g], p[g] * m <= NotAbove(p, g) * level
      PROVE  \E j \in k .. m : p[t[j]] * m <= j * level
  <2>1. PICK i \in 1 .. m : /\ NotAbove(p, g) = i /\ p[t[i]] = p[g]
                            /\ \A h \in 1 .. m : p[t[h]] <= p[g] <=> h <= i
    BY <1>3
  <2>2. k <= i
    BY <1>4, <1>6, <2>1
  <2>3. i \in k .. m /\ p[t[i]] * m <= i * level
    BY <1>2, <1>4, <1>6, <2>1, <2>2
  <2> QED
    BY <2>3
<1> QED
  BY <1>5, <1>6 DEF S, m, t

\* The adjusted value of a test is at most a level exactly when the step-up rule
\* rejects it at that level.
LEMMA AdjustedByStepUp ==
  ASSUME NEW p, AreTests(p), NEW f \in Tested(p), NEW level \in 0 .. PScale
  PROVE  LET x == BenjaminiHochberg(p, f)
             m == Cardinality(Tested(p))
         IN  x[1] * PScale <= level * x[2]
               <=> (level = PScale \/ \E g \in Tested(p) :
                                        p[f] <= p[g] /\ p[g] * m <= NotAbove(p, g) * level)
<1> DEFINE S == Tested(p)
<1> DEFINE m == Cardinality(S)
<1> DEFINE t == Ordered(p)
<1> DEFINE k == CHOOSE i \in DOMAIN t : t[i] = f
<1> DEFINE Ranked(j) == <<Smaller(p[t[j]] * Len(t), j * PScale), j * PScale>>
<1> DEFINE J == k .. Len(t)
<1> DEFINE Least(x) == \A j \in J : x[1] * Ranked(j)[2] <= Ranked(j)[1] * x[2]
<1> DEFINE x == BenjaminiHochberg(p, f)
<1>1. /\ m \in Nat /\ Len(t) = m /\ DOMAIN t = 1 .. m
      /\ \A i \in 1 .. m : t[i] \in S
      /\ \E i \in 1 .. m : t[i] = f
      /\ \A g \in S : p[g] \in Nat
  BY OrderedFacts DEF AreTests
<1>2. x = CHOOSE y \in {Ranked(j) : j \in J} : Least(y)
  BY DEF BenjaminiHochberg
<1>3. (\E j \in k .. m : p[t[j]] * m <= j * level)
        <=> \E g \in S : p[f] <= p[g] /\ p[g] * m <= NotAbove(p, g) * level
  <2>1. k \in 1 .. m /\ t[k] = f
    BY <1>1
  <2> HIDE DEF k
  <2> QED
    BY <2>1, StepUpByPlace
<1>4. k \in 1 .. m
  BY <1>1
<1> HIDE DEF S, m, t, k, x
<1>5. PScale \in Nat \ {0}
  BY MeasureAssumption
<1>6. J = k .. m /\ IsFiniteSet(J) /\ J # {} /\ \A j \in J : j \in 1 .. m
  <2>1. k \in Int /\ m \in Int
    BY <1>1, <1>4
  <2> QED
    BY <1>1, <1>4, <2>1, FS_Interval
<1> DEFINE a == [j \in J |-> Ranked(j)[1]]
<1> DEFINE b == [j \in J |-> Ranked(j)[2]]
<1>7. \A j \in J : /\ a[j] = Smaller(p[t[j]] * m, j * PScale) /\ b[j] = j * PScale
                   /\ Ranked(j)[1] = a[j] /\ Ranked(j)[2] = b[j]
  BY <1>1
<1>8. ASSUME NEW j \in J
      PROVE  /\ a[j] \in Int /\ b[j] \in Nat \ {0}
             /\ a[j] * PScale <= level * b[j] <=> (level = PScale \/ p[t[j]] * m <= j * level)
  <2> DEFINE q == p[t[j]] * m
  <2>1. j \in Nat \ {0} /\ p[t[j]] \in Nat /\ level \in Nat /\ level <= PScale
    BY <1>1, <1>5, <1>6
  <2>2. q \in Nat /\ j * PScale \in Nat \ {0} /\ j * level \in Nat
    BY <1>1, <1>5, <2>1
  <2>3. a[j] = Smaller(q, j * PScale) /\ b[j] = j * PScale
    BY <1>7
  <2> HIDE DEF q, J
  <2>4. level * (j * PScale) = (j * level) * PScale
    BY <1>5, <2>1
  <2>5. j * PScale <= j * level <=> level = PScale
    <3>1. PScale <= level <=> PScale * j <= level * j
      BY <1>5, <2>1, Scaled
    <3> QED
      BY <1>5, <2>1, <3>1
  <2>6. Smaller(q, j * PScale) \in Int
        /\ (Smaller(q, j * PScale) <= j * level <=> (q <= j * level \/ j * PScale <= j * level))
    <3> DEFINE u == j * PScale
    <3> DEFINE v == j * level
    <3>1. u \in Nat /\ v \in Nat
      BY <2>2
    <3> HIDE DEF u, v
    <3>2. Smaller(q, u) \in Int /\ (Smaller(q, u) <= v <=> (q <= v \/ u <= v))
      BY <2>2, <3>1 DEF Smaller
    <3> QED
      BY <3>2 DEF u, v
  <2>7. Smaller(q, j * PScale) * PScale <= (j * level) * PScale <=> Smaller(q, j * PScale) <= j * level
    BY <1>5, <2>2, <2>6, Scaled
  <2> HIDE DEF a, b
  <2>8. a[j] \in Int /\ b[j] \in Nat \ {0}
    BY <2>2, <2>3, <2>6
  <2>9. a[j] * PScale <= level * b[j] <=> (level = PScale \/ q <= j * level)
    BY <2>3, <2>4, <2>5, <2>6, <2>7
  <2> QED
    BY <2>8, <2>9 DEF q
<1>9. a \in [J -> Int] /\ b \in [J -> Nat \ {0}]
  BY <1>8
<1>10. \A j \in J : Least(Ranked(j)) <=> \A i \in J : a[j] * b[i] <= a[i] * b[j]
  <2> HIDE DEF J, Ranked, a, b
  <2> QED
    BY <1>7
<1> HIDE DEF J, Ranked, a, b
<1>11. PICK j0 \in J : \A i \in J : a[j0] * b[i] <= a[i] * b[j0]
  BY <1>6, <1>9, LeastFraction
<1>12. PICK j \in J : x = Ranked(j) /\ Least(Ranked(j))
  <2>1. Ranked(j0) \in {Ranked(i) : i \in J} /\ Least(Ranked(j0))
    BY <1>10, <1>11
  <2> HIDE DEF Least
  <2> QED
    BY <1>2, <2>1
<1>13. x[1] = a[j] /\ x[2] = b[j] /\ \A i \in J : a[j] * b[i] <= a[i] * b[j]
  <2>1. \A i \in J : a[j] * b[i] <= a[i] * b[j]
    BY <1>10, <1>12
  <2> HIDE DEF Least
  <2> QED
    BY <1>7, <1>12, <2>1
<1>14. a[j] * PScale <= level * b[j]
         <=> \E i \in J : a[i] * PScale <= level * b[i]
  <2>1. ASSUME NEW i \in J, a[i] * PScale <= level * b[i] PROVE a[j] * PScale <= level * b[j]
    <3>1. /\ a[j] \in Int /\ b[j] \in Nat \ {0} /\ a[i] \in Int /\ b[i] \in Nat \ {0}
          /\ level \in Int
      BY <1>8
    <3>2. a[j] * b[i] <= a[i] * b[j]
      BY <1>13
    <3> QED
      BY <1>5, <2>1, <3>1, <3>2, FractionsCompose
  <2> QED
    BY <2>1
<1>15. (\E i \in J : a[i] * PScale <= level * b[i])
         <=> (level = PScale \/ \E i \in J : p[t[i]] * m <= i * level)
  BY <1>6, <1>8
<1>16. x[1] * PScale <= level * x[2]
         <=> (level = PScale \/ \E i \in k .. m : p[t[i]] * m <= i * level)
  BY <1>6, <1>13, <1>14, <1>15
<1> QED
  BY <1>3, <1>16 DEF S, m, x

\* The p-values of a report, one for each test that was done, can be ordered.
LEMMA ReportedTests ==
  ASSUME WindowInvariant, baseline # None, NEW w \in Windows, NEW date, NEW p \in PValues(Frame(w))
  PROVE  LET r == Report(w, date, p)
         IN  /\ AreTests(r.tests)
             /\ r.adjusted = [f \in Tested(r.tests) |-> BenjaminiHochberg(r.tests, f)]
<1> DEFINE P == DOMAIN baseline.profile
<1> DEFINE Is(f) == FeatureDrift(baseline.profile[f], Column(Frame(w), f)).tested
<1> DEFINE tests == [f \in P |-> IF Is(f) THEN p[f] ELSE NaN]
<1>1. /\ Report(w, date, p).tests = tests
      /\ Report(w, date, p).adjusted = [f \in Tested(tests) |-> BenjaminiHochberg(tests, f)]
  <2> DEFINE drifts == Drifts(Frame(w), p)
  <2>1. [f \in DOMAIN drifts |-> drifts[f].p] = tests
    BY DEF Drifts
  <2>2. /\ Report(w, date, p).tests = [f \in DOMAIN drifts |-> drifts[f].p]
        /\ Report(w, date, p).adjusted
             = [f \in Tested([g \in DOMAIN drifts |-> drifts[g].p]) |->
                  BenjaminiHochberg([g \in DOMAIN drifts |-> drifts[g].p], f)]
    BY DEF Report, Frame
  <2> HIDE DEF drifts, tests
  <2> QED
    BY <2>1, <2>2
<1>2. P \in SUBSET Features
  BY BaselineProfiles
<1>3. p \in [Features -> 0 .. PScale] /\ PScale \in Nat
  BY TestAssumption, MeasureAssumption DEF WindowInvariant, Frame
<1> HIDE DEF Is, P
<1>4. Tested(tests) \in SUBSET Features /\ \A f \in Tested(tests) : tests[f] = p[f]
  BY <1>2 DEF Tested
<1>5. IsFiniteSet(Tested(tests))
  <2> HIDE DEF tests
  <2> QED
    BY <1>4, FS_Subset, MeasureAssumption
<1>6. AreTests(tests)
  <2> HIDE DEF tests
  <2> QED
    BY <1>3, <1>4, <1>5 DEF AreTests
<1> HIDE DEF tests
<1> QED
  BY <1>1, <1>6

\* At every level the adjusted p-values of a report reject what the step-up rule
\* rejects, for any number of tests and any p-values.
THEOREM AdjustmentIsStepUp == Spec => []AdjustedIsStepUp
<1>1. Init => AdjustedIsStepUp
  BY DEF Init, AdjustedIsStepUp, Reported
<1>2. WindowInvariant /\ AdjustedIsStepUp /\ [Next]_vars => AdjustedIsStepUp'
  <2> SUFFICES ASSUME WindowInvariant, AdjustedIsStepUp, [Next]_vars
               PROVE  AdjustedIsStepUp'
    OBVIOUS
  <2>1. CASE report' = None
    BY <2>1 DEF AdjustedIsStepUp, Reported
  <2>2. CASE UNCHANGED vars
    BY <2>2 DEF AdjustedIsStepUp, Reported, vars
  <2>3. ASSUME NEW w \in Windows, NEW date \in AsOf, NEW p \in PValues(Frame(w)),
               baseline # None, report' = Report(w, date, p)
        PROVE  AdjustedIsStepUp'
    <3> DEFINE q == report'.tests
    <3>1. /\ AreTests(q)
          /\ report'.adjusted = [f \in Tested(q) |-> BenjaminiHochberg(q, f)]
      BY <2>3, ReportedTests
    <3>2. ASSUME NEW level \in 0 .. PScale, NEW f \in Tested(q)
          PROVE  report'.adjusted[f][1] * PScale <= level * report'.adjusted[f][2]
                   <=> (level = PScale \/ \E g \in Tested(q) :
                          q[f] <= q[g] /\ q[g] * Cardinality(Tested(q))
                            <= Cardinality({h \in Tested(q) : q[h] <= q[g]}) * level)
      <4>1. report'.adjusted[f] = BenjaminiHochberg(q, f)
        BY <3>1
      <4> HIDE DEF q
      <4> QED
        BY <3>1, <4>1, AdjustedByStepUp, Zenon DEF NotAbove
    <3> QED
      BY <3>2, Zenon DEF AdjustedIsStepUp
  <2> QED
    BY <2>1, <2>2, <2>3, WindowStep
<1> QED
  BY <1>1, <1>2, WindowInvariantHolds, PTL DEF Spec
=============================================================================
