----------------------- MODULE HoldoutEvidenceProofs ------------------------
(***************************************************************************)
(* Theorems of HoldoutEvidence for any snapshots, splits, models, policies *)
(* and number of training runs and versions.                               *)
(***************************************************************************)
EXTENDS HoldoutEvidence, ScoreMetricsProofs

\* A version is of a finished run.
LEMMA VersionRun ==
  ASSUME EvidenceInvariant, NEW v \in DOMAIN versions
  PROVE  versions[v].run \in Runs /\ run[versions[v].run].status = "finished"
<1>1. versions[v] \in VersionRecord
  BY DEF EvidenceInvariant
<1> QED
  BY <1>1 DEF EvidenceInvariant, VersionRecord

\* The manifest of the current data and split is a manifest.
LEMMA ManifestIsOne == EvidenceInvariant => Current \in Manifests
BY DEF EvidenceInvariant, Current, Manifests

\* Evidence that verifies is the manifest of what the run was fitted on, and
\* the one of the data and the split of the command.
LEMMA VerifiedMeans ==
  ASSUME EvidenceInvariant, NEW r \in Runs, run[r].status # "none", VerifiedHoldout(r, Current)
  PROVE  run[r].fit = Current /\ run[r].fit.train \cap TestIds(data, split) = {}
<1>1. run[r].tag = run[r].fit /\ run[r].artifact = run[r].fit /\ run[r].fit \in Manifests
  BY DEF EvidenceInvariant, VerifiedHoldout
<1>2. /\ run[r].fit.data = Current.data /\ run[r].fit.train = Current.train
      /\ run[r].fit.test = Current.test /\ run[r].fit.train \cap run[r].fit.test = {}
  BY <1>1 DEF VerifiedHoldout, Agrees
<1>3. PICK d \in Snapshots, c \in Splits : run[r].fit = Manifest(d, c)
  BY <1>1 DEF Manifests
<1>4. run[r].fit = Current
  BY <1>2, <1>3 DEF Manifest, Current
<1> QED
  BY <1>2, <1>4 DEF Manifest, Current

\* Whatever passes the check was fitted on the current data and split.
LEMMA ScorableMeans ==
  ASSUME EvidenceInvariant, NEW arms \in SUBSET DOMAIN versions, Scorable(arms)
  PROVE  \A v \in arms : /\ run[versions[v].run].fit = Current
                         /\ run[versions[v].run].fit.train \cap TestIds(data, split) = {}
<1> SUFFICES ASSUME NEW v \in arms
             PROVE  /\ run[versions[v].run].fit = Current
                    /\ run[versions[v].run].fit.train \cap TestIds(data, split) = {}
  OBVIOUS
<1>1. versions[v].run \in Runs /\ run[versions[v].run].status # "none"
  BY VersionRun
<1> QED
  BY <1>1, VerifiedMeans DEF Scorable

\* A step of a run or of the world that judges nothing.
LEMMA RunStepKeeps ==
  ASSUME EvidenceInvariant, NEW r \in Runs, NEW x \in RunRecord,
         run' = [run EXCEPT ![r] = x], judged' = NothingJudged,
         UNCHANGED <<data, split, versions, champion>>,
         x.status # "none" /\ x.fit \in Manifests /\ x.tag \in {None, x.fit},
         x.status = "finished" => x.model \in Models(x.fit.train),
         run[r].status = "finished" => x.status = "finished"
  PROVE  EvidenceInvariant'
<1>1. run' \in [Runs -> RunRecord] /\ versions' \in Seq(VersionRecord)
  BY DEF EvidenceInvariant
<1>2. \A q \in Runs : run'[q].status # "none" =>
        run'[q].fit \in Manifests /\ run'[q].tag \in {None, run'[q].fit}
  BY DEF EvidenceInvariant
<1>3. \A v \in DOMAIN versions' : run'[versions'[v].run].status = "finished"
  BY VersionRun DEF EvidenceInvariant
<1>4. \A q \in Runs : run'[q].status = "finished" => run'[q].model \in Models(run'[q].fit.train)
  BY DEF EvidenceInvariant
<1> QED
  BY <1>1, <1>2, <1>3, <1>4 DEF EvidenceInvariant, NothingJudged, UntouchedHoldout

\* Each step keeps the invariant; an altered manifest no longer has its digest.
LEMMA EvidenceStep ==
  ASSUME EvidenceInvariant, [Next]_vars
  PROVE  EvidenceInvariant'
<1>0. \A r \in Runs : run[r] \in RunRecord
  BY DEF EvidenceInvariant
<1>1. ASSUME ChangeData \/ ChangeSplit PROVE EvidenceInvariant'
  BY <1>1 DEF ChangeData, ChangeSplit, EvidenceInvariant, NothingJudged, UntouchedHoldout
<1>2. ASSUME NEW r \in Runs, Alter(r) PROVE EvidenceInvariant'
  <2> DEFINE x == [run[r] EXCEPT !.artifact = Current]
  <2>1. /\ x \in RunRecord /\ x.status = run[r].status /\ x.fit = run[r].fit
        /\ x.tag = run[r].tag /\ x.model = run[r].model
    BY <1>0, ManifestIsOne DEF RunRecord
  <2>2. run' \in [Runs -> RunRecord]
    BY <1>2, <2>1 DEF Alter, EvidenceInvariant
  <2>3. \A q \in Runs : /\ run'[q].status = run[q].status /\ run'[q].fit = run[q].fit
                         /\ run'[q].tag = run[q].tag /\ run'[q].model = run[q].model
    BY <1>2, <2>1 DEF Alter, EvidenceInvariant
  <2>4. \A v \in DOMAIN versions : run'[versions[v].run].status = "finished"
    BY <2>3, VersionRun
  <2> QED
    BY <1>2, <2>2, <2>3, <2>4 DEF Alter, EvidenceInvariant, NothingJudged, UntouchedHoldout
<1>3. ASSUME NEW r \in Runs, NEW recorded \in BOOLEAN, StartRun(r, recorded)
      PROVE  EvidenceInvariant'
  <2> DEFINE x == [[[NoRun EXCEPT !.status = "started"] EXCEPT !.fit = Current]
                      EXCEPT !.tag = Unless(recorded, Current)]
  <2>1. NoRun \in RunRecord
    BY DEF NoRun, RunRecord
  <2>2. [NoRun EXCEPT !.status = "started"] \in RunRecord
    BY <2>1 DEF RunRecord
  <2>3. [[NoRun EXCEPT !.status = "started"] EXCEPT !.fit = Current] \in RunRecord
    BY <2>2, ManifestIsOne DEF RunRecord
  <2>4. Unless(recorded, Current) \in {None, Current}
    BY DEF Unless
  <2>5. x \in RunRecord
    BY <2>3, <2>4, ManifestIsOne DEF RunRecord
  <2>6. x.status = "started" /\ x.fit = Current /\ x.tag = Unless(recorded, Current)
    BY DEF NoRun
  <2> QED
    BY <1>3, <2>4, <2>5, <2>6, ManifestIsOne, RunStepKeeps DEF StartRun
<1>4. ASSUME NEW r \in Runs, LogEvidence(r) PROVE EvidenceInvariant'
  <2> DEFINE x == [[run[r] EXCEPT !.status = "evaluated"]
                      EXCEPT !.artifact = Unless(run[r].tag # None, run[r].fit)]
  <2>1. run[r].fit \in Manifests /\ run[r].tag \in {None, run[r].fit}
    BY <1>4 DEF LogEvidence, EvidenceInvariant
  <2>2. /\ x.status = "evaluated" /\ x.fit = run[r].fit /\ x.tag = run[r].tag /\ x \in RunRecord
    <3>1. Unless(run[r].tag # None, run[r].fit) \in Manifests \cup {None}
      BY <2>1 DEF Unless
    <3>2. [run[r] EXCEPT !.status = "evaluated"] \in RunRecord
      BY <1>0 DEF RunRecord
    <3>3. x \in RunRecord
      BY <3>1, <3>2 DEF RunRecord
    <3> QED
      BY <1>0, <3>3 DEF RunRecord
  <2>3. run' = [run EXCEPT ![r] = x]
    BY <1>4 DEF LogEvidence, EvidenceInvariant
  <2> QED
    BY <1>4, <2>1, <2>2, <2>3, RunStepKeeps DEF LogEvidence
<1>5. ASSUME NEW r \in Runs, LogModel(r) PROVE EvidenceInvariant'
  <2>1. run[r].fit \in Manifests /\ run[r].tag \in {None, run[r].fit}
    BY <1>5 DEF LogModel, EvidenceInvariant
  <2>2. PICK m \in Models(run[r].fit.train) :
          run' = [run EXCEPT ![r].status = "finished", ![r].model = m]
    BY <1>5 DEF LogModel
  <2> DEFINE x == [[run[r] EXCEPT !.status = "finished"] EXCEPT !.model = m]
  <2>3. m \in UNION {Models(n.train) : n \in Manifests}
    BY <2>1
  <2>4. /\ x.status = "finished" /\ x.fit = run[r].fit /\ x.tag = run[r].tag /\ x.model = m
        /\ x \in RunRecord
    <3>1. [run[r] EXCEPT !.status = "finished"] \in RunRecord
      BY <1>0 DEF RunRecord
    <3>2. x \in RunRecord
      BY <2>3, <3>1 DEF RunRecord
    <3> QED
      BY <1>0, <3>2 DEF RunRecord
  <2>5. run' = [run EXCEPT ![r] = x]
    BY <2>2 DEF EvidenceInvariant
  <2> QED
    BY <1>5, <2>1, <2>4, <2>5, RunStepKeeps DEF LogModel
<1>6. ASSUME NEW r \in Runs, NEW d \in Snapshots \cup {None}, Register(r, d)
      PROVE  EvidenceInvariant'
  <2> DEFINE new == [run |-> r, fingerprint |-> d]
  <2>1. versions' = Append(versions, new) /\ new \in VersionRecord /\ versions \in Seq(VersionRecord)
    BY <1>6 DEF Register, EvidenceInvariant, VersionRecord
  <2>2. versions' \in Seq(VersionRecord) /\ Len(versions') = Len(versions) + 1 /\ Len(versions) \in Nat
    BY <2>1
  <2>3. \A v \in DOMAIN versions' : (v \in DOMAIN versions /\ versions'[v] = versions[v])
                                    \/ versions'[v] = new
    BY <2>1
  <2>4. \A v \in DOMAIN versions' : run'[versions'[v].run].status = "finished"
    BY <1>6, <2>3, VersionRun DEF Register
  <2>5. champion' \in 0 .. Len(versions')
    BY <1>6, <2>2 DEF Register, EvidenceInvariant
  <2> QED
    BY <1>6, <2>2, <2>4, <2>5 DEF Register, EvidenceInvariant, NothingJudged, UntouchedHoldout
<1>7. ASSUME NEW v \in DOMAIN versions, NEW w \in DOMAIN versions, Compare({v, w})
      PROVE  EvidenceInvariant'
  <2>1. UntouchedHoldout' /\ judged'.arms \subseteq DOMAIN versions'
    <3>1. Scorable({v, w}) /\ judged' = [arms |-> {v, w}, test |-> TestIds(data, split)]
          /\ versions' = versions /\ run' = run
      BY <1>7 DEF Compare, Judge
    <3>2. \A u \in {v, w} : run[versions[u].run].fit.train \cap TestIds(data, split) = {}
      BY <3>1, ScorableMeans
    <3> QED
      BY <3>1, <3>2 DEF UntouchedHoldout
  <2> QED
    BY <1>7, <2>1 DEF Compare, EvidenceInvariant
<1>8. ASSUME NEW v \in DOMAIN versions, NEW policy \in Policies, Promote(policy, v)
      PROVE  EvidenceInvariant'
  <2> DEFINE arms == {v, champion} \ {0}
  <2>0. arms \subseteq DOMAIN versions /\ DOMAIN versions = 1 .. Len(versions) /\ Len(versions) \in Nat
    BY DEF EvidenceInvariant
  <2>1. UntouchedHoldout' /\ judged'.arms \subseteq DOMAIN versions'
    <3>1. Scorable(arms) /\ judged' = [arms |-> arms, test |-> TestIds(data, split)]
          /\ versions' = versions /\ run' = run
      BY <1>8 DEF Promote, Judge
    <3>2. \A u \in arms : run[versions[u].run].fit.train \cap TestIds(data, split) = {}
      BY <2>0, <3>1, ScorableMeans
    <3> QED
      BY <2>0, <3>1, <3>2 DEF UntouchedHoldout
  <2>2. champion' \in 0 .. Len(versions')
    BY <1>8, <2>0 DEF Promote, EvidenceInvariant
  <2> QED
    BY <1>8, <2>1, <2>2 DEF Promote, EvidenceInvariant
<1>9. CASE UNCHANGED vars
  BY <1>9 DEF vars, EvidenceInvariant, UntouchedHoldout
<1> QED
  BY <1>1, <1>2, <1>3, <1>4, <1>5, <1>6, <1>7, <1>8, <1>9 DEF Next

\* Every run that is scored was fitted on a manifest of its own, and tags and
\* manifests that agree are those of the fit.
THEOREM EvidenceInvariantHolds == Spec => []EvidenceInvariant
<1>1. Init => EvidenceInvariant
  <2> SUFFICES ASSUME Init PROVE EvidenceInvariant
    OBVIOUS
  <2>1. NoRun \in RunRecord
    BY DEF NoRun, RunRecord
  <2> QED
    BY <2>1 DEF Init, EvidenceInvariant, NoRun, NothingJudged, UntouchedHoldout
<1>2. EvidenceInvariant /\ [Next]_vars => EvidenceInvariant'
  BY EvidenceStep
<1> QED
  BY <1>1, <1>2, PTL DEF Spec

\* A version is only ever scored on rows it was not fitted on, for any history of
\* the data file, the split, the store and the training runs.
THEOREM ScoredOnUntouchedRows == Spec => []UntouchedHoldout
<1>1. EvidenceInvariant => UntouchedHoldout
  BY DEF EvidenceInvariant
<1> QED
  BY <1>1, EvidenceInvariantHolds, PTL

\* The champion is only replaced, and by a version, on the snapshot and the
\* split that both were fitted on.
THEOREM ReplacedOnOneSnapshot == Spec => ReplacedOnItsOwnSnapshot
<1> DEFINE Fair == champion # 0 /\ champion' # champion =>
                     \A v \in {champion, champion'} :
                       run[versions[v].run].fit = Manifest(data, split)
<1>1. EvidenceInvariant /\ [Next]_vars => [Fair]_vars
  <2> SUFFICES ASSUME EvidenceInvariant, Next, champion # 0, champion' # champion,
                      NEW v \in {champion, champion'}
               PROVE  run[versions[v].run].fit = Current
    BY DEF Current
  <2>1. PICK w \in DOMAIN versions, policy \in Policies : Promote(policy, w)
    BY DEF Next, ChangeData, ChangeSplit, Alter, StartRun, LogEvidence, LogModel, Register, Compare
  <2>2. champion' = w /\ Scorable({w, champion} \ {0})
    BY <2>1 DEF Promote
  <2>3. {w, champion} \ {0} \subseteq DOMAIN versions /\ w # 0
    BY DEF EvidenceInvariant
  <2> QED
    BY <2>2, <2>3, ScorableMeans
<1> QED
  BY <1>1, EvidenceInvariantHolds, PTL DEF Spec, ReplacedOnItsOwnSnapshot

-----------------------------------------------------------------------------
(* What the gate measured.                                                  *)

\* The area under the curve the code computes by ranks is the one by pairs, and
\* it is undefined where there are no pairs.
LEMMA PairAucIsRocAuc ==
  ASSUME NEW ids, NEW y, NEW p, IsFiniteSet(ids),
         \A i \in ids : y[i] \in {0, 1} /\ p[i] \in 0 .. Grid
  PROVE  LET s == [i \in ids |-> [y |-> y[i], p |-> p[i]]]
         IN  /\ Size(s) = Cardinality(ids)
             /\ RocAuc(s) # NaN <=> Defined(PairAuc(ids, y, p))
             /\ RocAuc(s) # NaN => RocAuc(s) = PairAuc(ids, y, p)
<1> DEFINE s == [i \in ids |-> [y |-> y[i], p |-> p[i]]]
<1> DEFINE n == Cardinality(Bad(s))
<1> DEFINE m == Cardinality(Good(s))
<1> DEFINE c == Cardinality(Concordant(s))
<1> DEFINE t == Cardinality(Tied(s))
<1>1. IsSample(s) /\ Size(s) = Cardinality(ids)
  BY DEF IsSample, Size
<1>2. PairAuc(ids, y, p) = <<2 * c + t, 2 * Cardinality(Pairs(s))>>
  <2> DEFINE pairs == {q \in ids \X ids : y[q[1]] = 1 /\ y[q[2]] = 0}
  <2>1. pairs = Pairs(s)
    BY DEF Pairs, Bad, Good
  <2>2. {q \in pairs : p[q[1]] > p[q[2]]} = Concordant(s)
    BY <2>1 DEF Concordant, Pairs, Bad, Good
  <2>3. {q \in pairs : p[q[1]] = p[q[2]]} = Tied(s)
    BY <2>1 DEF Tied, Pairs, Bad, Good
  <2> HIDE DEF s
  <2> QED
    BY <2>1, <2>2, <2>3, Zenon DEF PairAuc
<1> HIDE DEF s
<1>3. /\ Cardinality(Pairs(s)) = n * m /\ n \in Nat /\ m \in Nat /\ c \in Nat /\ t \in Nat
      /\ IsFiniteSet(Bad(s)) /\ IsFiniteSet(Good(s))
  BY <1>1, PairsFacts, SampleFacts
<1>4. OneClass(s) <=> n = 0 \/ m = 0
  BY <1>3, FS_EmptySet DEF OneClass
<1>5. ~OneClass(s) => RocAuc(s) = PairAuc(ids, y, p)
  <2> SUFFICES ASSUME ~OneClass(s) PROVE RocAuc(s) = PairAuc(ids, y, p)
    OBVIOUS
  <2>1. RocAuc(s) = <<2 * c + t, 2 * n * m>>
    BY <1>1, AucIsPairs
  <2>2. 2 * n * m = 2 * (n * m)
    <3> HIDE DEF n, m
    <3> QED
      BY <1>3
  <2> QED
    BY <1>2, <1>3, <2>1, <2>2
<1>6. Defined(PairAuc(ids, y, p)) <=> ~OneClass(s)
  <2>1. Defined(PairAuc(ids, y, p)) <=> 2 * (n * m) > 0
    BY <1>2, <1>3 DEF Defined
  <2>2. 2 * (n * m) > 0 <=> ~(n = 0 \/ m = 0)
    <3> HIDE DEF n, m
    <3> QED
      BY <1>3
  <2> QED
    BY <1>4, <2>1, <2>2
<1>7. PairAuc(ids, y, p) \in Int \X Int
  <2> HIDE DEF n, m, c, t
  <2> QED
    BY <1>2, <1>3
<1>8. OneClass(s) => RocAuc(s) = NaN
  BY DEF RocAuc
<1> QED
  BY <1>1, <1>5, <1>6, <1>7, <1>8, MetricAssumption DEF s

\* What @champion moves to was scored on the rows of the holdout, all of them.
LEMMA ScoredRows ==
  ASSUME EvidenceInvariant, NEW v \in DOMAIN versions, Scorable({v, champion} \ {0}), v # 0
  PROVE  /\ IsFiniteSet(TestIds(data, split))
         /\ \A i \in TestIds(data, split) : data[i] \in {0, 1} /\ Scores(v)[i] \in 0 .. Grid
<1>1. data \in Snapshots /\ split \in Splits
  BY DEF EvidenceInvariant
<1>2. TestIds(data, split) \in SUBSET DOMAIN data /\ IsFiniteSet(DOMAIN data)
  BY <1>1, EvidenceAssumption
<1>3. {v, champion} \ {0} \in SUBSET DOMAIN versions
  BY DEF EvidenceInvariant
<1>4. run[versions[v].run].fit = Current
  BY <1>3, ScorableMeans
<1>5. Scores(v) \in Models(DOMAIN data \ TestIds(data, split))
  <2>1. versions[v].run \in Runs /\ run[versions[v].run].status = "finished"
    BY VersionRun
  <2>2. Scores(v) \in Models(run[versions[v].run].fit.train)
    BY <2>1 DEF EvidenceInvariant, Scores
  <2>3. Current.train = DOMAIN data \ TestIds(data, split)
    BY DEF Current, Manifest
  <2> QED
    BY <1>4, <2>2, <2>3
<1>6. \A i \in DOMAIN data : data[i] \in {0, 1} /\ Scores(v)[i] \in 0 .. Grid
  BY <1>1, <1>5, EvidenceAssumption
<1> QED
  BY <1>2, <1>6, FS_Subset

\* The gate promotes no challenger that fails a check of its own.
LEMMA PromoteIsFirm ==
  ASSUME NEW policy, NEW rows, NEW y, NEW group, NEW challenger, NEW incumbent, NEW same,
         "PROMOTE" \in EvaluateGate(policy, rows, y, group, challenger, incumbent, same)
  PROVE  /\ AbsoluteChecks(policy, Sample(rows, y, challenger))
         /\ SliceChecks(policy, rows, group, Sample(rows, y, challenger))
<1> DEFINE firm == AbsoluteChecks(policy, Sample(rows, y, challenger))
                     /\ SliceChecks(policy, rows, group, Sample(rows, y, challenger))
<1>1. ASSUME NEW S, "PROMOTE" \in {IF firm /\ passed THEN "PROMOTE" ELSE "HOLD" : passed \in S}
      PROVE  firm
  <2> HIDE DEF firm
  <2> QED
    BY <1>1
<1> DEFINE relative ==
      {AtLeast(lower, Negated(policy.aucMargin)) /\ AtMost(upper, policy.brierMargin)
         /\ stable /\ (policy.sameSnapshot => same) :
           lower \in PairedDeltas("auc", rows, y, incumbent, challenger),
           upper \in PairedDeltas("brier", rows, y, incumbent, challenger),
           stable \in Stable(rows, incumbent, challenger)}
<1> DEFINE verdicts == IF incumbent = NaN THEN {TRUE} ELSE relative
<1>2. EvaluateGate(policy, rows, y, group, challenger, incumbent, same)
        = {IF firm /\ passed THEN "PROMOTE" ELSE "HOLD" : passed \in verdicts}
  BY DEF EvaluateGate
<1> HIDE DEF verdicts
<1>3. firm
  BY <1>1, <1>2
<1> QED
  BY <1>3

\* Whatever the champion and the draws, a gate that decides to promote found the
\* size and the AUC of the holdout as the policy asks, and the AUC of each group
\* that is large enough and has one: a group of one class is passed over
\* (gate.py, evaluate_gate).
THEOREM ChampionsAreMeasured == Spec => MovesAreMeasured
<1> DEFINE Suffice(policy, ids, p) ==
      /\ Cardinality(ids) >= policy.minN
      /\ Defined(PairAuc(ids, data, p)) /\ Meets(PairAuc(ids, data, p), policy.minAuc)
      /\ \A g \in {Group[i] : i \in ids} :
           LET slice == {i \in ids : Group[i] = g}
               x == PairAuc(slice, data, p)
           IN  Cardinality(slice) >= policy.sliceMinN /\ Defined(x) => Meets(x, policy.sliceAuc)
<1> DEFINE Measured ==
      champion' # champion =>
        \E policy \in Policies : Suffice(policy, judged'.test, Scores(champion'))
<1>1. EvidenceInvariant /\ [Next]_vars => [Measured]_vars
  <2> SUFFICES ASSUME EvidenceInvariant, Next, champion' # champion PROVE Measured
    OBVIOUS
  <2>1. PICK v \in DOMAIN versions, policy \in Policies : Promote(policy, v)
    BY DEF Next, ChangeData, ChangeSplit, Alter, StartRun, LogEvidence, LogModel, Register, Compare
  <2> DEFINE ids == TestIds(data, split)
  <2> DEFINE p == Scores(v)
  <2> DEFINE s == [i \in ids |-> [y |-> data[i], p |-> p[i]]]
  <2>2. /\ champion' = v /\ judged'.test = ids /\ Scorable({v, champion} \ {0})
        /\ "PROMOTE" \in Decisions(policy, v)
    BY <2>1 DEF Promote, Judge
  <2>3. v # 0
    BY DEF EvidenceInvariant
  <2>4. IsFiniteSet(ids) /\ \A i \in ids : data[i] \in {0, 1} /\ p[i] \in 0 .. Grid
    BY <2>2, <2>3, ScoredRows
  <2>5. Sample(Rows, data, p) = s
    BY DEF Sample, Rows
  <2>6. AbsoluteChecks(policy, s) /\ SliceChecks(policy, Rows, Group, s)
    <3>1. /\ AbsoluteChecks(policy, Sample(Rows, data, p))
          /\ SliceChecks(policy, Rows, Group, Sample(Rows, data, p))
      BY <2>2, PromoteIsFirm, Zenon DEF Decisions
    <3> HIDE DEF s, p
    <3> QED
      BY <2>5, <3>1
  <2> HIDE DEF p
  <2>7. /\ Cardinality(ids) >= policy.minN
        /\ Defined(PairAuc(ids, data, p)) /\ Meets(PairAuc(ids, data, p), policy.minAuc)
    <3>1. /\ Size(s) = Cardinality(ids)
          /\ RocAuc(s) # NaN <=> Defined(PairAuc(ids, data, p))
          /\ RocAuc(s) # NaN => RocAuc(s) = PairAuc(ids, data, p)
      BY <2>4, PairAucIsRocAuc
    <3> HIDE DEF s
    <3> QED
      BY <2>6, <3>1 DEF AbsoluteChecks, AtLeast, Meets
  <2>8. ASSUME NEW g \in {Group[i] : i \in ids}
        PROVE  LET slice == {i \in ids : Group[i] = g}
                   x == PairAuc(slice, data, p)
               IN  Cardinality(slice) >= policy.sliceMinN /\ Defined(x) => Meets(x, policy.sliceAuc)
    <3> DEFINE slice == {i \in ids : Group[i] = g}
    <3> DEFINE S == [i \in slice |-> [y |-> data[i], p |-> p[i]]]
    <3>1. IsFiniteSet(slice) /\ \A i \in slice : data[i] \in {0, 1} /\ p[i] \in 0 .. Grid
      BY <2>4, FS_Subset
    <3>2. /\ Size(S) = Cardinality(slice)
          /\ RocAuc(S) # NaN <=> Defined(PairAuc(slice, data, p))
          /\ RocAuc(S) # NaN => RocAuc(S) = PairAuc(slice, data, p)
      <4> HIDE DEF slice
      <4> QED
        BY <3>1, PairAucIsRocAuc
    <3>3. [k \in {i \in DOMAIN Rows : Group[Rows[i]] = g} |-> s[k]] = S
      BY DEF Rows
    <3>4. g \in {Group[Rows[k]] : k \in DOMAIN Rows}
      BY DEF Rows
    <3>5. Size(S) >= policy.sliceMinN /\ RocAuc(S) # NaN => AtLeast(RocAuc(S), policy.sliceAuc)
      <4> HIDE DEF s, S
      <4> QED
        BY <2>6, <3>3, <3>4 DEF SliceChecks
    <3> HIDE DEF S, slice
    <3>6. Cardinality(slice) >= policy.sliceMinN /\ Defined(PairAuc(slice, data, p))
            => Meets(PairAuc(slice, data, p), policy.sliceAuc)
      BY <3>2, <3>5 DEF AtLeast, Meets
    <3> QED
      BY <3>6 DEF slice
  <2>9. Scores(champion') = p
    BY <2>2 DEF p
  <2>10. Suffice(policy, ids, p)
    BY <2>7, <2>8
  <2> HIDE DEF Suffice, ids
  <2> QED
    BY <2>2, <2>9, <2>10 DEF ids
<1> QED
  BY <1>1, EvidenceInvariantHolds, PTL DEF Spec, MovesAreMeasured
=============================================================================
