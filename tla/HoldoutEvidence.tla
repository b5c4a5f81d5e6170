-------------------------- MODULE HoldoutEvidence --------------------------
(***************************************************************************)
(* mlreg train, register, promote, compare and card around the evidence    *)
(* that ties a model to its holdout: the split manifest a training run     *)
(* writes, the digest it tags the run with first, and their check against  *)
(* the data and the split of the command that scores the model.  The data  *)
(* file and the split configuration change between commands, training runs *)
(* stop after any step, and a manifest may be altered in the store.        *)
(*                                                                         *)
(* The data file is a function from the ids of its rows to their labels;   *)
(* its fingerprint is the function itself, a digest is the manifest.       *)
(* AliasPromotion is the detail of moving the aliases.                     *)
(***************************************************************************)
EXTENDS PromotionGate, Sequences

CONSTANTS
  Snapshots,      \* contents the data file may have
  Splits,         \* split configurations
  TestIds(_, _),  \* the holdout that make_split draws of a snapshot
  Models(_),      \* what may be fitted on a set of rows: a score for every id
  Group,          \* the protected group of each id
  Runs,           \* training runs
  None,           \* no tag, no artifact
  MaxVersions     \* bound: versions registered

ASSUME EvidenceAssumption ==
  /\ \A d \in Snapshots : IsFiniteSet(DOMAIN d) /\ \A i \in DOMAIN d : d[i] \in {0, 1}
  /\ \A d \in Snapshots, c \in Splits :
       /\ TestIds(d, c) # {} /\ TestIds(d, c) \subseteq DOMAIN d /\ TestIds(d, c) # DOMAIN d
       /\ \A m \in Models(DOMAIN d \ TestIds(d, c)), i \in DOMAIN d : m[i] \in 0 .. Grid

VARIABLES
  data,       \* the data file
  split,      \* the split section of the configuration
  run,        \* the training runs
  versions,   \* the registered versions, by number
  champion,   \* the version @champion points to, or 0
  judged      \* the last evaluation: the versions scored, and on which rows

vars == <<data, split, run, versions, champion, judged>>

Manifest(d, c) == [data |-> d, train |-> DOMAIN d \ TestIds(d, c), test |-> TestIds(d, c)]
Current == Manifest(data, split)

\* fit is what the run was fitted on, tag the digest of the manifest, artifact
\* the manifest in the store; the run has a model at the end.
NoRun == [status |-> "none", fit |-> None, tag |-> None, artifact |-> None, model |-> None]
NothingJudged == [arms |-> {}, test |-> {}]

Init ==
  /\ data \in Snapshots
  /\ split \in Splits
  /\ run = [r \in Runs |-> NoRun]
  /\ versions = <<>>
  /\ champion = 0
  /\ judged = NothingJudged

-----------------------------------------------------------------------------
(* The world: data files and configurations change, a store is altered.     *)

ChangeData ==
  /\ data' \in Snapshots \ {data}
  /\ judged' = NothingJudged
  /\ UNCHANGED <<split, run, versions, champion>>

ChangeSplit ==
  /\ split' \in Splits \ {split}
  /\ judged' = NothingJudged
  /\ UNCHANGED <<data, run, versions, champion>>

\* The manifest of a run is overwritten with the one of the current data.
Alter(r) ==
  /\ run[r].artifact \notin {None, Current}
  /\ run' = [run EXCEPT ![r].artifact = Current]
  /\ judged' = NothingJudged
  /\ UNCHANGED <<data, split, versions, champion>>

-----------------------------------------------------------------------------
(* train_on: the run starts with the digest among its tags, the manifest    *)
(* follows after the fit, the model last.  A run that raises stops there.   *)

Unless(ok, manifest) == IF ok THEN manifest ELSE None

\* An older mlreg, which recorded no split evidence, left runs too.
StartRun(r, recorded) ==
  /\ run[r].status = "none"
  /\ run' = [run EXCEPT ![r] = [NoRun EXCEPT !.status = "started", !.fit = Current,
                                             !.tag = Unless(recorded, Current)]]
  /\ judged' = NothingJudged
  /\ UNCHANGED <<data, split, versions, champion>>

LogEvidence(r) ==
  /\ run[r].status = "started"
  /\ run' = [run EXCEPT ![r].status = "evaluated",
                        ![r].artifact = Unless(run[r].tag # None, run[r].fit)]
  /\ judged' = NothingJudged
  /\ UNCHANGED <<data, split, versions, champion>>

LogModel(r) ==
  /\ run[r].status = "evaluated"
  /\ \E m \in Models(run[r].fit.train) :
       run' = [run EXCEPT ![r].status = "finished", ![r].model = m]
  /\ judged' = NothingJudged
  /\ UNCHANGED <<data, split, versions, champion>>

\* train --register tags the version with the data it was fitted on, register
\* with what --tag says, here that or nothing.
Register(r, fingerprint) ==
  /\ run[r].status = "finished" /\ Len(versions) < MaxVersions
  /\ fingerprint \in {run[r].fit.data, None}
  /\ versions' = Append(versions, [run |-> r, fingerprint |-> fingerprint])
  /\ judged' = NothingJudged
  /\ UNCHANGED <<data, split, run, champion>>

-----------------------------------------------------------------------------
(* The evidence of one version, as verify_run_holdout takes it.             *)

\* Mutant: the membership is compared, the data fingerprint is not.
AgreesOnIds(saved, current) ==
  /\ saved.train # {} /\ saved.test # {}
  /\ saved.train \cap (saved.test \cup current.test) = {}
  /\ saved.test = current.test /\ saved.train = current.train

\* SplitManifest.check; ids are unique, the contract of the data says so.
Agrees(saved, current) ==
  /\ saved.train # {} /\ saved.test # {}
  /\ saved.train \cap saved.test = {}
  /\ saved.data = current.data
  /\ saved.train \cap current.test = {}
  /\ saved.test = current.test /\ saved.train = current.train

\* Mutant: the digest of the stored manifest is not compared with the tag.
VerifiedUndigested(r, current) ==
  /\ run[r].tag # None /\ run[r].artifact # None
  /\ Agrees(run[r].artifact, current)

VerifiedHoldout(r, current) ==
  /\ run[r].tag # None /\ run[r].artifact # None
  /\ run[r].artifact = run[r].tag
  /\ Agrees(run[r].artifact, current)

\* Every arm is verified before any is loaded.
Scorable(arms) == \A v \in arms : VerifiedHoldout(versions[v].run, Current)

Judge(arms) == judged' = [arms |-> arms, test |-> TestIds(data, split)]

-----------------------------------------------------------------------------
(* compare and card score versions and change nothing; promote scores the   *)
(* candidate against the champion and moves the alias when the gate says so. *)

Compare(arms) ==
  /\ Scorable(arms)
  /\ Judge(arms)
  /\ UNCHANGED <<data, split, run, versions, champion>>

Rows == [i \in TestIds(data, split) |-> i]
Scores(v) == run[versions[v].run].model

OfThisSnapshot(arms) == \A v \in arms : versions[v].fingerprint = data

Decisions(policy, v) ==
  EvaluateGate(policy, Rows, data, Group, Scores(v),
               IF champion = 0 THEN NaN ELSE Scores(champion),
               OfThisSnapshot({v, champion} \ {0}))

\* A mismatch ends the command with HOLD before anything is scored.
Promote(policy, v) ==
  /\ v # champion
  /\ Scorable({v, champion} \ {0})
  /\ Judge({v, champion} \ {0})
  /\ \E decision \in Decisions(policy, v) :
       champion' = IF decision = "PROMOTE" THEN v ELSE champion
  /\ UNCHANGED <<data, split, run, versions>>

-----------------------------------------------------------------------------
Next ==
  \/ ChangeData \/ ChangeSplit
  \/ \E r \in Runs :
       \/ Alter(r)
       \/ \E recorded \in BOOLEAN : StartRun(r, recorded)
       \/ LogEvidence(r) \/ LogModel(r)
       \/ \E d \in Snapshots \cup {None} : Register(r, d)
  \/ \E v, w \in DOMAIN versions : Compare({v, w})
  \/ \E v \in DOMAIN versions, policy \in Policies : Promote(policy, v)

Spec == Init /\ [][Next]_vars

-----------------------------------------------------------------------------
(* Properties.                                                              *)

\* A version is only ever scored, by promote, compare or card, on rows it was
\* not fitted on, whatever has happened to the data, the split and the store
\* since (cli.py, _score_versions; holdout.py).
UntouchedHoldout ==
  \A v \in judged.arms : run[versions[v].run].fit.train \cap judged.test = {}

Manifests == {Manifest(d, c) : d \in Snapshots, c \in Splits}

RunRecord ==
  [status : {"none", "started", "evaluated", "finished"},
   fit : Manifests \cup {None}, tag : Manifests \cup {None}, artifact : Manifests \cup {None},
   model : {None} \cup UNION {Models(m.train) : m \in Manifests}]

VersionRecord == [run : Runs, fingerprint : Snapshots \cup {None}]

\* A started run carries the digest of what it is fitted on or none, a finished
\* one has a model of it, a version is of a finished run, and what was judged
\* was untouched.
EvidenceInvariant ==
  /\ data \in Snapshots /\ split \in Splits
  /\ run \in [Runs -> RunRecord] /\ versions \in Seq(VersionRecord)
  /\ \A r \in Runs : run[r].status # "none" =>
       run[r].fit \in Manifests /\ run[r].tag \in {None, run[r].fit}
  /\ \A r \in Runs : run[r].status = "finished" => run[r].model \in Models(run[r].fit.train)
  /\ \A v \in DOMAIN versions : run[versions[v].run].status = "finished"
  /\ champion \in 0 .. Len(versions)
  /\ judged.arms \subseteq DOMAIN versions
  /\ UntouchedHoldout

\* The area under the curve by its definition: the share of pairs of a bad and
\* a good row that the scores order, a tie counting half.
PairAuc(ids, y, p) ==
  LET pairs == {q \in ids \X ids : y[q[1]] = 1 /\ y[q[2]] = 0}
      right == {q \in pairs : p[q[1]] > p[q[2]]}
      tied  == {q \in pairs : p[q[1]] = p[q[2]]}
  IN  <<2 * Cardinality(right) + Cardinality(tied), 2 * Cardinality(pairs)>>

Defined(x) == x[2] > 0
Meets(x, bound) == x[1] * bound[2] >= bound[1] * x[2]

\* @champion moves only to a version with a defined AUC of at least the floor
\* on the holdout, of the size the policy asks for, and with the floor of the
\* slices in every large enough group whose AUC is defined; a group of one
\* class is passed over, however large (gate.py, evaluate_gate).
MovesAreMeasured ==
  [][champion' # champion =>
       LET ids == judged'.test
           auc == PairAuc(ids, data, Scores(champion'))
       IN  \E policy \in Policies :
             /\ Cardinality(ids) >= policy.minN
             /\ Defined(auc) /\ Meets(auc, policy.minAuc)
             /\ \A g \in {Group[i] : i \in ids} :
                  LET slice == {i \in ids : Group[i] = g}
                      x == PairAuc(slice, data, Scores(champion'))
                  IN  Cardinality(slice) >= policy.sliceMinN /\ Defined(x)
                        => Meets(x, policy.sliceAuc)]_vars

\* A champion is only replaced while the data file is, label for label, the one
\* it was fitted on, and so is its challenger: both arms of the comparison hold
\* out the same rows of the same snapshot, also when the policy does not ask
\* for the same snapshot (INTERVIEW_NOTES.md, same_data_snapshot).
ReplacedOnItsOwnSnapshot ==
  [][champion # 0 /\ champion' # champion =>
       \A v \in {champion, champion'} :
         run[versions[v].run].fit = Manifest(data, split)]_vars
=============================================================================
