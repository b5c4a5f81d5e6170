# Verification of mlops-lab: releases, promotions and monitoring

TLA+ models of the parts of this repository that keep state across steps, the
TLC runs that check them on small instances, and theorems about them that the
TLAPS proof system has checked. The repository holds three Python packages that
form one MLOps loop:

| Package | Directory | Role |
|---|---|---|
| `mlreg` | `src/mlflow-model-lifecycle` | trains versions, gates a challenger against the champion, moves the MLflow aliases |
| `smdeploy` | `src/sagemaker-byoc-deploy` | packages, registers, deploys, smoke-tests, rolls back and tears down a SageMaker endpoint; the serving container |
| `mlwatch` | `src/model-monitoring-drift` | measures drift and performance per window, decides OK/WARN/CRITICAL and NONE/INVESTIGATE/RETRAIN; exporter; scheduled workflow |

## 1. Inventory

### smdeploy

| Component | State | Operations | Interacts with | Correct when |
|---|---|---|---|---|
| Endpoint control plane (SageMaker, `tests/conftest.py` fake) | models, endpoint configurations, one endpoint per stage (status, configuration, target of an update) | create/describe/delete, `UpdateEndpoint`, its own status transitions | every deploy command | references never dangle; an update that fails or is rolled back keeps the old configuration |
| Release (`release.py`, `aws/endpoint.py`, `aws/operations.py`) | none but the command's own progress; alarms, autoscaling policy | `deploy`, `rollback`, `teardown` | control plane, registry, CloudWatch, runtime API | only Approved packages reach a guarded stage; success means the package serves; a failed smoke test can go back; a command ends |
| Model package registry (`aws/registry.py`) | packages and their approval | `register`, `approve`, `latest` | release reads it once | the approval guards production |
| CD workflow (`.github/workflows/sagemaker-byoc-deploy-cd.yml`, `aws/ecr.py`) | outputs of finished jobs; image tags | build, train, register, staging, approve, production; cancelled and re-run jobs, no concurrency group; image expiry | all of the above | what the workflow approves was in service in staging, what is deployed is what was trained and measured, production was asked for |
| Training job (`aws/training_job.py`, `training.py`) | a job's status, model directory, failure file | start, wait, outputs | S3, registry | the wait ends; a failure leaves its reason |
| Serving (`server.py`, `inference.py`, `model_io.py`, `serve.py`) | model on disk, loaded predictor | save, load, ping, invoke | SageMaker health checks | 200 on `/ping` only for verified bytes |
| Codecs, paths, hyperparameters, local runner | a base directory of `local-train` | decode, negotiate, lay out the tree | server, training | every request gets the status its content deserves |

### mlreg

| Component | State | Operations | Interacts with | Correct when |
|---|---|---|---|---|
| Alias registry (`registry.py`) | versions, aliases, tags on the MLflow server | `register`, `promote`, `set_alias`, `delete_alias`, `set_tags` | every CLI job and CI run, deployments reading `@champion` | the champion passed the gate, is never lost, and its predecessor is `@previous` |
| Promote command (`cli.py`) | what it has read (candidate, champion) | read, score, gate, tag, promote | registry, holdout evidence, gate | no promotion on a stale or missing comparison |
| Gate (`gate.py`) | none | `evaluate_gate` | statistics | PROMOTE exactly if all checks pass |
| Holdout evidence (`holdout.py`, `data.py`) | split manifest and its digest in the training run | record, verify | tracking server | both arms are judged on rows neither was trained with |
| Metrics (`metrics.py`, `stats.py`) | none | AUC, KS, Brier, calibration, cost, lift, paired bootstrap | gate | they are what they are called |
| Training, tracking, model card | runs and artefacts | train, log, register | MLflow | the digest is there before the model |

### mlwatch

| Component | State | Operations | Interacts with | Correct when |
|---|---|---|---|---|
| Policy (`policy.py`, `config.py`) | counters of consecutive windows per subject | `decide` | monitor | escalation and RETRAIN say what the policy says of the windows |
| State file (`MonitorState`) | counters, windows seen | `load`, `save` | `mlwatch run`, exporter, the workflow's cache | survives crashes and shared use |
| `mlwatch run` (`cli.py`, `monitor.py`) | none | load, run window, save, report | state file | nothing reported is forgotten |
| Exporter (`exporter.py`) | state in memory, last report, metrics | `POST /run`, `/metrics`, `/report` | state file | memory and file stand for windows |
| Window (`schema.py`, `monitor.py`, `performance.py`) | capture and label files | select, join, measure | policy | labels are used as known, rows counted once |
| Drift, quality, baseline (`drift.py`, `quality.py`, `baseline.py`, `stats.py`) | the baseline | profile, compare, adjust | window | every usable value is counted, every unusable feature reported |
| Simulator and evaluation | none | synthetic data | | not part of the running system |

### What is hard here

* Two processes act on the same external state with one remote call per step:
  overlapping releases on a stage, overlapping promotes on one model, a job and
  an exporter on one state file. Nothing in the repository serialises them.
* A command may stop between any two calls: CI cancels runs
  (`cancel-in-progress`), CD jobs time out, remote calls raise.
* SageMaker goes on by itself: an update lands, fails or is rolled back after
  the command that asked for it has given up.
* What was read is used later: the approval, the champion, the description of
  the endpoint, the counters in memory, the digest of a file opened again, the
  split of a training run months later.
* Retries: a command that was interrupted is run again, a window is run again,
  a failed job of a workflow run is started again alone.
* Boundaries of data: a holdout, a slice or a window with one class, no rows,
  ties, values on or outside the edges of the bins.

`PROJECT.json` lists these hazards one by one at their lines, with the
properties that cover them or the reason why none does.

## 2. Modules

| Module | Models | State and actions |
|---|---|---|
| `SageMakerEndpoint` | the service, as far as smdeploy uses it | `models`, `configs`, `endpoint`; one action per request and one per transition of its own. An endpoint that updates keeps its old configuration name until the update lands |
| `EndpointRelease` | `deploy`, `rollback`, `teardown` and the approval registry over that service | `run[r].pc` names the next AWS call of command slot `r`; `everApproved` is a history variable |
| `ChampionRegistry` | the abstract promise of the champion alias | `champion`, `previous`; the incumbent is kept, then replaced by a version that passed against it |
| `AliasPromotion` | `register`, `train --register` and `promote` of mlreg | `job[j].pc` names the next MLflow call; `earned` and `held` are history variables; `Used` are the slots that have been used, and `Alone` says that it is at most one |
| `AlertPolicy` | `mlwatch.policy.decide` as operators | no state; `Measured`, `Streak`, `Severity`, `Sustained`, `Action` |
| `MonitorLoop` | the users of one `MonitorState` file | `file` (readable, state), `user[u]` (memory and next call), `windows` that arrived, `reported` history |
| `TrainingContainer` | `run_training`, `save_model`, `local-train` | `tree` (channels, model, metadata, evaluation, failure file, each absent, partial or whole), `job.pc` names the next statement that matters |
| `RequestCodecs` | `codecs.py`, `predict` | no state; `Invocation(r)` is the answer of a worker that is up |
| `ModelServing` | `load_model`, the workers' lifespan, `/ping`, `/invocations`, over `TrainingContainer` and `RequestCodecs` | `worker[w].pc`, `request`; `raced` records a model replaced while it is loaded |
| `PublishedModels` | the abstract promise of a model directory and its server | `published`, `serving` |
| `DeliveryPipeline` | the CD workflow, ECR, training jobs, the package group, both stages, the monitor's dispatch, and a person who registers, approves, rejects and deploys by hand | `run[r].pc` is the job, `run[r].at` the call in it; `release[d].at` is the next call of the release of run `d`, or of the person (`None`); `tags`, `images`, `training`, `packages`, `endpoint`; `served` and `answered` are history variables |
| `ScoreMetrics` | `metrics.py` of `mlreg` and `mlwatch` | no state; a sample is a function from row numbers to rows, numbers are rational, scores on a grid |
| `PromotionGate` | `evaluate_gate` over `ScoreMetrics` | no state; `EvaluateGate` gives the decisions possible |
| `HoldoutEvidence` | manifest, digest and their check in train, register, promote, compare, card, over `PromotionGate` | `data`, `split`, `run`, `versions`, `champion`; `judged` is the last evaluation |
| `DriftMeasures` | baseline profiles, bins, PSI and quality findings, Benjamini-Hochberg | no state |
| `CaptureWindow` | `mlwatch run` on a capture and a label file, over `DriftMeasures` and `ScoreMetrics` | `baseline`, `captured`, `labels`, `report` |
| `*Proofs` | theorems and proofs about the module named; `ScoreMetricsProofs` holds the lemmas about the metrics that the proofs of `HoldoutEvidence` and `CaptureWindow` cite | |
| `MC*` | instances for TLC | |

The correspondence of each definition with the code is in `PROJECT.json`
("map"). Conventions: a label in `pc` is the call that comes next; a label of
`EndpointRelease` is named after the function that makes the call. A command
may be interrupted before each of its calls (`Interrupted`), which also stands
for a call that raises something the code does not catch. `Mutant:` definitions
are plausible bugs; each property of a passing run is violated when its mutant
replaces the definition below it.

### Abstractions

* A package, its SageMaker model and its endpoint configuration are one value:
  their names hash the same specification. (Two packages with the same image
  and model data share a configuration in the code; they are one value here.)
* The wait deadline is a number of polls, `MaxPolls`; the container of a
  package is `Healthy` or not; the smoke test may also fail for any package,
  and during an update it is answered by either fleet.
* Both alarms are put in one step, and the scalable target and its policy in
  another. Both calls are idempotent puts.
* In `AliasPromotion` the gate is the relation `Passes` and the evidence the sets
  `Holdouts`, both
  constants, so the results hold for every gate and every evidence;
  `PromotionGate` and `HoldoutEvidence` are what they are in the code.
* Tags of one purpose that are set by consecutive calls are one step
  (`promoted_utc`, `promoted_by`, `promotion_alias`; the three `gate.*` tags;
  the two retirement tags).
* A measured window is the band of the policy each measurement falls in
  (`nan`, `low`, `warn`, `critical`), so the policy's thresholds do not appear.
* A release is a sequence of calls in `DeliveryPipeline` too (describe, create or
  update, wait, smoke test, rollback), because releases of several runs and of a
  person overlap there. `EndpointRelease` has more of its detail. In
  `DeliveryPipeline` the package and its approval are read in one step, a creation
  that fails stays one that never ends, one fleet answers the whole smoke test, and
  the command that sent a rollback fails without waiting for it. Teardown and
  `smdeploy rollback` by hand are only in `EndpointRelease`. A package registered by
  hand is of a model that no run trained, in an image of a commit that is in the
  repository.
* `promote` is one step of `HoldoutEvidence`; `AliasPromotion` is its detail. The
  alias `promote` moves is `@champion`: `--champion-alias`, with which a job could
  work on another alias and no document, workflow or test does, is left out.
* A window's measurements are computed in `CaptureWindow`, and what the
  policy makes of them is `AlertPolicy`.
* A model file is the inputs of its fit (rows, split, label); a digest is that
  value. A file is absent, partial (opened, or truncated) or whole.
* A request is the list of checks it passes or fails: size, declared size,
  media type, charset, layout, width, columns, rows, and whether the pipeline
  takes the values. Log lines and messages are left out.
* A file is a function from the numbers of its lines to records, and whatever is
  selected of it (a window, the labelled rows, the finite cells of a column) is the
  same function on fewer numbers. The stable sorts of the code are then counts:
  the place of a row is the number of rows that come before it, by score and, in a
  tie, by number; what is cumulated up to a row is the set `UpTo` it.
* Metrics are exact rationals over scores on a grid, so ties and boundaries are
  exact. The paired bootstrap may return the difference on any resample as an
  end point of its interval; the PSI of scores is certain only where both score
  alike or the champion scores all rows alike. In `DriftMeasures`, PSI, p-values
  and Jensen-Shannon divergence are reduced to what decisions tell apart.
* A category is its text: which values `astype(str)` (`drift.py:117`) makes the same
  text, or different ones (5 and 5.0), is left out, and no property depends on it.
* Pseudonymous ids are the ids, and SHA-256 is injective.
* `MonitorState` carries a history `counted` of the windows it stands for;
  `last_status` is written and never read and is left out.

## 3. Runs

| Run | Question | Instance | Result |
|---|---|---|---|
| `serial_release` | What do commands leave behind when they do not overlap, and can an unapproved package reach the stage? | production stage, 3 packages (1 unhealthy), 1 command slot, 1 poll; 249,604 states | holds |
| `unchanged_in_flight` | Does a reported release stay until the next command? | 2 packages, 1 slot | violated: finding 1 |
| `promotions` | Does promote implement `ChampionRegistry`, and what survives overlapping promotes? | 3 versions and 2 splits while one job works alone, 2 versions when two overlap; 314,104 states, symmetric in the jobs | holds |
| `audit_trail` | Does every successful promote leave its trail? | 3 versions, 1 job | violated: finding 2 |
| `monitor_state` | Do the counters and decisions stand for the windows? | 1 feature and the score, 5 kinds of window, 1 job and 1 exporter; 1,195,689 states | holds |
| `odd_batch` | Does a retrain need two windows that both were CRITICAL? | 1 job, 1 window that drifts at WARN | violated: findings 3 and 4 |
| `serving` | Is what is served what was published, and is every answer accounted for? | 2 files (1 of a single class), 5 sets of hyperparameters, 2 trainings, 6 packages, 1 worker, requests with up to 2 defects; 188,023 states | holds |
| `client_faults` | Is every fault of a client answered 4xx? | as `serving` | violated: finding 5 |
| `delivery` | What do an approval and a deployment to production stand for? | 2 workflow runs, of one commit or two, or a run and a person; 1 image kept, 1 poll, 3 commands, 2 packages; 375,518 states | holds |
| `staging_note` | Did the package itself answer the smoke test its approval records? | 2 workflow runs or a run and a person, 2 commands | violated: finding 6 |
| `evidence` | Is a version only judged on rows it was not fitted on, and the champion only moved on measured evidence? | 2 snapshots, 2 splits, 3 kinds of model, 2 runs, 2 versions, 2 policies; 323,124 states, symmetric in the runs | holds |
| `window` | Do the measurements mean what they are called, and are labels used as known? | 1 baseline, capture files of up to 3 rows that vary in the scores or in the cells, up to 3 label records, 3 features, 3 windows, 2 dates; 159,322 states | holds |

### Properties

*Releases.* `ApprovedReleases` contains the guarantee of `require_approved`
(`OnlyApprovedReachesTheStage`), for models, configurations, the endpoint and the
target of an update at once. It says that the package was Approved when the
command read it, not that the approval is still there: a revocation during the
release is not seen by the code (`release.py:140` reads it once) and not excluded by
the property. It does not depend on one slot: it is proved for any number of
commands, and `delivery` asks the same of overlapping releases to production
(`ProductionWasAskedFor`). `ReleaseTakesEffect` and `RollbackRestores` relate the result
a command reports to the endpoint; `TeardownRemovesAll` and
`NoDanglingReference` are about the order of creation and deletion with
interruptions anywhere; `RollbackIsPossible` says that there is something to
roll back to at every point of an update where it may be needed.
`StageInvariant` adds what a running command relies on between its calls.
`EveryCommandEnds` is the liveness property.

`ReleaseTakesEffect` excludes releases that report `"unchanged"`, which do not
hold: that is finding 1. `NoDanglingReference`, `ReleaseTakesEffect`,
`RollbackRestores`, `RollbackIsPossible`, `TeardownRemovesAll` and
`StageInvariant` are properties of a stage whose commands do not overlap; a
second command can break each of them at any time.

*Promotions.* `AliasesAreEarned` and `ChampionNeverLost` hold whatever overlaps.
The refinement, `SerialInvariant`, `CompletedPromotion` and
`ChampionIsTaggedPromote` are about commands that do not overlap, and say so
(`Alone`): two promotes may both pass against the old champion, and the later one
then replaces a version it was never compared with (`registry.promote` reads the
alias again, but does not compare it with what the gate used).
`ImplementsChampionRegistry` asks every step up to the first overlap to be one of
`ChampionRegistry`; it is the property that sees a wrong order of `@previous` and
`@champion`, because a promote may be interrupted between them.

*Serving.* `ServedModelMatchesItsMetadata` and `SuccessIsLoadable` say from both
ends that a model and its metadata belong together, through kills between the
two writes, truncated uploads and mismatched packages. `ImplementsPublishedModels`
says it abstractly: a model is published in one step or not at all, and a worker
takes what is published, except where a training wrote the directory while it
was being read (`Overtaken`).
`RequestsAreAccounted` says of every answer why it has its status, with the
criteria written down anew and not by the order of the code's checks: 200 means that
the features can be read and scored, 400 that the body is no features the model
takes (`BadBody`), 413, 415 and 406 their own fault each, 500 only content that
`codecs.py` does not look at or values the pipeline does not take, 503 no model. It
states the 500 as the code has it; what the documentation says of it is
`ClientFaultsAreRefused`, which is violated (finding 5).
`FailureIsExplained` is about the failure file SageMaker shows as the reason.
`ServingInvariant` adds what a training has left at each of its steps and what a
loading worker has verified.
`ServingSettles` is the liveness property.

*Delivery.* Four properties follow one package from the image it was trained in
to production: `PackageImageIsTheTrainedOne` (tags, re-runs and expiry),
`PackageIsMeasured` (one completed training job, whose name is the workflow
run's), `ApprovedWasServed` and `ProductionWasAskedFor`. The first is about images
that still exist: once an image is expired its tag is free, and another build may
take it. The history variable `expired` says which these are.

`ApprovedWasServed` says as much of staging as the code makes sure of: what the
workflow approves has been in service in staging, because the wait compares the
configuration (`endpoint.py:272`), through the releases of other runs and of people,
rolled-back updates and creations that never end. That the package itself answered
the smoke test is `ApprovedAnsweredItsSmoke`, which is violated (finding 6).
`ProductionWasAskedFor` takes a person's approval (`smdeploy approve`, or `register
--approve`) as asking for production, as the README of smdeploy does (lines
146-155): a person may approve what the monitor had trained, or what never saw
staging. Without a person only a run that was dispatched for production gets
there, and through staging. A revoked approval stays an approval that was given.
`PipelineInvariant` says what each job finds of the jobs before it, and
`TrainingWaitEnds` is the liveness property.

*Evidence.* `UntouchedHoldout` is what the manifest is for. `MovesAreMeasured`
restates the gate's floors with the AUC as a count of pairs.
`ReplacedOnItsOwnSnapshot` is what the code makes of `same_data_snapshot`: more
than the policy asks for (see the observations below).

*Windows.* `MetricsMeetDefinitions` compares the algorithms (rank sums, sorted
sweeps, cumulative lift) with the definitions (pairs, distributions, all
cut-offs; `MovesAreMeasured` counts pairs too); `AdjustedIsStepUp` compares the accumulated minima with the step-up
rule; `UsableValuesAreCounted` and `UnusableFeatureIsReported` are about values
and features that could get lost, the latter as far as the rules let a loss show
(`LossShows`, see the observations below); `LabelsAreCurrent` is about corrections,
duplicates and late labels.

*Monitoring.* `RetrainMatchesHistory` compares the decision with the rule of the
code and of its tests (`tests/test_policy_monitor.py:77-85`), stated in terms of the
windows counted, in which a window at WARN counts. `SustainedBeforeRetrain` is the
rule of the documentation, which asks for more and is violated (findings 3 and 4). `MonitorInvariant` says that the
counters of every copy of the state are the lengths of streaks of the windows it
stands for; it does not say that no window is lost when two processes write one
file. `ReportedIsCounted` is about the order of save and report, of a command that is
the only user of the file.

### Bounds

* Two slots show every pairwise interleaving of promotes; all conflicts in the
  code are between two commands. With one slot, commands follow each other in any
  order and number, so histories of commands are not bounded. `promotions` bounds
  what a command may begin: a third version only while one slot has been used
  (`VersionsFit` in `MCAliasPromotion`).
* `MaxPolls` is 1 where a wait has to be seen going on and timing out, 0 where
  only its outcome matters (a poll that finds the update pending then times
  out, which is the outcome a longer wait can have too).
* Three packages or versions are the smallest number with an old one, a new one
  and one already gone; overlapping promotes need two.
* `MaxWindows` = 2 windows that arrive (each of five kinds) and `MaxCounted` = 3 counted windows
  with N = 2 give a streak that is reached, exceeded and broken. When
  `MaxCounted` is reached the run stops, and a state file that was left
  half written stops every user of it, so these runs do not check deadlock.

* `serving`: one worker, because workers share nothing but the directory, and
  one request at a time, because requests share nothing but the worker. Two
  files are the smallest number with a split of unequal content; `MaxRuns` = 2
  trainings show a success over a failure and the reverse. Requests differ from
  a good one in at most two respects, which shows every pair of checks in
  competition. The run stops when trainings are used up, as do `evidence`
  (versions) and `window` (labels and the report), so deadlock is not checked.
* `delivery`: every conflict in the code is between two actors, so a behaviour has
  two runs, or a run and a person (`TwoActors` in `MCDeliveryPipeline`); the theorems
  say the same of any number of both. One image kept makes every push expire
  another; three commands are two dispatches and a re-run, or a dispatch and two
  re-runs or commands by hand, such as an approval and a deployment; two packages
  allow a run that registers twice, one of each run, and one of a run beside one of a
  person. Runs end, so deadlock is not checked.
* `evidence`: two snapshots that differ in one label, a split that holds out the
  same rows in both and one that does not, a holdout with one class. The three
  models rank well, all alike, and the wrong way round.
* `window`: a grid of 4 (scores 0, 1/4, ... 1), 2 bins and 2 deciles, 4 cut-offs.
  Three rows are the smallest file with a tie and a third value. The three
  windows are all rows, some of them and none. Values are missing, text, on an
  edge, outside the edges, infinite or unseen, features are absent, labels are
  corrected, late, of one class or without a date.

### Fairness

Three runs have a liveness property. `serial_release` assumes weak fairness of a
started command's own next step (`RunStep`): a running process makes its next
call, which the code does without waiting for anything but `sleep`. Nothing is
assumed of SageMaker: updates may stay pending for ever, and commands still end
because the wait has a deadline.

`serving` assumes weak fairness of a worker's lifespan and of a training's next
step: both are straight-line code of one process. Stops, kills and requests are
not fair. `delivery` assumes weak fairness of the wait loop alone
(`WaitForTrainingJob`): the loop polls, sleeps and looks at its deadline;
nothing is assumed of SageMaker or of GitHub.

### Findings

1. A deploy of the configuration the endpoint still reports, while another
   update is in flight (its release was interrupted or timed out), returns
   `"unchanged"`, skips the wait and reports success. The other update then
   lands. (`release.py:157`, `aws/endpoint.py:246-248`)
2. A promote that stops after it moved `@champion` leaves no audit trail, and
   the retry says that there is nothing to do. (`registry.py:127`,
   `cli.py:136-138`)
3. A window that is run twice counts twice, so one odd batch triggers a retrain
   (`policy.py:135`); `model-monitoring-drift/README.md:9-10` says that it never does.
4. RETRAIN for drift follows windows that measured WARN only: the window that
   completes the streak is escalated and counts as sustained at once
   (`policy.py:137-140`). `model-monitoring-drift/README.md:91` asks for two
   consecutive CRITICAL windows; the tests assert what the code does. One trace
   shows 3 and 4: a window at WARN, counted, saved, interrupted before the report and
   run again.
5. A client's fault that `codecs.py` does not look at is answered 500: a charset
   that is unknown or in which the body is no text, a `dataframe_split` or `inputs`
   of a wrong shape (`server.py:134`). `server.py:8` has "4xx = client, 5xx = us".
6. Two CD runs may release to one stage at the same time, and the smoke test of one
   is answered by the package of the other; the approval then records "staging
   smoke passed in run ..." (`release.py:167`, CD workflow line 165).

### Observations

Disagreements between the code and what is written about it, seen while
modelling, that no run is about:

* `smdeploy deploy --help` calls the default package "latest approved in the
  group" (`cli.py:368`); to a stage that does not require an approval it is the
  latest of any approval (`cli.py:203`). `DeployByHand` deploys any package that the
  stage accepts, which includes both.
* A retraining the monitor dispatches for a commit that was built before stops
  at the push of the immutable tag, where `docs/DEPLOYMENT_SETUP.md:71-72` says
  that it still runs training and staging.
* `require_same_data_snapshot: false` has no effect: the manifest check
  (`holdout.py:60`) refuses a champion of another snapshot before the gate is
  asked. `ReplacedOnItsOwnSnapshot` holds for both values.
* A protected slice of at least `min_n` rows and one class is passed over
  (`gate.py:204`); `gates/promotion.yaml:16` says every such slice must reach
  the AUC.
* A feature that disappears into missing cells raises no issue when the baseline
  already misses more of it than one minus `missing_rate_increase_warn`, nor
  infinite or unparsable cells when their rule is set to one or more: the rules are only
  bounded from below (`config.py:44-48`). `LossShows` excludes these settings; a
  feature that is absent from all records is always reported.
* `labels_to_frame` keeps the last record of a request before `--as-of` cuts, so
  a replay misses a label that was known then and corrected later
  (`schema.py:104`, `cli.py:67-69`).

## 4. Proofs

TLC's runs show the properties on one instance; the theorems hold for all
values of the constants that satisfy the assumptions the modules name.

| Module | Theorem | States |
|---|---|---|
| `EndpointReleaseProofs` | `TypeCorrect` | `[]TypeOK` |
| | `ApprovedReleasesInvariant`, `ApprovalGuardsTheStage` | `[]ApprovedReleases`, and from it `[]OnlyApprovedReachesTheStage` |
| | `StageInvariantHolds` | `Serial` gives `[]StageInvariant` |
| | `NothingDangles`, `ReleasesTakeEffect`, `RollbacksRestore`, `RollbacksArePossible`, `TeardownsRemoveAll` | `Serial` gives the five properties of a stage, from it |
| `AliasPromotionProofs` | `EarnedInvariantHolds`, `AliasesEarned` | `[]EarnedInvariant`, and from it `[]AliasesAreEarned` |
| | `ChampionIsNeverLost` | the action property `ChampionNeverLost` |
| | `SerialInvariantHolds`, `PromotionsAreComplete`, `ChampionsPassed` | `[]SerialInvariant`, and from it `[]CompletedPromotion` and `[]ChampionIsTaggedPromote` |
| | `PromotionImplementsRegistry` | every step up to the first overlap is one of `ChampionRegistry` |
| | `SerialUseImplementsRegistry` | a behaviour in which commands never overlap satisfies `Registry!Spec` |
| `MonitorLoopProofs` | `CountersAreHistory`, `RetrainsMatchHistory` | `[]CountersMatchHistory`, and from it `[]RetrainMatchesHistory` |
| | `MonitorInvariantHolds`, `ReportsAreSaved` | `[]MonitorInvariant`, and from it `[]ReportedIsCounted`: while one `mlwatch run` slot is the only user the file has had |
| `DeliveryPipelineProofs` | `PipelineInvariantHolds` | `[]PipelineInvariant` |
| | `PackagesAreMeasured`, `PackageImagesStay`, `ApprovalsWereServed`, `ProductionAskedFor` | the four safety properties of the pipeline, from it |
| `HoldoutEvidenceProofs` | `EvidenceInvariantHolds`, `ScoredOnUntouchedRows` | `[]EvidenceInvariant`, and from it `[]UntouchedHoldout` |
| | `ReplacedOnOneSnapshot` | the action property `ReplacedOnItsOwnSnapshot` |
| | `ChampionsAreMeasured` | the action property `MovesAreMeasured`; groups of a single class have no AUC and are passed over |
| `CaptureWindowProofs` | `PerformanceIsOfCurrentLabels` | `[]LabelsAreCurrent` |
| | `MetricsAreByDefinition` | `[]MetricsMeetDefinitions` |
| | `DriftIsOfAllValues`, `LostFeatureIsReported` | `[]UsableValuesAreCounted`, `[]UnusableFeatureIsReported` |
| | `AdjustmentIsStepUp` | `[]AdjustedIsStepUp` |
| `ModelServingProofs` | `ServingInvariantHolds` | `[]ServingInvariant` |
| | `ServedAsDescribed`, `TrainingLeavesAModel`, `FailuresAreReported`, `AnswersHaveReasons` | the four safety properties of serving, from it |
| | `ServingImplementsPublished` | the refinement of `PublishedModels` |

Each invariant is proved by one lemma per action (or group of actions that do
the same), and the temporal step combines them. `Serial` says that there is at
most one command slot of a stage: commands still follow each other in any order,
and may be interrupted anywhere. `Alone` is a state formula that says the same of
promotes, so the invariants of promotions hold for any number of jobs and say what
is true until a second slot is used.

Why the invariants are stronger than the properties:

* `OnlyApprovedReachesTheStage` says nothing of commands that run. A deploy
  creates a model minutes after it read the approval, so `ApprovedReleases`
  adds that the package a deploy works on was Approved at some time, and that
  the history remembers every approval. The rollback command may be given any
  configuration, but SageMaker accepts only one that exists.
* The five properties of a stage speak of the end of a command. `StageInvariant`
  says what holds at each of its calls: a deploy has a model and a configuration
  once it has made them (`DeployHasItsParts`), an update under way replaces
  another configuration that still exists (`UpdateReplacesAnother`), the endpoint
  is InService on the package when alarms are put (`EndpointHasArrived`), and a
  teardown deletes what refers to a thing before the thing (`TeardownWorksInwards`).
* `AliasesAreEarned` says nothing of jobs past the gate; `EarnedInvariant` adds
  that they carry an earned version, that what they read as the champion has
  held the alias, and that a registration only ever points `@challenger`.
* The refinement needs what a job has read to be still true: `AloneInvariant`,
  the first part of `SerialInvariant`, says so, which is where one job at a time
  is used, and that `@previous` is already the incumbent when `@champion` moves.
  `JobLeavesTrail` says which tags a job has written at each call after the move.
* `RetrainMatchesHistory` needs the counters to be the lengths of the streaks,
  in the file and in every memory, not only in the process that decides.
  `ReportedIsCounted` needs that a job that is alone has in memory, and has saved
  before it reports, all that was reported (`JobIsSaved`).
* `PackageImageIsTheTrainedOne` needs `TrainedAsTagged`: from the start of a
  training on, the tag of the run's commit names the image it trains in or that
  image is expired, because the repository refuses to move a tag. `RunsAreInOrder`
  says that a job, also when it is started again, finds the outputs of the jobs
  before it, and that staging has had the package before the approve job.
* `ApprovedWasServed` and `ProductionWasAskedFor` speak of the ends of a release;
  `ReleasesAreInOrder` says what it relies on at each call: a release to production
  goes to a configuration that was asked for and back to one that was, whatever
  was approved or rejected since, and a release to staging tests once staging has
  had its configuration or is being created with it.
* `UntouchedHoldout` needs that the digest tag, when there is one, is of what the
  run was fitted on: it is set before the model is logged and never again, and a
  manifest that was altered since is refused because it differs from it.
* `ServedModelMatchesItsMetadata` needs what the training has left at each step
  (`TrainingInOrder`, `StampedAsFitted`) and that a worker about to unpickle has
  verified the very file, or was raced (`LoadedIsVerified`).

* The properties of a window hold of every report by itself, so their invariant
  (`WindowInvariant`) is small: the baseline was built of some file, the labels are
  records. The work is in the lemmas about the operators, below.

How the measures are proved, without an induction theorem: a sum is any function
on the subsets of its indices that grows by the right summands, since a smallest set
on which they differ cannot exist (`SumIs`). So a sum of counts is the cardinality of
a disjoint union (`CountsAddUp`), and the sum, over the elements of a set, of how many
others are related to them is a number of pairs (`PairsAddUp`). Two
sets have as many elements when there is a bijection (`OneToOne`), and an optimum
exists because a finite set has a greatest element (`GreatestElement`).

* AUC: the average rank of a bad row counts the rows before it and those not
  after it; split into bad and good rows, the sum over all bad rows is n * (n + 1)
  plus twice the ordered and once the tied pairs (`RankSum`, `AucIsPairs`).
* KS: between two scores that occur the gap of the distributions does not change, so
  the widest is met at a row, and there at the last of its ties (`GapIsAtRow`,
  `KsIsWidest`).
* Lift: the place of a row is a bijection from the rows to 1 .. n (`PlaceOfRow`), and
  the groups are consecutive intervals that end in n (`GroupEnds`), also when there
  are fewer rows than groups.
* Benjamini-Hochberg: an ascending enumeration of the tests exists
  (`AscendingExists`, by ranks), its first k tests are those not above the k-th
  (`FirstInOrder`), and the least of the fractions exists and is compared by
  cross-multiplication (`LeastFraction`, `FractionsCompose`, `AdjustedByStepUp`).
* Bins: each finite value has exactly one number of edges below it
  (`BinsHoldTheValues`), for any edges.

Only model-checked: `EveryCommandEnds`, `ServingSettles` and `TrainingWaitEnds`.
Liveness under fairness is out of the prover's reach.

Assumptions: `NoneAssumption`, `ReleaseAssumption`, `PromotionAssumption` (the
only alias given to `register` and `train` is `@challenger`, as the Makefile,
CI and documents do; `--alias champion` would bypass the gate),
`PolicyAssumption`, `LoopAssumption`, `PipelineAssumption` (run ids and commits
are different tags), `EvidenceAssumption` (a split holds out some rows and not
all, labels are 0 and 1, models score rows by 0 .. Grid), `ServingAssumption` (a
package's metadata are of some training), `TrainingAssumption`, `MetricAssumption`
(what `NaN` stands for is no number), `MeasureAssumption` (finitely many features;
the quality rules are fractions), `WindowAssumption` (records are what the schema
admits) and `TestAssumption` (a p-value is a number from 0 to 1). TLC evaluates each
of them in the runs.

## 5. Not modelled

* The exporter's gauges and `/report`: they mirror the last report. Their order
  relative to the save matters to the state and is in `MonitorLoop`.
* The cache that carries the state file between scheduled runs: what GitHub does
  with a key that exists already is not in the repository. That a state can be
  lost or go back is a hazard without a property.
* The simulator and the evaluation of the monitor, and the synthetic data of
  `smdeploy`: they are not part of the running system.
* `mlreg` schema validation, plots, cards, the pyfunc wrapper, `clients.py`:
  stateless, presentational or a constructor call.
* Numerical values: the fit, log loss, PSI, p-values, Jensen-Shannon and
  Wasserstein. Where a decision depends on one, the model allows every outcome
  the code can produce.

`PROJECT.json` lists every component with its status.

## 6. Plan

Modelling is complete up to section 5, and every safety property of a passing run is a
theorem. What is left:

1. The part of liveness that is safety: measures that each step of a started
   command, a training wait and a loading worker decreases, so that only fairness is
   left to TLC.
2. Lemmas about operators that no run's property states yet: that the severity
   `AlertPolicy` gives a window never falls when a measurement gets worse, and that
   `EvaluateGate` never promotes what fails one of its checks on every resample.
