-------------------------- MODULE DeliveryPipeline --------------------------
(***************************************************************************)
(* The CD workflow: build and push an image, train in it, register the     *)
(* package, deploy to staging, approve, deploy to production.  Workflow    *)
(* runs overlap, a job of a run may fail or be cut off after any call, and *)
(* a failed or finished run may be started again from any of its jobs with *)
(* the outputs of the jobs before it.  Meanwhile a person may register,    *)
(* approve, reject and deploy with the same command line.                  *)
(*                                                                         *)
(* EndpointRelease is the detail of one stage.  Here, of a release: the    *)
(* package and its approval are read in one step, a creation that fails    *)
(* stays a creation that never ends, one fleet answers a whole smoke test, *)
(* and the command that sent a rollback fails without waiting for it.      *)
(***************************************************************************)
EXTENDS Integers, Sequences, FiniteSets, SequencesExt

CONSTANTS
  Runs,        \* workflow runs
  Commits,     \* git commits
  None,        \* no commit, no run, no configuration
  Dispatches,  \* <<run, commit, production>>: how a run may be dispatched
  KeepLast,    \* keep_last of the lifecycle policy
  MaxPolls,    \* polls before the deadline of wait_for_training_job
  MaxCommands, \* bound: runs dispatched or started again, commands given by hand
  MaxPackages  \* bound: packages registered

\* A run has one release at a time; None is the release of a person.
Releasers == Runs \cup {None}

\* The name of an endpoint configuration hashes the model data, by the run
\* that trained it, and the image, by the commit.
Configs == Releasers \X Commits

ASSUME PipelineAssumption ==
  /\ Runs \cap Commits = {} /\ None \notin Runs \cup Commits \cup Configs
  /\ Dispatches \subseteq Runs \X Commits \X BOOLEAN
  /\ {KeepLast, MaxPolls, MaxCommands, MaxPackages} \subseteq Nat

VARIABLES
  run,       \* the workflow runs
  tags,      \* the ECR repository: what each tag names
  images,    \* the images in the repository, oldest push first
  training,  \* the training job of each run, in SageMaker
  packages,  \* the model package group, in order of version
  endpoint,  \* the endpoint of each stage
  release,   \* the release of each run, and of the person (None)
  builds,    \* the images built so far
  expired,   \* the images expired so far: history
  served,    \* the configurations staging has had in service: history
  answered,  \* those that answered a passing smoke test of their own: history
  commands   \* what was asked of the pipeline so far: a count

pushes   == <<tags, images, builds, expired>>
releases == <<endpoint, release, served, answered>>
vars     == <<run, training, packages, commands, pushes, releases>>

Tags   == Commits \cup Runs
Stages == {"staging", "production"}

Jobs   == <<"build", "train", "register", "staging", "approve", "production">>

\* An image is named by the number of its build; a package by its version.
\* pc: the job that comes next or runs; at: the call in it; push: the tags
\* still to be pushed; package: the output of the register job.
NoRun == [pc |-> "none", at |-> "start", commit |-> None, production |-> FALSE,
          image |-> 0, push |-> <<>>, polls |-> 0, package |-> 0]

NoRelease == [at |-> "idle", stage |-> "staging", package |-> 0, previous |-> None]

NoTraining == [status |-> "none", image |-> 0, auc |-> "missing"]

Init ==
  /\ run = [r \in Runs |-> NoRun]
  /\ tags = [t \in Tags |-> 0]
  /\ images = <<>>
  /\ training = [r \in Runs |-> NoTraining]
  /\ packages = <<>>
  /\ endpoint = [s \in Stages |-> [config |-> None, target |-> None]]
  /\ release = [d \in Releasers |-> NoRelease]
  /\ builds = 0 /\ expired = {} /\ served = {} /\ answered = {} /\ commands = 0

\* GitHub, the monitor or a person asks for something.
Commanded == commands < MaxCommands /\ commands' = commands + 1

(***************************************************************************)
(* GitHub: a run is dispatched by a tag or by hand, or by the monitor with *)
(* production disabled.                                                    *)
(***************************************************************************)
Dispatch(r, commit, production) ==
  /\ <<r, commit, production>> \in Dispatches
  /\ run[r].pc = "none" /\ Commanded
  /\ run' = [run EXCEPT ![r] = [NoRun EXCEPT !.pc = "build", !.commit = commit,
                                             !.production = production]]
  /\ UNCHANGED <<training, packages, pushes, releases>>

\* The job fails: a call raised, or the runner was cut off.
Failed(r) == [run[r] EXCEPT !.at = "failed", !.push = <<>>, !.polls = 0]

CutOff(r) ==
  /\ run[r].pc \notin {"none", "end"} /\ run[r].at # "failed"
  /\ run' = [run EXCEPT ![r] = Failed(r)]
  /\ release' = [release EXCEPT ![r] = NoRelease]
  /\ UNCHANGED <<training, packages, commands, pushes, endpoint, served, answered>>

Position(job) == CHOOSE i \in DOMAIN Jobs : Jobs[i] = job

\* Mutant: approve needs the register job only.
RerunAnywhere(r, job) ==
  /\ run[r].at = "failed" \/ run[r].pc = "end"
  /\ job = "approve" /\ run[r].package # 0 /\ run[r].production
  /\ Commanded
  /\ run' = [run EXCEPT ![r].pc = job, ![r].at = "start"]
  /\ UNCHANGED <<training, packages, pushes, releases>>

\* What was needed by a job stays what it was.
Rerun(r, job) ==
  /\ run[r].at = "failed" \/ run[r].pc = "end"
  /\ run[r].pc # "end" => Position(job) <= Position(run[r].pc)
  /\ job \in {"approve", "production"} => run[r].production
  /\ Commanded
  /\ run' = [run EXCEPT ![r].pc = job, ![r].at = "start"]
  /\ UNCHANGED <<training, packages, pushes, releases>>

At(r, job, call) == run[r].pc = job /\ run[r].at = call

(***************************************************************************)
(* build-push: docker build, then one push per tag.  A tag that exists is  *)
(* refused: the repository is immutable.                                   *)
(***************************************************************************)
Build(r) ==
  /\ At(r, "build", "start")
  /\ builds' = builds + 1
  /\ run' = [run EXCEPT ![r].at = "push", ![r].image = builds + 1,
                        ![r].push = <<run[r].commit, r>>]
  /\ UNCHANGED <<tags, images, training, packages, expired, commands, releases>>

Pushed(r) ==
  /\ tags' = [tags EXCEPT ![Head(run[r].push)] = run[r].image]
  /\ images' = IF Contains(images, run[r].image) THEN images ELSE Append(images, run[r].image)
  /\ run' = [run EXCEPT ![r] =
       IF Len(run[r].push) = 1
       THEN [run[r] EXCEPT !.pc = "train", !.at = "start", !.push = <<>>]
       ELSE [run[r] EXCEPT !.push = Tail(run[r].push)]]

\* Mutant: a repository with mutable tags.
PushOver(r) ==
  /\ At(r, "build", "push") /\ Pushed(r)
  /\ UNCHANGED <<training, packages, builds, expired, commands, releases>>

Push(r) ==
  /\ At(r, "build", "push")
  /\ IF tags[Head(run[r].push)] # 0
     THEN run' = [run EXCEPT ![r] = Failed(r)] /\ UNCHANGED <<tags, images>>
     ELSE Pushed(r)
  /\ UNCHANGED <<training, packages, builds, expired, commands, releases>>

\* The lifecycle policy expires the image pushed first, with its tags.
Expire ==
  /\ Len(images) > KeepLast
  /\ images' = Tail(images)
  /\ tags' = [t \in Tags |-> IF tags[t] = Head(images) THEN 0 ELSE tags[t]]
  /\ expired' = expired \cup {Head(images)}
  /\ UNCHANGED <<run, training, packages, builds, commands, releases>>

(***************************************************************************)
(* train: a job named after the run, in the image the commit's tag names.  *)
(***************************************************************************)
StartTraining(r) ==
  /\ At(r, "train", "start")
  /\ IF training[r].status # "none" \/ tags[run[r].commit] = 0
     THEN run' = [run EXCEPT ![r] = Failed(r)] /\ UNCHANGED training
     ELSE /\ training' = [training EXCEPT ![r].status = "InProgress",
                                          ![r].image = tags[run[r].commit]]
          /\ run' = [run EXCEPT ![r].at = "wait"]
  /\ UNCHANGED <<packages, commands, pushes, releases>>

\* SageMaker: Completed, or Failed or Stopped, which end the wait alike; auc:
\* what the metric's regex found in the log.
TrainingEnds(r, status, auc) ==
  /\ training[r].status = "InProgress"
  /\ status # "Completed" => auc = "missing"
  /\ training' = [training EXCEPT ![r].status = status, ![r].auc = auc]
  /\ UNCHANGED <<run, packages, commands, pushes, releases>>

\* Mutant: the wait has no deadline.
WaitForever(r) ==
  /\ At(r, "train", "wait")
  /\ run' = [run EXCEPT ![r] =
       CASE training[r].status = "Completed" -> [run[r] EXCEPT !.pc = "register", !.at = "start", !.polls = 0]
         [] training[r].status = "Failed"    -> Failed(r)
         [] OTHER                            -> @]
  /\ UNCHANGED <<training, packages, commands, pushes, releases>>

\* One describe_training_job, and the sleep after it.
WaitForTrainingJob(r) ==
  /\ At(r, "train", "wait")
  /\ run' = [run EXCEPT ![r] =
       CASE training[r].status = "Completed" -> [run[r] EXCEPT !.pc = "register", !.at = "start", !.polls = 0]
         [] training[r].status = "Failed"    -> Failed(r)
         [] training[r].status = "InProgress" /\ run[r].polls < MaxPolls ->
              [run[r] EXCEPT !.polls = run[r].polls + 1]
         [] OTHER                            -> Failed(r)]
  /\ UNCHANGED <<training, packages, commands, pushes, releases>>

(***************************************************************************)
(* register: refused below --min-auc, a metric that is missing being 0.    *)
(***************************************************************************)
\* image: the tag; run: who trained the model data, None when it was no run;
\* trained, auc and by, who has approved the package so far, are history.
NewPackage(r) ==
  [image |-> run[r].commit, approval |-> "PendingManualApproval", run |-> r,
   trained |-> training[r].image, auc |-> training[r].auc, by |-> {}]

\* Mutant: only a metric that is there is compared.
MeetsMinAucIfAny(auc) == auc # "low"
MeetsMinAuc(auc) == auc = "high"

RegisterCall(r) ==
  /\ At(r, "register", "start") /\ Len(packages) < MaxPackages
  /\ IF MeetsMinAuc(training[r].auc)
     THEN /\ packages' = Append(packages, NewPackage(r))
          /\ run' = [run EXCEPT ![r].at = "output"]
     ELSE run' = [run EXCEPT ![r] = Failed(r)] /\ UNCHANGED packages
  /\ UNCHANGED <<training, commands, pushes, releases>>

\* smdeploy register by hand, with or without --approve: a model of somebody's
\* own, in an image of a commit that is in the repository.
RegisterByHand(c, approve) ==
  /\ Commanded /\ Len(packages) < MaxPackages /\ tags[c] # 0
  /\ packages' = Append(packages,
       [image |-> c, approval |-> IF approve THEN "Approved" ELSE "PendingManualApproval",
        run |-> None, trained |-> 0, auc |-> "missing",
        by |-> IF approve THEN {"person"} ELSE {}])
  /\ UNCHANGED <<run, training, pushes, releases>>

\* The package the call of this run created last.
PackageOf(r) ==
  CHOOSE v \in DOMAIN packages :
    /\ packages[v].run = r
    /\ \A u \in DOMAIN packages : packages[u].run = r => u <= v

RegisterOutput(r) ==
  /\ At(r, "register", "output")
  /\ run' = [run EXCEPT ![r].pc = "staging", ![r].at = "start", ![r].package = PackageOf(r)]
  /\ UNCHANGED <<training, packages, commands, pushes, releases>>

(***************************************************************************)
(* deploy: the release of a package to a stage, one call a step.           *)
(***************************************************************************)
\* The name of an endpoint configuration hashes the image and the model data.
Config(v) == <<packages[v].run, packages[v].image>>

\* require_approved: production only.
Eligible(s, v) == s = "production" => packages[v].approval = "Approved"

StartsRelease(d, s, v) ==
  release' = [release EXCEPT ![d] =
    [at |-> "describe", stage |-> s, package |-> v, previous |-> None]]

StartRelease(r, s) ==
  /\ At(r, s, "start")
  /\ IF Eligible(s, run[r].package)
     THEN /\ StartsRelease(r, s, run[r].package)
          /\ run' = [run EXCEPT ![r].at = "release"]
     ELSE run' = [run EXCEPT ![r] = Failed(r)] /\ UNCHANGED release
  /\ UNCHANGED <<training, packages, commands, pushes, endpoint, served, answered>>

\* By hand: any package, so the latest one that is eligible too.
DeployByHand(s, v) ==
  /\ release[None].at = "idle" /\ Commanded
  /\ Eligible(s, v) /\ StartsRelease(None, s, v)
  /\ UNCHANGED <<run, training, packages, pushes, endpoint, served, answered>>

Releasing(d, call) == release[d].at = call

\* Mutant: the input deploy_production is not looked at.
AfterDeployAlways(r, s) ==
  IF s = "staging" THEN [run[r] EXCEPT !.pc = "approve", !.at = "start"]
                   ELSE [run[r] EXCEPT !.pc = "end", !.at = "start"]

\* The `if` of the approve job.
AfterDeploy(r, s) ==
  CASE s = "staging" /\ run[r].production -> [run[r] EXCEPT !.pc = "approve", !.at = "start"]
    [] OTHER                               -> [run[r] EXCEPT !.pc = "end", !.at = "start"]

\* The command returns, or raises.
Ends(d, ok) ==
  /\ release' = [release EXCEPT ![d] = NoRelease]
  /\ run' = IF d = None THEN run
            ELSE [run EXCEPT ![d] = IF ok THEN AfterDeploy(d, release[d].stage) ELSE Failed(d)]

Proceeds(d, call, previous) ==
  /\ release' = [release EXCEPT ![d].at = call, ![d].previous = previous]
  /\ UNCHANGED run

EndpointOf(d) == endpoint[release[d].stage]
Wanted(d)     == Config(release[d].package)

InService(e) == e.config # None /\ e.target = None

\* An endpoint that is being created already has the name of its configuration.
Named(e) == IF e.config = None THEN e.target ELSE e.config

Describe(d) ==
  /\ Releasing(d, "describe")
  /\ LET e == EndpointOf(d)
     IN  \/ Named(e) = None /\ Proceeds(d, "send", None)
         \/ Named(e) = Wanted(d) /\ Proceeds(d, "smoke", None)   \* "unchanged"
         \/ Named(e) \notin {None, Wanted(d)} /\ InService(e) /\ Proceeds(d, "send", e.config)
         \/ Named(e) \notin {None, Wanted(d)} /\ ~InService(e) /\ Ends(d, FALSE)
  /\ UNCHANGED <<training, packages, commands, pushes, endpoint, served, answered>>

\* create_endpoint needs that there is none, update_endpoint one InService.
Accepted(d) ==
  IF release[d].previous = None THEN Named(EndpointOf(d)) = None ELSE InService(EndpointOf(d))

Send(d) ==
  /\ Releasing(d, "send")
  /\ IF Accepted(d)
     THEN /\ endpoint' = [endpoint EXCEPT ![release[d].stage].target = Wanted(d)]
          /\ Proceeds(d, "wait", release[d].previous)
     ELSE Ends(d, FALSE) /\ UNCHANGED endpoint
  /\ UNCHANGED <<training, packages, commands, pushes, served, answered>>

\* Mutant: whatever is InService is what was asked for.
ArrivedOnAnything(d) == InService(EndpointOf(d))

\* The configuration is compared: SageMaker may have rolled back.
Arrived(d) == InService(EndpointOf(d)) /\ EndpointOf(d).config = Wanted(d)

\* The last poll, at the deadline if the endpoint is still changing.
WaitInService(d) ==
  /\ Releasing(d, "wait")
  /\ IF Arrived(d) THEN Proceeds(d, "smoke", release[d].previous) ELSE Ends(d, FALSE)
  /\ UNCHANGED <<training, packages, commands, pushes, endpoint, served, answered>>

\* During an update both fleets take requests, whoever's test it is.
SmokePasses(d) ==
  /\ Releasing(d, "smoke") /\ EndpointOf(d).config # None
  /\ \E fleet \in {EndpointOf(d).config, EndpointOf(d).target} \ {None} :
       answered' = IF fleet = Wanted(d) /\ release[d].stage = "staging"
                   THEN answered \cup {fleet} ELSE answered
  /\ Ends(d, TRUE)
  /\ UNCHANGED <<training, packages, commands, pushes, endpoint, served>>

SmokeFails(d) ==
  /\ Releasing(d, "smoke")
  /\ IF release[d].previous # None THEN Proceeds(d, "rollback", release[d].previous)
                                   ELSE Ends(d, FALSE)
  /\ UNCHANGED <<training, packages, commands, pushes, endpoint, served, answered>>

RollBack(d) ==
  /\ Releasing(d, "rollback") /\ Ends(d, FALSE)
  /\ endpoint' = IF InService(EndpointOf(d))
                 THEN [endpoint EXCEPT ![release[d].stage].target = release[d].previous]
                 ELSE endpoint
  /\ UNCHANGED <<training, packages, commands, pushes, served, answered>>

ReleaseStep(d) ==
  Describe(d) \/ Send(d) \/ WaitInService(d) \/ SmokePasses(d) \/ SmokeFails(d) \/ RollBack(d)

\* The person's command is interrupted.
Interrupt ==
  /\ release[None].at # "idle" /\ Ends(None, FALSE)
  /\ UNCHANGED <<training, packages, commands, pushes, endpoint, served, answered>>

(***************************************************************************)
(* SageMaker: the new fleet is up, with an image that can be pulled; or an *)
(* update goes back to the configuration it came from.                     *)
(***************************************************************************)
Lands(s) ==
  LET k == endpoint[s].target
  IN  /\ k # None /\ tags[k[2]] # 0
      /\ endpoint' = [endpoint EXCEPT ![s] = [config |-> k, target |-> None]]
      /\ served' = IF s = "staging" THEN served \cup {k} ELSE served
      /\ UNCHANGED <<run, training, packages, commands, pushes, release, answered>>

RolledBack(s) ==
  /\ endpoint[s].config # None /\ endpoint[s].target # None
  /\ endpoint' = [endpoint EXCEPT ![s].target = None]
  /\ UNCHANGED <<run, training, packages, commands, pushes, release, served, answered>>

(***************************************************************************)
(* approve: after the reviewers of the environment let the job start; or   *)
(* by hand, either way.                                                    *)
(***************************************************************************)
ApproveCall(r) ==
  /\ At(r, "approve", "start")
  /\ packages' = [packages EXCEPT ![run[r].package].approval = "Approved",
                                  ![run[r].package].by = @ \cup {"workflow"}]
  /\ run' = [run EXCEPT ![r].at = "output"]
  /\ UNCHANGED <<training, commands, pushes, releases>>

ApproveOutput(r) ==
  /\ At(r, "approve", "output")
  /\ run' = [run EXCEPT ![r].pc = "production", ![r].at = "start"]
  /\ UNCHANGED <<training, packages, commands, pushes, releases>>

ApproveByHand(v) ==
  /\ Commanded
  /\ packages' = [packages EXCEPT ![v].approval = "Approved", ![v].by = @ \cup {"person"}]
  /\ UNCHANGED <<run, training, pushes, releases>>

RejectByHand(v) ==
  /\ Commanded
  /\ packages' = [packages EXCEPT ![v].approval = "Rejected"]
  /\ UNCHANGED <<run, training, pushes, releases>>

RunStep(r) ==
  \/ Build(r) \/ Push(r)
  \/ StartTraining(r) \/ WaitForTrainingJob(r)
  \/ RegisterCall(r) \/ RegisterOutput(r)
  \/ \E s \in Stages : StartRelease(r, s)
  \/ ApproveCall(r) \/ ApproveOutput(r)

HandStep ==
  \/ \E c \in Commits, approve \in BOOLEAN : RegisterByHand(c, approve)
  \/ \E v \in DOMAIN packages :
       \/ ApproveByHand(v) \/ RejectByHand(v)
       \/ \E s \in Stages : DeployByHand(s, v)
  \/ Interrupt

Next ==
  \/ \E r \in Runs :
       \/ \E c \in Commits, production \in BOOLEAN : Dispatch(r, c, production)
       \/ RunStep(r) \/ CutOff(r)
       \/ \E i \in DOMAIN Jobs : Rerun(r, Jobs[i])
       \/ \E status \in {"Completed", "Failed"}, auc \in {"high", "low", "missing"} :
            TrainingEnds(r, status, auc)
  \/ \E d \in Releasers : ReleaseStep(d)
  \/ \E s \in Stages : Lands(s) \/ RolledBack(s)
  \/ Expire \/ HandStep

\* The wait of a training job goes on; nothing else has to happen.
Spec == Init /\ [][Next]_vars /\ \A r \in Runs : WF_vars(WaitForTrainingJob(r))

Pcs == {"none", "end"} \cup {Jobs[i] : i \in DOMAIN Jobs}

\* The records of a repository of b images and a group of n packages.
RunType(b, n) ==
  [pc : Pcs, at : {"start", "push", "wait", "output", "release", "failed"},
   commit : Commits \cup {None}, production : BOOLEAN, image : 0..b,
   push : Seq(Tags), polls : 0..MaxPolls, package : 0..n]

TrainingType(b) ==
  [status : {"none", "InProgress", "Completed", "Failed"}, image : 0..b,
   auc : {"high", "low", "missing"}]

PackageType(b) ==
  [image : Commits, approval : {"PendingManualApproval", "Approved", "Rejected"},
   run : Releasers, trained : 0..b, auc : {"high", "low", "missing"},
   by : SUBSET {"workflow", "person"}]

EndpointType == [config : Configs \cup {None}, target : Configs \cup {None}]

ReleaseType(n) ==
  [at : {"idle", "describe", "send", "wait", "smoke", "rollback"}, stage : Stages,
   package : 0..n, previous : Configs \cup {None}]

TypeOK ==
  /\ run \in [Runs -> RunType(builds, Len(packages))]
  /\ tags \in [Tags -> 0..builds] /\ Range(tags) \subseteq {0} \cup Range(images)
  /\ images \in Seq(1..builds) /\ builds \in Nat /\ expired \subseteq 1..builds
  /\ training \in [Runs -> TrainingType(builds)]
  /\ packages \in Seq(PackageType(builds))
  /\ endpoint \in [Stages -> EndpointType]
  /\ release \in [Releasers -> ReleaseType(Len(packages))]
  /\ served \subseteq Configs /\ answered \subseteq Configs
  /\ commands \in 0..MaxCommands

(***************************************************************************)
(* Properties.                                                             *)
(***************************************************************************)

\* The packages the workflow registers.
OfRuns == {v \in DOMAIN packages : packages[v].run # None}

\* A package of a run is registered by the commit's tag and not by digest, and
\* still runs in the image its model was trained in, whatever else was built
\* for the commit since, as long as that image has not been expired: the tags
\* are immutable and pushed before the training starts (ecr.py, cd.yml).
PackageImageIsTheTrainedOne ==
  \A v \in OfRuns :
    packages[v].trained \notin expired => tags[packages[v].image] = packages[v].trained

\* Whatever was started again, cut off or overlapped, a package of a run
\* carries the result of the one training job of that run, completed and
\* measured at --min-auc or better; a metric that never arrived does not pass.
PackageIsMeasured ==
  \A v \in OfRuns :
    LET job == training[packages[v].run]
    IN  /\ job.status = "Completed" /\ job.auc = "high"
        /\ job.image = packages[v].trained

\* The workflow approves only what staging has had in service, whatever other
\* runs and people released to staging in between, and whatever SageMaker took
\* back: the wait after an update compares the configuration (endpoint.py:272),
\* and a deployment that finds its own configuration changes nothing.
ApprovedWasServed ==
  \A v \in DOMAIN packages : "workflow" \in packages[v].by => Config(v) \in served

\* The approval of the workflow records "staging smoke passed in run ..."
\* (cd.yml:165) of the package of that run: its own smoke test was answered by
\* its own containers.  The code does not see who answered (release.py:167).
ApprovedAnsweredItsSmoke ==
  \A v \in DOMAIN packages : "workflow" \in packages[v].by => Config(v) \in answered

\* A person approved a package of this configuration by hand, or the workflow
\* did, for a run dispatched to go to production, after staging had it.
AskedFor(k) ==
  \E v \in DOMAIN packages :
    /\ Config(v) = k
    /\ \/ "person" \in packages[v].by
       \/ "workflow" \in packages[v].by /\ run[packages[v].run].production /\ k \in served

\* What production serves or is being updated to was asked for, through
\* overlapping releases, revoked approvals and rollbacks of either kind: a
\* retraining the monitor dispatches stays in staging until a person approves
\* its package (cd.yml:148, release.py:140).
ProductionWasAskedFor ==
  \A k \in {endpoint["production"].config, endpoint["production"].target} \ {None} : AskedFor(k)

Started(r) == run[r].pc # "none"

\* What the jobs before a job of a run have left for it.
InOrder(r) ==
  LET pc == run[r].pc
      v  == run[r].package
  IN  /\ Started(r) => run[r].commit \in Commits
      /\ run[r].at = "failed" => Started(r)
      /\ run[r].at = "push" => run[r].image # 0 /\ run[r].push \in {<<run[r].commit, r>>, <<r>>}
      /\ v # 0 => packages[v].run = r
      /\ pc \in {"register", "staging", "approve", "production", "end"} =>
           training[r].status = "Completed"
      /\ pc \in {"staging", "approve", "production", "end"} => v # 0
      /\ pc \in {"approve", "production"} => run[r].production
      /\ pc \in {"approve", "production", "end"} => Config(v) \in served
      /\ At(r, "register", "output") => \E u \in DOMAIN packages : packages[u].run = r

RunsAreInOrder == \A r \in Runs : InOrder(r)

\* A job trains the image of its run's commit, and that tag moves only when
\* the image is gone.
TrainedAsTagged ==
  \A r \in Runs : training[r].status # "none" =>
    /\ Started(r) /\ training[r].image # 0
    /\ training[r].image \in expired \/ tags[run[r].commit] = training[r].image

\* A package of a run names its commit; an approval is somebody's, and that of
\* the workflow stands for a run that was asked to go to production.
PackagesAreOfTheirRuns ==
  \A v \in DOMAIN packages :
    /\ v \in OfRuns =>
         Started(packages[v].run) /\ packages[v].image = run[packages[v].run].commit
    /\ packages[v].approval = "Approved" => packages[v].by # {}
    /\ "workflow" \in packages[v].by => v \in OfRuns /\ run[packages[v].run].production

\* A release of a run is that of its package to the stage of its job.  It goes
\* to production, or back in it, with what was asked for; and it tests staging
\* once staging has had its configuration, or is being created with it.
InProgress(d) ==
  LET x == release[d]
  IN  x.at # "idle" =>
    /\ x.package # 0
    /\ d # None => At(d, x.stage, "release") /\ x.package = run[d].package
    /\ x.stage = "production" =>
         AskedFor(Wanted(d)) /\ (x.previous # None => AskedFor(x.previous))
    /\ x.stage = "staging" /\ x.at = "smoke" =>
         Wanted(d) \in served \/ endpoint["staging"] = [config |-> None, target |-> Wanted(d)]

ReleasesAreInOrder == \A d \in Releasers : InProgress(d)

StagingWasServed == endpoint["staging"].config # None => endpoint["staging"].config \in served

\* What the steps of the pipeline preserve, whatever overlaps, fails or is
\* started again: each job finds what the jobs before it left (cd.yml `needs`
\* and `if`), and the packages and tags keep standing for it.
PipelineInvariant ==
  /\ TypeOK
  /\ RunsAreInOrder /\ ReleasesAreInOrder
  /\ TrainedAsTagged /\ PackagesAreOfTheirRuns /\ PackageIsMeasured
  /\ StagingWasServed /\ ApprovedWasServed /\ ProductionWasAskedFor

\* The wait for a training job ends, by its status or by the deadline, also
\* when the job never does (wait_for_training_job).
TrainingWaitEnds ==
  \A r \in Runs : [](At(r, "train", "wait") => <>~At(r, "train", "wait"))
=============================================================================
