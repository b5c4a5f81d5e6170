----------------------- MODULE DeliveryPipelineProofs -----------------------
(***************************************************************************)
(* Theorems of DeliveryPipeline for any runs, commits and dispatches, any  *)
(* number of overlapping and restarted runs, any commands of a person in   *)
(* between, and any bound.                                                 *)
(***************************************************************************)
EXTENDS DeliveryPipeline, TLAPS, WellFoundedInduction, SequenceTheorems

\* The six jobs of the workflow, in their order.
LEMMA JobsFacts ==
  /\ DOMAIN Jobs = 1..6
  /\ Jobs[1] = "build" /\ Jobs[2] = "train" /\ Jobs[3] = "register"
  /\ Jobs[4] = "staging" /\ Jobs[5] = "approve" /\ Jobs[6] = "production"
  /\ Pcs = {"none", "end", "build", "train", "register", "staging", "approve", "production"}
<1>1. /\ Jobs[1] = "build" /\ Jobs[2] = "train" /\ Jobs[3] = "register"
      /\ Jobs[4] = "staging" /\ Jobs[5] = "approve" /\ Jobs[6] = "production"
      /\ DOMAIN Jobs = 1..6
  BY DEF Jobs
<1>2. DOMAIN Jobs = {1, 2, 3, 4, 5, 6}
  BY <1>1
<1> QED
  BY <1>1, <1>2 DEF Pcs

\* A job is in one place of the workflow.
LEMMA PositionOf == \A i \in 1..6 : Position(Jobs[i]) = i
<1>1. \A i, j \in 1..6 : Jobs[i] = Jobs[j] => i = j
  BY JobsFacts
<1> QED
  BY <1>1, JobsFacts DEF Position

\* A nonempty set of versions has a last one.
LEMMA LastExists ==
  ASSUME NEW n \in Nat, NEW S \in SUBSET (1..n), S # {}
  PROVE  \E v \in S : \A u \in S : u <= v
<1> DEFINE T == {n - v : v \in S}
<1>1. T \subseteq Nat /\ T # {}
  OBVIOUS
<1>2. PICK m \in T : \A x \in T : ~(<<x, m>> \in OpToRel(<, Nat))
  BY <1>1, NatLessThanWellFounded, WFMin
<1>3. PICK v \in S : m = n - v
  BY <1>2
<1>4. ASSUME NEW u \in S PROVE u <= v
  <2>1. n - u \in T /\ n - u \in Nat /\ m \in Nat
    BY <1>1, <1>2
  <2>2. ~(n - u < m)
    BY <1>2, <2>1 DEF OpToRel
  <2> QED
    BY <1>3, <2>2
<1> QED
  BY <1>3, <1>4

\* The types of the pipeline, and those of the endpoints and their releases.
PipelineType ==
  /\ run \in [Runs -> RunType(builds, Len(packages))]
  /\ tags \in [Tags -> 0..builds] /\ Range(tags) \subseteq {0} \cup Range(images)
  /\ images \in Seq(1..builds) /\ builds \in Nat /\ expired \subseteq 1..builds
  /\ training \in [Runs -> TrainingType(builds)]
  /\ packages \in Seq(PackageType(builds))
  /\ commands \in 0..MaxCommands

ReleasesType ==
  /\ endpoint \in [Stages -> EndpointType]
  /\ release \in [Releasers -> ReleaseType(Len(packages))]
  /\ served \subseteq Configs /\ answered \subseteq Configs

\* The type invariant is that of the two halves.
LEMMA TypeParts == TypeOK <=> PipelineType /\ ReleasesType
BY DEF TypeOK, PipelineType, ReleasesType

\* Nothing is built, tagged, registered or deployed at first.
LEMMA TypeInit == Init => TypeOK
<1> SUFFICES ASSUME Init PROVE TypeOK
  OBVIOUS
<1>1. NoRun \in RunType(builds, Len(packages))
  BY JobsFacts, PipelineAssumption DEF Init, NoRun, RunType
<1>2. NoTraining \in TrainingType(builds)
  BY DEF Init, NoTraining, TrainingType
<1>3. Range(tags) \subseteq {0} \cup Range(images)
  BY DEF Init, Range
<1>4. ReleasesType
  BY DEF Init, ReleasesType, EndpointType, ReleaseType, NoRelease, Stages
<1>5. PipelineType
  BY <1>1, <1>2, <1>3, PipelineAssumption DEF Init, PipelineType
<1> QED
  BY <1>4, <1>5, TypeParts

\* A step of the pipeline that only changes a run keeps the types.
LEMMA RunStepType ==
  ASSUME TypeOK, NEW r \in Runs, NEW x \in RunType(builds, Len(packages)),
         run' = [run EXCEPT ![r] = x],
         UNCHANGED <<tags, images, training, packages, builds, expired>>,
         commands' \in 0..MaxCommands
  PROVE  PipelineType'
BY DEF TypeOK, PipelineType

\* What may be written to a run.
LEMMA FieldTypes ==
  ASSUME NEW b \in Nat, NEW n \in Nat, NEW x \in RunType(b, n)
  PROVE  /\ \A y \in Pcs : [x EXCEPT !.pc = y] \in RunType(b, n)
         /\ \A y \in {"start", "push", "wait", "output", "release", "failed"} :
              [x EXCEPT !.at = y] \in RunType(b, n)
         /\ \A y \in Commits : [x EXCEPT !.commit = y] \in RunType(b, n)
         /\ \A y \in BOOLEAN : [x EXCEPT !.production = y] \in RunType(b, n)
         /\ \A y \in Seq(Tags) : [x EXCEPT !.push = y] \in RunType(b, n)
         /\ \A y \in 0..MaxPolls : [x EXCEPT !.polls = y] \in RunType(b, n)
         /\ \A y \in 0..n : [x EXCEPT !.package = y] \in RunType(b, n)
         /\ \A y \in 0..b : [x EXCEPT !.image = y] \in RunType(b, n)
BY DEF RunType

\* The types of the pieces of the state, and of the numbers in them.
LEMMA Pieces ==
  ASSUME TypeOK
  PROVE  /\ run \in [Runs -> RunType(builds, Len(packages))]
         /\ packages \in Seq(PackageType(builds))
         /\ Len(packages) \in Nat /\ builds \in Nat /\ DOMAIN packages = 1..Len(packages)
         /\ MaxPolls \in Nat /\ 0 \in 0..MaxPolls /\ commands \in 0..MaxCommands
<1>1. MaxPolls \in Nat
  BY PipelineAssumption
<1>2. packages \in Seq(PackageType(builds)) /\ builds \in Nat /\ commands \in 0..MaxCommands
  BY DEF TypeOK
<1> QED
  BY <1>1, <1>2 DEF TypeOK

\* Jobs are program counters of a run.
LEMMA PcsFacts ==
  /\ \A i \in DOMAIN Jobs : Jobs[i] \in Pcs
  /\ {"none", "end", "build", "train", "register", "staging", "approve", "production"} = Pcs
<1>1. {"none", "end", "build", "train", "register", "staging", "approve", "production"} = Pcs
  BY JobsFacts
<1>2. \A i \in DOMAIN Jobs : Jobs[i] \in Pcs
  BY DEF Pcs
<1> QED
  BY <1>1, <1>2

\* A sequence over a set is one over every larger set.
LEMMA SeqGrows ==
  ASSUME NEW S, NEW T, S \subseteq T, NEW s \in Seq(S)
  PROVE  s \in Seq(T)
OBVIOUS

\* More builds and more packages keep what is there typed.
LEMMA TypesGrow ==
  ASSUME NEW b \in Nat, NEW c \in Nat, b <= c, NEW n \in Nat, NEW m \in Nat, n <= m
  PROVE  /\ RunType(b, n) \subseteq RunType(c, m)
         /\ TrainingType(b) \subseteq TrainingType(c)
         /\ PackageType(b) \subseteq PackageType(c)
         /\ ReleaseType(n) \subseteq ReleaseType(m)
<1>1. 0..b \subseteq 0..c /\ 1..b \subseteq 1..c /\ 0..n \subseteq 0..m
  OBVIOUS
<1>2. RunType(b, n) \subseteq RunType(c, m)
  BY <1>1 DEF RunType
<1>3. TrainingType(b) \subseteq TrainingType(c)
  BY <1>1 DEF TrainingType
<1>4. PackageType(b) \subseteq PackageType(c)
  BY <1>1 DEF PackageType
<1>5. ReleaseType(n) \subseteq ReleaseType(m)
  BY <1>1 DEF ReleaseType
<1> QED
  BY <1>2, <1>3, <1>4, <1>5

\* A run that fails keeps what it is and has.
LEMMA FailedRun ==
  ASSUME TypeOK, NEW r \in Runs
  PROVE  /\ Failed(r) \in RunType(builds, Len(packages))
         /\ Failed(r).at = "failed" /\ Failed(r).pc = run[r].pc
         /\ Failed(r).commit = run[r].commit /\ Failed(r).production = run[r].production
         /\ Failed(r).package = run[r].package
<1>1. run[r] \in RunType(builds, Len(packages))
  BY Pieces
<1>2. <<>> \in Seq(Tags) /\ 0 \in 0..MaxPolls
  BY Pieces
<1> QED
  BY <1>1, <1>2 DEF Failed, RunType

\* A run whose deployment passed goes on with what it is and has.
LEMMA DeployedRun ==
  ASSUME TypeOK, NEW r \in Runs, NEW s \in Stages
  PROVE  /\ AfterDeploy(r, s) \in RunType(builds, Len(packages))
         /\ AfterDeploy(r, s).at = "start" /\ AfterDeploy(r, s).pc \in {"approve", "end"}
         /\ AfterDeploy(r, s).pc = "approve" => s = "staging" /\ run[r].production
         /\ AfterDeploy(r, s).commit = run[r].commit
         /\ AfterDeploy(r, s).production = run[r].production
         /\ AfterDeploy(r, s).package = run[r].package
<1>1. run[r] \in RunType(builds, Len(packages)) /\ "approve" \in Pcs /\ "end" \in Pcs
  BY Pieces, PcsFacts
<1>2. \/ /\ AfterDeploy(r, s) = [run[r] EXCEPT !.pc = "approve", !.at = "start"]
         /\ s = "staging" /\ run[r].production
      \/ AfterDeploy(r, s) = [run[r] EXCEPT !.pc = "end", !.at = "start"]
  BY DEF AfterDeploy
<1> QED
  BY <1>1, <1>2 DEF RunType

\* A package of the group, and its configuration.
LEMMA PackageFacts ==
  ASSUME TypeOK, NEW v \in 0..Len(packages), v # 0
  PROVE  /\ v \in DOMAIN packages /\ packages[v] \in PackageType(builds)
         /\ packages[v].run \in Releasers /\ packages[v].image \in Commits
         /\ packages[v].by \subseteq {"workflow", "person"}
         /\ Config(v) \in Configs /\ Config(v) # None
<1>1. v \in DOMAIN packages /\ packages[v] \in PackageType(builds)
  BY Pieces
<1>2. packages[v].run \in Releasers /\ packages[v].image \in Commits
      /\ packages[v].by \subseteq {"workflow", "person"}
  BY <1>1 DEF PackageType
<1>3. Config(v) \in Configs
  BY <1>2 DEF Config, Configs
<1> QED
  BY <1>1, <1>2, <1>3, PipelineAssumption

\* Writing a package over another keeps the group typed.
LEMMA PackageWritten ==
  ASSUME TypeOK, NEW v \in DOMAIN packages, NEW x \in PackageType(builds)
  PROVE  /\ [packages EXCEPT ![v] = x] \in Seq(PackageType(builds))
         /\ Len([packages EXCEPT ![v] = x]) = Len(packages)
BY Pieces

\* A decision on a package keeps the group typed.
LEMMA DecisionType ==
  ASSUME TypeOK, NEW v \in DOMAIN packages, NEW a \in {"Approved", "Rejected"},
         NEW who \in SUBSET {"workflow", "person"},
         packages' = [packages EXCEPT ![v].approval = a, ![v].by = who]
  PROVE  packages' \in Seq(PackageType(builds)) /\ Len(packages') = Len(packages)
<1>1. packages[v] \in PackageType(builds)
  BY Pieces
<1>2. [packages[v] EXCEPT !.approval = a, !.by = who] \in PackageType(builds)
  BY <1>1 DEF PackageType
<1>3. packages' = [packages EXCEPT ![v] = [packages[v] EXCEPT !.approval = a, !.by = who]]
  BY Pieces
<1> DEFINE x == [packages[v] EXCEPT !.approval = a, !.by = who]
<1>4. [packages EXCEPT ![v] = x] \in Seq(PackageType(builds))
      /\ Len([packages EXCEPT ![v] = x]) = Len(packages)
  <2>1. x \in PackageType(builds)
    BY <1>2
  <2> QED
    BY <2>1, PackageWritten
<1>5. packages' = [packages EXCEPT ![v] = x]
  BY <1>3
<1> HIDE DEF x
<1> QED
  BY <1>4, <1>5, Zenon

\* The output of the register job is a package of the run.
LEMMA LastOfRun ==
  ASSUME TypeOK, RunsAreInOrder, NEW r \in Runs, At(r, "register", "output")
  PROVE  PackageOf(r) \in 1..Len(packages) /\ packages[PackageOf(r)].run = r
<1> DEFINE S == {v \in DOMAIN packages : packages[v].run = r}
<1>1. S \subseteq 1..Len(packages) /\ S # {}
  BY Pieces DEF RunsAreInOrder, InOrder
<1>2. \E v \in S : \A u \in S : u <= v
  BY <1>1, LastExists, Pieces
<1> QED
  BY <1>2, Pieces DEF PackageOf

(***************************************************************************)
(* What the steps of a release change.                                     *)
(***************************************************************************)

\* The steps of a release, an interruption of the command by hand included.
ReleaseStepOrStop(d) == ReleaseStep(d) \/ (d = None /\ Interrupt)

ReleaseMoved(d) ==
  LET x == release[d]
      e == EndpointOf(d)
  IN  /\ x.at # "idle"
      /\ UNCHANGED <<training, packages, commands, pushes, served>>
      /\ answered' \subseteq answered \cup {Wanted(d)}
      /\ \/ Ends(d, FALSE)
         \/ Ends(d, TRUE) /\ x.at = "smoke" /\ e.config # None
         \/ \E call \in {"send", "wait", "smoke", "rollback"},
               previous \in {None, x.previous, e.config} :
              /\ Proceeds(d, call, previous)
              /\ call = "smoke" => Named(e) = Wanted(d) /\ UNCHANGED endpoint
      /\ \/ UNCHANGED endpoint
         \/ /\ e.target = None
            /\ \E k \in {Wanted(d), x.previous} :
                 endpoint' = [endpoint EXCEPT ![x.stage].target = k]

\* A release in progress is of a package of the group.
LEMMA ReleaseFacts ==
  ASSUME TypeOK, NEW d \in Releasers
  PROVE  /\ release[d] \in ReleaseType(Len(packages))
         /\ release[d].stage \in Stages /\ release[d].package \in 0..Len(packages)
         /\ EndpointOf(d) \in EndpointType
         /\ release[d].at # "idle" /\ ReleasesAreInOrder =>
              Wanted(d) \in Configs /\ Wanted(d) # None /\ release[d].package \in DOMAIN packages
<1>1. release[d] \in ReleaseType(Len(packages))
  BY DEF TypeOK
<1>2. release[d].stage \in Stages /\ release[d].package \in 0..Len(packages)
  BY <1>1 DEF ReleaseType
<1>3. EndpointOf(d) \in EndpointType
  BY <1>2 DEF TypeOK, EndpointOf
<1>4. ASSUME release[d].at # "idle", ReleasesAreInOrder
      PROVE  Wanted(d) \in Configs /\ Wanted(d) # None /\ release[d].package \in DOMAIN packages
  <2>1. release[d].package # 0
    BY <1>4 DEF ReleasesAreInOrder, InProgress
  <2> QED
    BY <1>2, <2>1, PackageFacts DEF Wanted
<1> QED
  BY <1>1, <1>2, <1>3, <1>4

\* A call of a release moves it on or ends it; what it asks of the endpoint is
\* its configuration or the one it read, once nothing else is under way there.
LEMMA ReleaseEffect ==
  ASSUME TypeOK, ReleasesAreInOrder, NEW d \in Releasers, ReleaseStepOrStop(d)
  PROVE  ReleaseMoved(d)
<1> DEFINE x == release[d]
           e == EndpointOf(d)
<1>0. e \in EndpointType
  BY ReleaseFacts
<1>1. CASE Describe(d)
  BY <1>1 DEF Describe, Releasing, ReleaseMoved
<1>2. CASE Send(d)
  <2>1. e.target = None \/ Ends(d, FALSE)
    BY <1>2, <1>0 DEF Send, Accepted, Named, InService
  <2>2. Accepted(d) => e.target = None
    BY <1>0 DEF Accepted, Named, InService
  <2> QED
    BY <1>2, <2>2 DEF Send, Releasing, ReleaseMoved
<1>3. CASE WaitInService(d)
  BY <1>3 DEF WaitInService, Arrived, InService, Named, Releasing, ReleaseMoved
<1>4. CASE SmokePasses(d)
  <2>1. answered' \subseteq answered \cup {Wanted(d)}
    BY <1>4 DEF SmokePasses
  <2> QED
    BY <1>4, <2>1 DEF SmokePasses, Releasing, ReleaseMoved
<1>5. CASE SmokeFails(d)
  BY <1>5 DEF SmokeFails, Releasing, ReleaseMoved
<1>6. CASE RollBack(d)
  BY <1>6 DEF RollBack, Releasing, InService, ReleaseMoved
<1>7. CASE d = None /\ Interrupt
  BY <1>7 DEF Interrupt, ReleaseMoved
<1> QED
  BY <1>1, <1>2, <1>3, <1>4, <1>5, <1>6, <1>7 DEF ReleaseStepOrStop, ReleaseStep

\* The release and its run afterwards.
LEMMA MovedRun ==
  ASSUME TypeOK, ReleasesAreInOrder, NEW d \in Releasers, ReleaseMoved(d)
  PROVE  /\ run' = run \/ (d \in Runs /\ run' = [run EXCEPT ![d] = Failed(d)])
           \/ /\ d \in Runs /\ run' = [run EXCEPT ![d] = AfterDeploy(d, release[d].stage)]
              /\ release[d].at = "smoke" /\ EndpointOf(d).config # None
         /\ d \in Runs => run[d].pc = release[d].stage /\ run[d].at = "release"
              /\ release[d].package = run[d].package
<1>1. d # None => d \in Runs
  BY DEF Releasers
<1>2. d # None => run[d].pc = release[d].stage /\ run[d].at = "release"
              /\ release[d].package = run[d].package
  BY DEF ReleaseMoved, ReleasesAreInOrder, InProgress, At
<1>3. None \notin Runs
  BY PipelineAssumption
<1>4. Ends(d, FALSE) => run' = run \/ (d \in Runs /\ run' = [run EXCEPT ![d] = Failed(d)])
  BY <1>1 DEF Ends
<1>5. Ends(d, TRUE) =>
        run' = run \/ (d \in Runs /\ run' = [run EXCEPT ![d] = AfterDeploy(d, release[d].stage)])
  BY <1>1 DEF Ends
<1>6. \/ Ends(d, FALSE)
      \/ Ends(d, TRUE) /\ release[d].at = "smoke" /\ EndpointOf(d).config # None
      \/ run' = run
  BY DEF ReleaseMoved, Proceeds
<1> QED
  BY <1>2, <1>3, <1>4, <1>5, <1>6

\* Only the release itself moves.
LEMMA MovedRelease ==
  ASSUME TypeOK, ReleasesAreInOrder, NEW d \in Releasers, ReleaseMoved(d)
  PROVE  /\ \A o \in Releasers : o # d => release'[o] = release[o]
         /\ \/ release'[d] = NoRelease
            \/ /\ UNCHANGED run
               /\ release'[d].stage = release[d].stage /\ release'[d].package = release[d].package
               /\ release'[d].at \in {"send", "wait", "smoke", "rollback"}
               /\ release'[d].previous \in {None, release[d].previous, EndpointOf(d).config}
               /\ release'[d].at = "smoke" => Named(EndpointOf(d)) = Wanted(d) /\ UNCHANGED endpoint
         /\ release' \in [Releasers -> ReleaseType(Len(packages))]
<1>1. release \in [Releasers -> ReleaseType(Len(packages))] /\ release[d] \in ReleaseType(Len(packages))
      /\ EndpointOf(d) \in EndpointType
  BY ReleaseFacts DEF TypeOK
<1>2. CASE Ends(d, FALSE) \/ Ends(d, TRUE)
  <2>1. release' = [release EXCEPT ![d] = NoRelease]
    BY <1>2 DEF Ends
  <2>2. NoRelease \in ReleaseType(Len(packages))
    BY Pieces DEF NoRelease, ReleaseType, Stages
  <2> QED
    BY <1>1, <2>1, <2>2
<1>3. ASSUME NEW call \in {"send", "wait", "smoke", "rollback"},
             NEW previous \in {None, release[d].previous, EndpointOf(d).config},
             Proceeds(d, call, previous),
             call = "smoke" => Named(EndpointOf(d)) = Wanted(d) /\ UNCHANGED endpoint
      PROVE  /\ \A o \in Releasers : o # d => release'[o] = release[o]
             /\ UNCHANGED run
             /\ release'[d].stage = release[d].stage /\ release'[d].package = release[d].package
             /\ release'[d].at \in {"send", "wait", "smoke", "rollback"}
             /\ release'[d].previous \in {None, release[d].previous, EndpointOf(d).config}
             /\ release'[d].at = "smoke" => Named(EndpointOf(d)) = Wanted(d) /\ UNCHANGED endpoint
             /\ release' \in [Releasers -> ReleaseType(Len(packages))]
  <2> DEFINE y == [release[d] EXCEPT !.at = call, !.previous = previous]
  <2>1. release' = [release EXCEPT ![d] = y] /\ UNCHANGED run
    BY <1>1, <1>3 DEF Proceeds
  <2>2. previous \in Configs \cup {None}
    BY <1>1 DEF ReleaseType, EndpointType
  <2>3. /\ y \in ReleaseType(Len(packages)) /\ y.at = call /\ y.previous = previous
        /\ y.stage = release[d].stage /\ y.package = release[d].package
    BY <1>1, <2>2 DEF ReleaseType
  <2>4. release'[d] = y
    BY <1>1, <2>1
  <2> QED
    BY <1>1, <1>3, <2>1, <2>3, <2>4
<1> QED
  BY <1>2, <1>3 DEF ReleaseMoved

\* What the endpoint of a stage is asked for.
LEMMA MovedEndpoint ==
  ASSUME TypeOK, ReleasesAreInOrder, NEW d \in Releasers, ReleaseMoved(d)
  PROVE  \/ UNCHANGED endpoint
         \/ /\ endpoint[release[d].stage].target = None
            /\ endpoint'[release[d].stage].config = endpoint[release[d].stage].config
            /\ endpoint'[release[d].stage].target \in {Wanted(d), release[d].previous}
            /\ \A s \in Stages : s # release[d].stage => endpoint'[s] = endpoint[s]
            /\ endpoint' \in [Stages -> EndpointType]
<1>1. /\ release[d].stage \in Stages /\ EndpointOf(d) \in EndpointType /\ Wanted(d) \in Configs
      /\ release[d].previous \in Configs \cup {None} /\ endpoint \in [Stages -> EndpointType]
  BY ReleaseFacts DEF TypeOK, ReleaseMoved, ReleaseType
<1>2. ASSUME NEW k \in {Wanted(d), release[d].previous}, EndpointOf(d).target = None,
             endpoint' = [endpoint EXCEPT ![release[d].stage].target = k]
      PROVE  /\ endpoint[release[d].stage].target = None
             /\ endpoint'[release[d].stage].config = endpoint[release[d].stage].config
             /\ endpoint'[release[d].stage].target \in {Wanted(d), release[d].previous}
             /\ \A s \in Stages : s # release[d].stage => endpoint'[s] = endpoint[s]
             /\ endpoint' \in [Stages -> EndpointType]
  <2> DEFINE y == [endpoint[release[d].stage] EXCEPT !.target = k]
  <2>1. endpoint' = [endpoint EXCEPT ![release[d].stage] = y]
    BY <1>1, <1>2
  <2>2. y \in EndpointType /\ y.target = k /\ y.config = endpoint[release[d].stage].config
    BY <1>1 DEF EndpointType, EndpointOf
  <2> QED
    BY <1>1, <1>2, <2>1, <2>2 DEF EndpointOf
<1> QED
  BY <1>2 DEF ReleaseMoved

\* Each step keeps every value of the pipeline in its type.
LEMMA PipelineTypeStep ==
  ASSUME TypeOK, RunsAreInOrder, TrainedAsTagged, ReleasesAreInOrder, [Next]_vars
  PROVE  PipelineType'
<1> DEFINE RT == RunType(builds, Len(packages))
<1>0. \A r \in Runs : run[r] \in RT
  BY Pieces
<1>1. ASSUME NEW r \in Runs, NEW c \in Commits, NEW production \in BOOLEAN,
             Dispatch(r, c, production)
      PROVE  PipelineType'
  <2>1. NoRun \in RT
    <3>1. "none" \in Pcs /\ <<>> \in Seq(Tags)
      BY PcsFacts
    <3> QED
      BY <3>1, Pieces DEF NoRun, RunType
  <2>2. [NoRun EXCEPT !.pc = "build"] \in RT
    BY <2>1, FieldTypes, PcsFacts, Pieces
  <2>3. [[NoRun EXCEPT !.pc = "build"] EXCEPT !.commit = c] \in RT
    BY <2>2, FieldTypes, Pieces
  <2>4. [[[NoRun EXCEPT !.pc = "build"] EXCEPT !.commit = c] EXCEPT !.production = production] \in RT
    BY <2>3, FieldTypes, Pieces
  <2>5. commands' \in 0..MaxCommands
    BY <1>1, Pieces, PipelineAssumption DEF Dispatch, Commanded
  <2> QED
    BY <1>1, <2>4, <2>5, Pieces, RunStepType DEF Dispatch, pushes
<1>2. ASSUME NEW r \in Runs, CutOff(r)
      PROVE  PipelineType'
  <2>1. Failed(r) \in RT
    BY FailedRun
  <2> QED
    BY <1>2, <2>1, Pieces, RunStepType DEF CutOff, pushes
<1>3. ASSUME NEW r \in Runs, NEW i \in DOMAIN Jobs, Rerun(r, Jobs[i])
      PROVE  PipelineType'
  <2>1. [run[r] EXCEPT !.pc = Jobs[i]] \in RT
    BY <1>0, FieldTypes, Pieces, PcsFacts
  <2>2. [[run[r] EXCEPT !.pc = Jobs[i]] EXCEPT !.at = "start"] \in RT
    BY <2>1, FieldTypes, Pieces
  <2>3. run' = [run EXCEPT ![r] = [run[r] EXCEPT !.pc = Jobs[i], !.at = "start"]]
    BY <1>3, Pieces DEF Rerun
  <2>4. commands' \in 0..MaxCommands
    BY <1>3, Pieces, PipelineAssumption DEF Rerun, Commanded
  <2> QED
    BY <1>3, <2>2, <2>3, <2>4, RunStepType DEF Rerun, pushes
<1>4. ASSUME NEW r \in Runs, Build(r)
      PROVE  PipelineType'
  <2> DEFINE BT == RunType(builds + 1, Len(packages))
             x  == [[[run[r] EXCEPT !.at = "push"] EXCEPT !.image = builds + 1]
                      EXCEPT !.push = <<run[r].commit, r>>]
  <2>1. /\ RT \subseteq BT /\ TrainingType(builds) \subseteq TrainingType(builds + 1)
        /\ PackageType(builds) \subseteq PackageType(builds + 1)
        /\ 0..builds \subseteq 0..(builds + 1) /\ 1..builds \subseteq 1..(builds + 1)
        /\ builds + 1 \in Nat /\ builds + 1 \in 0..(builds + 1)
    BY TypesGrow, Pieces
  <2>2. [run[r] EXCEPT !.at = "push"] \in BT
    BY <1>0, <2>1, FieldTypes, Pieces
  <2>3. [[run[r] EXCEPT !.at = "push"] EXCEPT !.image = builds + 1] \in BT
    BY <2>1, <2>2, FieldTypes, Pieces
  <2>4. <<run[r].commit, r>> \in Seq(Tags)
    <3>1. run[r].commit \in Commits
      BY <1>4 DEF RunsAreInOrder, InOrder, Started, Build, At
    <3> QED
      BY <3>1 DEF Tags
  <2>5. x \in BT
    BY <2>1, <2>3, <2>4, FieldTypes, Pieces
  <2>6. run' = [run EXCEPT ![r] = x]
    BY <1>4, Pieces DEF Build
  <2>7. run' \in [Runs -> BT]
    BY <2>1, <2>5, <2>6, Pieces
  <2>8. images \in Seq(1..(builds + 1)) /\ packages \in Seq(PackageType(builds + 1))
    BY <2>1, SeqGrows DEF TypeOK, PipelineType
  <2> QED
    BY <1>4, <2>1, <2>7, <2>8 DEF Build, TypeOK, PipelineType
<1>5. ASSUME NEW r \in Runs, Push(r)
      PROVE  PipelineType'
  <2>1. CASE tags[Head(run[r].push)] # 0
    <3>1. Failed(r) \in RT
      BY FailedRun
    <3> QED
      BY <1>5, <2>1, <3>1, Pieces, RunStepType DEF Push
  <2>2. CASE tags[Head(run[r].push)] = 0
    <3> DEFINE im == run[r].image
               t  == Head(run[r].push)
    <3>0. Pushed(r) /\ UNCHANGED <<training, packages, builds, expired, commands>>
      BY <1>5, <2>2 DEF Push
    <3>1. /\ im \in 1..builds /\ run[r].push \in Seq(Tags) /\ run[r].push # <<>>
          /\ run[r].push \in {<<run[r].commit, r>>, <<r>>}
      <4>1. im \in 0..builds /\ im # 0 /\ run[r].push \in {<<run[r].commit, r>>, <<r>>}
        BY <1>0, <1>5 DEF RunsAreInOrder, InOrder, Push, At, RunType
      <4>2. run[r].push \in Seq(Tags)
        BY <1>0 DEF RunType
      <4>3. im \in 1..builds
        BY <4>1, Pieces
      <4>4. run[r].push # <<>>
        <5>1. CASE run[r].push = <<run[r].commit, r>>
          BY <5>1
        <5>2. CASE run[r].push = <<r>>
          BY <5>2
        <5> QED
          BY <4>1, <5>1, <5>2
      <4> QED
        BY <4>1, <4>2, <4>3, <4>4
    <3>2. t \in Tags /\ Tail(run[r].push) \in Seq(Tags) /\ <<>> \in Seq(Tags)
      BY <3>1
    <3>3. images' \in Seq(1..builds) /\ im \in Range(images') /\ Range(images) \subseteq Range(images')
      <4>1. CASE Contains(images, im)
        BY <3>0, <4>1 DEF Pushed, Contains, Range, TypeOK, PipelineType
      <4>2. CASE ~Contains(images, im)
        <5>1. images' = Append(images, im) /\ images \in Seq(1..builds)
          BY <3>0, <4>2 DEF Pushed, TypeOK, PipelineType
        <5> QED
          BY <5>1, <3>1 DEF Range
      <4> QED
        BY <4>1, <4>2
    <3>4. tags' = [tags EXCEPT ![t] = im] /\ tags' \in [Tags -> 0..builds]
      BY <3>0, <3>1, <3>2 DEF Pushed, TypeOK, PipelineType
    <3>5. Range(tags') \subseteq {0} \cup Range(images')
      BY <3>3, <3>4 DEF Range, TypeOK, PipelineType
    <3>6. run' \in [Runs -> RT]
      <4>1. [run[r] EXCEPT !.push = Tail(run[r].push)] \in RT
        BY <1>0, <3>2, FieldTypes, Pieces
      <4>2. [run[r] EXCEPT !.pc = "train"] \in RT
        BY <1>0, FieldTypes, Pieces, PcsFacts
      <4>3. [[run[r] EXCEPT !.pc = "train"] EXCEPT !.at = "start"] \in RT
        BY <4>2, FieldTypes, Pieces
      <4>4. [[[run[r] EXCEPT !.pc = "train"] EXCEPT !.at = "start"] EXCEPT !.push = <<>>] \in RT
        BY <4>3, <3>2, FieldTypes, Pieces
      <4> QED
        BY <3>0, <4>1, <4>4, Pieces DEF Pushed
    <3> QED
      BY <3>0, <3>3, <3>4, <3>5, <3>6 DEF TypeOK, PipelineType
  <2> QED
    BY <2>1, <2>2
<1>6. ASSUME Expire
      PROVE  PipelineType'
  <2>1. /\ Head(images) \in 1..builds /\ images' \in Seq(1..builds)
        /\ Range(images) \subseteq {Head(images)} \cup Range(images')
    <3>1. images \in Seq(1..builds) /\ images # <<>> /\ images' = Tail(images)
      BY <1>6, PipelineAssumption DEF Expire, TypeOK, PipelineType
    <3>2. \A i \in 1..Len(images) : i = 1 \/ (i - 1 \in 1..Len(Tail(images)) /\ images[i] = Tail(images)[i - 1])
      BY <3>1
    <3>3. Head(images) \in 1..builds /\ images' \in Seq(1..builds) /\ Head(images) = images[1]
      <4>1. Head(images) \in 1..builds /\ images' \in Seq(1..builds)
        BY <3>1, HeadTailProperties
      <4> QED
        BY <3>1, <4>1
    <3> DEFINE rest == Tail(images)
    <3>4. DOMAIN images = 1..Len(images) /\ DOMAIN rest = 1..Len(rest)
      BY <3>1
    <3>5. ASSUME NEW i \in DOMAIN images
          PROVE  images[i] = Head(images) \/ \E j \in DOMAIN rest : images[i] = rest[j]
      <4>1. CASE i = 1
        BY <3>3, <4>1
      <4>2. CASE i # 1
        <5>1. i - 1 \in DOMAIN rest /\ images[i] = rest[i - 1]
          BY <3>2, <3>4, <4>2
        <5> QED
          BY <5>1
      <4> QED
        BY <4>1, <4>2
    <3>6. Range(images) \subseteq {Head(images)} \cup Range(rest)
      BY <3>5 DEF Range
    <3> QED
      BY <3>1, <3>3, <3>6
  <2>2. tags' \in [Tags -> 0..builds] /\ Range(tags') \subseteq {0} \cup Range(images')
    <3>1. \A t \in Tags : tags'[t] = 0 \/ (tags'[t] = tags[t] /\ tags[t] # Head(images))
      BY <1>6 DEF Expire
    <3>2. tags' \in [Tags -> 0..builds]
      BY <1>6, Pieces DEF Expire, TypeOK, PipelineType
    <3> QED
      BY <2>1, <3>1, <3>2 DEF Range, TypeOK, PipelineType
  <2> QED
    BY <1>6, <2>1, <2>2 DEF Expire, TypeOK, PipelineType
<1>7. ASSUME NEW r \in Runs, StartTraining(r)
      PROVE  PipelineType'
  <2>1. CASE training[r].status # "none" \/ tags[run[r].commit] = 0
    <3>1. Failed(r) \in RT
      BY FailedRun
    <3> QED
      BY <1>7, <2>1, <3>1, Pieces, RunStepType DEF StartTraining, pushes
  <2>2. CASE ~(training[r].status # "none" \/ tags[run[r].commit] = 0)
    <3>1. run[r].commit \in Tags
      BY <1>7 DEF RunsAreInOrder, InOrder, Started, StartTraining, At, Tags
    <3>2. tags[run[r].commit] \in 0..builds
      BY <3>1 DEF TypeOK, PipelineType
    <3>3. training' \in [Runs -> TrainingType(builds)]
      <4> DEFINE x == [[training[r] EXCEPT !.status = "InProgress"]
                         EXCEPT !.image = tags[run[r].commit]]
      <4>1. training \in [Runs -> TrainingType(builds)]
        BY DEF TypeOK, PipelineType
      <4>2. [training[r] EXCEPT !.status = "InProgress"] \in TrainingType(builds)
        BY <4>1 DEF TrainingType
      <4>3. x \in TrainingType(builds)
        BY <3>2, <4>2 DEF TrainingType
      <4>4. training' = [training EXCEPT ![r] = x]
        BY <1>7, <2>2, <4>1 DEF StartTraining
      <4> QED
        BY <4>1, <4>3, <4>4
    <3>4. run' \in [Runs -> RT]
      <4>1. [run[r] EXCEPT !.at = "wait"] \in RT
        BY <1>0, FieldTypes, Pieces
      <4>2. run' = [run EXCEPT ![r] = [run[r] EXCEPT !.at = "wait"]]
        BY <1>7, <2>2, Pieces DEF StartTraining
      <4> QED
        BY <4>1, <4>2, Pieces
    <3> QED
      BY <1>7, <2>2, <3>3, <3>4 DEF StartTraining, pushes, TypeOK, PipelineType
  <2> QED
    BY <2>1, <2>2
<1>8. ASSUME NEW r \in Runs, NEW status \in {"Completed", "Failed"},
             NEW auc \in {"high", "low", "missing"}, TrainingEnds(r, status, auc)
      PROVE  PipelineType'
  <2>1. training' \in [Runs -> TrainingType(builds)]
    BY <1>8 DEF TrainingEnds, TypeOK, PipelineType, TrainingType
  <2> QED
    BY <1>8, <2>1 DEF TrainingEnds, pushes, TypeOK, PipelineType
<1>9. ASSUME NEW r \in Runs, WaitForTrainingJob(r)
      PROVE  PipelineType'
  <2>1. Failed(r) \in RT
    BY FailedRun
  <2>2. [run[r] EXCEPT !.pc = "register"] \in RT
    BY <1>0, FieldTypes, Pieces, PcsFacts
  <2>3. [[run[r] EXCEPT !.pc = "register"] EXCEPT !.at = "start"] \in RT
    BY <2>2, FieldTypes, Pieces
  <2>4. [[[run[r] EXCEPT !.pc = "register"] EXCEPT !.at = "start"] EXCEPT !.polls = 0] \in RT
    BY <2>3, FieldTypes, Pieces
  <2>5. run[r].polls < MaxPolls => [run[r] EXCEPT !.polls = run[r].polls + 1] \in RT
    <3>1. run[r].polls \in 0..MaxPolls
      BY <1>0 DEF RunType
    <3>2. run[r].polls < MaxPolls => run[r].polls + 1 \in 0..MaxPolls
      BY <3>1, Pieces
    <3> QED
      BY <1>0, <3>2, FieldTypes, Pieces
  <2>6. PICK x \in RT : run' = [run EXCEPT ![r] = x]
    BY <1>9, <2>1, <2>4, <2>5 DEF WaitForTrainingJob
  <2> QED
    BY <1>9, <2>6, Pieces, RunStepType DEF WaitForTrainingJob, pushes
<1>10. ASSUME NEW r \in Runs, RegisterCall(r)
       PROVE  PipelineType'
  <2>1. CASE ~MeetsMinAuc(training[r].auc)
    <3>1. Failed(r) \in RT
      BY FailedRun
    <3> QED
      BY <1>10, <2>1, <3>1, Pieces, RunStepType DEF RegisterCall, pushes
  <2>2. CASE MeetsMinAuc(training[r].auc)
    <3>1. /\ packages' = Append(packages, NewPackage(r))
          /\ run' = [run EXCEPT ![r] = [run[r] EXCEPT !.at = "output"]]
      BY <1>10, <2>2, Pieces DEF RegisterCall
    <3>2. NewPackage(r) \in PackageType(builds)
      <4>1. Started(r) /\ training[r].status = "Completed"
        BY <1>10 DEF RegisterCall, At, RunsAreInOrder, InOrder, Started
      <4>2. run[r].commit \in Commits /\ training[r].image # 0
        BY <4>1 DEF RunsAreInOrder, InOrder, TrainedAsTagged
      <4>3. training[r] \in TrainingType(builds)
        BY DEF TypeOK, PipelineType
      <4>4. training[r].image \in 1..builds
        BY <4>2, <4>3, Pieces DEF TrainingType
      <4> QED
        BY <4>2, <4>3, <4>4 DEF NewPackage, PackageType, TrainingType, Releasers
    <3>3. packages' \in Seq(PackageType(builds)) /\ Len(packages') = Len(packages) + 1
      BY <3>1, <3>2, Pieces
    <3>4. RT \subseteq RunType(builds, Len(packages'))
      BY <3>3, Pieces, TypesGrow
    <3>5. [run[r] EXCEPT !.at = "output"] \in RT
      BY <1>0, FieldTypes, Pieces
    <3>6. run' \in [Runs -> RunType(builds, Len(packages'))]
      BY <3>1, <3>4, <3>5, Pieces
    <3>7. 0..Len(packages) \subseteq 0..Len(packages')
      BY <3>3, Pieces
    <3> QED
      BY <1>10, <3>3, <3>6, <3>7 DEF RegisterCall, pushes, TypeOK, PipelineType
  <2> QED
    BY <2>1, <2>2
<1>11. ASSUME NEW r \in Runs, RegisterOutput(r)
       PROVE  PipelineType'
  <2> DEFINE v == PackageOf(r)
  <2>1. v \in 0..Len(packages)
    BY <1>11, LastOfRun, Pieces DEF RegisterOutput
  <2>2. [run[r] EXCEPT !.pc = "staging"] \in RT
    BY <1>0, FieldTypes, Pieces, PcsFacts
  <2>3. [[run[r] EXCEPT !.pc = "staging"] EXCEPT !.at = "start"] \in RT
    BY <2>2, FieldTypes, Pieces
  <2>4. [[[run[r] EXCEPT !.pc = "staging"] EXCEPT !.at = "start"] EXCEPT !.package = v] \in RT
    BY <2>1, <2>3, FieldTypes, Pieces
  <2>5. run' = [run EXCEPT ![r] = [[[run[r] EXCEPT !.pc = "staging"] EXCEPT !.at = "start"]
                                     EXCEPT !.package = v]]
    BY <1>11, Pieces DEF RegisterOutput
  <2> QED
    BY <1>11, <2>4, <2>5, Pieces, RunStepType DEF RegisterOutput, pushes
<1>12. ASSUME NEW r \in Runs, NEW s \in Stages, StartRelease(r, s)
       PROVE  PipelineType'
  <2>1. Failed(r) \in RT
    BY FailedRun
  <2>2. [run[r] EXCEPT !.at = "release"] \in RT
    BY <1>0, FieldTypes, Pieces
  <2>3. PICK x \in RT : run' = [run EXCEPT ![r] = x]
    BY <1>12, <2>1, <2>2 DEF StartRelease
  <2> QED
    BY <1>12, <2>3, Pieces, RunStepType DEF StartRelease, pushes
<1>13. ASSUME NEW d \in Releasers, ReleaseStepOrStop(d)
       PROVE  PipelineType'
  <2>1. ReleaseMoved(d)
    BY <1>13, ReleaseEffect
  <2>2. UNCHANGED <<tags, images, training, packages, builds, expired, commands>>
    BY <2>1 DEF ReleaseMoved, pushes
  <2>3. d \in Runs => Failed(d) \in RT /\ AfterDeploy(d, release[d].stage) \in RT
    BY FailedRun, DeployedRun, ReleaseFacts
  <2>4. run' \in [Runs -> RT]
    BY <2>1, <2>3, MovedRun, Pieces
  <2> QED
    BY <2>2, <2>4 DEF TypeOK, PipelineType
<1>14. ASSUME NEW r \in Runs, ApproveCall(r)
       PROVE  PipelineType'
  <2>1. run[r].package \in 0..Len(packages) /\ run[r].package # 0
    <3>1. run[r].package # 0
      BY <1>14 DEF ApproveCall, At, RunsAreInOrder, InOrder
    <3> QED
      BY <1>0, <3>1 DEF RunType
  <2>2. packages' \in Seq(PackageType(builds)) /\ Len(packages') = Len(packages)
    <3> DEFINE v == run[r].package
    <3>1. v \in DOMAIN packages /\ packages[v].by \cup {"workflow"} \subseteq {"workflow", "person"}
      BY <2>1, PackageFacts
    <3>2. packages' = [packages EXCEPT ![v].approval = "Approved",
                                       ![v].by = packages[v].by \cup {"workflow"}]
      BY <1>14, <3>1, <2>1, PackageFacts DEF ApproveCall, PackageType
    <3> QED
      BY <3>1, <3>2, DecisionType
  <2>3. [run[r] EXCEPT !.at = "output"] \in RT
    BY <1>0, FieldTypes, Pieces
  <2>4. run' = [run EXCEPT ![r] = [run[r] EXCEPT !.at = "output"]]
    BY <1>14, Pieces DEF ApproveCall
  <2> QED
    BY <1>14, <2>2, <2>3, <2>4, Pieces DEF ApproveCall, pushes, TypeOK, PipelineType
<1>15. ASSUME NEW r \in Runs, ApproveOutput(r)
       PROVE  PipelineType'
  <2>1. [run[r] EXCEPT !.pc = "production"] \in RT
    BY <1>0, FieldTypes, Pieces, PcsFacts
  <2>2. [[run[r] EXCEPT !.pc = "production"] EXCEPT !.at = "start"] \in RT
    BY <2>1, FieldTypes, Pieces
  <2>3. run' = [run EXCEPT ![r] = [[run[r] EXCEPT !.pc = "production"] EXCEPT !.at = "start"]]
    BY <1>15, Pieces DEF ApproveOutput
  <2> QED
    BY <1>15, <2>2, <2>3, Pieces, RunStepType DEF ApproveOutput, pushes
<1>16. ASSUME NEW v \in DOMAIN packages, ApproveByHand(v) \/ RejectByHand(v)
       PROVE  PipelineType'
  <2>0. v \in 0..Len(packages) /\ v # 0
    BY Pieces
  <2>1. packages' \in Seq(PackageType(builds)) /\ Len(packages') = Len(packages)
    <3>1. packages[v] \in PackageType(builds) /\ packages[v].by \subseteq {"workflow", "person"}
      BY <2>0, PackageFacts
    <3>2. ASSUME ApproveByHand(v)
          PROVE  packages' = [packages EXCEPT ![v].approval = "Approved",
                                              ![v].by = packages[v].by \cup {"person"}]
      BY <3>1, <3>2 DEF ApproveByHand, PackageType
    <3>3. ASSUME RejectByHand(v)
          PROVE  packages' = [packages EXCEPT ![v].approval = "Rejected", ![v].by = packages[v].by]
      <4> DEFINE x == [packages[v] EXCEPT !.approval = "Rejected"]
      <4>1. [x EXCEPT !.by = packages[v].by] = x
        BY <3>1 DEF PackageType
      <4> QED
        BY <3>3, <4>1, Pieces DEF RejectByHand
    <3>4. packages[v].by \cup {"person"} \subseteq {"workflow", "person"}
      BY <3>1
    <3> QED
      BY <1>16, <3>1, <3>2, <3>3, <3>4, DecisionType
  <2>2. commands' \in 0..MaxCommands /\ UNCHANGED <<run, training, tags, images, builds, expired>>
    BY <1>16, Pieces, PipelineAssumption DEF ApproveByHand, RejectByHand, Commanded, pushes
  <2> QED
    BY <2>1, <2>2 DEF TypeOK, PipelineType
<1>17. ASSUME NEW c \in Commits, NEW approve \in BOOLEAN, RegisterByHand(c, approve)
       PROVE  PipelineType'
  <2>1. PICK x \in PackageType(builds) : packages' = Append(packages, x)
    BY <1>17, Pieces DEF RegisterByHand, PackageType, Releasers
  <2>2. packages' \in Seq(PackageType(builds)) /\ Len(packages') = Len(packages) + 1
    BY <2>1, Pieces
  <2>3. RT \subseteq RunType(builds, Len(packages'))
    BY <2>2, Pieces, TypesGrow
  <2>4. commands' \in 0..MaxCommands /\ UNCHANGED <<run, training, tags, images, builds, expired>>
    BY <1>17, Pieces, PipelineAssumption DEF RegisterByHand, Commanded, pushes
  <2> QED
    BY <2>2, <2>3, <2>4, Pieces DEF TypeOK, PipelineType
<1>18. ASSUME NEW s \in Stages, Lands(s) \/ RolledBack(s)
       PROVE  PipelineType'
  BY <1>18 DEF Lands, RolledBack, pushes, TypeOK, PipelineType
<1>19. ASSUME NEW s \in Stages, NEW v \in DOMAIN packages, DeployByHand(s, v)
       PROVE  PipelineType'
  BY <1>19, Pieces, PipelineAssumption DEF DeployByHand, Commanded, pushes, TypeOK, PipelineType
<1>20. CASE UNCHANGED vars
  BY <1>20 DEF vars, pushes, TypeOK, PipelineType
<1> QED
  BY <1>1, <1>2, <1>3, <1>4, <1>5, <1>6, <1>7, <1>8, <1>9, <1>10, <1>11, <1>12, <1>13, <1>14,
     <1>15, <1>16, <1>17, <1>18, <1>19, <1>20
     DEF Next, RunStep, HandStep, ReleaseStepOrStop, Releasers

(***************************************************************************)
(* What no step takes back.                                                *)
(***************************************************************************)
RunsKept ==
  \A r \in Runs : Started(r) =>
    Started(r)' /\ run'[r].commit = run[r].commit /\ run'[r].production = run[r].production

PackagesKept ==
  \A v \in DOMAIN packages :
    /\ v \in DOMAIN packages' /\ packages'[v].run = packages[v].run
    /\ packages'[v].image = packages[v].image /\ packages'[v].trained = packages[v].trained
    /\ packages'[v].auc = packages[v].auc
    /\ packages[v].by \subseteq packages'[v].by

Keeps ==
  /\ RunsKept /\ PackagesKept
  /\ \A r \in Runs : training[r].status # "none" =>
       training'[r].status # "none" /\ training'[r].image = training[r].image
  /\ \A r \in Runs : training[r].status = "Completed" => training'[r] = training[r]
  /\ expired \subseteq expired' /\ served \subseteq served'
  /\ \A t \in Tags : tags[t] # 0 => tags'[t] = tags[t] \/ tags[t] \in expired'

\* Writing the progress of a run keeps its commit and its input.
LEMMA ProgressKeeps ==
  ASSUME TypeOK, NEW r \in Runs, NEW x, run' = [run EXCEPT ![r] = x],
         x.pc # "none", x.commit = run[r].commit, x.production = run[r].production
  PROVE  RunsKept
BY Pieces DEF RunsKept, Started

\* A run that fails is still the run of its commit.
LEMMA FailedKeeps ==
  ASSUME TypeOK, NEW r \in Runs, Started(r), run' = [run EXCEPT ![r] = Failed(r)]
  PROVE  RunsKept
BY FailedRun, ProgressKeeps DEF Started

\* A decision on a package changes nothing else of the packages.
LEMMA DecisionKeeps ==
  ASSUME TypeOK, NEW v \in DOMAIN packages, NEW a, NEW who, packages[v].by \subseteq who,
         packages' = [packages EXCEPT ![v].approval = a, ![v].by = who]
  PROVE  PackagesKept
<1>1. packages[v] \in PackageType(builds)
  BY Pieces
<1>2. \A u \in DOMAIN packages : u # v => packages'[u] = packages[u]
  BY Pieces
<1>3. packages'[v] = [packages[v] EXCEPT !.approval = a, !.by = who]
  BY Pieces
<1>4. /\ packages'[v].run = packages[v].run /\ packages'[v].image = packages[v].image
      /\ packages'[v].trained = packages[v].trained /\ packages'[v].auc = packages[v].auc
      /\ packages'[v].by = who
  BY <1>1, <1>3 DEF PackageType
<1> QED
  BY <1>2, <1>4, Pieces DEF PackagesKept

\* No step takes back what a run, a completed training or a package stands for.
LEMMA NextKeeps ==
  ASSUME TypeOK, RunsAreInOrder, ReleasesAreInOrder, [Next]_vars
  PROVE  Keeps
<1>0. \A r \in Runs : run[r] \in RunType(builds, Len(packages))
  BY Pieces
<1>1. ASSUME NEW r \in Runs, NEW c \in Commits, NEW production \in BOOLEAN,
             Dispatch(r, c, production)
      PROVE  Keeps
  <2>1. \A q \in Runs : Started(q) => run'[q] = run[q]
    BY <1>1, Pieces DEF Dispatch, Started
  <2> QED
    BY <1>1, <2>1 DEF Keeps, RunsKept, PackagesKept, pushes, releases, Dispatch, Started
<1>2. ASSUME NEW r \in Runs, CutOff(r)
      PROVE  Keeps
  <2>1. RunsKept
    BY <1>2, FailedKeeps DEF CutOff, Started
  <2> QED
    BY <1>2, <2>1 DEF Keeps, RunsKept, PackagesKept, pushes, releases, CutOff
<1>3. ASSUME NEW r \in Runs, NEW i \in DOMAIN Jobs, Rerun(r, Jobs[i])
      PROVE  Keeps
  <2>1. Jobs[i] # "none"
    BY JobsFacts
  <2>2. RunsKept
    BY <1>0, <1>3, <2>1, Pieces DEF Rerun, RunsKept, Started, RunType
  <2> QED
    BY <1>3, <2>2 DEF Keeps, RunsKept, PackagesKept, pushes, releases, Rerun
<1>4. ASSUME NEW r \in Runs, Build(r)
      PROVE  Keeps
  <2>2. RunsKept
    BY <1>0, <1>4, Pieces DEF Build, RunsKept, Started, RunType
  <2> QED
    BY <1>4, <2>2 DEF Keeps, RunsKept, PackagesKept, pushes, releases, Build
<1>5. ASSUME NEW r \in Runs, Push(r)
      PROVE  Keeps
  <2>1. RunsKept
    <3>1. Started(r)
      BY <1>5 DEF Push, At, Started
    <3>2. CASE run' = [run EXCEPT ![r] = Failed(r)]
      BY <3>1, <3>2, FailedKeeps
    <3>3. CASE Pushed(r)
      BY <1>0, <3>1, <3>3, Pieces DEF Pushed, RunsKept, Started, RunType
    <3> QED
      BY <1>5, <3>2, <3>3 DEF Push
  <2>2. \A t \in Tags : tags[t] # 0 => tags'[t] = tags[t]
    BY <1>5 DEF Push, Pushed, TypeOK
  <2> QED
    BY <1>5, <2>1, <2>2 DEF Keeps, RunsKept, PackagesKept, pushes, releases, Push
<1>6. ASSUME Expire
      PROVE  Keeps
  <2>1. \A t \in Tags : tags'[t] = tags[t] \/ tags[t] \in expired'
    BY <1>6 DEF Expire
  <2> QED
    BY <1>6, <2>1 DEF Keeps, RunsKept, PackagesKept, pushes, releases, Expire, Started
<1>7. ASSUME NEW r \in Runs, StartTraining(r)
      PROVE  Keeps
  <2>1. RunsKept
    <3>1. Started(r)
      BY <1>7 DEF StartTraining, At, Started
    <3>2. CASE run' = [run EXCEPT ![r] = Failed(r)]
      BY <3>1, <3>2, FailedKeeps
    <3>3. CASE run' = [run EXCEPT ![r].at = "wait"]
      BY <1>0, <3>1, <3>3, Pieces DEF RunsKept, Started, RunType
    <3> QED
      BY <1>7, <3>2, <3>3 DEF StartTraining
  <2>2. \A q \in Runs : training[q].status # "none" => training'[q] = training[q]
    BY <1>7 DEF StartTraining, TypeOK
  <2> QED
    BY <1>7, <2>1, <2>2 DEF Keeps, RunsKept, PackagesKept, pushes, releases, StartTraining
<1>8. ASSUME NEW r \in Runs, NEW status \in {"Completed", "Failed"},
             NEW auc \in {"high", "low", "missing"}, TrainingEnds(r, status, auc)
      PROVE  Keeps
  <2>1. \A q \in Runs : training[q].status # "none" =>
          training'[q].status # "none" /\ training'[q].image = training[q].image
    BY <1>8 DEF TrainingEnds, TypeOK, TrainingType
  <2>2. \A q \in Runs : training[q].status = "Completed" => training'[q] = training[q]
    BY <1>8 DEF TrainingEnds, TypeOK
  <2> QED
    BY <1>8, <2>1, <2>2 DEF Keeps, RunsKept, PackagesKept, pushes, releases, TrainingEnds, Started
<1>9. ASSUME NEW r \in Runs, WaitForTrainingJob(r)
      PROVE  Keeps
  <2>1. RunsKept
    <3>1. Started(r)
      BY <1>9 DEF WaitForTrainingJob, At, Started
    <3>2. CASE run' = [run EXCEPT ![r] = Failed(r)]
      BY <3>1, <3>2, FailedKeeps
    <3>3. CASE run' # [run EXCEPT ![r] = Failed(r)]
      BY <1>0, <1>9, <3>1, <3>3, Pieces DEF WaitForTrainingJob, RunsKept, Started, RunType
    <3> QED
      BY <3>2, <3>3
  <2> QED
    BY <1>9, <2>1 DEF Keeps, RunsKept, PackagesKept, pushes, releases, WaitForTrainingJob
<1>10. ASSUME NEW r \in Runs, RegisterCall(r)
       PROVE  Keeps
  <2>1. RunsKept
    <3>1. Started(r)
      BY <1>10 DEF RegisterCall, At, Started
    <3>2. CASE run' = [run EXCEPT ![r] = Failed(r)]
      BY <3>1, <3>2, FailedKeeps
    <3>3. CASE run' = [run EXCEPT ![r].at = "output"]
      BY <1>0, <3>1, <3>3, Pieces DEF RunsKept, Started, RunType
    <3> QED
      BY <1>10, <3>2, <3>3 DEF RegisterCall
  <2>2. \A v \in DOMAIN packages : v \in DOMAIN packages' /\ packages'[v] = packages[v]
    BY <1>10, Pieces DEF RegisterCall
  <2> QED
    BY <1>10, <2>1, <2>2 DEF Keeps, RunsKept, PackagesKept, pushes, releases, RegisterCall
<1>11. ASSUME NEW r \in Runs, RegisterOutput(r)
       PROVE  Keeps
  <2>1. RunsKept
    BY <1>0, <1>11, Pieces DEF RegisterOutput, RunsKept, Started, RunType
  <2> QED
    BY <1>11, <2>1 DEF Keeps, RunsKept, PackagesKept, pushes, releases, RegisterOutput
<1>12. ASSUME NEW r \in Runs, NEW s \in Stages, StartRelease(r, s)
       PROVE  Keeps
  <2>1. RunsKept
    <3>1. Started(r)
      BY <1>12 DEF StartRelease, At, Started, Stages
    <3>2. CASE run' = [run EXCEPT ![r] = Failed(r)]
      BY <3>1, <3>2, FailedKeeps
    <3>3. CASE run' = [run EXCEPT ![r].at = "release"]
      BY <1>0, <3>1, <3>3, Pieces DEF RunsKept, Started, RunType
    <3> QED
      BY <1>12, <3>2, <3>3 DEF StartRelease
  <2> QED
    BY <1>12, <2>1 DEF Keeps, RunsKept, PackagesKept, pushes, releases, StartRelease
<1>13. ASSUME NEW d \in Releasers, ReleaseStepOrStop(d)
       PROVE  Keeps
  <2>1. ReleaseMoved(d)
    BY <1>13, ReleaseEffect
  <2>2. RunsKept
    <3>1. CASE run' = run
      BY <3>1 DEF RunsKept, Started
    <3>2. CASE d \in Runs /\ run' # run
      <4>1. Started(d) /\ release[d].stage \in Stages
        BY <2>1, <3>2, MovedRun, ReleaseFacts DEF Started, Stages
      <4>2. PICK x : /\ run' = [run EXCEPT ![d] = x] /\ x.pc # "none"
                     /\ x.commit = run[d].commit /\ x.production = run[d].production
        BY <2>1, <3>2, <4>1, MovedRun, FailedRun, DeployedRun DEF Started
      <4> QED
        BY <3>2, <4>2, ProgressKeeps
    <3> QED
      BY <2>1, <3>1, <3>2, MovedRun
  <2>3. UNCHANGED <<training, packages, pushes, served>>
    BY <2>1 DEF ReleaseMoved
  <2> QED
    BY <2>2, <2>3 DEF Keeps, PackagesKept, pushes
<1>14. ASSUME NEW r \in Runs, ApproveCall(r)
       PROVE  Keeps
  <2>1. RunsKept
    BY <1>0, <1>14, Pieces DEF ApproveCall, RunsKept, Started, RunType
  <2>2. PackagesKept
    <3> DEFINE v == run[r].package
    <3>1. v \in DOMAIN packages /\ packages[v] \in PackageType(builds)
      BY <1>0, <1>14, Pieces DEF ApproveCall, At, RunsAreInOrder, InOrder, RunType
    <3>2. packages' = [packages EXCEPT ![v].approval = "Approved",
                                       ![v].by = packages[v].by \cup {"workflow"}]
      BY <1>14, <3>1 DEF ApproveCall, PackageType
    <3> QED
      BY <3>1, <3>2, DecisionKeeps
  <2> QED
    BY <1>14, <2>1, <2>2 DEF Keeps, pushes, releases, ApproveCall
<1>15. ASSUME NEW r \in Runs, ApproveOutput(r)
       PROVE  Keeps
  <2>1. RunsKept
    BY <1>0, <1>15, Pieces DEF ApproveOutput, RunsKept, Started, RunType
  <2> QED
    BY <1>15, <2>1 DEF Keeps, RunsKept, PackagesKept, pushes, releases, ApproveOutput
<1>16. ASSUME NEW v \in DOMAIN packages, ApproveByHand(v) \/ RejectByHand(v)
       PROVE  Keeps
  <2>1. packages[v] \in PackageType(builds)
    BY Pieces
  <2>2. CASE ApproveByHand(v)
    <3>1. packages' = [packages EXCEPT ![v].approval = "Approved",
                                       ![v].by = packages[v].by \cup {"person"}]
      BY <2>1, <2>2 DEF ApproveByHand, PackageType
    <3>2. packages[v].by \subseteq packages[v].by \cup {"person"}
      OBVIOUS
    <3>3. PackagesKept
      BY <3>1, <3>2, DecisionKeeps
    <3> QED
      BY <2>2, <3>3 DEF Keeps, RunsKept, pushes, releases, ApproveByHand, Started
  <2>3. CASE RejectByHand(v)
    <3>1. packages' = [packages EXCEPT ![v] = [packages[v] EXCEPT !.approval = "Rejected"]]
      BY <2>3 DEF RejectByHand
    <3>2. PackagesKept
      BY <2>1, <3>1, Pieces DEF PackagesKept, PackageType
    <3> QED
      BY <2>3, <3>2 DEF Keeps, RunsKept, pushes, releases, RejectByHand, Started
  <2> QED
    BY <1>16, <2>2, <2>3
<1>17. ASSUME NEW c \in Commits, NEW approve \in BOOLEAN, RegisterByHand(c, approve)
       PROVE  Keeps
  <2>1. \A v \in DOMAIN packages : v \in DOMAIN packages' /\ packages'[v] = packages[v]
    BY <1>17, Pieces DEF RegisterByHand
  <2> QED
    BY <1>17, <2>1 DEF Keeps, RunsKept, PackagesKept, pushes, releases, RegisterByHand, Started
<1>18. ASSUME NEW s \in Stages, Lands(s) \/ RolledBack(s)
       PROVE  Keeps
  BY <1>18 DEF Keeps, RunsKept, PackagesKept, pushes, Lands, RolledBack, Started
<1>19. ASSUME NEW s \in Stages, NEW v \in DOMAIN packages, DeployByHand(s, v)
       PROVE  Keeps
  BY <1>19 DEF Keeps, RunsKept, PackagesKept, pushes, DeployByHand, Started
<1>20. CASE UNCHANGED vars
  BY <1>20 DEF vars, Keeps, RunsKept, PackagesKept, pushes, releases, Started
<1> QED
  BY <1>1, <1>2, <1>3, <1>4, <1>5, <1>6, <1>7, <1>8, <1>9, <1>10, <1>11, <1>12, <1>13, <1>14,
     <1>15, <1>16, <1>17, <1>18, <1>19, <1>20
     DEF Next, RunStep, HandStep, ReleaseStepOrStop, Releasers

\* Each step keeps what is written of endpoints and releases in its type.
LEMMA ReleasesTypeStep ==
  ASSUME TypeOK, RunsAreInOrder, ReleasesAreInOrder, PipelineType', [Next]_vars
  PROVE  ReleasesType'
<1>0. Keeps
  BY NextKeeps
<1>1. /\ Len(packages) \in Nat /\ Len(packages') \in Nat /\ Len(packages) <= Len(packages')
      /\ ReleaseType(Len(packages)) \subseteq ReleaseType(Len(packages'))
  <2>1. /\ Len(packages) \in Nat /\ DOMAIN packages = 1..Len(packages)
        /\ Len(packages') \in Nat /\ DOMAIN packages' = 1..Len(packages') /\ builds \in Nat
    BY Pieces DEF PipelineType
  <2>2. Len(packages) <= Len(packages')
    <3>1. CASE Len(packages) = 0
      BY <2>1, <3>1
    <3>2. CASE Len(packages) # 0
      <4>1. Len(packages) \in DOMAIN packages
        BY <2>1, <3>2
      <4>2. Len(packages) \in DOMAIN packages'
        BY <1>0, <4>1 DEF Keeps, PackagesKept
      <4> QED
        BY <2>1, <4>2
    <3> QED
      BY <3>1, <3>2
  <2> QED
    BY <2>1, <2>2, TypesGrow
<1>2. ReleasesType /\ release \in [Releasers -> ReleaseType(Len(packages'))]
  BY <1>1, TypeParts DEF ReleasesType
<1>3. NoRelease \in ReleaseType(Len(packages'))
  BY <1>1 DEF NoRelease, ReleaseType, Stages
<1>4. CASE UNCHANGED releases
  BY <1>2, <1>4 DEF releases, ReleasesType
<1>5. ASSUME NEW r \in Runs, CutOff(r)
      PROVE  ReleasesType'
  BY <1>2, <1>3, <1>5 DEF CutOff, ReleasesType
<1>6. ASSUME NEW d \in Releasers, NEW s \in Stages, NEW v \in 0..Len(packages),
             StartsRelease(d, s, v), UNCHANGED <<endpoint, served, answered>>
      PROVE  ReleasesType'
  <2>1. [at |-> "describe", stage |-> s, package |-> v, previous |-> None]
          \in ReleaseType(Len(packages'))
    BY <1>1 DEF ReleaseType
  <2> QED
    BY <1>2, <1>6, <2>1 DEF StartsRelease, ReleasesType
<1>7. ASSUME NEW r \in Runs, NEW s \in Stages, StartRelease(r, s)
      PROVE  ReleasesType'
  <2>1. run[r].package \in 0..Len(packages)
    BY Pieces DEF RunType
  <2>2. r \in Releasers
    BY DEF Releasers
  <2> QED
    BY <1>4, <1>6, <1>7, <2>1, <2>2 DEF StartRelease, releases
<1>8. ASSUME NEW s \in Stages, NEW v \in DOMAIN packages, DeployByHand(s, v)
      PROVE  ReleasesType'
  <2>1. v \in 0..Len(packages) /\ None \in Releasers
    BY Pieces DEF Releasers
  <2> QED
    BY <1>6, <1>8, <2>1 DEF DeployByHand
<1>9. ASSUME NEW d \in Releasers, ReleaseStepOrStop(d)
      PROVE  ReleasesType'
  <2>1. ReleaseMoved(d)
    BY <1>9, ReleaseEffect
  <2>2. release' \in [Releasers -> ReleaseType(Len(packages'))]
    BY <2>1, MovedRelease DEF ReleaseMoved
  <2>3. endpoint' \in [Stages -> EndpointType]
    BY <1>2, <2>1, MovedEndpoint DEF ReleasesType
  <2>4. served' \subseteq Configs /\ answered' \subseteq Configs
    BY <1>2, <2>1, ReleaseFacts DEF ReleaseMoved, ReleasesType
  <2> QED
    BY <2>2, <2>3, <2>4 DEF ReleasesType
<1>10. ASSUME NEW s \in Stages, Lands(s) \/ RolledBack(s)
       PROVE  ReleasesType'
  <2>1. endpoint[s] \in EndpointType
    BY <1>2 DEF ReleasesType
  <2>2. endpoint' \in [Stages -> EndpointType]
    BY <1>2, <1>10, <2>1 DEF Lands, RolledBack, ReleasesType, EndpointType
  <2>3. served' \subseteq Configs
    BY <1>2, <1>10, <2>1 DEF Lands, RolledBack, ReleasesType, EndpointType
  <2> QED
    BY <1>2, <1>10, <2>2, <2>3 DEF Lands, RolledBack, ReleasesType
<1> QED
  BY <1>4, <1>5, <1>7, <1>8, <1>9, <1>10
     DEF Next, RunStep, HandStep, ReleaseStepOrStop, Releasers, vars, Dispatch, Rerun, Build, Push,
       Expire, StartTraining, TrainingEnds, WaitForTrainingJob, RegisterCall, RegisterOutput,
       RegisterByHand, ApproveCall, ApproveOutput, ApproveByHand, RejectByHand

\* Each step keeps every value in its type.
LEMMA TypeStep ==
  ASSUME TypeOK, RunsAreInOrder, TrainedAsTagged, ReleasesAreInOrder, [Next]_vars
  PROVE  TypeOK'
<1>1. PipelineType'
  BY PipelineTypeStep
<1>2. ReleasesType'
  BY <1>1, ReleasesTypeStep
<1> QED
  BY <1>1, <1>2 DEF TypeOK, PipelineType, ReleasesType

(***************************************************************************)
(* The jobs of a run are in order.                                         *)
(***************************************************************************)

\* The configuration of a package stays what it is.
LEMMA ConfigKept ==
  ASSUME Keeps, NEW v \in DOMAIN packages
  PROVE  <<packages'[v].run, packages'[v].image>> = Config(v) /\ served \subseteq served'
BY DEF Keeps, PackagesKept, Config

\* A run that a step does not move stays in order, and so does one that fails.
LEMMA OthersInOrder ==
  ASSUME TypeOK, RunsAreInOrder, Keeps, NEW q \in Runs,
         run'[q] = run[q] \/ (Started(q) /\ run'[q] = Failed(q))
  PROVE  InOrder(q)'
<1>1. run[q] \in RunType(builds, Len(packages)) /\ InOrder(q)
  BY Pieces DEF RunsAreInOrder
<1>2. /\ run'[q].pc = run[q].pc /\ run'[q].commit = run[q].commit
      /\ run'[q].production = run[q].production /\ run'[q].package = run[q].package
      /\ run'[q] = run[q] \/ (Started(q) /\ run'[q].at = "failed")
  BY <1>1, FailedRun
<1>3. run[q].package # 0 => run[q].package \in DOMAIN packages
  BY <1>1, Pieces DEF RunType
<1>4. training[q].status = "Completed" => training'[q].status = "Completed"
  BY DEF Keeps
<1>5. \A u \in DOMAIN packages : u \in DOMAIN packages' /\ packages'[u].run = packages[u].run
  BY DEF Keeps, PackagesKept
<1>6. \A u \in DOMAIN packages :
        Config(u) \in served => <<packages'[u].run, packages'[u].image>> \in served'
  BY ConfigKept
<1>7. InOrder(q)' <=>
        /\ run'[q].pc # "none" => run'[q].commit \in Commits
        /\ run'[q].at = "failed" => run'[q].pc # "none"
        /\ run'[q].at = "push" =>
             run'[q].image # 0 /\ run'[q].push \in {<<run'[q].commit, q>>, <<q>>}
        /\ run'[q].package # 0 => packages'[run'[q].package].run = q
        /\ run'[q].pc \in {"register", "staging", "approve", "production", "end"} =>
             training'[q].status = "Completed"
        /\ run'[q].pc \in {"staging", "approve", "production", "end"} => run'[q].package # 0
        /\ run'[q].pc \in {"approve", "production"} => run'[q].production
        /\ run'[q].pc \in {"approve", "production", "end"} =>
             <<packages'[run'[q].package].run, packages'[run'[q].package].image>> \in served'
        /\ run'[q].pc = "register" /\ run'[q].at = "output" =>
             \E u \in DOMAIN packages' : packages'[u].run = q
  BY DEF InOrder, Started, At, Config
<1>8. CASE run'[q] = run[q]
  BY <1>1, <1>3, <1>4, <1>5, <1>6, <1>7, <1>8 DEF InOrder, Started, At
<1>9. CASE Started(q) /\ run'[q] = Failed(q)
  BY <1>1, <1>2, <1>3, <1>4, <1>5, <1>6, <1>7, <1>9, FailedRun DEF InOrder, Started, At
<1> QED
  BY <1>8, <1>9

\* A run has the outputs of the jobs it has passed, whatever is started again.
LEMMA OrderStep ==
  ASSUME TypeOK, RunsAreInOrder, TrainedAsTagged, ReleasesAreInOrder, [Next]_vars
  PROVE  RunsAreInOrder'
<1>0. /\ \A r \in Runs : run[r] \in RunType(builds, Len(packages)) /\ InOrder(r)
      /\ run \in [Runs -> RunType(builds, Len(packages))] /\ Keeps
  BY Pieces, NextKeeps DEF RunsAreInOrder
<1>1. ASSUME NEW r \in Runs, NEW c \in Commits, NEW production \in BOOLEAN,
             Dispatch(r, c, production)
      PROVE  RunsAreInOrder'
  <2>1. run'[r] = [[[NoRun EXCEPT !.pc = "build"] EXCEPT !.commit = c] EXCEPT !.production = production]
    BY <1>0, <1>1 DEF Dispatch
  <2>2. InOrder(r)'
    BY <2>1 DEF InOrder, NoRun, Started, At
  <2> QED
    BY <1>0, <1>1, <2>2, OthersInOrder DEF RunsAreInOrder, Dispatch
<1>2. ASSUME NEW r \in Runs, CutOff(r)
      PROVE  RunsAreInOrder'
  BY <1>0, <1>2, OthersInOrder DEF RunsAreInOrder, Started, CutOff
<1>3. ASSUME NEW r \in Runs, NEW i \in DOMAIN Jobs, Rerun(r, Jobs[i])
      PROVE  RunsAreInOrder'
  <2>1. InOrder(r)'
    <3>1. /\ run'[r].pc = Jobs[i] /\ run'[r].at = "start" /\ run'[r].commit = run[r].commit
          /\ run'[r].production = run[r].production /\ run'[r].package = run[r].package
          /\ packages' = packages /\ training' = training /\ served' = served
      BY <1>0, <1>3 DEF Rerun, RunType, releases
    <3>2. /\ i \in 1..6 /\ Jobs[i] \in {"approve", "production"} => run[r].production
          /\ run[r].at = "failed" \/ run[r].pc = "end"
      BY <1>3, JobsFacts DEF Rerun
    <3>3. ASSUME NEW k \in 1..6, run[r].pc = Jobs[k]
          PROVE  i <= k
      <4>1. Jobs[k] # "end" /\ Position(Jobs[k]) = k /\ Position(Jobs[i]) = i
        BY <3>2, JobsFacts, PositionOf
      <4> QED
        BY <1>3, <3>3, <4>1 DEF Rerun
    <3>4. run[r].pc \in {"none", "end"} \/ \E k \in 1..6 : run[r].pc = Jobs[k]
      BY <1>0, JobsFacts DEF RunType, Pcs
    <3>5. \/ run[r].pc = "end"
          \/ run[r].pc = "none"
          \/ \E k \in 1..6 : run[r].pc = Jobs[k] /\ i <= k
      BY <3>3, <3>4
    <3>6. (run[r].commit \in Commits \/ run[r].pc = "none") /\ InOrder(r)
      BY <1>0 DEF InOrder, Started
    <3>7. CASE run[r].pc = "end"
      BY <3>1, <3>2, <3>6, <3>7, JobsFacts DEF InOrder, Started, At, Config
    <3>8. CASE run[r].pc = "none"
      BY <3>2, <3>6, <3>8 DEF InOrder, Started
    <3>9. CASE \E k \in 1..6 : run[r].pc = Jobs[k] /\ i <= k
      BY <3>1, <3>2, <3>6, <3>9, JobsFacts DEF InOrder, Started, At, Config
    <3> QED
      BY <3>5, <3>7, <3>8, <3>9
  <2> QED
    BY <1>0, <1>3, <2>1, OthersInOrder DEF RunsAreInOrder, Rerun
<1>4. ASSUME NEW r \in Runs, Build(r)
      PROVE  RunsAreInOrder'
  <2>1. InOrder(r)'
    <3>1. /\ run'[r].pc = "build" /\ run'[r].at = "push" /\ run'[r].commit = run[r].commit
          /\ run'[r].image = builds + 1 /\ run'[r].push = <<run[r].commit, r>>
          /\ run'[r].package = run[r].package /\ run[r].pc = "build"
      BY <1>0, <1>4 DEF Build, At, RunType
    <3>2. run[r].commit \in Commits /\ (run[r].package # 0 => packages[run[r].package].run = r)
      BY <1>0, <3>1 DEF InOrder, Started
    <3>3. builds + 1 # 0 /\ packages' = packages
      BY <1>4, Pieces DEF Build
    <3> QED
      BY <3>1, <3>2, <3>3 DEF InOrder, Started, At
  <2> QED
    BY <1>0, <1>4, <2>1, OthersInOrder DEF RunsAreInOrder, Build
<1>5. ASSUME NEW r \in Runs, Push(r)
      PROVE  RunsAreInOrder'
  <2>1. CASE run'[r] = Failed(r)
    BY <1>0, <1>5, <2>1, OthersInOrder DEF RunsAreInOrder, Started, At, Push, Pushed
  <2>2. CASE Pushed(r)
    <3>1. /\ run[r].pc = "build" /\ run[r].at = "push" /\ packages' = packages
          /\ run[r].commit \in Commits /\ (run[r].package # 0 => packages[run[r].package].run = r)
          /\ run[r].image # 0 /\ run[r].push \in {<<run[r].commit, r>>, <<r>>}
      BY <1>0, <1>5 DEF Push, At, InOrder, Started
    <3>2. CASE run[r].push = <<r>>
      <4>1. /\ run'[r].pc = "train" /\ run'[r].at = "start" /\ run'[r].commit = run[r].commit
            /\ run'[r].package = run[r].package
        BY <1>0, <2>2, <3>2 DEF Pushed, RunType
      <4>2. InOrder(r)'
        BY <3>1, <4>1 DEF InOrder, Started, At
      <4> QED
        BY <1>0, <2>2, <4>2, OthersInOrder DEF RunsAreInOrder, Pushed
    <3>3. CASE run[r].push = <<run[r].commit, r>>
      <4>0. Len(run[r].push) # 1 /\ Tail(run[r].push) = <<r>>
        BY <3>3
      <4>1. /\ run'[r].pc = "build" /\ run'[r].at = "push" /\ run'[r].commit = run[r].commit
            /\ run'[r].package = run[r].package /\ run'[r].push = <<r>>
            /\ run'[r].image = run[r].image
        BY <1>0, <2>2, <3>1, <4>0 DEF Pushed, RunType
      <4>2. InOrder(r)'
        BY <3>1, <4>1 DEF InOrder, Started, At
      <4> QED
        BY <1>0, <2>2, <4>2, OthersInOrder DEF RunsAreInOrder, Pushed
    <3> QED
      BY <3>1, <3>2, <3>3
  <2> QED
    BY <1>0, <1>5, <2>1, <2>2 DEF Push
<1>6. ASSUME NEW r \in Runs, StartTraining(r)
      PROVE  RunsAreInOrder'
  <2>1. CASE run'[r] = Failed(r)
    BY <1>0, <1>6, <2>1, OthersInOrder DEF RunsAreInOrder, Started, At, StartTraining
  <2>2. CASE run' = [run EXCEPT ![r].at = "wait"]
    <3>1. /\ run'[r].pc = "train" /\ run'[r].at = "wait" /\ run'[r].commit = run[r].commit
          /\ run'[r].package = run[r].package
          /\ run[r].pc = "train" /\ packages' = packages
      BY <1>0, <1>6, <2>2 DEF StartTraining, At, RunType
    <3>2. InOrder(r)'
      BY <1>0, <3>1 DEF InOrder, Started, At
    <3> QED
      BY <1>0, <2>2, <3>2, OthersInOrder DEF RunsAreInOrder
  <2> QED
    BY <1>0, <1>6, <2>1, <2>2 DEF StartTraining
<1>7. ASSUME NEW r \in Runs, WaitForTrainingJob(r)
      PROVE  RunsAreInOrder'
  <2>0. /\ run[r].pc = "train" /\ run[r].at = "wait" /\ packages' = packages /\ training' = training
        /\ run[r].commit \in Commits /\ (run[r].package # 0 => packages[run[r].package].run = r)
        /\ \A q \in Runs : q # r => run'[q] = run[q]
    BY <1>0, <1>7 DEF WaitForTrainingJob, At, InOrder, Started
  <2>1. CASE run'[r] = Failed(r)
    BY <1>0, <2>0, <2>1, OthersInOrder DEF RunsAreInOrder, Started
  <2>2. CASE /\ training[r].status = "Completed"
             /\ run'[r] = [run[r] EXCEPT !.pc = "register", !.at = "start", !.polls = 0]
    <3>1. /\ run'[r].pc = "register" /\ run'[r].at = "start" /\ run'[r].commit = run[r].commit
          /\ run'[r].package = run[r].package
      BY <1>0, <2>2 DEF RunType
    <3>2. InOrder(r)'
      BY <2>0, <2>2, <3>1 DEF InOrder, Started, At
    <3> QED
      BY <1>0, <2>0, <3>2, OthersInOrder DEF RunsAreInOrder
  <2>3. CASE run'[r] = [run[r] EXCEPT !.polls = run[r].polls + 1]
    <3>1. /\ run'[r].pc = "train" /\ run'[r].at = "wait" /\ run'[r].commit = run[r].commit
          /\ run'[r].package = run[r].package
      BY <1>0, <2>0, <2>3 DEF RunType
    <3>2. InOrder(r)'
      BY <2>0, <3>1 DEF InOrder, Started, At
    <3> QED
      BY <1>0, <2>0, <3>2, OthersInOrder DEF RunsAreInOrder
  <2> QED
    BY <1>0, <1>7, <2>1, <2>2, <2>3 DEF WaitForTrainingJob
<1>8. ASSUME NEW r \in Runs, RegisterCall(r)
       PROVE  RunsAreInOrder'
  <2>1. CASE run'[r] = Failed(r)
    BY <1>0, <1>8, <2>1, OthersInOrder DEF RunsAreInOrder, Started, At, RegisterCall
  <2>2. CASE packages' = Append(packages, NewPackage(r)) /\ run' = [run EXCEPT ![r].at = "output"]
    <3>1. /\ run'[r].pc = "register" /\ run'[r].commit = run[r].commit
          /\ run'[r].package = run[r].package /\ run'[r].at = "output"
          /\ run[r].pc = "register" /\ training' = training
      BY <1>0, <1>8, <2>2 DEF RegisterCall, At, RunType
    <3>2. Len(packages) + 1 \in DOMAIN packages' /\ packages'[Len(packages) + 1].run = r
      BY <2>2, Pieces DEF NewPackage
    <3>3. run[r].package # 0 => packages'[run[r].package].run = r
      BY <1>0, Pieces DEF InOrder, Keeps, PackagesKept, RunType
    <3>4. run[r].commit \in Commits /\ training[r].status = "Completed"
      BY <1>0, <3>1 DEF InOrder, Started
    <3>5. InOrder(r)'
      BY <3>1, <3>2, <3>3, <3>4 DEF InOrder, Started, At
    <3> QED
      BY <1>0, <2>2, <3>5, OthersInOrder DEF RunsAreInOrder
  <2> QED
    BY <1>0, <1>8, <2>1, <2>2 DEF RegisterCall
<1>9. ASSUME NEW r \in Runs, RegisterOutput(r)
       PROVE  RunsAreInOrder'
  <2>1. /\ run'[r].pc = "staging" /\ run'[r].at = "start" /\ run'[r].commit = run[r].commit
        /\ run'[r].package = PackageOf(r) /\ run[r].pc = "register"
        /\ training' = training /\ packages' = packages
    BY <1>0, <1>9 DEF RegisterOutput, At, RunType
  <2>2. PackageOf(r) # 0 /\ packages[PackageOf(r)].run = r
    BY <1>9, LastOfRun, Pieces DEF RegisterOutput
  <2>3. InOrder(r)'
    BY <1>0, <2>1, <2>2 DEF InOrder, Started, At
  <2> QED
    BY <1>0, <1>9, <2>3, OthersInOrder DEF RunsAreInOrder, RegisterOutput
<1>10. ASSUME NEW r \in Runs, NEW s \in Stages, StartRelease(r, s)
       PROVE  RunsAreInOrder'
  <2>1. CASE run'[r] = Failed(r)
    BY <1>0, <1>10, <2>1, OthersInOrder DEF RunsAreInOrder, Started, At, Stages, StartRelease
  <2>2. CASE run' = [run EXCEPT ![r].at = "release"]
    <3>1. /\ run'[r].pc = run[r].pc /\ run'[r].at = "release" /\ run'[r].commit = run[r].commit
          /\ run'[r].package = run[r].package /\ run'[r].production = run[r].production
          /\ run[r].pc \in {"staging", "production"} /\ packages' = packages /\ served' = served
          /\ training' = training
      BY <1>0, <1>10, <2>2 DEF StartRelease, At, Stages, RunType
    <3>2. InOrder(r)'
      BY <1>0, <3>1 DEF InOrder, Started, At, Config
    <3> QED
      BY <1>0, <2>2, <3>2, OthersInOrder DEF RunsAreInOrder
  <2> QED
    BY <1>0, <1>10, <2>1, <2>2 DEF StartRelease
<1>11. ASSUME NEW d \in Releasers, ReleaseStepOrStop(d)
       PROVE  RunsAreInOrder'
  <2>0. ReleaseMoved(d) /\ packages' = packages /\ training' = training /\ served' = served
    BY <1>11, ReleaseEffect DEF ReleaseMoved
  <2>1. CASE run' = run
    BY <1>0, <2>1, OthersInOrder DEF RunsAreInOrder
  <2>2. CASE d \in Runs /\ run' = [run EXCEPT ![d] = Failed(d)]
    <3>1. Started(d)
      BY <2>0, <2>2, MovedRun, ReleaseFacts DEF Started, Stages
    <3>2. run'[d] = Failed(d) /\ \A q \in Runs : q # d => run'[q] = run[q]
      BY <1>0, <2>2
    <3> QED
      BY <1>0, <3>1, <3>2, OthersInOrder DEF RunsAreInOrder
  <2>3. CASE /\ d \in Runs /\ run' = [run EXCEPT ![d] = AfterDeploy(d, release[d].stage)]
             /\ release[d].at = "smoke" /\ EndpointOf(d).config # None
    <3> DEFINE s == release[d].stage
               v == run[d].package
    <3>1. /\ s \in Stages /\ run[d].pc = s /\ release[d].package = v
      BY <2>0, <2>3, MovedRun, ReleaseFacts
    <3>2. v # 0 /\ packages[v].run = d /\ training[d].status = "Completed"
          /\ run[d].commit \in Commits
      BY <1>0, <2>3, <3>1 DEF InOrder, Started, Stages
    <3>3. Config(v) \in served
      <4>1. CASE s = "production"
        BY <1>0, <2>3, <3>1, <4>1 DEF InOrder
      <4>2. CASE s = "staging"
        <5>1. Wanted(d) \in served \/ endpoint["staging"] = [config |-> None, target |-> Wanted(d)]
          BY <2>3, <4>2 DEF ReleasesAreInOrder, InProgress
        <5>2. endpoint["staging"].config # None /\ Wanted(d) = Config(v)
          BY <2>3, <3>1, <4>2 DEF EndpointOf, Wanted
        <5> QED
          BY <5>1, <5>2
      <4> QED
        BY <3>1, <4>1, <4>2 DEF Stages
    <3>4. /\ run'[d].at = "start" /\ run'[d].pc \in {"approve", "end"}
          /\ run'[d].pc = "approve" => run'[d].production
          /\ run'[d].commit = run[d].commit /\ run'[d].package = v
          /\ \A q \in Runs : q # d => run'[q] = run[q]
      BY <1>0, <2>3, <3>1, DeployedRun
    <3>5. <<packages'[run'[d].package].run, packages'[run'[d].package].image>> \in served'
      BY <2>0, <3>3, <3>4 DEF Config
    <3>6. InOrder(d)'
      BY <2>0, <3>2, <3>4, <3>5 DEF InOrder, Started, At, Config
    <3> QED
      BY <1>0, <3>4, <3>6, OthersInOrder DEF RunsAreInOrder
  <2> QED
    BY <2>0, <2>1, <2>2, <2>3, MovedRun
<1>12. ASSUME NEW r \in Runs, ApproveCall(r)
       PROVE  RunsAreInOrder'
  <2>1. /\ run'[r].pc = "approve" /\ run'[r].at = "output" /\ run'[r].commit = run[r].commit
        /\ run'[r].package = run[r].package /\ run'[r].production = run[r].production
        /\ run[r].pc = "approve" /\ training' = training
    BY <1>0, <1>12 DEF ApproveCall, At, RunType
  <2>2. /\ run[r].package \in DOMAIN packages /\ run[r].package # 0 /\ run[r].production
        /\ packages[run[r].package].run = r /\ Config(run[r].package) \in served
        /\ training[r].status = "Completed" /\ run[r].commit \in Commits
    BY <1>0, <2>1, Pieces DEF InOrder, Started, RunType
  <2>3. packages'[run[r].package].run = r /\ <<packages'[run[r].package].run, packages'[run[r].package].image>> \in served'
    BY <1>0, <2>2, ConfigKept DEF Keeps, PackagesKept
  <2>4. InOrder(r)'
    BY <2>1, <2>2, <2>3 DEF InOrder, Started, At, Config
  <2> QED
    BY <1>0, <1>12, <2>4, OthersInOrder DEF RunsAreInOrder, ApproveCall
<1>13. ASSUME NEW r \in Runs, ApproveOutput(r)
       PROVE  RunsAreInOrder'
  <2>1. /\ run'[r].pc = "production" /\ run'[r].at = "start" /\ run'[r].commit = run[r].commit
        /\ run'[r].package = run[r].package /\ run'[r].production = run[r].production
        /\ run[r].pc = "approve" /\ training' = training /\ packages' = packages /\ served' = served
    BY <1>0, <1>13 DEF ApproveOutput, At, RunType, releases
  <2>2. InOrder(r)'
    BY <1>0, <2>1 DEF InOrder, Started, At, Config
  <2> QED
    BY <1>0, <1>13, <2>2, OthersInOrder DEF RunsAreInOrder, ApproveOutput
<1>14. ASSUME UNCHANGED run
       PROVE  RunsAreInOrder'
  BY <1>0, <1>14, OthersInOrder DEF RunsAreInOrder
<1> QED
  BY <1>1, <1>2, <1>3, <1>4, <1>5, <1>6, <1>7, <1>8, <1>9, <1>10, <1>11, <1>12, <1>13, <1>14
     DEF Next, RunStep, HandStep, ReleaseStepOrStop, Releasers, vars, Expire, TrainingEnds, Lands,
       RolledBack, RegisterByHand, ApproveByHand, RejectByHand, DeployByHand

(***************************************************************************)
(* Training jobs and packages.                                             *)
(***************************************************************************)

\* Only the train job and SageMaker touch a training job.
LEMMA TrainingMoves ==
  ASSUME TypeOK, ReleasesAreInOrder, [Next]_vars, training' # training
  PROVE  \E r \in Runs :
           \/ StartTraining(r)
           \/ \E status \in {"Completed", "Failed"}, auc \in {"high", "low", "missing"} :
                TrainingEnds(r, status, auc)
<1>1. ASSUME NEW d \in Releasers, ReleaseStepOrStop(d) PROVE FALSE
  BY <1>1, ReleaseEffect DEF ReleaseMoved
<1> QED
  BY <1>1 DEF Next, RunStep, HandStep, ReleaseStepOrStop, Releasers, vars, Dispatch, CutOff, Rerun,
    Build, Push, Expire, WaitForTrainingJob, RegisterCall, RegisterOutput, RegisterByHand,
    StartRelease, DeployByHand, Lands, RolledBack, ApproveCall, ApproveOutput, ApproveByHand,
    RejectByHand

\* A job goes on training in the image its run's commit named.
LEMMA TrainedStep ==
  ASSUME TypeOK, RunsAreInOrder, TrainedAsTagged, ReleasesAreInOrder, [Next]_vars
  PROVE  TrainedAsTagged'
<1>0. Keeps
  BY NextKeeps
<1>1. ASSUME NEW r \in Runs, training[r].status # "none"
      PROVE  /\ Started(r)' /\ training'[r].image # 0
             /\ training'[r].image \in expired' \/ tags'[run'[r].commit] = training'[r].image
  <2>1. /\ Started(r) /\ training[r].image # 0
        /\ training[r].image \in expired \/ tags[run[r].commit] = training[r].image
    BY <1>1 DEF TrainedAsTagged
  <2>2. run[r].commit \in Tags
    BY <2>1 DEF RunsAreInOrder, InOrder, Tags
  <2> QED
    BY <1>0, <1>1, <2>1, <2>2 DEF Keeps, RunsKept
<1>2. ASSUME NEW r \in Runs, training[r].status = "none", training'[r].status # "none"
      PROVE  /\ Started(r)' /\ training'[r].image # 0
             /\ training'[r].image \in expired' \/ tags'[run'[r].commit] = training'[r].image
  <2>1. StartTraining(r)
    <3>1. training' # training
      BY <1>2
    <3>2. PICK q \in Runs : StartTraining(q) \/
            \E status \in {"Completed", "Failed"}, auc \in {"high", "low", "missing"} :
              TrainingEnds(q, status, auc)
      BY <3>1, TrainingMoves
    <3>3. q = r
      BY <1>2, <3>2 DEF StartTraining, TrainingEnds, TypeOK
    <3> QED
      BY <1>2, <3>2, <3>3 DEF TrainingEnds
  <2>2. /\ training' = [training EXCEPT ![r].status = "InProgress", ![r].image = tags[run[r].commit]]
        /\ tags[run[r].commit] # 0 /\ tags' = tags /\ Started(r)
    BY <1>2, <2>1 DEF StartTraining, At, Started, pushes
  <2>3. training'[r].image = tags[run[r].commit]
    BY <2>2 DEF TypeOK, TrainingType
  <2> QED
    BY <1>0, <2>2, <2>3 DEF Keeps, RunsKept
<1> QED
  BY <1>1, <1>2 DEF TrainedAsTagged

\* A change of the group is a registration or a decision, by a job or by hand.
LEMMA PackagesMove ==
  ASSUME TypeOK, ReleasesAreInOrder, [Next]_vars, packages' # packages
  PROVE  \/ \E r \in Runs : RegisterCall(r) \/ ApproveCall(r)
         \/ \E c \in Commits, approve \in BOOLEAN : RegisterByHand(c, approve)
         \/ \E v \in DOMAIN packages : ApproveByHand(v) \/ RejectByHand(v)
<1>1. ASSUME NEW d \in Releasers, ReleaseStepOrStop(d) PROVE FALSE
  BY <1>1, ReleaseEffect DEF ReleaseMoved
<1> QED
  BY <1>1 DEF Next, RunStep, HandStep, ReleaseStepOrStop, Releasers, vars, Dispatch, CutOff, Rerun,
    Build, Push, Expire, StartTraining, TrainingEnds, WaitForTrainingJob, RegisterOutput,
    StartRelease, DeployByHand, Lands, RolledBack, ApproveOutput

\* A package after a step is one there was, or the one just registered.
LEMMA OldOrNew ==
  ASSUME TypeOK, RunsAreInOrder, ReleasesAreInOrder, [Next]_vars,
         NEW v \in DOMAIN packages', v \notin DOMAIN packages
  PROVE  \/ \E r \in Runs : /\ RegisterCall(r) /\ MeetsMinAuc(training[r].auc)
                             /\ packages'[v] = NewPackage(r)
         \/ /\ packages'[v].run = None
            /\ packages'[v].by \subseteq {"person"}
            /\ packages'[v].approval = "Approved" => packages'[v].by # {}
<1>1. packages' # packages
  OBVIOUS
<1>2. ASSUME NEW r \in Runs, RegisterCall(r)
      PROVE  /\ MeetsMinAuc(training[r].auc) /\ packages'[v] = NewPackage(r)
  <2>1. MeetsMinAuc(training[r].auc) /\ packages' = Append(packages, NewPackage(r))
    BY <1>1, <1>2 DEF RegisterCall
  <2>2. v = Len(packages) + 1
    BY <2>1, Pieces
  <2> QED
    BY <2>1, <2>2, Pieces
<1>3. ASSUME NEW r \in Runs, ApproveCall(r) PROVE FALSE
  BY <1>3, Pieces DEF ApproveCall
<1>4. ASSUME NEW u \in DOMAIN packages, ApproveByHand(u) \/ RejectByHand(u) PROVE FALSE
  BY <1>4, Pieces DEF ApproveByHand, RejectByHand
<1>5. ASSUME NEW c \in Commits, NEW approve \in BOOLEAN, RegisterByHand(c, approve)
      PROVE  /\ packages'[v].run = None
             /\ packages'[v].by \subseteq {"person"}
             /\ packages'[v].approval = "Approved" => packages'[v].by # {}
  <2>1. PICK x : /\ packages' = Append(packages, x) /\ x.run = None /\ x.by \subseteq {"person"}
                 /\ x.approval = "Approved" => x.by # {}
    <3> DEFINE y == [image |-> c,
                     approval |-> IF approve THEN "Approved" ELSE "PendingManualApproval",
                     run |-> None, trained |-> 0, auc |-> "missing",
                     by |-> IF approve THEN {"person"} ELSE {}]
    <3>1. packages' = Append(packages, y)
      BY <1>5 DEF RegisterByHand
    <3>2. y.run = None /\ y.by \subseteq {"person"} /\ (y.approval = "Approved" => y.by # {})
      BY SMT
    <3> HIDE DEF y
    <3> QED
      BY <3>1, <3>2
  <2>2. v = Len(packages) + 1
    BY <2>1, Pieces
  <2>3. packages'[v] = x
    BY <2>1, <2>2, Pieces
  <2> QED
    BY <2>1, <2>3
<1> QED
  BY <1>1, <1>2, <1>3, <1>4, <1>5, PackagesMove

\* An approval of a package there was is the decision of a person, or of the
\* workflow for the run that registered it.
LEMMA Decided ==
  ASSUME TypeOK, RunsAreInOrder, ReleasesAreInOrder, [Next]_vars, NEW v \in DOMAIN packages
  PROVE  /\ packages'[v].approval = "Approved" =>
              packages[v].approval = "Approved" \/ packages'[v].by # {}
         /\ "workflow" \in packages'[v].by /\ "workflow" \notin packages[v].by =>
              /\ packages[v].run \in Runs /\ run[packages[v].run].production
              /\ Config(v) \in served
<1>0. packages[v] \in PackageType(builds)
  BY Pieces
<1>1. CASE packages'[v] = packages[v]
  BY <1>1
<1>2. ASSUME NEW u \in DOMAIN packages, NEW a, NEW who, u # v,
             packages' = [packages EXCEPT ![u].approval = a, ![u].by = who]
      PROVE  packages'[v] = packages[v]
  BY <1>2, Pieces
<1>3. ASSUME NEW r \in Runs, ApproveCall(r), packages'[v] # packages[v]
      PROVE  /\ packages'[v].by # {} /\ packages[v].run \in Runs
             /\ run[packages[v].run].production /\ Config(v) \in served
  <2>1. v = run[r].package
    BY <1>3, Pieces DEF ApproveCall
  <2>2. "workflow" \in packages'[v].by
    BY <1>0, <1>3, <2>1, Pieces DEF ApproveCall, PackageType
  <2>3. packages[v].run = r /\ run[r].production /\ Config(v) \in served
    BY <1>3, <2>1, Pieces DEF ApproveCall, At, RunsAreInOrder, InOrder
  <2> QED
    BY <2>2, <2>3
<1>4. ASSUME NEW u \in DOMAIN packages, ApproveByHand(u), packages'[v] # packages[v]
      PROVE  /\ packages'[v].by # {}
             /\ "workflow" \in packages'[v].by => "workflow" \in packages[v].by
  <2>1. v = u
    BY <1>4, Pieces DEF ApproveByHand
  <2>2. packages'[v].by = packages[v].by \cup {"person"}
    BY <1>0, <1>4, <2>1, Pieces DEF ApproveByHand, PackageType
  <2> QED
    BY <2>2
<1>5. ASSUME NEW u \in DOMAIN packages, RejectByHand(u), packages'[v] # packages[v]
      PROVE  packages'[v].approval = "Rejected" /\ packages'[v].by = packages[v].by
  <2>1. v = u
    BY <1>5, Pieces DEF RejectByHand
  <2> QED
    BY <1>0, <1>5, <2>1, Pieces DEF RejectByHand, PackageType
<1>6. ASSUME NEW r \in Runs, RegisterCall(r) PROVE packages'[v] = packages[v]
  BY <1>6, Pieces DEF RegisterCall
<1>7. ASSUME NEW c \in Commits, NEW approve \in BOOLEAN, RegisterByHand(c, approve)
      PROVE  packages'[v] = packages[v]
  BY <1>7, Pieces DEF RegisterByHand
<1>8. CASE packages' = packages
  BY <1>8
<1> QED
  BY <1>1, <1>3, <1>4, <1>5, <1>6, <1>7, <1>8, PackagesMove

\* A package of a run is registered with the metrics of its run's training.
LEMMA MeasuredStep ==
  ASSUME TypeOK, RunsAreInOrder, ReleasesAreInOrder, PackageIsMeasured, [Next]_vars
  PROVE  PackageIsMeasured'
<1> SUFFICES ASSUME NEW v \in DOMAIN packages', packages'[v].run # None
             PROVE  LET job == training'[packages'[v].run]
                    IN  /\ job.status = "Completed" /\ job.auc = "high"
                        /\ job.image = packages'[v].trained
  BY DEF PackageIsMeasured, OfRuns
<1>0. Keeps
  BY NextKeeps
<1>1. CASE v \in DOMAIN packages
  <2>1. packages'[v].run = packages[v].run /\ packages'[v].trained = packages[v].trained
    BY <1>0, <1>1 DEF Keeps, PackagesKept
  <2>2. packages[v].run \in Runs
    <3>1. packages[v] \in PackageType(builds)
      BY <1>1, Pieces
    <3> QED
      BY <2>1, <3>1 DEF PackageType, Releasers
  <2> QED
    BY <1>0, <1>1, <2>1, <2>2 DEF Keeps, PackageIsMeasured, OfRuns
<1>2. CASE v \notin DOMAIN packages
  <2>1. PICK r \in Runs : /\ RegisterCall(r) /\ MeetsMinAuc(training[r].auc)
                          /\ packages'[v] = NewPackage(r)
    BY <1>2, OldOrNew
  <2>2. training[r].status = "Completed" /\ training' = training
    BY <2>1 DEF RegisterCall, At, RunsAreInOrder, InOrder
  <2> QED
    BY <2>1, <2>2 DEF NewPackage, MeetsMinAuc
<1> QED
  BY <1>1, <1>2

\* A package stays tied to its run, and its approval to who gave it.
LEMMA PackagesStep ==
  ASSUME TypeOK, RunsAreInOrder, ReleasesAreInOrder, PackagesAreOfTheirRuns, ApprovedWasServed,
         [Next]_vars
  PROVE  PackagesAreOfTheirRuns' /\ ApprovedWasServed'
<1> DEFINE q(v) == packages'[v].run
<1> SUFFICES ASSUME NEW v \in DOMAIN packages'
             PROVE  /\ q(v) # None => run'[q(v)].pc # "none" /\ packages'[v].image = run'[q(v)].commit
                    /\ packages'[v].approval = "Approved" => packages'[v].by # {}
                    /\ "workflow" \in packages'[v].by =>
                         /\ q(v) # None /\ run'[q(v)].production
                         /\ <<q(v), packages'[v].image>> \in served'
  BY DEF PackagesAreOfTheirRuns, ApprovedWasServed, OfRuns, Started, Config
<1>0. Keeps
  BY NextKeeps
<1>1. CASE v \in DOMAIN packages
  <2>1. /\ q(v) = packages[v].run /\ packages'[v].image = packages[v].image
        /\ packages[v].by \subseteq packages'[v].by /\ packages[v].run \in Releasers
        /\ <<q(v), packages'[v].image>> = Config(v) /\ served \subseteq served'
    <3>1. packages[v] \in PackageType(builds)
      BY <1>1, Pieces
    <3> QED
      BY <1>0, <1>1, <3>1, ConfigKept DEF Keeps, PackagesKept, PackageType
  <2>2. /\ q(v) # None => Started(q(v)) /\ packages[v].image = run[q(v)].commit
        /\ packages[v].approval = "Approved" => packages[v].by # {}
        /\ "workflow" \in packages[v].by =>
             q(v) # None /\ run[q(v)].production /\ Config(v) \in served
    BY <1>1, <2>1 DEF PackagesAreOfTheirRuns, ApprovedWasServed, OfRuns
  <2>3. /\ packages'[v].approval = "Approved" => packages'[v].by # {}
        /\ "workflow" \in packages'[v].by =>
             q(v) # None /\ run[q(v)].production /\ Config(v) \in served
    BY <1>1, <2>1, <2>2, Decided, PipelineAssumption
  <2>4. q(v) # None => /\ q(v) \in Runs /\ Started(q(v))
                       /\ run'[q(v)].pc # "none" /\ run'[q(v)].commit = run[q(v)].commit
                       /\ run'[q(v)].production = run[q(v)].production
    BY <1>0, <2>1, <2>2 DEF Keeps, RunsKept, Started, Releasers
  <2> QED
    BY <2>1, <2>2, <2>3, <2>4
<1>2. CASE v \notin DOMAIN packages
  <2>1. CASE \E r \in Runs : RegisterCall(r) /\ packages'[v] = NewPackage(r)
    <3>1. PICK r \in Runs : RegisterCall(r) /\ packages'[v] = NewPackage(r)
      BY <2>1
    <3>2. Started(r)
      BY <3>1 DEF RegisterCall, At, Started
    <3> QED
      BY <1>0, <3>1, <3>2 DEF NewPackage, Keeps, RunsKept, Started
  <2>2. CASE /\ packages'[v].run = None
             /\ packages'[v].by \subseteq {"person"}
             /\ packages'[v].approval = "Approved" => packages'[v].by # {}
    BY <2>2
  <2> QED
    BY <1>2, <2>1, <2>2, OldOrNew
<1> QED
  BY <1>1, <1>2

(***************************************************************************)
(* Endpoints and releases.                                                 *)
(***************************************************************************)

\* What is asked for after a step, of a configuration that is a value.
AskedAfter(k) ==
  \E v \in DOMAIN packages' :
    /\ <<packages'[v].run, packages'[v].image>> = k
    /\ \/ "person" \in packages'[v].by
       \/ /\ "workflow" \in packages'[v].by /\ run'[packages'[v].run].production
          /\ k \in served'

\* What was asked for is not taken back.
LEMMA AskedKept ==
  ASSUME TypeOK, PackagesAreOfTheirRuns, Keeps, NEW k, AskedFor(k)
  PROVE  AskedAfter(k)
<1>1. PICK v \in DOMAIN packages :
        /\ Config(v) = k
        /\ \/ "person" \in packages[v].by
           \/ "workflow" \in packages[v].by /\ run[packages[v].run].production /\ k \in served
  BY DEF AskedFor
<1>2. /\ v \in DOMAIN packages' /\ <<packages'[v].run, packages'[v].image>> = k
      /\ packages[v].by \subseteq packages'[v].by /\ packages'[v].run = packages[v].run
      /\ served \subseteq served'
  BY <1>1, ConfigKept DEF Keeps, PackagesKept
<1>3. "workflow" \in packages[v].by =>
        run'[packages[v].run].production = run[packages[v].run].production
  <2>1. packages[v] \in PackageType(builds)
    BY <1>1, Pieces
  <2>2. "workflow" \in packages[v].by => packages[v].run \in Runs /\ Started(packages[v].run)
    BY <1>1, <2>1 DEF PackagesAreOfTheirRuns, OfRuns, PackageType, Releasers
  <2> QED
    BY <2>2 DEF Keeps, RunsKept
<1> QED
  BY <1>1, <1>2, <1>3 DEF AskedAfter

\* What may go to production was asked for.
LEMMA EligibleAsked ==
  ASSUME TypeOK, PackagesAreOfTheirRuns, ApprovedWasServed, NEW v \in DOMAIN packages,
         Eligible("production", v)
  PROVE  AskedFor(Config(v))
<1>1. packages[v].by # {} /\ packages[v].by \subseteq {"workflow", "person"}
  <2>1. packages[v] \in PackageType(builds)
    BY Pieces
  <2> QED
    BY <2>1 DEF Eligible, PackagesAreOfTheirRuns, PackageType
<1>2. "workflow" \in packages[v].by => run[packages[v].run].production /\ Config(v) \in served
  BY DEF PackagesAreOfTheirRuns, ApprovedWasServed
<1> QED
  BY <1>1, <1>2 DEF AskedFor

\* The endpoints change by a release, or by SageMaker.
LEMMA EndpointMoves ==
  ASSUME TypeOK, ReleasesAreInOrder, [Next]_vars, endpoint' # endpoint
  PROVE  \/ \E d \in Releasers : ReleaseMoved(d)
         \/ \E s \in Stages : Lands(s) \/ RolledBack(s)
BY ReleaseEffect DEF Next, RunStep, HandStep, ReleaseStepOrStop, Releasers, vars, releases,
  Dispatch, CutOff, Rerun, Build, Push, Expire, StartTraining, TrainingEnds, WaitForTrainingJob,
  RegisterCall, RegisterOutput, RegisterByHand, StartRelease, DeployByHand, ApproveCall,
  ApproveOutput, ApproveByHand, RejectByHand

\* Staging serves what it has had in service; and a creation under way there
\* goes on until it is in service.
LEMMA StagingStep ==
  ASSUME TypeOK, ReleasesAreInOrder, StagingWasServed, [Next]_vars
  PROVE  /\ StagingWasServed'
         /\ \A k : /\ k # None
                   /\ k \in served \/ endpoint["staging"] = [config |-> None, target |-> k]
                   => k \in served' \/ endpoint'["staging"] = [config |-> None, target |-> k]
<1>0. "staging" \in Stages /\ endpoint["staging"] \in EndpointType
      /\ endpoint \in [Stages -> EndpointType]
  BY DEF TypeOK, Stages
<1>1. ASSUME NEW s \in Stages, Lands(s)
      PROVE  /\ served \subseteq served'
             /\ endpoint'["staging"] = endpoint["staging"]
                  \/ (endpoint'["staging"].config \in served' /\ endpoint["staging"].target \in served')
  BY <1>0, <1>1 DEF Lands
<1>2. ASSUME NEW s \in Stages, RolledBack(s)
      PROVE  /\ served' = served
             /\ endpoint'["staging"] = endpoint["staging"]
                  \/ /\ endpoint'["staging"].config = endpoint["staging"].config
                     /\ endpoint["staging"].config # None
  BY <1>0, <1>2 DEF RolledBack, EndpointType
<1>3. ASSUME NEW d \in Releasers, ReleaseMoved(d)
      PROVE  /\ served' = served
             /\ endpoint'["staging"] = endpoint["staging"]
                  \/ /\ endpoint'["staging"].config = endpoint["staging"].config
                     /\ endpoint["staging"].target = None
  BY <1>0, <1>3, MovedEndpoint DEF ReleaseMoved
<1>4. CASE endpoint' = endpoint
  <2>1. served \subseteq served'
    <3>1. CASE \E s \in Stages : Lands(s)
      BY <1>1, <3>1
    <3>2. CASE \E d \in Releasers : ReleaseStepOrStop(d)
      BY <1>3, <3>2, ReleaseEffect
    <3> QED
      BY <3>1, <3>2 DEF Next, RunStep, HandStep, ReleaseStepOrStop, Releasers, vars, releases,
        Dispatch, CutOff, Rerun, Build, Push, Expire, StartTraining, TrainingEnds,
        WaitForTrainingJob, RegisterCall, RegisterOutput, RegisterByHand, StartRelease,
        DeployByHand, RolledBack, ApproveCall, ApproveOutput, ApproveByHand, RejectByHand
  <2> QED
    BY <1>4, <2>1 DEF StagingWasServed
<1>5. CASE endpoint' # endpoint
  <2>1. /\ served \subseteq served'
        /\ \/ endpoint'["staging"] = endpoint["staging"]
           \/ endpoint'["staging"].config \in served' /\ endpoint["staging"].target \in served'
           \/ /\ endpoint'["staging"].config = endpoint["staging"].config
              /\ endpoint["staging"].config # None
           \/ /\ endpoint'["staging"].config = endpoint["staging"].config
              /\ endpoint["staging"].target = None
    BY <1>1, <1>2, <1>3, <1>5, EndpointMoves
  <2>2. StagingWasServed'
    BY <2>1 DEF StagingWasServed
  <2>3. ASSUME NEW k, k # None, endpoint["staging"] = [config |-> None, target |-> k]
        PROVE  k \in served' \/ endpoint'["staging"] = [config |-> None, target |-> k]
    <3>1. endpoint["staging"].config = None /\ endpoint["staging"].target = k
      BY <2>3
    <3> QED
      BY <2>1, <2>3, <3>1
  <2> QED
    BY <2>1, <2>2, <2>3
<1> QED
  BY <1>4, <1>5

\* What a release in progress has to be after a step.
LEMMA AfterStep ==
  ASSUME NEW d \in Releasers, NEW x, NEW k, x = release'[d],
         k = <<packages'[x.package].run, packages'[x.package].image>>,
         x.package # 0,
         d # None => run'[d].pc = x.stage /\ run'[d].at = "release" /\ x.package = run'[d].package,
         x.stage = "production" => AskedAfter(k) /\ (x.previous # None => AskedAfter(x.previous)),
         x.stage = "staging" /\ x.at = "smoke" =>
           k \in served' \/ endpoint'["staging"] = [config |-> None, target |-> k]
  PROVE  InProgress(d)'
<1>1. InProgress(d)' <=>
        (release'[d].at # "idle" =>
          /\ release'[d].package # 0
          /\ d # None => /\ run'[d].pc = release'[d].stage /\ run'[d].at = "release"
                         /\ release'[d].package = run'[d].package
          /\ release'[d].stage = "production" =>
               /\ AskedFor(Wanted(d))'
               /\ release'[d].previous # None => AskedFor(release[d].previous)'
          /\ release'[d].stage = "staging" /\ release'[d].at = "smoke" =>
               Wanted(d)' \in served'
                 \/ endpoint'["staging"] = [config |-> None, target |-> Wanted(d)'])
  BY DEF InProgress, At
<1>2. Wanted(d)' = k
  BY DEF Wanted, Config
<1>3. AskedAfter(k) => AskedFor(Wanted(d))'
  BY <1>2 DEF AskedAfter, AskedFor, Config
<1>4. AskedAfter(x.previous) => AskedFor(release[d].previous)'
  BY DEF AskedAfter, AskedFor, Config
<1> QED
  BY <1>1, <1>2, <1>3, <1>4

\* A release that nobody moves, of a run that does not leave it, stays in order.
LEMMA OthersInProgress ==
  ASSUME TypeOK, PackagesAreOfTheirRuns, ReleasesAreInOrder, StagingWasServed, Keeps, [Next]_vars,
         NEW d \in Releasers,
         \/ release'[d].at = "idle"
         \/ release'[d] = release[d] /\ (d \in Runs /\ release[d].at # "idle" => run'[d] = run[d])
  PROVE  InProgress(d)'
<1>1. CASE release'[d].at = "idle"
  BY <1>1 DEF InProgress
<1>2. CASE release'[d] = release[d] /\ (d \in Runs /\ release[d].at # "idle" => run'[d] = run[d])
  <2> SUFFICES ASSUME release[d].at # "idle"
               PROVE  InProgress(d)'
    BY <1>2 DEF InProgress
  <2>1. PICK x : x = release[d]
    OBVIOUS
  <2>2. PICK k : k = Wanted(d)
    OBVIOUS
  <2>3. /\ x.package # 0 /\ x.package \in DOMAIN packages /\ k # None
        /\ d # None => At(d, x.stage, "release") /\ x.package = run[d].package
        /\ x.stage = "production" => AskedFor(k) /\ (x.previous # None => AskedFor(x.previous))
        /\ x.stage = "staging" /\ x.at = "smoke" =>
             k \in served \/ endpoint["staging"] = [config |-> None, target |-> k]
    BY <2>1, <2>2, ReleaseFacts DEF ReleasesAreInOrder, InProgress
  <2>4. k = <<packages'[x.package].run, packages'[x.package].image>>
    BY <2>1, <2>2, <2>3, ConfigKept DEF Wanted
  <2>5. d # None => run'[d].pc = x.stage /\ run'[d].at = "release" /\ x.package = run'[d].package
    BY <1>2, <2>3 DEF At, Releasers
  <2>6. x.stage = "production" => AskedAfter(k) /\ (x.previous # None => AskedAfter(x.previous))
    BY <2>3, AskedKept
  <2>7. x.stage = "staging" /\ x.at = "smoke" =>
          k \in served' \/ endpoint'["staging"] = [config |-> None, target |-> k]
    BY <2>3, StagingStep
  <2>8. x = release'[d]
    BY <1>2, <2>1
  <2> QED
    BY <2>3, <2>4, <2>5, <2>6, <2>7, <2>8, AfterStep
<1> QED
  BY <1>1, <1>2

\* A run that is not deploying has no release.
LEMMA NotDeploying ==
  ASSUME TypeOK, ReleasesAreInOrder, NEW r \in Runs,
         run[r].at # "release" \/ run[r].pc \notin Stages
  PROVE  release[r].at = "idle"
<1>1. r \in Releasers /\ r # None /\ release[r].stage \in Stages
  BY ReleaseFacts, PipelineAssumption DEF Releasers
<1> QED
  BY <1>1 DEF ReleasesAreInOrder, InProgress, At

\* A release starts with what its stage may have.
LEMMA StartsInOrder ==
  ASSUME TypeOK, PackagesAreOfTheirRuns, ApprovedWasServed, Keeps,
         NEW d \in Releasers, NEW s \in Stages, NEW v \in DOMAIN packages,
         Eligible(s, v), StartsRelease(d, s, v),
         d # None => run'[d].pc = s /\ run'[d].at = "release" /\ v = run'[d].package
  PROVE  InProgress(d)'
<1> DEFINE y == [at |-> "describe", stage |-> s, package |-> v, previous |-> None]
<1>1. release'[d] = y
  BY DEF TypeOK, StartsRelease
<1>2. PICK x : x = y
  OBVIOUS
<1>3. x = release'[d] /\ x.at = "describe" /\ x.stage = s /\ x.package = v /\ x.previous = None
  BY <1>1, <1>2
<1>4. PICK k : k = Config(v)
  OBVIOUS
<1>5. s = "production" => AskedAfter(k)
  BY <1>4, EligibleAsked, AskedKept
<1>6. k = <<packages'[v].run, packages'[v].image>> /\ v # 0
  BY <1>4, ConfigKept, Pieces
<1> QED
  BY <1>3, <1>5, <1>6, AfterStep

\* A release that moves stays in order.
LEMMA MovesInOrder ==
  ASSUME TypeOK, PackagesAreOfTheirRuns, ReleasesAreInOrder, StagingWasServed,
         ProductionWasAskedFor, Keeps, [Next]_vars, NEW d \in Releasers, ReleaseMoved(d)
  PROVE  InProgress(d)'
<1>1. CASE release'[d].at = "idle"
  BY <1>1 DEF InProgress
<1>2. CASE release'[d].at # "idle"
  <2> DEFINE e == EndpointOf(d)
  <2>0. release[d].at # "idle"
    BY DEF ReleaseMoved
  <2>1. /\ UNCHANGED run
        /\ release'[d].stage = release[d].stage /\ release'[d].package = release[d].package
        /\ release'[d].previous \in {None, release[d].previous, e.config}
        /\ release'[d].at = "smoke" => Named(e) = Wanted(d) /\ UNCHANGED endpoint
    BY <1>2, MovedRelease DEF NoRelease
  <2>2. PICK x : x = release'[d]
    OBVIOUS
  <2>3. PICK k : k = Wanted(d)
    OBVIOUS
  <2>4. /\ x.package # 0 /\ x.package \in DOMAIN packages /\ k # None
        /\ d # None => At(d, x.stage, "release") /\ x.package = run[d].package
        /\ x.stage = "production" =>
             AskedFor(k) /\ (release[d].previous # None => AskedFor(release[d].previous))
    BY <2>0, <2>1, <2>2, <2>3, ReleaseFacts DEF ReleasesAreInOrder, InProgress
  <2>5. k = <<packages'[x.package].run, packages'[x.package].image>>
    BY <2>1, <2>2, <2>3, <2>4, ConfigKept DEF Wanted
  <2>6. x.stage = "production" /\ x.previous # None => AskedFor(x.previous)
    BY <2>1, <2>2, <2>4 DEF ProductionWasAskedFor, EndpointOf
  <2>7. x.stage = "production" => AskedAfter(k) /\ (x.previous # None => AskedAfter(x.previous))
    BY <2>4, <2>6, AskedKept
  <2>8. ASSUME x.stage = "staging", x.at = "smoke"
        PROVE  k \in served' \/ endpoint'["staging"] = [config |-> None, target |-> k]
    <3>1. e = endpoint["staging"] /\ e \in EndpointType /\ Named(e) = k /\ endpoint' = endpoint
      BY <2>1, <2>2, <2>3, <2>8, ReleaseFacts DEF EndpointOf
    <3>2. k \in served \/ e = [config |-> None, target |-> k]
      BY <3>1 DEF Named, StagingWasServed, EndpointType
    <3> QED
      BY <2>4, <3>1, <3>2, StagingStep
  <2>9. d # None => run'[d].pc = x.stage /\ run'[d].at = "release" /\ x.package = run'[d].package
    BY <2>1, <2>4 DEF At
  <2> QED
    BY <2>2, <2>4, <2>5, <2>7, <2>8, <2>9, AfterStep
<1> QED
  BY <1>1, <1>2

\* Every release stays in order.
LEMMA ReleasesStep ==
  ASSUME TypeOK, RunsAreInOrder, PackagesAreOfTheirRuns, ApprovedWasServed, ReleasesAreInOrder,
         StagingWasServed, ProductionWasAskedFor, [Next]_vars
  PROVE  ReleasesAreInOrder'
<1>0. /\ Keeps /\ run \in [Runs -> RunType(builds, Len(packages))] /\ None \notin Runs
      /\ Runs \subseteq Releasers /\ None \in Releasers
      /\ release \in [Releasers -> ReleaseType(Len(packages))]
  BY NextKeeps, Pieces, PipelineAssumption DEF Releasers, TypeOK
<1>1. CASE UNCHANGED <<run, release>>
  BY <1>0, <1>1, OthersInProgress DEF ReleasesAreInOrder
<1>2. ASSUME NEW r \in Runs, run[r].at # "release" \/ run[r].pc \notin Stages,
             \A q \in Runs : q # r => run'[q] = run[q], UNCHANGED release
      PROVE  ReleasesAreInOrder'
  <2>1. release[r].at = "idle"
    BY <1>2, NotDeploying
  <2> QED
    BY <1>0, <1>2, <2>1, OthersInProgress DEF ReleasesAreInOrder
<1>3. ASSUME NEW r \in Runs, CutOff(r)
      PROVE  ReleasesAreInOrder'
  <2>1. /\ \A q \in Runs : q # r => run'[q] = run[q]
        /\ \A d \in Releasers : d # r => release'[d] = release[d]
        /\ release'[r].at = "idle"
    BY <1>0, <1>3 DEF CutOff, NoRelease
  <2> QED
    BY <1>0, <2>1, OthersInProgress DEF ReleasesAreInOrder
<1>4. ASSUME NEW r \in Runs, NEW s \in Stages, StartRelease(r, s)
      PROVE  ReleasesAreInOrder'
  <2>0. run[r].pc = s /\ run[r].at = "start"
    BY <1>4 DEF StartRelease, At
  <2>1. CASE UNCHANGED release
    BY <1>0, <1>2, <1>4, <2>0, <2>1 DEF StartRelease
  <2>2. CASE /\ Eligible(s, run[r].package) /\ StartsRelease(r, s, run[r].package)
             /\ run' = [run EXCEPT ![r].at = "release"]
    <3> DEFINE v == run[r].package
    <3>1. v \in DOMAIN packages
      BY <1>0, <2>0, Pieces DEF RunsAreInOrder, InOrder, Stages, RunType
    <3>2. run'[r].pc = s /\ run'[r].at = "release" /\ v = run'[r].package
          /\ \A q \in Runs : q # r => run'[q] = run[q]
      BY <1>0, <2>0, <2>2 DEF RunType
    <3>3. InProgress(r)'
      BY <1>0, <2>2, <3>1, <3>2, StartsInOrder
    <3>4. \A d \in Releasers : d # r => release'[d] = release[d]
      BY <1>0, <2>2 DEF StartsRelease
    <3> QED
      BY <1>0, <3>2, <3>3, <3>4, OthersInProgress DEF ReleasesAreInOrder
  <2> QED
    BY <1>4, <2>1, <2>2 DEF StartRelease
<1>5. ASSUME NEW s \in Stages, NEW v \in DOMAIN packages, DeployByHand(s, v)
      PROVE  ReleasesAreInOrder'
  <2>1. InProgress(None)'
    BY <1>0, <1>5, StartsInOrder DEF DeployByHand
  <2>2. run' = run /\ \A d \in Releasers : d # None => release'[d] = release[d]
    BY <1>0, <1>5 DEF DeployByHand, StartsRelease
  <2> QED
    BY <1>0, <2>1, <2>2, OthersInProgress DEF ReleasesAreInOrder
<1>6. ASSUME NEW d \in Releasers, ReleaseStepOrStop(d)
      PROVE  ReleasesAreInOrder'
  <2>1. ReleaseMoved(d)
    BY <1>6, ReleaseEffect
  <2>2. InProgress(d)'
    BY <1>0, <2>1, MovesInOrder
  <2>3. \A o \in Releasers : o # d => release'[o] = release[o] /\ (o \in Runs => run'[o] = run[o])
    BY <1>0, <2>1, MovedRelease, MovedRun
  <2> QED
    BY <1>0, <2>2, <2>3, OthersInProgress DEF ReleasesAreInOrder
<1>7. ASSUME NEW r \in Runs,
             \/ \E c \in Commits, production \in BOOLEAN : Dispatch(r, c, production)
             \/ \E i \in DOMAIN Jobs : Rerun(r, Jobs[i])
             \/ Build(r) \/ Push(r) \/ StartTraining(r) \/ WaitForTrainingJob(r)
             \/ RegisterCall(r) \/ RegisterOutput(r) \/ ApproveCall(r) \/ ApproveOutput(r)
      PROVE  ReleasesAreInOrder'
  <2>1. run[r].at # "release" \/ run[r].pc \notin Stages
    BY <1>7 DEF Dispatch, Rerun, Build, Push, StartTraining, WaitForTrainingJob, RegisterCall,
      RegisterOutput, ApproveCall, ApproveOutput, At, Stages
  <2>2. UNCHANGED release
    BY <1>7 DEF Dispatch, Rerun, Build, Push, StartTraining, WaitForTrainingJob, RegisterCall,
      RegisterOutput, ApproveCall, ApproveOutput, releases
  <2>3. \A q \in Runs : q # r => run'[q] = run[q]
    BY <1>0, <1>7 DEF Dispatch, Rerun, Build, Push, Pushed, StartTraining, WaitForTrainingJob,
      RegisterCall, RegisterOutput, ApproveCall, ApproveOutput
  <2> QED
    BY <1>2, <2>1, <2>2, <2>3
<1> QED
  BY <1>1, <1>3, <1>4, <1>5, <1>6, <1>7
     DEF Next, RunStep, HandStep, ReleaseStepOrStop, Releasers, vars, releases, Expire, TrainingEnds,
       Lands, RolledBack, RegisterByHand, ApproveByHand, RejectByHand

\* Production is only updated to what a release to it, or back in it, asks for.
LEMMA ProductionStep ==
  ASSUME TypeOK, RunsAreInOrder, ReleasesAreInOrder, PackagesAreOfTheirRuns,
         ProductionWasAskedFor, [Next]_vars
  PROVE  ProductionWasAskedFor'
<1>0. /\ Keeps /\ "production" \in Stages /\ endpoint["production"] \in EndpointType
      /\ endpoint \in [Stages -> EndpointType]
  BY NextKeeps DEF TypeOK, Stages
<1> DEFINE Now == {endpoint["production"].config, endpoint["production"].target}
           After == {endpoint'["production"].config, endpoint'["production"].target}
<1>1. ASSUME NEW k \in After, k # None
      PROVE  AskedFor(k)
  <2>1. k \in Now => AskedFor(k)
    BY <1>1 DEF ProductionWasAskedFor
  <2>2. CASE endpoint' = endpoint
    BY <2>1, <2>2
  <2>3. ASSUME NEW d \in Releasers, ReleaseMoved(d)
        PROVE  AskedFor(k)
    <3>1. CASE release[d].stage = "production" /\ endpoint'["production"].config = endpoint["production"].config
                 /\ endpoint'["production"].target \in {Wanted(d), release[d].previous}
      <4>1. AskedFor(Wanted(d)) /\ (release[d].previous # None => AskedFor(release[d].previous))
        BY <2>3, <3>1 DEF ReleaseMoved, ReleasesAreInOrder, InProgress
      <4> QED
        BY <1>1, <2>1, <3>1, <4>1
    <3>2. CASE endpoint'["production"] = endpoint["production"]
      BY <2>1, <3>2
    <3> QED
      BY <1>0, <2>3, <3>1, <3>2, MovedEndpoint
  <2>4. ASSUME NEW s \in Stages, Lands(s) \/ RolledBack(s)
        PROVE  AskedFor(k)
    <3>1. k \in Now \cup {None}
      BY <1>0, <2>4 DEF Lands, RolledBack, EndpointType
    <3> QED
      BY <1>1, <2>1, <3>1
  <2> QED
    BY <2>2, <2>3, <2>4, EndpointMoves
<1>2. \A k \in After : k # None => AskedAfter(k)
  BY <1>0, <1>1, AskedKept
<1> QED
  BY <1>2 DEF ProductionWasAskedFor, AskedFor, AskedAfter, Config

(***************************************************************************)
(* The theorems.                                                           *)
(***************************************************************************)

\* The invariant of the pipeline holds in every reachable state: each job of a
\* run finds what the jobs before it left; packages and approvals keep standing
\* for a run or for a person; and the endpoints serve what was asked of them,
\* whatever overlaps, fails, is started again or is done by hand.
THEOREM PipelineInvariantHolds == Spec => []PipelineInvariant
<1>1. Init => PipelineInvariant
  <2> SUFFICES ASSUME Init PROVE PipelineInvariant
    OBVIOUS
  <2>1. TypeOK
    BY TypeInit
  <2>2. RunsAreInOrder /\ ReleasesAreInOrder
    BY DEF Init, RunsAreInOrder, InOrder, NoRun, Started, At, ReleasesAreInOrder, InProgress,
      NoRelease
  <2>3. TrainedAsTagged /\ PackagesAreOfTheirRuns /\ PackageIsMeasured /\ ApprovedWasServed
    BY DEF Init, NoTraining, TrainedAsTagged, PackagesAreOfTheirRuns, PackageIsMeasured, OfRuns,
      ApprovedWasServed
  <2>4. StagingWasServed /\ ProductionWasAskedFor
    BY DEF Init, StagingWasServed, ProductionWasAskedFor, Stages
  <2> QED
    BY <2>1, <2>2, <2>3, <2>4 DEF PipelineInvariant
<1>2. PipelineInvariant /\ [Next]_vars => PipelineInvariant'
  <2> SUFFICES ASSUME PipelineInvariant, [Next]_vars
               PROVE  PipelineInvariant'
    OBVIOUS
  <2>1. TypeOK' /\ RunsAreInOrder' /\ TrainedAsTagged'
    BY TypeStep, OrderStep, TrainedStep DEF PipelineInvariant
  <2>2. PackagesAreOfTheirRuns' /\ PackageIsMeasured' /\ ApprovedWasServed'
    BY MeasuredStep, PackagesStep DEF PipelineInvariant
  <2>3. ReleasesAreInOrder' /\ StagingWasServed' /\ ProductionWasAskedFor'
    BY ReleasesStep, StagingStep, ProductionStep DEF PipelineInvariant
  <2> QED
    BY <2>1, <2>2, <2>3 DEF PipelineInvariant
<1> QED
  BY <1>1, <1>2, PTL DEF Spec

\* A package of a run is only ever a package of the one completed, measured
\* training job of that run.
THEOREM PackagesAreMeasured == Spec => []PackageIsMeasured
<1>1. PipelineInvariant => PackageIsMeasured
  BY DEF PipelineInvariant
<1> QED
  BY <1>1, PipelineInvariantHolds, PTL

\* The tag a package of a run is registered by names the image its model was
\* trained in until that image is expired, whatever else was built since.
THEOREM PackageImagesStay == Spec => []PackageImageIsTheTrainedOne
<1>1. PipelineInvariant => PackageImageIsTheTrainedOne
  <2> SUFFICES ASSUME PipelineInvariant, NEW v \in OfRuns,
                      packages[v].trained \notin expired
               PROVE  tags[packages[v].image] = packages[v].trained
    BY DEF PackageImageIsTheTrainedOne
  <2>1. packages[v].run \in Runs
    <3>1. packages[v] \in PackageType(builds)
      BY Pieces DEF PipelineInvariant, OfRuns
    <3> QED
      BY <3>1 DEF PackageType, Releasers, OfRuns
  <2>2. /\ training[packages[v].run].status = "Completed"
        /\ training[packages[v].run].image = packages[v].trained
    BY DEF PipelineInvariant, PackageIsMeasured
  <2>3. packages[v].image = run[packages[v].run].commit
    BY DEF PipelineInvariant, PackagesAreOfTheirRuns, OfRuns
  <2> QED
    BY <2>1, <2>2, <2>3 DEF PipelineInvariant, TrainedAsTagged
<1> QED
  BY <1>1, PipelineInvariantHolds, PTL

\* What the workflow approves, staging has had in service.
THEOREM ApprovalsWereServed == Spec => []ApprovedWasServed
<1>1. PipelineInvariant => ApprovedWasServed
  BY DEF PipelineInvariant
<1> QED
  BY <1>1, PipelineInvariantHolds, PTL

\* What production serves or is updated to was approved by a person by hand, or
\* by the workflow for a run dispatched to production, after staging had it.
THEOREM ProductionAskedFor == Spec => []ProductionWasAskedFor
<1>1. PipelineInvariant => ProductionWasAskedFor
  BY DEF PipelineInvariant
<1> QED
  BY <1>1, PipelineInvariantHolds, PTL
=============================================================================
