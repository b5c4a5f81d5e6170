------------------------ MODULE EndpointReleaseProofs ------------------------
(***************************************************************************)
(* Theorems of EndpointRelease for every set of packages, of command slots *)
(* and every bound on the polls.                                           *)
(***************************************************************************)
EXTENDS EndpointRelease, TLAPS

\* Replacing one command by a command keeps every command slot well typed.
LEMMA BecomesType ==
  ASSUME run \in [Runs -> Command], NEW r \in Runs, NEW c \in Command, Becomes(r, c)
  PROVE  run' \in [Runs -> Command]
BY DEF Becomes

\* A command that starts is a command.
LEMMA StartedType ==
  ASSUME NEW label \in Labels, NEW p \in PackageOrNone, NEW q \in PackageOrNone,
         NEW result \in Results
  PROVE  /\ Started(label, p, q) \in Command
         /\ [Started(label, p, q) EXCEPT !.result = result] \in Command
<1>1. "none" \in Actions /\ "none" \in Results /\ 0 \in 0..MaxPolls
  BY ReleaseAssumption DEF Actions, Results
<1> QED
  BY <1>1 DEF Started, Command

\* Moving a command to its next call keeps it a command.
LEMMA GotoType ==
  ASSUME run \in [Runs -> Command], NEW r \in Runs, NEW label \in Labels, Goto(r, label)
  PROVE  run' \in [Runs -> Command]
<1>1. 0 \in 0..MaxPolls
  BY ReleaseAssumption
<1>2. [run[r] EXCEPT !.pc = label, !.polls = 0] \in Command
  BY <1>1 DEF Command
<1> QED
  BY <1>2, BecomesType DEF Goto

\* So does ending it.
LEMMA EndType ==
  ASSUME run \in [Runs -> Command], NEW r \in Runs, NEW result \in Results, End(r, result)
  PROVE  run' \in [Runs -> Command]
<1>1. 0 \in 0..MaxPolls /\ "idle" \in Labels
  BY ReleaseAssumption DEF Labels
<1>2. [run[r] EXCEPT !.pc = "idle", !.result = result, !.polls = 0] \in Command
  BY <1>1 DEF Command
<1> QED
  BY <1>2, BecomesType DEF End

\* Each step of a command leaves every command slot well typed.
LEMMA CommandStepRunType ==
  ASSUME TypeOK, NEW r \in Runs, CommandStep(r)
  PROVE  run' \in [Runs -> Command]
<1> USE DEF CommandStep
<1>0. /\ run \in [Runs -> Command] /\ run[r] \in Command
      /\ endpoint.config \in PackageOrNone /\ None \in PackageOrNone
      /\ Packages \subseteq PackageOrNone
  BY DEF TypeOK, ServiceTypeOK, PackageOrNone
<1>1. "error" \in Results /\ "failed" \in Results /\ "released" \in Results
      /\ "rolledBack" \in Results /\ "tornDown" \in Results /\ "refused" \in Results
      /\ "none" \in Results
  BY DEF Results
<1>2. /\ {"idle", "rollback", "wait_rollback"} \subseteq Labels
      /\ DeployCalls \subseteq Labels /\ DeleteCalls \subseteq Labels
  BY DEF Labels, RollbackCalls
<1>3. Raises(r) => run' \in [Runs -> Command]
  BY <1>0, <1>1, EndType DEF Raises
<1>4. CASE \E p \in Packages : Deploy(r, p)
  <2>1. PICK p \in Packages : Deploy(r, p)
    BY <1>4
  <2>2. \A label \in {"idle", "ensure_rollback_alarms", "describe_model"} : label \in Labels
    BY DEF Labels, DeployCalls
  <2>3. \A label \in Labels : /\ Started(label, p, None) \in Command
                              /\ [Started(label, p, None) EXCEPT !.result = "refused"] \in Command
    BY <1>0, <1>1, StartedType
  <2>4. CASE MayRelease(p)
    BY <2>1, <2>2, <2>3, <2>4, <1>0, BecomesType DEF Deploy
  <2>5. CASE ~MayRelease(p)
    BY <2>1, <2>2, <2>3, <2>5, <1>0, BecomesType DEF Deploy
  <2> QED
    BY <2>4, <2>5
<1>5. CASE \E p \in Packages : RollbackCommand(r, p)
  BY <1>5, <1>0, <1>1, <1>2, StartedType, BecomesType DEF RollbackCommand
<1>6. CASE Teardown(r)
  <2>1. /\ Started("delete_endpoint", None, endpoint.config) \in Command
        /\ [Started("idle", None, None) EXCEPT !.result = "tornDown"] \in Command
    BY <1>0, <1>1, <1>2, StartedType DEF DeleteCalls
  <2> QED
    BY <1>6, <2>1, <1>0, BecomesType DEF Teardown
<1>7. CASE EnsureRollbackAlarms(r) \/ EnsureModel(r) \/ EnsureEndpointConfig(r)
  <2>1. \A label \in DeployCalls : Goto(r, label) => run' \in [Runs -> Command]
    BY <1>0, <1>2, GotoType
  <2> QED
    BY <1>7, <1>3, <2>1 DEF EnsureRollbackAlarms, EnsureModel, EnsureEndpointConfig, DeployCalls
<1>8. CASE DecideAction(r)
  <2>1. /\ [run[r] EXCEPT !.pc = "smoke_test", !.act = "unchanged",
                          !.prev = endpoint.config] \in Command
        /\ [run[r] EXCEPT !.pc = "update_endpoint", !.prev = endpoint.config] \in Command
    BY <1>0, <1>2 DEF Command, Actions, DeployCalls
  <2>2. Goto(r, "create_endpoint") => run' \in [Runs -> Command]
    BY <1>0, <1>2, GotoType DEF DeployCalls
  <2>3. End(r, "error") => run' \in [Runs -> Command]
    BY <1>0, <1>1, EndType
  <2> QED
    BY <1>8, <1>0, <2>1, <2>2, <2>3, BecomesType DEF DecideAction
<1>9. CASE SendCreate(r) \/ SendUpdate(r)
  <2>1. \A act \in {"created", "updated"} :
          [run[r] EXCEPT !.pc = "wait_in_service", !.act = act] \in Command
    BY <1>0, <1>2 DEF Command, Actions, DeployCalls
  <2> QED
    BY <1>9, <1>0, <1>3, <2>1, BecomesType DEF SendCreate, SendUpdate
<1>10. PollAgain(r) => run' \in [Runs -> Command]
  <2> SUFFICES ASSUME PollAgain(r) PROVE run' \in [Runs -> Command]
    OBVIOUS
  <2>1. run[r].polls + 1 \in 0..MaxPolls
    BY <1>0, ReleaseAssumption DEF PollAgain, TimedOut, Command
  <2>2. [run[r] EXCEPT !.polls = @ + 1] \in Command
    BY <1>0, <2>1 DEF Command
  <2> QED
    BY <1>0, <2>2, BecomesType DEF PollAgain
<1>11. CASE WaitInService(r) \/ SmokeTest(r) \/ ConfigureAutoscaling(r)
  <2>1. \A label \in {"smoke_test", "configure_autoscaling", "rollback"} :
          Goto(r, label) => run' \in [Runs -> Command]
    BY <1>0, <1>2, GotoType DEF DeployCalls
  <2>2. \A result \in {"failed", "released"} : End(r, result) => run' \in [Runs -> Command]
    BY <1>0, <1>1, EndType
  <2> QED
    BY <1>11, <1>10, <2>1, <2>2 DEF WaitInService, SmokeTest, ConfigureAutoscaling
<1>12. CASE Rollback(r) \/ WaitRollback(r)
  <2>1. Goto(r, "wait_rollback") => run' \in [Runs -> Command]
    BY <1>0, <1>2, GotoType
  <2>2. \A result \in {"rolledBack", "error"} : End(r, result) => run' \in [Runs -> Command]
    BY <1>0, <1>1, EndType
  <2> QED
    BY <1>12, <1>3, <1>10, <2>1, <2>2 DEF Rollback, WaitRollback
<1>13. CASE TeardownEndpoint(r) \/ TeardownConfig(r) \/ TeardownModel(r)
  <2>1. \A label \in DeleteCalls : Goto(r, label) => run' \in [Runs -> Command]
    BY <1>0, <1>2, GotoType
  <2>2. End(r, "tornDown") => run' \in [Runs -> Command]
    BY <1>0, <1>1, EndType
  <2> QED
    BY <1>13, <1>3, <2>1, <2>2 DEF TeardownEndpoint, TeardownConfig, TeardownModel, DeleteCalls
<1>14. CASE Interrupted(r)
  BY <1>14, <1>3 DEF Interrupted
<1> QED
  BY <1>4, <1>5, <1>6, <1>7, <1>8, <1>9, <1>11, <1>12, <1>13, <1>14 DEF StartStep, RunStep

\* What SageMaker does by itself keeps the service well typed and makes the
\* endpoint refer to nothing it did not refer to.
LEMMA ServiceStepType ==
  ASSUME ServiceTypeOK, ServiceStep
  PROVE  /\ ServiceTypeOK' /\ UNCHANGED <<models, configs>>
         /\ {endpoint'.config, endpoint'.target}
              \subseteq {endpoint.config, endpoint.target, None}
<1> USE DEF ServiceTypeOK, Settles, Statuses, PackageOrNone
<1>1. CASE CreationEnds
  BY <1>1 DEF CreationEnds
<1>2. CASE UpdateLands
  BY <1>2 DEF UpdateLands
<1>3. CASE UpdateFails
  BY <1>3 DEF UpdateFails
<1>4. CASE AlarmFires
  BY <1>4 DEF AlarmFires
<1>5. CASE AutoRollbackEnds
  BY <1>5 DEF AutoRollbackEnds
<1> QED
  BY <1>1, <1>2, <1>3, <1>4, <1>5 DEF ServiceStep

\* A command changes its own slot only, and works on a package it had, or on
\* one whose approval it has just read.
LEMMA CommandStepPackage ==
  ASSUME TypeOK, NEW r \in Runs, CommandStep(r)
  PROVE  /\ \A q \in Runs \ {r} : run'[q] = run[q]
         /\ run'[r].pc \in DeployCalls =>
              \/ run[r].pc \in DeployCalls /\ run'[r].pkg = run[r].pkg
              \/ /\ run'[r].pkg \in Packages
                 /\ RequireApproved => approval[run'[r].pkg] = "Approved"
<1> USE DEF CommandStep, At, Becomes
<1>0. run \in [Runs -> Command] /\ run[r] \in Command
  BY DEF TypeOK
<1>1. \A c \in Command : Becomes(r, c) => run'[r] = c /\ \A q \in Runs \ {r} : run'[q] = run[q]
  BY <1>0
<1>2. \A label : Goto(r, label) =>
         run'[r].pc = label /\ run'[r].pkg = run[r].pkg /\ \A q \in Runs \ {r} : run'[q] = run[q]
  BY <1>0 DEF Goto, Command
<1>3. \A result : End(r, result) =>
         run'[r].pc = "idle" /\ \A q \in Runs \ {r} : run'[q] = run[q]
  BY <1>0 DEF End, Command
<1>4. Raises(r) => run'[r].pc = "idle" /\ \A q \in Runs \ {r} : run'[q] = run[q]
  BY <1>3 DEF Raises
<1>5. {"idle", "rollback", "wait_rollback", "delete_endpoint",
       "delete_endpoint_config", "delete_model"} \cap DeployCalls = {}
  BY DEF DeployCalls
<1>6. CASE \E p \in Packages : Deploy(r, p)
  BY <1>6, <1>0, <1>5 DEF Deploy, MayRelease, Started
<1>7. CASE (\E p \in Packages : RollbackCommand(r, p)) \/ Teardown(r)
  BY <1>7, <1>0, <1>5 DEF RollbackCommand, Teardown, Started
<1>8. CASE EnsureRollbackAlarms(r) \/ EnsureModel(r) \/ EnsureEndpointConfig(r)
  BY <1>8, <1>2, <1>4, <1>5 DEF EnsureRollbackAlarms, EnsureModel, EnsureEndpointConfig, DeployCalls
<1>9. CASE DecideAction(r)
  <2>1. \/ Goto(r, "create_endpoint") \/ End(r, "error")
        \/ Becomes(r, [run[r] EXCEPT !.pc = "smoke_test", !.act = "unchanged",
                                     !.prev = endpoint.config])
        \/ Becomes(r, [run[r] EXCEPT !.pc = "update_endpoint", !.prev = endpoint.config])
    BY <1>9 DEF DecideAction
  <2>2. run[r].pc \in DeployCalls
    BY <1>9 DEF DecideAction, DeployCalls
  <2>3. run'[r].pc = "idle" \/ run'[r].pkg = run[r].pkg
    BY <2>1, <1>0, <1>2, <1>3 DEF Command
  <2>4. \A q \in Runs \ {r} : run'[q] = run[q]
    BY <2>1, <1>0, <1>2, <1>3
  <2> QED
    BY <2>2, <2>3, <2>4, <1>5
<1>10. CASE SendCreate(r) \/ SendUpdate(r)
  <2>1. Raises(r) \/ \E act \in {"created", "updated"} :
           Becomes(r, [run[r] EXCEPT !.pc = "wait_in_service", !.act = act])
    BY <1>10 DEF SendCreate, SendUpdate
  <2>2. run[r].pc \in DeployCalls
    BY <1>10 DEF SendCreate, SendUpdate, DeployCalls
  <2>3. run'[r].pc = "idle" \/ run'[r].pkg = run[r].pkg
    BY <2>1, <1>0, <1>4 DEF Command
  <2>4. \A q \in Runs \ {r} : run'[q] = run[q]
    BY <2>1, <1>0, <1>4
  <2> QED
    BY <2>2, <2>3, <2>4, <1>5
<1>11. PollAgain(r) => /\ run'[r].pc = run[r].pc /\ run'[r].pkg = run[r].pkg
                       /\ \A q \in Runs \ {r} : run'[q] = run[q]
  BY <1>0 DEF PollAgain, Command
<1>12. CASE WaitInService(r) \/ SmokeTest(r)
  BY <1>12, <1>2, <1>3, <1>5, <1>11 DEF WaitInService, SmokeTest, DeployCalls
<1>13. CASE ConfigureAutoscaling(r)
  BY <1>13, <1>3, <1>5 DEF ConfigureAutoscaling
<1>14. CASE Rollback(r) \/ WaitRollback(r)
  BY <1>14, <1>2, <1>3, <1>4, <1>5, <1>11 DEF Rollback, WaitRollback
<1>15. CASE TeardownEndpoint(r) \/ TeardownConfig(r) \/ TeardownModel(r)
  BY <1>15, <1>2, <1>3, <1>4, <1>5 DEF TeardownEndpoint, TeardownConfig, TeardownModel
<1>16. CASE Interrupted(r)
  BY <1>16, <1>4, <1>5 DEF Interrupted
<1> QED
  BY <1>6, <1>7, <1>8, <1>9, <1>10, <1>12, <1>13, <1>14, <1>15, <1>16 DEF StartStep, RunStep

\* What one step of a command does to everything but the commands: it adds at
\* most the package it deploys, and the endpoint only moves within configs.
LEMMA CommandStepService ==
  ASSUME ApprovedReleases, NEW r \in Runs, CommandStep(r)
  PROVE  /\ ServiceTypeOK'
         /\ guards' \subseteq {"alarms", "autoscaling"}
         /\ UNCHANGED <<approval, everApproved>>
         /\ models' \cup configs' \subseteq
              models \cup configs \cup {p \in {run[r].pkg} : run[r].pc \in DeployCalls}
         /\ {endpoint'.config, endpoint'.target}
              \subseteq {endpoint.config, endpoint.target, None} \cup configs
<1> DEFINE Goal ==
      /\ ServiceTypeOK'
      /\ guards' \subseteq {"alarms", "autoscaling"}
      /\ UNCHANGED <<approval, everApproved>>
      /\ models' \cup configs' \subseteq
           models \cup configs \cup {p \in {run[r].pkg} : run[r].pc \in DeployCalls}
      /\ {endpoint'.config, endpoint'.target}
           \subseteq {endpoint.config, endpoint.target, None} \cup configs
<1> SUFFICES Goal
  OBVIOUS
<1>0. /\ ServiceTypeOK /\ guards \subseteq {"alarms", "autoscaling"}
      /\ run[r].pc \in DeployCalls => run[r].pkg \in Packages
  BY DEF ApprovedReleases, TypeOK
<1>1. UNCHANGED approval
  BY DEF CommandStep
<1>2. CASE Reads \/ Raises(r)
  BY <1>0, <1>1, <1>2 DEF Reads, Raises, service, ServiceTypeOK
<1>3. CASE EnsureRollbackAlarms(r) \/ ConfigureAutoscaling(r)
  BY <1>0, <1>1, <1>3 DEF EnsureRollbackAlarms, ConfigureAutoscaling, service,
     ServiceTypeOK
<1>4. CASE EnsureModel(r)
  <2>1. CASE Goto(r, "describe_endpoint_config") /\ At(r, "create_model")
             /\ CreateModel(run[r].pkg) /\ UNCHANGED <<guards, everApproved>>
    <3>1. run[r].pc \in DeployCalls
      BY <2>1 DEF At, DeployCalls
    <3> QED
      BY <1>0, <1>1, <2>1, <3>1 DEF CreateModel, ServiceTypeOK
  <2> QED
    BY <1>4, <1>2, <2>1 DEF EnsureModel
<1>5. CASE EnsureEndpointConfig(r)
  <2>1. CASE At(r, "create_endpoint_config") /\ CreateConfig(run[r].pkg)
             /\ UNCHANGED <<guards, everApproved>>
    <3>1. run[r].pc \in DeployCalls
      BY <2>1 DEF At, DeployCalls
    <3> QED
      BY <1>0, <1>1, <2>1, <3>1 DEF CreateConfig, ServiceTypeOK
  <2> QED
    BY <1>5, <1>2, <2>1 DEF EnsureEndpointConfig
<1>6. \A p : UpdateEndpoint(p) \/ CreateEndpoint(p) =>
        /\ ServiceTypeOK' /\ UNCHANGED <<models, configs>>
        /\ {endpoint'.config, endpoint'.target}
             \subseteq {endpoint.config, endpoint.target, None} \cup configs
  <2> SUFFICES ASSUME NEW p, UpdateEndpoint(p) \/ CreateEndpoint(p)
               PROVE  /\ ServiceTypeOK' /\ UNCHANGED <<models, configs>>
                      /\ {endpoint'.config, endpoint'.target}
                           \subseteq {endpoint.config, endpoint.target, None} \cup configs
    OBVIOUS
  <2>0. /\ p \in configs /\ p \in PackageOrNone /\ None \in PackageOrNone
        /\ "Updating" \in Statuses /\ "Creating" \in Statuses
    BY <1>0 DEF UpdateEndpoint, CanUpdateEndpoint, CreateEndpoint, CanCreateEndpoint,
       ServiceTypeOK, Statuses, PackageOrNone
  <2>1. CASE UpdateEndpoint(p)
    BY <1>0, <2>0, <2>1 DEF UpdateEndpoint, ServiceTypeOK
  <2>2. CASE CreateEndpoint(p)
    BY <1>0, <2>0, <2>2 DEF CreateEndpoint, ServiceTypeOK
  <2> QED
    BY <2>1, <2>2
<1>7. CASE SendCreate(r) \/ SendUpdate(r) \/ Rollback(r)
  BY <1>0, <1>1, <1>2, <1>6, <1>7 DEF SendCreate, SendUpdate, Rollback
<1>8. CASE TeardownEndpoint(r)
  <2>1. CASE DeleteEndpoint /\ UNCHANGED <<guards, everApproved>>
    BY <1>0, <1>1, <2>1 DEF DeleteEndpoint, Absent, ServiceTypeOK, Statuses, PackageOrNone
  <2> QED
    BY <1>2, <1>8, <2>1 DEF TeardownEndpoint
<1>9. CASE TeardownConfig(r) \/ TeardownModel(r)
  <2>1. CASE (DeleteConfig(run[r].prev) \/ DeleteModel(run[r].prev))
             /\ UNCHANGED <<guards, everApproved>>
    BY <1>0, <1>1, <2>1 DEF DeleteConfig, DeleteModel, ServiceTypeOK
  <2> QED
    BY <1>2, <1>9, <2>1 DEF TeardownConfig, TeardownModel
<1>10. CASE StartStep(r) \/ DecideAction(r) \/ WaitInService(r) \/ SmokeTest(r)
            \/ WaitRollback(r) \/ Interrupted(r)
  BY <1>2, <1>10 DEF StartStep, Deploy, RollbackCommand, Teardown, DecideAction,
     WaitInService, SmokeTest, WaitRollback, Interrupted
<1> QED
  BY <1>3, <1>4, <1>5, <1>7, <1>8, <1>9, <1>10 DEF CommandStep, RunStep

\* The registry keeps the inductive form: approvals are only ever added.
LEMMA RegistryStep ==
  ASSUME ApprovedReleases, NEW p \in Packages, RegisterModelPackage(p) \/ SetApproval(p)
  PROVE  ApprovedReleases'
<1>1. PICK status \in {"PendingManualApproval", "Approved", "Rejected"} : SetStatus(p, status)
  BY DEF RegisterModelPackage, SetApproval
<1>2. /\ UNCHANGED <<service, guards, run>>
      /\ approval' = [approval EXCEPT ![p] = status]
      /\ everApproved \subseteq everApproved'
      /\ everApproved' \subseteq Packages
      /\ status = "Approved" => p \in everApproved'
  BY <1>1 DEF SetStatus, ApprovedReleases, TypeOK
<1>3. TypeOK'
  BY <1>2 DEF ApprovedReleases, TypeOK, ServiceTypeOK, service, ApprovalStatus
<1>4. OnlyApprovedReachesTheStage'
  BY <1>2 DEF ApprovedReleases, OnlyApprovedReachesTheStage, service
<1>5. \A q \in Packages : approval'[q] = "Approved" => q \in everApproved'
  BY <1>2 DEF ApprovedReleases, TypeOK
<1>6. \A r \in Runs : run'[r].pc \in DeployCalls =>
         run'[r].pkg \in Packages /\ (RequireApproved => run'[r].pkg \in everApproved')
  BY <1>2 DEF ApprovedReleases
<1> QED
  BY <1>3, <1>4, <1>5, <1>6 DEF ApprovedReleases

\* ApprovedReleases is inductive: the approval read at the start of a deploy
\* is carried by its package through every later call, of whatever command.
LEMMA ApprovedReleasesInductive ==
  ApprovedReleases /\ [Next]_vars => ApprovedReleases'
<1> SUFFICES ASSUME ApprovedReleases, [Next]_vars PROVE ApprovedReleases'
  OBVIOUS
<1>1. CASE \E p \in Packages : RegisterModelPackage(p) \/ SetApproval(p)
  BY <1>1, RegistryStep
<1>2. CASE EndpointStep
  <2>1. /\ ServiceTypeOK' /\ UNCHANGED <<models, configs, approval, guards, run, everApproved>>
        /\ {endpoint'.config, endpoint'.target}
             \subseteq {endpoint.config, endpoint.target, None}
    BY <1>2, ServiceStepType DEF EndpointStep, ApprovedReleases, TypeOK
  <2>2. TypeOK'
    BY <2>1 DEF ApprovedReleases, TypeOK
  <2>3. OnlyApprovedReachesTheStage'
    BY <2>1 DEF ApprovedReleases, OnlyApprovedReachesTheStage
  <2> QED
    BY <2>1, <2>2, <2>3 DEF ApprovedReleases
<1>3. ASSUME NEW r \in Runs, CommandStep(r) PROVE ApprovedReleases'
  <2>0. TypeOK
    BY DEF ApprovedReleases
  <2>1. run' \in [Runs -> Command]
    BY <1>3, <2>0, CommandStepRunType
  <2>2. /\ ServiceTypeOK' /\ guards' \subseteq {"alarms", "autoscaling"}
        /\ UNCHANGED <<approval, everApproved>>
        /\ models' \cup configs' \subseteq
             models \cup configs \cup {p \in {run[r].pkg} : run[r].pc \in DeployCalls}
        /\ {endpoint'.config, endpoint'.target}
             \subseteq {endpoint.config, endpoint.target, None} \cup configs
    BY <1>3, CommandStepService
  <2>3. TypeOK'
    BY <2>0, <2>1, <2>2 DEF TypeOK
  <2>4. OnlyApprovedReachesTheStage'
    BY <2>2 DEF ApprovedReleases, OnlyApprovedReachesTheStage
  <2>5. \A q \in Runs : run'[q].pc \in DeployCalls =>
          run'[q].pkg \in Packages /\ (RequireApproved => run'[q].pkg \in everApproved')
    <3>1. /\ \A q \in Runs \ {r} : run'[q] = run[q]
          /\ run'[r].pc \in DeployCalls =>
               \/ run[r].pc \in DeployCalls /\ run'[r].pkg = run[r].pkg
               \/ /\ run'[r].pkg \in Packages
                  /\ RequireApproved => approval[run'[r].pkg] = "Approved"
      BY <1>3, <2>0, CommandStepPackage
    <3> QED
      BY <2>2, <3>1 DEF ApprovedReleases
  <2> QED
    BY <2>2, <2>3, <2>4, <2>5 DEF ApprovedReleases
<1>4. CASE UNCHANGED vars
  BY <1>4 DEF vars, service, ApprovedReleases, TypeOK, ServiceTypeOK,
     OnlyApprovedReachesTheStage
<1> QED
  BY <1>1, <1>2, <1>3, <1>4 DEF Next

\* The initial state: nothing exists and nothing was approved.
LEMMA ApprovedReleasesInit == Init => ApprovedReleases
<1> SUFFICES ASSUME Init PROVE ApprovedReleases
  OBVIOUS
<1>1. /\ None \in PackageOrNone /\ "idle" \in Labels /\ "none" \in Results
      /\ "idle" \notin DeployCalls
  BY DEF PackageOrNone, Labels, Results, DeployCalls
<1>2. Started("idle", None, None) \in Command
  BY <1>1, StartedType
<1>3. run \in [Runs -> Command] /\ \A r \in Runs : run[r].pc = "idle"
  BY <1>2 DEF Init, Started
<1>4. TypeOK
  BY <1>1, <1>3 DEF Init, TypeOK, ServiceInit, ServiceTypeOK, Absent, Statuses, ApprovalStatus
<1> QED
  BY <1>1, <1>3, <1>4 DEF ApprovedReleases, Init, ServiceInit, Absent, OnlyApprovedReachesTheStage

\* The inductive form holds in every behaviour.
THEOREM ApprovedReleasesInvariant == Spec => []ApprovedReleases
  BY ApprovedReleasesInit, ApprovedReleasesInductive, PTL DEF Spec

\* Every value stays in its type, whatever commands overlap.
THEOREM TypeCorrect == Spec => []TypeOK
<1>1. ApprovedReleases => TypeOK
  BY DEF ApprovedReleases
<1> QED
  BY <1>1, ApprovedReleasesInvariant, PTL

\* Nothing that was never Approved reaches a stage that requires approval:
\* for any number of overlapping deploys, rollbacks and teardowns.
THEOREM ApprovalGuardsTheStage == Spec => []OnlyApprovedReachesTheStage
<1>1. ApprovedReleases => OnlyApprovedReachesTheStage
  BY DEF ApprovedReleases
<1> QED
  BY <1>1, ApprovedReleasesInvariant, PTL

-----------------------------------------------------------------------------
(* A serialised stage: one command at a time.                               *)

\* What StageInvariant says of one command.
CommandOnCourse(r) ==
  /\ run[r].pc # "idle" => run[r].result = "none"
  /\ DeployHasItsParts(r) /\ UpdateReplacesAnother(r)
  /\ EndpointHasArrived(r) /\ TeardownWorksInwards(r)
  /\ run[r].result = "released" /\ run[r].act # "unchanged" =>
       Serves(run[r].pkg) /\ run[r].pkg \in Healthy /\ StageGuards \subseteq guards
  /\ run[r].result = "rolledBack" => Serves(run[r].prev)
  /\ run[r].act = "updated" /\ run[r].pc \in {"wait_in_service", "smoke_test", "rollback"} =>
       run[r].prev # run[r].pkg /\ run[r].prev \in configs
  /\ run[r].result = "tornDown" /\ run[r].prev # None =>
       endpoint = Absent /\ run[r].prev \notin models \cup configs

\* What StageInvariant says of the service.
ServiceOnCourse ==
  NoDanglingReference /\ (endpoint.status = "Updating" => endpoint.target # None)

\* With one slot the invariant speaks of that slot.
LEMMA StageOfSole ==
  ASSUME Serial, NEW r \in Runs
  PROVE  /\ StageInvariant => TypeOK /\ ServiceOnCourse /\ CommandOnCourse(r)
         /\ TypeOK' /\ ServiceOnCourse' /\ CommandOnCourse(r)' => StageInvariant'
<1>1. \A q \in Runs : q = r
  BY DEF Serial
<1> QED
  BY <1>1 DEF StageInvariant, ServiceOnCourse, CommandOnCourse, ReleaseTakesEffect,
     RollbackRestores, RollbackIsPossible, TeardownRemovesAll

\* The fields of a command after it moves to its next call.
LEMMA GotoFields ==
  ASSUME run \in [Runs -> Command], NEW r \in Runs, NEW label, Goto(r, label)
  PROVE  /\ run'[r].pc = label /\ run'[r].pkg = run[r].pkg /\ run'[r].prev = run[r].prev
         /\ run'[r].act = run[r].act /\ run'[r].result = run[r].result
BY DEF Goto, Becomes, Command

\* The fields of a command after it ends.
LEMMA EndFields ==
  ASSUME run \in [Runs -> Command], NEW r \in Runs, NEW result, End(r, result)
  PROVE  /\ run'[r].pc = "idle" /\ run'[r].pkg = run[r].pkg /\ run'[r].prev = run[r].prev
         /\ run'[r].act = run[r].act /\ run'[r].result = result
BY DEF End, Becomes, Command

\* A command that ends without a success keeps nothing more to say, and the
\* same holds of one that is refused.
LEMMA EndedOnCourse ==
  ASSUME NEW r \in Runs, run'[r].pc = "idle",
         run'[r].result \notin {"released", "rolledBack", "tornDown"}
  PROVE  CommandOnCourse(r)'
BY DEF CommandOnCourse, DeployHasItsParts, UpdateReplacesAnother, EndpointHasArrived,
   TeardownWorksInwards, DeployCalls

\* A call that is rejected, or an interruption, ends the command.
LEMMA RaisesOnCourse ==
  ASSUME TypeOK, ServiceOnCourse, NEW r \in Runs, Raises(r)
  PROVE  ServiceOnCourse' /\ CommandOnCourse(r)'
<1>1. run'[r].pc = "idle" /\ run'[r].result = "error"
  BY EndFields DEF Raises, TypeOK
<1>2. ServiceOnCourse'
  BY DEF Raises, ServiceOnCourse, NoDanglingReference, service
<1> QED
  BY <1>1, <1>2, EndedOnCourse

\* What only reads leaves the service on course.
LEMMA ReadsOnCourse ==
  ASSUME ServiceOnCourse, UNCHANGED service
  PROVE  ServiceOnCourse'
BY DEF ServiceOnCourse, NoDanglingReference, service

\* A command starts with nothing done and nothing to say yet.
LEMMA StartOnCourse ==
  ASSUME TypeOK, ServiceOnCourse, NEW r \in Runs, StartStep(r)
  PROVE  ServiceOnCourse' /\ CommandOnCourse(r)'
<1>0. run \in [Runs -> Command]
  BY DEF TypeOK
<1>1. ServiceOnCourse'
  BY ReadsOnCourse DEF StartStep, Deploy, RollbackCommand, Teardown, Reads
<1>2. ASSUME NEW label, NEW p, NEW q, Becomes(r, Started(label, p, q))
      PROVE  /\ run'[r].pc = label /\ run'[r].act = "none" /\ run'[r].result = "none"
             /\ run'[r].prev = q
  BY <1>0, <1>2 DEF Becomes, Started
<1>3. ASSUME NEW label, NEW p, NEW q, NEW result,
             Becomes(r, [Started(label, p, q) EXCEPT !.result = result])
      PROVE  run'[r].pc = label /\ run'[r].result = result /\ run'[r].prev = q
  BY <1>0, <1>3 DEF Becomes, Started
<1>4. ASSUME run'[r].result = "none", run'[r].act = "none",
             \/ run'[r].pc \in {"ensure_rollback_alarms", "rollback", "delete_endpoint"}
             \/ run'[r].pc = "describe_model" /\ "alarms" \notin StageGuards
      PROVE  CommandOnCourse(r)'
  BY <1>4 DEF CommandOnCourse, DeployHasItsParts, UpdateReplacesAnother,
     EndpointHasArrived, TeardownWorksInwards, DeployCalls
<1>5. CASE \E p \in Packages : Deploy(r, p)
  <2>1. PICK p \in Packages : Deploy(r, p)
    BY <1>5
  <2>2. CASE MayRelease(p)
    BY <2>1, <2>2, <1>1, <1>2, <1>4 DEF Deploy
  <2>3. CASE ~MayRelease(p)
    <3>1. Becomes(r, [Started("idle", p, None) EXCEPT !.result = "refused"])
      BY <2>1, <2>3 DEF Deploy
    <3>2. run'[r].pc = "idle" /\ run'[r].result = "refused"
      BY <3>1, <1>3
    <3> QED
      BY <3>2, <1>1, EndedOnCourse
  <2> QED
    BY <2>2, <2>3
<1>6. CASE \E p \in Packages : RollbackCommand(r, p)
  BY <1>6, <1>1, <1>2, <1>4 DEF RollbackCommand
<1>7. CASE Teardown(r)
  <2>1. CASE endpoint.status = "Absent"
    <3>1. run'[r].pc = "idle" /\ run'[r].result = "tornDown" /\ run'[r].prev = None
      BY <1>7, <2>1, <1>3 DEF Teardown
    <3> QED
      BY <1>1, <3>1 DEF CommandOnCourse, DeployHasItsParts, UpdateReplacesAnother,
         EndpointHasArrived, TeardownWorksInwards, DeployCalls
  <2>2. CASE endpoint.status # "Absent"
    BY <1>7, <2>2, <1>1, <1>2, <1>4 DEF Teardown
  <2> QED
    BY <2>1, <2>2
<1> QED
  BY <1>5, <1>6, <1>7 DEF StartStep


\* A deploy up to its request adds the parts it does not find.
LEMMA PreparationOnCourse ==
  ASSUME TypeOK, ServiceOnCourse, NEW r \in Runs, CommandOnCourse(r),
         EnsureRollbackAlarms(r) \/ EnsureModel(r) \/ EnsureEndpointConfig(r)
  PROVE  ServiceOnCourse' /\ CommandOnCourse(r)'
<1> USE DEF At
<1>0. run \in [Runs -> Command]
  BY DEF TypeOK
<1>1. ASSUME NEW label \in {"describe_model", "create_model", "describe_endpoint_config",
                            "create_endpoint_config", "describe_endpoint"},
             Goto(r, label), run[r].pc # "idle",
             StageGuards \cap {"alarms"} \subseteq guards',
             label \notin {"describe_model", "create_model"} => run[r].pkg \in models',
             label = "describe_endpoint" => run[r].pkg \in configs'
      PROVE  CommandOnCourse(r)'
  <2>1. /\ run'[r].pc = label /\ run'[r].pkg = run[r].pkg /\ run'[r].result = "none"
    BY <1>0, <1>1, GotoFields DEF CommandOnCourse
  <2> QED
    BY <1>1, <2>1 DEF CommandOnCourse, DeployHasItsParts, UpdateReplacesAnother,
       EndpointHasArrived, TeardownWorksInwards, DeployCalls
<1>2. run[r].pc \in {"describe_model", "create_model", "describe_endpoint_config",
                     "create_endpoint_config"} => StageGuards \cap {"alarms"} \subseteq guards
  BY DEF CommandOnCourse, DeployHasItsParts, DeployCalls
<1>3. run[r].pc \in {"describe_endpoint_config", "create_endpoint_config"}
        => run[r].pkg \in models
  BY DEF CommandOnCourse, DeployHasItsParts, DeployCalls
<1>4. CASE EnsureRollbackAlarms(r)
  BY <1>1, <1>4, ReadsOnCourse DEF EnsureRollbackAlarms
<1>5. CASE EnsureModel(r)
  <2>1. CASE At(r, "describe_model") /\ Reads
             /\ Goto(r, IF run[r].pkg \in models THEN "describe_endpoint_config"
                                                 ELSE "create_model")
    BY <1>1, <1>2, <2>1, ReadsOnCourse DEF Reads, service
  <2>2. CASE At(r, "create_model") /\ CreateModel(run[r].pkg)
             /\ Goto(r, "describe_endpoint_config") /\ UNCHANGED <<guards, everApproved>>
    BY <1>1, <1>2, <2>2 DEF CreateModel, ServiceOnCourse, NoDanglingReference
  <2> QED
    BY <1>5, <2>1, <2>2, RaisesOnCourse DEF EnsureModel
<1>6. CASE EnsureEndpointConfig(r)
  <2>1. CASE At(r, "describe_endpoint_config") /\ Reads
             /\ Goto(r, IF run[r].pkg \in configs THEN "describe_endpoint"
                                                  ELSE "create_endpoint_config")
    BY <1>1, <1>2, <1>3, <2>1, ReadsOnCourse DEF Reads, service
  <2>2. CASE At(r, "create_endpoint_config") /\ CreateConfig(run[r].pkg)
             /\ Goto(r, "describe_endpoint") /\ UNCHANGED <<guards, everApproved>>
    BY <1>1, <1>2, <1>3, <2>2 DEF CreateConfig, CanCreateConfig, ServiceOnCourse,
       NoDanglingReference
  <2> QED
    BY <1>6, <2>1, <2>2, RaisesOnCourse DEF EnsureEndpointConfig
<1> QED
  BY <1>4, <1>5, <1>6

\* The request is made for a configuration that exists; an update only of an
\* endpoint that was serving another one.
LEMMA RequestOnCourse ==
  ASSUME TypeOK, ServiceOnCourse, NEW r \in Runs, CommandOnCourse(r),
         DecideAction(r) \/ SendCreate(r) \/ SendUpdate(r)
  PROVE  ServiceOnCourse' /\ CommandOnCourse(r)'
<1> USE DEF At
<1>0. run \in [Runs -> Command] /\ run[r] \in Command
  BY DEF TypeOK
<1>1. run[r].pc \in {"describe_endpoint", "create_endpoint", "update_endpoint"} =>
        /\ StageGuards \cap {"alarms"} \subseteq guards
        /\ run[r].pkg \in models /\ run[r].pkg \in configs /\ run[r].result = "none"
  BY DEF CommandOnCourse, DeployHasItsParts, DeployCalls
<1>2. ASSUME DecideAction(r) PROVE ServiceOnCourse' /\ CommandOnCourse(r)'
  <2>0. ServiceOnCourse' /\ UNCHANGED <<models, configs, endpoint, guards>>
        /\ run[r].pc = "describe_endpoint"
    BY <1>2, ReadsOnCourse DEF DecideAction, Reads, service
  <2>1. CASE Goto(r, "create_endpoint")
    <3>1. /\ run'[r].pc = "create_endpoint" /\ run'[r].pkg = run[r].pkg
          /\ run'[r].result = "none"
      BY <1>0, <1>1, <2>0, <2>1, GotoFields
    <3> QED
      BY <1>1, <2>0, <3>1 DEF CommandOnCourse, DeployHasItsParts, UpdateReplacesAnother,
         EndpointHasArrived, TeardownWorksInwards, DeployCalls
  <2>2. CASE Becomes(r, [run[r] EXCEPT !.pc = "smoke_test", !.act = "unchanged",
                                       !.prev = endpoint.config])
    <3>1. /\ run'[r].pc = "smoke_test" /\ run'[r].pkg = run[r].pkg
          /\ run'[r].result = "none" /\ run'[r].act = "unchanged"
      BY <1>0, <1>1, <2>0, <2>2 DEF Becomes, Command
    <3> QED
      BY <1>1, <2>0, <3>1 DEF CommandOnCourse, DeployHasItsParts, UpdateReplacesAnother,
         EndpointHasArrived, TeardownWorksInwards, DeployCalls
  <2>3. CASE End(r, "error")
    BY <1>0, <2>0, <2>3, EndFields, EndedOnCourse
  <2>4. CASE /\ endpoint.status = "InService" /\ endpoint.config # run[r].pkg
             /\ Becomes(r, [run[r] EXCEPT !.pc = "update_endpoint",
                                          !.prev = endpoint.config])
    <3>1. /\ run'[r].pc = "update_endpoint" /\ run'[r].pkg = run[r].pkg
          /\ run'[r].result = "none" /\ run'[r].prev = endpoint.config
      BY <1>0, <1>1, <2>0, <2>4 DEF Becomes, Command
    <3> QED
      BY <1>1, <2>0, <2>4, <3>1 DEF CommandOnCourse, DeployHasItsParts, Serves,
         UpdateReplacesAnother, EndpointHasArrived, TeardownWorksInwards, DeployCalls
  <2> QED
    BY <1>2, <2>0, <2>1, <2>2, <2>3, <2>4 DEF DecideAction
<1>3. ASSUME NEW act \in {"created", "updated"},
             Becomes(r, [run[r] EXCEPT !.pc = "wait_in_service", !.act = act])
      PROVE  /\ run'[r].pc = "wait_in_service" /\ run'[r].pkg = run[r].pkg
             /\ run'[r].result = run[r].result /\ run'[r].act = act
             /\ run'[r].prev = run[r].prev
  BY <1>0, <1>3 DEF Becomes, Command
<1>4. ASSUME SendCreate(r) PROVE ServiceOnCourse' /\ CommandOnCourse(r)'
  <2>1. CASE /\ At(r, "create_endpoint") /\ CreateEndpoint(run[r].pkg)
             /\ Becomes(r, [run[r] EXCEPT !.pc = "wait_in_service", !.act = "created"])
             /\ UNCHANGED <<guards, everApproved>>
    <3>1. ServiceOnCourse'
      BY <2>1, NoneAssumption DEF CreateEndpoint, CanCreateEndpoint, ServiceOnCourse,
         NoDanglingReference
    <3>2. /\ run'[r].pc = "wait_in_service" /\ run'[r].pkg = run[r].pkg
          /\ run'[r].result = "none" /\ run'[r].act = "created"
          /\ UNCHANGED <<models, configs, guards>>
      BY <1>1, <1>3, <2>1 DEF CreateEndpoint
    <3> QED
      BY <1>1, <2>1, <3>1, <3>2 DEF CommandOnCourse, DeployHasItsParts,
         UpdateReplacesAnother, EndpointHasArrived, TeardownWorksInwards, DeployCalls
  <2> QED
    BY <1>4, <2>1, RaisesOnCourse DEF SendCreate
<1>5. ASSUME SendUpdate(r) PROVE ServiceOnCourse' /\ CommandOnCourse(r)'
  <2>1. CASE /\ At(r, "update_endpoint") /\ UpdateEndpoint(run[r].pkg)
             /\ Becomes(r, [run[r] EXCEPT !.pc = "wait_in_service", !.act = "updated"])
             /\ UNCHANGED <<guards, everApproved>>
    <3>0. endpoint \in [status: Statuses, config: PackageOrNone, target: PackageOrNone]
          /\ run[r].pkg \in Packages
      BY <1>1, <2>1 DEF TypeOK, ServiceTypeOK
    <3>1. ServiceOnCourse'
      BY <3>0, <2>1, NoneAssumption DEF UpdateEndpoint, CanUpdateEndpoint, ServiceOnCourse,
         NoDanglingReference
    <3>2. /\ run'[r].pc = "wait_in_service" /\ run'[r].pkg = run[r].pkg
          /\ run'[r].result = "none" /\ run'[r].act = "updated"
          /\ run'[r].prev = run[r].prev
          /\ UNCHANGED <<models, configs, guards>>
      BY <1>1, <1>3, <2>1 DEF UpdateEndpoint
    <3>3. run[r].prev # run[r].pkg /\ run[r].prev \in configs
      BY <2>1 DEF CommandOnCourse, UpdateReplacesAnother, Serves, ServiceOnCourse,
         NoDanglingReference
    <3> QED
      BY <1>1, <2>1, <3>1, <3>2, <3>3 DEF CommandOnCourse, DeployHasItsParts,
         UpdateReplacesAnother, EndpointHasArrived, TeardownWorksInwards, DeployCalls
  <2> QED
    BY <1>5, <2>1, RaisesOnCourse DEF SendUpdate
<1> QED
  BY <1>2, <1>4, <1>5


\* A wait that polls again leaves everything where it is.
LEMMA PollOnCourse ==
  ASSUME TypeOK, ServiceOnCourse, NEW r \in Runs, CommandOnCourse(r), PollAgain(r), Reads
  PROVE  ServiceOnCourse' /\ CommandOnCourse(r)'
<1>1. /\ run'[r].pc = run[r].pc /\ run'[r].pkg = run[r].pkg /\ run'[r].prev = run[r].prev
      /\ run'[r].act = run[r].act /\ run'[r].result = run[r].result
  BY DEF PollAgain, Becomes, TypeOK, Command
<1>2. ServiceOnCourse' /\ UNCHANGED <<models, configs, endpoint, guards>>
  BY ReadsOnCourse DEF Reads, service
<1> QED
  BY <1>1, <1>2 DEF CommandOnCourse, DeployHasItsParts, UpdateReplacesAnother,
     EndpointHasArrived, TeardownWorksInwards, Serves

\* The wait ends on the released package, the smoke test judges its fleet
\* alone, and success is reported with the guards of the stage in place.
LEMMA JudgementOnCourse ==
  ASSUME TypeOK, ServiceOnCourse, NEW r \in Runs, CommandOnCourse(r),
         WaitInService(r) \/ SmokeTest(r) \/ ConfigureAutoscaling(r)
  PROVE  ServiceOnCourse' /\ CommandOnCourse(r)'
<1> USE DEF At
<1>0. run \in [Runs -> Command]
  BY DEF TypeOK
<1>1. run[r].pc \in {"wait_in_service", "smoke_test", "configure_autoscaling"} =>
        /\ StageGuards \cap {"alarms"} \subseteq guards
        /\ run[r].pkg \in models /\ run[r].pkg \in configs /\ run[r].result = "none"
  BY DEF CommandOnCourse, DeployHasItsParts, DeployCalls
<1>2. ServiceOnCourse' /\ UNCHANGED <<models, configs, endpoint>>
  BY ReadsOnCourse DEF WaitInService, SmokeTest, ConfigureAutoscaling, Reads, service
<1>3. ASSUME run[r].act # "unchanged" => Serves(run[r].pkg) /\ run[r].pkg \in Healthy,
             StageGuards \subseteq guards', End(r, "released")
      PROVE  CommandOnCourse(r)'
  <2>1. /\ run'[r].pc = "idle" /\ run'[r].pkg = run[r].pkg /\ run'[r].result = "released"
        /\ run'[r].act = run[r].act
    BY <1>0, <1>3, EndFields
  <2> QED
    BY <1>2, <1>3, <2>1 DEF CommandOnCourse, DeployHasItsParts, UpdateReplacesAnother,
       EndpointHasArrived, TeardownWorksInwards, DeployCalls, Serves
<1>4. ASSUME End(r, "failed") PROVE CommandOnCourse(r)'
  <2>1. run'[r].pc = "idle" /\ run'[r].result = "failed"
    BY <1>0, <1>4, EndFields
  <2> QED
    BY <2>1, EndedOnCourse
<1>5. ASSUME WaitInService(r) PROVE CommandOnCourse(r)'
  <2>1. CASE Arrived(run[r].pkg) /\ Goto(r, "smoke_test")
    <3>1. /\ run'[r].pc = "smoke_test" /\ run'[r].pkg = run[r].pkg
          /\ run'[r].prev = run[r].prev /\ run'[r].act = run[r].act
          /\ run'[r].result = "none" /\ UNCHANGED guards
      BY <1>0, <1>1, <1>5, <2>1, GotoFields DEF WaitInService, Reads
    <3>2. run[r].act = "updated" => run[r].prev # run[r].pkg /\ run[r].prev \in configs
      BY <1>5 DEF WaitInService, CommandOnCourse
    <3> QED
      BY <1>1, <1>2, <1>5, <2>1, <3>1, <3>2 DEF WaitInService, Arrived, Serves, CommandOnCourse,
         DeployHasItsParts, UpdateReplacesAnother, EndpointHasArrived,
         TeardownWorksInwards, DeployCalls
  <2> QED
    BY <1>4, <1>5, <2>1, PollOnCourse DEF WaitInService
<1>6. ASSUME SmokeTest(r) PROVE CommandOnCourse(r)'
  <2>0. /\ run[r].act # "unchanged" => Serves(run[r].pkg)
        /\ UNCHANGED guards /\ run[r].pc = "smoke_test"
        /\ run[r].act = "updated" => run[r].prev # run[r].pkg /\ run[r].prev \in configs
    BY <1>6 DEF SmokeTest, Reads, CommandOnCourse, EndpointHasArrived
  <2>1. CASE AnsweringFleets \cap Healthy # {}
    <3>1. run[r].act # "unchanged" => run[r].pkg \in Healthy
      <4>1. endpoint.status = "InService" => AnsweringFleets = {endpoint.config}
        BY DEF AnsweringFleets
      <4> QED
        BY <2>0, <2>1, <4>1 DEF Serves
    <3>2. CASE "autoscaling" \in StageGuards /\ Goto(r, "configure_autoscaling")
      <4>1. /\ run'[r].pc = "configure_autoscaling" /\ run'[r].pkg = run[r].pkg
            /\ run'[r].act = run[r].act /\ run'[r].result = "none"
        BY <1>0, <1>1, <2>0, <3>2, GotoFields
      <4> QED
        BY <1>1, <1>2, <2>0, <3>1, <4>1 DEF CommandOnCourse, DeployHasItsParts, Serves,
           UpdateReplacesAnother, EndpointHasArrived, TeardownWorksInwards, DeployCalls
    <3>3. CASE "autoscaling" \notin StageGuards /\ End(r, "released")
      <4>1. StageGuards \subseteq guards'
        BY <1>1, <2>0, <3>3, ReleaseAssumption
      <4> QED
        BY <1>3, <2>0, <3>1, <3>3, <4>1
    <3>4. CASE run[r].act = "updated" /\ Goto(r, "rollback")
      <4>1. /\ run'[r].pc = "rollback" /\ run'[r].pkg = run[r].pkg
            /\ run'[r].prev = run[r].prev /\ run'[r].result = "none"
        BY <1>0, <1>1, <2>0, <3>4, GotoFields
      <4> QED
        BY <1>2, <2>0, <3>4, <4>1 DEF CommandOnCourse, DeployHasItsParts,
           UpdateReplacesAnother, EndpointHasArrived, TeardownWorksInwards, DeployCalls
    <3> QED
      BY <1>4, <1>6, <3>2, <3>3, <3>4 DEF SmokeTest
  <2>2. CASE run[r].act = "updated" /\ Goto(r, "rollback")
    <3>1. /\ run'[r].pc = "rollback" /\ run'[r].pkg = run[r].pkg
          /\ run'[r].prev = run[r].prev /\ run'[r].result = "none"
      BY <1>0, <1>1, <2>0, <2>2, GotoFields
    <3> QED
      BY <1>2, <2>0, <2>2, <3>1 DEF CommandOnCourse, DeployHasItsParts,
         UpdateReplacesAnother, EndpointHasArrived, TeardownWorksInwards, DeployCalls
  <2> QED
    BY <1>4, <1>6, <2>1, <2>2 DEF SmokeTest
<1>7. ASSUME ConfigureAutoscaling(r) PROVE CommandOnCourse(r)'
  <2>1. run[r].act # "unchanged" => Serves(run[r].pkg) /\ run[r].pkg \in Healthy
    BY <1>7 DEF ConfigureAutoscaling, CommandOnCourse, EndpointHasArrived
  <2>2. StageGuards \subseteq guards'
    BY <1>1, <1>7, ReleaseAssumption DEF ConfigureAutoscaling
  <2> QED
    BY <1>3, <1>7, <2>1, <2>2 DEF ConfigureAutoscaling
<1> QED
  BY <1>2, <1>5, <1>6, <1>7

\* A rollback, by release() or by the command, succeeds only on the
\* configuration it returns to.
LEMMA RollbackOnCourse ==
  ASSUME TypeOK, ServiceOnCourse, NEW r \in Runs, CommandOnCourse(r),
         Rollback(r) \/ WaitRollback(r)
  PROVE  ServiceOnCourse' /\ CommandOnCourse(r)'
<1> USE DEF At
<1>0. run \in [Runs -> Command]
  BY DEF TypeOK
<1>1. CASE Rollback(r)
  <2>1. CASE /\ UpdateEndpoint(run[r].prev) /\ Goto(r, "wait_rollback")
             /\ UNCHANGED <<guards, everApproved>>
    <3>0. endpoint \in [status: Statuses, config: PackageOrNone, target: PackageOrNone]
          /\ run[r].prev \in Packages
      BY <2>1 DEF TypeOK, ServiceTypeOK, UpdateEndpoint, CanUpdateEndpoint
    <3>1. ServiceOnCourse'
      BY <3>0, <2>1, NoneAssumption DEF UpdateEndpoint, CanUpdateEndpoint, ServiceOnCourse,
         NoDanglingReference
    <3>2. run'[r].pc = "wait_rollback" /\ run'[r].result = "none"
      BY <1>0, <1>1, <2>1, GotoFields DEF Rollback, CommandOnCourse
    <3> QED
      BY <3>1, <3>2 DEF CommandOnCourse, DeployHasItsParts,
         UpdateReplacesAnother, EndpointHasArrived, TeardownWorksInwards, DeployCalls
  <2> QED
    BY <1>1, <2>1, RaisesOnCourse DEF Rollback
<1>2. CASE WaitRollback(r)
  <2>0. ServiceOnCourse' /\ UNCHANGED <<models, configs, endpoint>>
    BY <1>2, ReadsOnCourse DEF WaitRollback, Reads, service
  <2>1. CASE Arrived(run[r].prev) /\ End(r, "rolledBack")
    <3>1. /\ run'[r].pc = "idle" /\ run'[r].prev = run[r].prev
          /\ run'[r].result = "rolledBack"
      BY <1>0, <2>1, EndFields
    <3> QED
      BY <2>0, <2>1, <3>1 DEF Arrived, Serves, CommandOnCourse, DeployHasItsParts,
         UpdateReplacesAnother, EndpointHasArrived, TeardownWorksInwards, DeployCalls
  <2>2. CASE End(r, "error")
    <3>1. run'[r].pc = "idle" /\ run'[r].result = "error"
      BY <1>0, <2>2, EndFields
    <3> QED
      BY <2>0, <3>1, EndedOnCourse
  <2> QED
    BY <1>2, <2>1, <2>2, PollOnCourse DEF WaitRollback
<1> QED
  BY <1>1, <1>2

\* A teardown removes a thing only when nothing refers to it any more.
LEMMA TeardownOnCourse ==
  ASSUME TypeOK, ServiceOnCourse, NEW r \in Runs, CommandOnCourse(r),
         TeardownEndpoint(r) \/ TeardownConfig(r) \/ TeardownModel(r)
  PROVE  ServiceOnCourse' /\ CommandOnCourse(r)'
<1> USE DEF At
<1>0. run \in [Runs -> Command]
  BY DEF TypeOK
<1>1. CASE /\ At(r, "delete_endpoint") /\ DeleteEndpoint
           /\ Goto(r, "delete_endpoint_config")
  <2>1. ServiceOnCourse' /\ endpoint' = Absent
    BY <1>1 DEF DeleteEndpoint, Absent, ServiceOnCourse, NoDanglingReference
  <2>2. run'[r].pc = "delete_endpoint_config" /\ run'[r].result = "none"
    BY <1>0, <1>1, GotoFields DEF CommandOnCourse
  <2> QED
    BY <2>1, <2>2 DEF CommandOnCourse, DeployHasItsParts, UpdateReplacesAnother,
       EndpointHasArrived, TeardownWorksInwards, DeployCalls
<1>2. CASE /\ At(r, "delete_endpoint_config") /\ DeleteConfig(run[r].prev)
           /\ Goto(r, "delete_model")
  <2>0. endpoint = Absent
    BY <1>2 DEF CommandOnCourse, TeardownWorksInwards
  <2>1. /\ ServiceOnCourse' /\ endpoint' = Absent /\ run[r].prev \notin configs'
    BY <1>2, <2>0 DEF DeleteConfig, Absent, ServiceOnCourse, NoDanglingReference
  <2>2. /\ run'[r].pc = "delete_model" /\ run'[r].result = "none"
        /\ run'[r].prev = run[r].prev
    BY <1>0, <1>2, GotoFields DEF CommandOnCourse
  <2> QED
    BY <2>1, <2>2 DEF CommandOnCourse, DeployHasItsParts, UpdateReplacesAnother,
       EndpointHasArrived, TeardownWorksInwards, DeployCalls
<1>3. CASE /\ At(r, "delete_model") /\ DeleteModel(run[r].prev) /\ End(r, "tornDown")
  <2>0. endpoint = Absent /\ run[r].prev \notin configs
    BY <1>3 DEF CommandOnCourse, TeardownWorksInwards
  <2>1. /\ ServiceOnCourse' /\ endpoint' = Absent
        /\ run[r].prev \notin models' \cup configs'
    BY <1>3, <2>0 DEF DeleteModel, Absent, ServiceOnCourse, NoDanglingReference
  <2>2. /\ run'[r].pc = "idle" /\ run'[r].result = "tornDown"
        /\ run'[r].prev = run[r].prev
    BY <1>0, <1>3, EndFields
  <2> QED
    BY <2>1, <2>2 DEF CommandOnCourse, DeployHasItsParts, UpdateReplacesAnother,
       EndpointHasArrived, TeardownWorksInwards, DeployCalls
<1> QED
  BY <1>1, <1>2, <1>3, RaisesOnCourse DEF TeardownEndpoint, TeardownConfig, TeardownModel

\* SageMaker by itself only moves an endpoint that is not InService, and only
\* to a configuration it was asked for or already had.
LEMMA ServiceStepOnCourse ==
  ASSUME TypeOK, ServiceOnCourse, EndpointStep
  PROVE  /\ ServiceOnCourse'
         /\ \A r \in Runs : CommandOnCourse(r) => CommandOnCourse(r)'
<1>0. /\ UNCHANGED <<models, configs, guards, run>>
      /\ endpoint.status \in {"Creating", "Updating", "RollingBack"}
      /\ endpoint \in [status: Statuses, config: PackageOrNone, target: PackageOrNone]
  BY DEF EndpointStep, ServiceStep, CreationEnds, UpdateLands, UpdateFails, AlarmFires,
     AutoRollbackEnds, Settles, TypeOK, ServiceTypeOK
<1>1. endpoint # Absent /\ \A p : ~Serves(p)
  BY <1>0 DEF Absent, Serves
<1>2. ServiceOnCourse'
  <2>1. CASE CreationEnds
    BY <1>0, <2>1 DEF CreationEnds, Settles, ServiceOnCourse, NoDanglingReference
  <2>2. CASE UpdateLands
    BY <1>0, <2>2 DEF UpdateLands, Settles, ServiceOnCourse, NoDanglingReference
  <2>3. CASE UpdateFails
    BY <1>0, <2>3 DEF UpdateFails, Settles, ServiceOnCourse, NoDanglingReference
  <2>4. CASE AlarmFires
    BY <1>0, <2>4 DEF AlarmFires, ServiceOnCourse, NoDanglingReference
  <2>5. CASE AutoRollbackEnds
    BY <1>0, <2>5 DEF AutoRollbackEnds, Settles, ServiceOnCourse, NoDanglingReference
  <2> QED
    BY <2>1, <2>2, <2>3, <2>4, <2>5 DEF EndpointStep, ServiceStep
<1>3. ASSUME NEW r \in Runs, CommandOnCourse(r) PROVE CommandOnCourse(r)'
  BY <1>0, <1>1, <1>3 DEF CommandOnCourse, DeployHasItsParts, UpdateReplacesAnother,
     EndpointHasArrived, TeardownWorksInwards
<1> QED
  BY <1>2, <1>3

\* StageInvariant is inductive when the commands of the stage are serialised.
LEMMA StageInvariantInductive ==
  ASSUME Serial
  PROVE  StageInvariant /\ TypeOK' /\ [Next]_vars => StageInvariant'
<1> SUFFICES ASSUME StageInvariant, TypeOK', [Next]_vars
             PROVE  StageInvariant'
  OBVIOUS
<1>0. TypeOK /\ ServiceOnCourse
  BY DEF StageInvariant, ServiceOnCourse
<1>1. ASSUME NEW r \in Runs, CommandStep(r) PROVE StageInvariant'
  <2>0. CommandOnCourse(r)
    BY StageOfSole
  <2>1. CASE Interrupted(r)
    BY <1>0, <2>1, RaisesOnCourse, StageOfSole DEF Interrupted
  <2>2. CASE StartStep(r)
    BY <1>0, <2>2, StartOnCourse, StageOfSole
  <2>3. CASE RunStep(r)
    <3>1. ServiceOnCourse' /\ CommandOnCourse(r)'
      BY <1>0, <2>0, <2>3, PreparationOnCourse, RequestOnCourse, JudgementOnCourse,
         RollbackOnCourse, TeardownOnCourse DEF RunStep
    <3> QED
      BY <3>1, StageOfSole
  <2> QED
    BY <1>1, <2>1, <2>2, <2>3 DEF CommandStep
<1>2. ASSUME UNCHANGED <<service, guards, run>> PROVE StageInvariant'
  <2>1. UNCHANGED <<models, configs, endpoint, guards, run>>
    BY <1>2 DEF service
  <2> QED
    BY <2>1 DEF StageInvariant, NoDanglingReference, ReleaseTakesEffect, RollbackRestores,
       RollbackIsPossible, TeardownRemovesAll, DeployHasItsParts, UpdateReplacesAnother,
       EndpointHasArrived, TeardownWorksInwards, Serves
<1>3. CASE \E p \in Packages : RegisterModelPackage(p) \/ SetApproval(p)
  BY <1>2, <1>3 DEF RegisterModelPackage, SetApproval, SetStatus
<1>4. CASE EndpointStep
  <2>1. CASE Runs = {}
    <3>1. ServiceOnCourse'
      BY <1>0, <1>4, ServiceStepOnCourse
    <3> QED
      BY <2>1, <3>1 DEF StageInvariant, ServiceOnCourse, ReleaseTakesEffect,
         RollbackRestores, RollbackIsPossible, TeardownRemovesAll
  <2>2. CASE Runs # {}
    <3>1. PICK r \in Runs : TRUE
      BY <2>2
    <3> QED
      BY <1>0, <1>4, StageOfSole, ServiceStepOnCourse
  <2> QED
    BY <2>1, <2>2
<1>5. CASE UNCHANGED vars
  BY <1>2, <1>5 DEF vars
<1> QED
  BY <1>1, <1>3, <1>4, <1>5 DEF Next

\* Nothing exists and nothing runs at first.
LEMMA StageInvariantInit == Init => StageInvariant
<1> SUFFICES ASSUME Init PROVE StageInvariant
  OBVIOUS
<1>1. TypeOK
  BY ApprovedReleasesInit DEF ApprovedReleases
<1>2. \A r \in Runs : /\ run[r].pc = "idle" /\ run[r].act = "none"
                      /\ run[r].result = "none"
  BY DEF Init, Started
<1> QED
  BY <1>1, <1>2 DEF Init, ServiceInit, Absent, StageInvariant, NoDanglingReference,
     ReleaseTakesEffect, RollbackRestores, RollbackIsPossible, TeardownRemovesAll,
     DeployHasItsParts, UpdateReplacesAnother, EndpointHasArrived, TeardownWorksInwards,
     DeployCalls

\* The inductive form of the properties of a serialised stage holds in every
\* behaviour: what a command carries from call to call is never lost, whatever
\* SageMaker does meanwhile and wherever earlier commands were interrupted.
THEOREM StageInvariantHolds ==
  ASSUME Serial
  PROVE  Spec => []StageInvariant
<1> QED
  BY StageInvariantInductive, StageInvariantInit, TypeCorrect, PTL DEF Spec

\* No endpoint refers to a deleted configuration and no configuration to a
\* deleted model, wherever the teardowns and deploys before were interrupted.
THEOREM NothingDangles ==
  ASSUME Serial
  PROVE  Spec => []NoDanglingReference
<1>1. StageInvariant => NoDanglingReference
  BY DEF StageInvariant
<1> QED
  BY <1>1, StageInvariantHolds, PTL

\* A release reported as done that created or updated the endpoint left it
\* InService on the released, healthy package with the guards of the stage.
THEOREM ReleasesTakeEffect ==
  ASSUME Serial
  PROVE  Spec => []ReleaseTakesEffect
<1>1. StageInvariant => ReleaseTakesEffect
  BY DEF StageInvariant
<1> QED
  BY <1>1, StageInvariantHolds, PTL

\* A rollback reported as done left the endpoint InService on its target.
THEOREM RollbacksRestore ==
  ASSUME Serial
  PROVE  Spec => []RollbackRestores
<1>1. StageInvariant => RollbackRestores
  BY DEF StageInvariant
<1> QED
  BY <1>1, StageInvariantHolds, PTL

\* From the update to the verdict of the smoke test there is another
\* configuration to return to, and it exists.
THEOREM RollbacksArePossible ==
  ASSUME Serial
  PROVE  Spec => []RollbackIsPossible
<1>1. StageInvariant => RollbackIsPossible
  BY DEF StageInvariant
<1> QED
  BY <1>1, StageInvariantHolds, PTL

\* A teardown reported as done left no endpoint, configuration or model.
THEOREM TeardownsRemoveAll ==
  ASSUME Serial
  PROVE  Spec => []TeardownRemovesAll
<1>1. StageInvariant => TeardownRemovesAll
  BY DEF StageInvariant
<1> QED
  BY <1>1, StageInvariantHolds, PTL
=============================================================================
