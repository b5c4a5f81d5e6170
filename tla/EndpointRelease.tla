--------------------------- MODULE EndpointRelease ---------------------------
(***************************************************************************)
(* The smdeploy commands that change one deployment stage, run by CD jobs  *)
(* and operators: `deploy` (release.release over EndpointDeployer),        *)
(* `rollback` and `teardown`.  A command is a process; every API call it   *)
(* makes is a step, so the steps of SageMaker, of the registry and of      *)
(* other commands fall between any two of its calls.  A command may be     *)
(* interrupted before each call: the CD job is cancelled or times out, or  *)
(* the call raises an error the code does not handle.                      *)
(*                                                                         *)
(* Runs with one element is a stage whose commands are serialised, Runs    *)
(* with more is what the CD workflow allows (it has no concurrency group). *)
(***************************************************************************)
EXTENDS SageMakerEndpoint

CONSTANTS
  Runs,             \* the command slots: how many commands may overlap
  Healthy,          \* packages whose container answers the smoke test sanely
  RequireApproved,  \* StageConfig.require_approved
  StageGuards,      \* which of alarms and autoscaling the stage configures
  MaxPolls          \* bound: polls before the deadline of wait_in_service

ASSUME ReleaseAssumption ==
  /\ Healthy \subseteq Packages
  /\ RequireApproved \in BOOLEAN
  /\ StageGuards \subseteq {"alarms", "autoscaling"}
  /\ MaxPolls \in Nat

VARIABLES
  approval,      \* ModelApprovalStatus of each package in the registry
  guards,        \* the alarms and the scaling policy that exist
  run,           \* the commands
  everApproved   \* history: packages that have been Approved at some time

vars == <<service, approval, guards, run, everApproved>>

\* The commands of the stage are serialised: one at a time.
Serial == \A r, s \in Runs : r = s

ApprovalStatus == {"Unregistered", "PendingManualApproval", "Approved", "Rejected"}

DeployCalls == {"ensure_rollback_alarms", "describe_model", "create_model",
  "describe_endpoint_config", "create_endpoint_config", "describe_endpoint",
  "create_endpoint", "update_endpoint", "wait_in_service", "smoke_test",
  "configure_autoscaling"}
RollbackCalls == {"rollback", "wait_rollback"}
DeleteCalls   == {"delete_endpoint", "delete_endpoint_config", "delete_model"}

\* "failed" is a ReleaseError (with its report), "error" any other exception.
Results == {"none", "refused", "released", "failed", "rolledBack", "tornDown", "error"}

Labels == {"idle"} \cup DeployCalls \cup RollbackCalls \cup DeleteCalls

Actions == {"none", "created", "updated", "unchanged"}

Command == [pc: Labels,
            pkg: PackageOrNone,      \* package to deploy; None for the others
            prev: PackageOrNone,     \* previous_config_name; target of rollback, teardown
            act: Actions,
            polls: 0..MaxPolls,
            result: Results]

Started(label, p, prev) == [pc |-> label, pkg |-> p, prev |-> prev,
                            act |-> "none", polls |-> 0, result |-> "none"]

TypeOK ==
  /\ ServiceTypeOK
  /\ approval \in [Packages -> ApprovalStatus]
  /\ guards \subseteq {"alarms", "autoscaling"}
  /\ run \in [Runs -> Command]
  /\ everApproved \subseteq Packages

Init ==
  /\ ServiceInit
  /\ approval = [p \in Packages |-> "Unregistered"]
  /\ guards = {}
  /\ run = [r \in Runs |-> Started("idle", None, None)]
  /\ everApproved = {}

-----------------------------------------------------------------------------
(* The model registry: register and approve / reject, at any time.          *)

SetStatus(p, status) ==
  /\ approval' = [approval EXCEPT ![p] = status]
  /\ everApproved' = IF status = "Approved" THEN everApproved \cup {p} ELSE everApproved
  /\ UNCHANGED <<service, guards, run>>

\* `register`, with --approve or without.
RegisterModelPackage(p) ==
  /\ approval[p] = "Unregistered"
  /\ \E status \in {"PendingManualApproval", "Approved"} : SetStatus(p, status)

\* `approve`, with --reject or without.
SetApproval(p) ==
  /\ approval[p] # "Unregistered"
  /\ \E status \in {"Approved", "Rejected"} : SetStatus(p, status)

-----------------------------------------------------------------------------
(* The steps of a command.                                                  *)

At(r, label) == run[r].pc = label
Becomes(r, command) == run' = [run EXCEPT ![r] = command]
Goto(r, label) == Becomes(r, [run[r] EXCEPT !.pc = label, !.polls = 0])
End(r, result) ==
  Becomes(r, [run[r] EXCEPT !.pc = "idle", !.result = result, !.polls = 0])

\* The call is rejected, or raises what the code does not catch.
Raises(r) == End(r, "error") /\ UNCHANGED <<service, guards, everApproved>>

Reads == UNCHANGED <<service, guards, everApproved>>

\* Mutant: only a Rejected package is refused.
MayReleasePending(p) == ~(RequireApproved /\ approval[p] = "Rejected")

\* The guard of release().
MayRelease(p) == ~(RequireApproved /\ approval[p] # "Approved")

\* cmd_deploy reads the package once; release() refuses it or goes on.
Deploy(r, p) ==
  /\ At(r, "idle")
  /\ approval[p] # "Unregistered"
  /\ IF MayRelease(p)
     THEN Becomes(r, Started(IF "alarms" \in StageGuards THEN "ensure_rollback_alarms"
                                                         ELSE "describe_model", p, None))
     ELSE Becomes(r, [Started("idle", p, None) EXCEPT !.result = "refused"])
  /\ Reads

EnsureRollbackAlarms(r) ==
  /\ At(r, "ensure_rollback_alarms")
  /\ guards' = guards \cup {"alarms"}
  /\ Goto(r, "describe_model")
  /\ UNCHANGED <<service, everApproved>>

\* ensure_model and ensure_endpoint_config describe first, then create: a
\* second command may create in between, and then the create is rejected.
EnsureModel(r) ==
  \/ /\ At(r, "describe_model")
     /\ Goto(r, IF run[r].pkg \in models THEN "describe_endpoint_config"
                                         ELSE "create_model")
     /\ Reads
  \/ /\ At(r, "create_model")
     /\ \/ /\ CreateModel(run[r].pkg)
           /\ Goto(r, "describe_endpoint_config")
           /\ UNCHANGED <<guards, everApproved>>
        \/ ~CanCreateModel(run[r].pkg) /\ Raises(r)

EnsureEndpointConfig(r) ==
  \/ /\ At(r, "describe_endpoint_config")
     /\ Goto(r, IF run[r].pkg \in configs THEN "describe_endpoint"
                                          ELSE "create_endpoint_config")
     /\ Reads
  \/ /\ At(r, "create_endpoint_config")
     /\ \/ /\ CreateConfig(run[r].pkg)
           /\ Goto(r, "describe_endpoint")
           /\ UNCHANGED <<guards, everApproved>>
        \/ ~CanCreateConfig(run[r].pkg) /\ Raises(r)

\* EndpointDeployer.deploy decides on what describe returned.
DecideAction(r) ==
  /\ At(r, "describe_endpoint")
  /\ \/ /\ endpoint.status = "Absent"
        /\ Goto(r, "create_endpoint")
     \/ /\ endpoint.status # "Absent"
        /\ endpoint.config = run[r].pkg
        /\ Becomes(r, [run[r] EXCEPT !.pc = "smoke_test", !.act = "unchanged",
                                     !.prev = endpoint.config])
     \/ /\ endpoint.status \notin {"Absent", "InService"}
        /\ endpoint.config # run[r].pkg
        /\ End(r, "error")
     \/ /\ endpoint.status = "InService"
        /\ endpoint.config # run[r].pkg
        /\ Becomes(r, [run[r] EXCEPT !.pc = "update_endpoint", !.prev = endpoint.config])
  /\ Reads

SendCreate(r) ==
  /\ At(r, "create_endpoint")
  /\ \/ /\ CreateEndpoint(run[r].pkg)
        /\ Becomes(r, [run[r] EXCEPT !.pc = "wait_in_service", !.act = "created"])
        /\ UNCHANGED <<guards, everApproved>>
     \/ ~CanCreateEndpoint(run[r].pkg) /\ Raises(r)

\* Mutant: the configuration an update replaces is cleaned up.
SendUpdateAndCleanUp(r) ==
  /\ At(r, "update_endpoint")
  /\ CanUpdateEndpoint(run[r].pkg)
  /\ endpoint' = [endpoint EXCEPT !.status = "Updating", !.target = run[r].pkg]
  /\ configs' = configs \ {run[r].prev}
  /\ Becomes(r, [run[r] EXCEPT !.pc = "wait_in_service", !.act = "updated"])
  /\ UNCHANGED <<models, guards, everApproved>>

SendUpdate(r) ==
  /\ At(r, "update_endpoint")
  /\ \/ /\ UpdateEndpoint(run[r].pkg)
        /\ Becomes(r, [run[r] EXCEPT !.pc = "wait_in_service", !.act = "updated"])
        /\ UNCHANGED <<guards, everApproved>>
     \/ ~CanUpdateEndpoint(run[r].pkg) /\ Raises(r)

\* (Nothing in the model puts the endpoint OutOfService.)
FAILED_STATES == {"Failed", "UpdateRollbackFailed", "OutOfService"}

\* Mutant: any InService counts, the configuration is not compared.
ArrivedOnAnything(config) == endpoint.status = "InService"

\* What one pass of the loop of wait_in_service makes of the description.
Arrived(config) == endpoint.status = "InService" /\ endpoint.config = config
Hopeless(config) ==
  \/ endpoint.status \in FAILED_STATES \cup {"Absent"}
  \/ endpoint.status = "InService" /\ endpoint.config # config
Pending == endpoint.status \in {"Creating", "Updating", "RollingBack"}

\* Mutant: the clock is never compared with the deadline.
NeverTimedOut(r) == FALSE

TimedOut(r) == run[r].polls = MaxPolls

\* Mutant: the loop has no deadline.
PollForever(r) == Pending /\ UNCHANGED run

PollAgain(r) ==
  /\ Pending
  /\ ~TimedOut(r)
  /\ Becomes(r, [run[r] EXCEPT !.polls = @ + 1])

\* release() turns the errors of the wait into a ReleaseError: no rollback.
WaitInService(r) ==
  /\ At(r, "wait_in_service")
  /\ \/ Arrived(run[r].pkg) /\ Goto(r, "smoke_test")
     \/ (Hopeless(run[r].pkg) \/ (Pending /\ TimedOut(r))) /\ End(r, "failed")
     \/ PollAgain(r)
  /\ Reads

\* The smoke test talks to whichever fleet answers; any exception is a failure.
SmokeTest(r) ==
  /\ At(r, "smoke_test")
  /\ \/ /\ AnsweringFleets \cap Healthy # {}
        /\ IF "autoscaling" \in StageGuards THEN Goto(r, "configure_autoscaling")
                                            ELSE End(r, "released")
     \/ IF run[r].act = "updated" THEN Goto(r, "rollback") ELSE End(r, "failed")
  /\ Reads

ConfigureAutoscaling(r) ==
  /\ At(r, "configure_autoscaling")
  /\ guards' = guards \cup {"autoscaling"}
  /\ End(r, "released")
  /\ UNCHANGED <<service, everApproved>>

-----------------------------------------------------------------------------
(* EndpointDeployer.rollback, by release() or by the rollback command.      *)

RollbackCommand(r, to) ==
  /\ At(r, "idle")
  /\ Becomes(r, Started("rollback", None, to))
  /\ Reads

\* Mutant: the request is taken for its effect.
RollbackWithoutWait(r) ==
  /\ At(r, "rollback")
  /\ \/ /\ UpdateEndpoint(run[r].prev)
        /\ End(r, "rolledBack")
        /\ UNCHANGED <<guards, everApproved>>
     \/ ~CanUpdateEndpoint(run[r].prev) /\ Raises(r)

Rollback(r) ==
  /\ At(r, "rollback")
  /\ \/ /\ UpdateEndpoint(run[r].prev)
        /\ Goto(r, "wait_rollback")
        /\ UNCHANGED <<guards, everApproved>>
     \/ ~CanUpdateEndpoint(run[r].prev) /\ Raises(r)

\* Nothing catches the errors of this wait.
WaitRollback(r) ==
  /\ At(r, "wait_rollback")
  /\ \/ Arrived(run[r].prev) /\ End(r, "rolledBack")
     \/ (Hopeless(run[r].prev) \/ (Pending /\ TimedOut(r))) /\ End(r, "error")
     \/ PollAgain(r)
  /\ Reads

-----------------------------------------------------------------------------
(* EndpointDeployer.delete, the teardown command.                           *)

\* Mutant: the configuration goes first, the endpoint is forgotten.
TeardownConfigFirst(r) ==
  /\ At(r, "idle")
  /\ endpoint.status # "Absent"
  /\ Becomes(r, Started("delete_endpoint_config", None, endpoint.config))
  /\ Reads

Teardown(r) ==
  /\ At(r, "idle")
  /\ IF endpoint.status = "Absent"
     THEN Becomes(r, [Started("idle", None, None) EXCEPT !.result = "tornDown"])
     ELSE Becomes(r, Started("delete_endpoint", None, endpoint.config))
  /\ Reads

TeardownEndpoint(r) ==
  /\ At(r, "delete_endpoint")
  /\ \/ /\ DeleteEndpoint
        /\ Goto(r, "delete_endpoint_config")
        /\ UNCHANGED <<guards, everApproved>>
     \/ endpoint.status = "Absent" /\ Raises(r)

\* Mutant: the model of the configuration is left behind.
TeardownConfigOnly(r) ==
  /\ At(r, "delete_endpoint_config")
  /\ DeleteConfig(run[r].prev)
  /\ End(r, "tornDown")
  /\ UNCHANGED <<guards, everApproved>>

\* describe_endpoint_config and delete_endpoint_config; both raise if it is gone.
TeardownConfig(r) ==
  /\ At(r, "delete_endpoint_config")
  /\ \/ /\ DeleteConfig(run[r].prev)
        /\ Goto(r, "delete_model")
        /\ UNCHANGED <<guards, everApproved>>
     \/ run[r].prev \notin configs /\ Raises(r)

TeardownModel(r) ==
  /\ At(r, "delete_model")
  /\ \/ /\ DeleteModel(run[r].prev)
        /\ End(r, "tornDown")
        /\ UNCHANGED <<guards, everApproved>>
     \/ run[r].prev \notin models /\ Raises(r)

-----------------------------------------------------------------------------

Interrupted(r) == run[r].pc # "idle" /\ Raises(r)

\* One command starts.
StartStep(r) ==
  \/ \E p \in Packages : Deploy(r, p) \/ RollbackCommand(r, p)
  \/ Teardown(r)

\* One command makes its next call.
RunStep(r) ==
  \/ EnsureRollbackAlarms(r) \/ EnsureModel(r) \/ EnsureEndpointConfig(r)
  \/ DecideAction(r) \/ SendCreate(r) \/ SendUpdate(r) \/ WaitInService(r)
  \/ SmokeTest(r) \/ ConfigureAutoscaling(r)
  \/ Rollback(r) \/ WaitRollback(r)
  \/ TeardownEndpoint(r) \/ TeardownConfig(r) \/ TeardownModel(r)

CommandStep(r) == (StartStep(r) \/ RunStep(r) \/ Interrupted(r)) /\ UNCHANGED approval

EndpointStep == ServiceStep /\ UNCHANGED <<approval, guards, run, everApproved>>

Next ==
  \/ \E p \in Packages : RegisterModelPackage(p) \/ SetApproval(p)
  \/ \E r \in Runs : CommandStep(r)
  \/ EndpointStep

Spec == Init /\ [][Next]_vars

\* A started command keeps making its calls; SageMaker owes nothing.
Fairness == \A r \in Runs : WF_vars(RunStep(r) /\ UNCHANGED approval)

FairSpec == Spec /\ Fairness

-----------------------------------------------------------------------------
(* Properties.                                                              *)

Serves(config) == endpoint.status = "InService" /\ endpoint.config = config

\* A stage that requires approval never holds, deploys, serves or shifts
\* traffic to anything that was never Approved, whatever commands overlap,
\* fail half way or roll back (release() refuses such a package before the
\* first call that changes something).
OnlyApprovedReachesTheStage ==
  RequireApproved =>
    /\ models \cup configs \subseteq everApproved
    /\ {endpoint.config, endpoint.target} \subseteq everApproved \cup {None}

\* The inductive form: what a deploy command works on was Approved when the
\* command read it, and the history remembers every approval.
ApprovedReleases ==
  /\ TypeOK
  /\ OnlyApprovedReachesTheStage
  /\ \A p \in Packages : approval[p] = "Approved" => p \in everApproved
  /\ \A r \in Runs :
       run[r].pc \in DeployCalls =>
         /\ run[r].pkg \in Packages
         /\ RequireApproved => run[r].pkg \in everApproved

\* The endpoint never refers to a configuration, nor a configuration to a
\* model, that has been deleted: delete() removes them from the outside in,
\* and deploy() creates them from the inside out, with interruptions anywhere.
NoDanglingReference ==
  /\ endpoint.status # "Absent" => endpoint.config \in configs
  /\ endpoint.target \in configs \cup {None}
  /\ configs \subseteq models

\* A release that created or updated the endpoint and reported success left
\* it InService on the released package, which answers sanely, with the
\* alarms and the scaling policy of the stage; it stays so until the next
\* command (wait_in_service tells an update that landed from one SageMaker
\* rolled back, which is InService as well).
ReleaseTakesEffect ==
  \A r \in Runs :
    run[r].result = "released" /\ run[r].act # "unchanged" =>
      /\ Serves(run[r].pkg)
      /\ run[r].pkg \in Healthy
      /\ StageGuards \subseteq guards

\* A rollback that completed, by the command or after a failed smoke test,
\* left the endpoint InService on the configuration it had to return to.
RollbackRestores ==
  \A r \in Runs : run[r].result = "rolledBack" => Serves(run[r].prev)

\* A smoke test that fails after an update never ends the release with the
\* updated endpoint left alone: the configuration to roll back to is another
\* one and still exists (old configurations are kept for this).
RollbackIsPossible ==
  \A r \in Runs :
    run[r].act = "updated" /\ run[r].pc \in {"wait_in_service", "smoke_test", "rollback"} =>
      run[r].prev # run[r].pkg /\ run[r].prev \in configs

\* A teardown that found the endpoint and ran to its end left no endpoint,
\* and neither the configuration nor the model it was serving.
TeardownRemovesAll ==
  \A r \in Runs :
    run[r].result = "tornDown" /\ run[r].prev # None =>
      endpoint = Absent /\ run[r].prev \notin models \cup configs

\* What the commands of a serialised stage keep true between any two calls.
\* The properties above speak of a few points of a command; these say what it
\* carries from call to call until it gets there, and what the service may
\* change meanwhile (nothing, once the endpoint is InService).

\* What a deploy has found or created stays: the alarms, the model, the
\* configuration.
DeployHasItsParts(r) ==
  LET left == DeployCalls \ {"ensure_rollback_alarms", "describe_model", "create_model"}
  IN  /\ run[r].pc \in left \cup {"describe_model", "create_model"} =>
           StageGuards \cap {"alarms"} \subseteq guards
      /\ run[r].pc \in left => run[r].pkg \in models
      /\ run[r].pc \in left \ {"describe_endpoint_config", "create_endpoint_config"} =>
           run[r].pkg \in configs

\* The request to update goes to an endpoint that serves something else, the
\* configuration a rollback will return to.
UpdateReplacesAnother(r) ==
  run[r].pc = "update_endpoint" => Serves(run[r].prev) /\ run[r].prev # run[r].pkg

\* From the end of the wait the endpoint serves the released package.
EndpointHasArrived(r) ==
  run[r].act # "unchanged" =>
    /\ run[r].pc \in {"smoke_test", "configure_autoscaling"} => Serves(run[r].pkg)
    /\ run[r].pc = "configure_autoscaling" => run[r].pkg \in Healthy

\* A teardown works inwards: each thing goes after what refers to it.
TeardownWorksInwards(r) ==
  /\ run[r].pc \in {"delete_endpoint_config", "delete_model"} => endpoint = Absent
  /\ run[r].pc = "delete_model" => run[r].prev \notin configs

\* The inductive form of the properties of a serialised stage.
StageInvariant ==
  /\ TypeOK
  /\ NoDanglingReference /\ ReleaseTakesEffect /\ RollbackRestores
  /\ RollbackIsPossible /\ TeardownRemovesAll
  /\ endpoint.status = "Updating" => endpoint.target # None
  /\ \A r \in Runs :
       /\ run[r].pc # "idle" => run[r].result = "none"
       /\ DeployHasItsParts(r) /\ UpdateReplacesAnother(r)
       /\ EndpointHasArrived(r) /\ TeardownWorksInwards(r)

\* Every command ends, even when SageMaker never finishes what it started:
\* the deadline of wait_in_service bounds each wait.
EveryCommandEnds ==
  \A r \in Runs : run[r].pc # "idle" ~> run[r].pc = "idle"

-----------------------------------------------------------------------------
(* What the documentation says, and the code does not keep.                 *)

\* README.md: deploying the same specification again is a no-op, and the
\* client checks that the endpoint ended on the released configuration.
\* Said of every reported release, "unchanged" ones included: until the next
\* command no other configuration takes the endpoint over.
ReportedReleaseStays ==
  \A r \in Runs : run[r].result = "released" => endpoint.config = run[r].pkg
=============================================================================
