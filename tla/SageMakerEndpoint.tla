-------------------------- MODULE SageMakerEndpoint --------------------------
(***************************************************************************)
(* The part of the SageMaker control plane that smdeploy drives, modelled  *)
(* from how the code in src/ uses it and from the scripted fake of its     *)
(* tests (sagemaker-byoc-deploy/tests/conftest.py): models and endpoint    *)
(* configurations are immutable named objects, the endpoint of a stage has *)
(* a status that the service changes on its own after a create or an       *)
(* update.  An update keeps the OLD configuration name until it lands.     *)
(*                                                                         *)
(* A stage gives model and endpoint configuration names that hash the      *)
(* specification of the package, so a package, its model and its           *)
(* configuration are one value of Packages here.                           *)
(***************************************************************************)
EXTENDS Naturals, FiniteSets

CONSTANTS
  Packages,   \* model packages, and with them models and configurations
  None        \* no package

ASSUME NoneAssumption == None \notin Packages

VARIABLES
  models,     \* the models that exist
  configs,    \* the endpoint configurations that exist
  endpoint    \* the endpoint of the stage

service == <<models, configs, endpoint>>

PackageOrNone == Packages \cup {None}

Statuses == {"Absent", "Creating", "InService", "Updating", "RollingBack",
             "Failed", "UpdateRollbackFailed"}

\* The record of an endpoint DescribeEndpoint does not find.
Absent == [status |-> "Absent", config |-> None, target |-> None]

ServiceTypeOK ==
  /\ models \subseteq Packages
  /\ configs \subseteq Packages
  /\ endpoint \in [status: Statuses, config: PackageOrNone, target: PackageOrNone]

ServiceInit == models = {} /\ configs = {} /\ endpoint = Absent

-----------------------------------------------------------------------------
(* Requests.  Each has the condition under which SageMaker accepts it; a    *)
(* request that is not accepted raises a ClientError in the caller.         *)

CanCreateModel(p) == p \notin models

CreateModel(p) ==
  /\ CanCreateModel(p)
  /\ models' = models \cup {p}
  /\ UNCHANGED <<configs, endpoint>>

CanCreateConfig(p) == p \notin configs /\ p \in models

CreateConfig(p) ==
  /\ CanCreateConfig(p)
  /\ configs' = configs \cup {p}
  /\ UNCHANGED <<models, endpoint>>

CanCreateEndpoint(p) == endpoint.status = "Absent" /\ p \in configs

CreateEndpoint(p) ==
  /\ CanCreateEndpoint(p)
  /\ endpoint' = [status |-> "Creating", config |-> p, target |-> None]
  /\ UNCHANGED <<models, configs>>

\* Only an InService endpoint can be updated (the message of
\* EndpointDeployer.deploy says so).
CanUpdateEndpoint(p) == endpoint.status = "InService" /\ p \in configs

UpdateEndpoint(p) ==
  /\ CanUpdateEndpoint(p)
  /\ endpoint' = [endpoint EXCEPT !.status = "Updating", !.target = p]
  /\ UNCHANGED <<models, configs>>

DeleteEndpoint ==
  /\ endpoint.status # "Absent"
  /\ endpoint' = Absent
  /\ UNCHANGED <<models, configs>>

DeleteConfig(p) ==
  /\ p \in configs
  /\ configs' = configs \ {p}
  /\ UNCHANGED <<models, endpoint>>

DeleteModel(p) ==
  /\ p \in models
  /\ models' = models \ {p}
  /\ UNCHANGED <<configs, endpoint>>

-----------------------------------------------------------------------------
(* What the service does by itself.                                         *)

Settles(status, config) ==
  /\ endpoint' = [status |-> status, config |-> config, target |-> None]
  /\ UNCHANGED <<models, configs>>

CreationEnds ==
  /\ endpoint.status = "Creating"
  /\ \E status \in {"InService", "Failed"} : Settles(status, endpoint.config)

\* The green fleet takes over: only now does the configuration name change.
UpdateLands ==
  /\ endpoint.status = "Updating"
  /\ Settles("InService", endpoint.target)

UpdateFails ==
  /\ endpoint.status = "Updating"
  /\ Settles("Failed", endpoint.config)

\* An alarm or a health check fires during the blue/green update.
AlarmFires ==
  /\ endpoint.status = "Updating"
  /\ endpoint' = [endpoint EXCEPT !.status = "RollingBack"]
  /\ UNCHANGED <<models, configs>>

AutoRollbackEnds ==
  /\ endpoint.status = "RollingBack"
  /\ \E status \in {"InService", "UpdateRollbackFailed"} :
        Settles(status, endpoint.config)

ServiceStep ==
  CreationEnds \/ UpdateLands \/ UpdateFails \/ AlarmFires \/ AutoRollbackEnds

\* The configurations whose containers may answer an InvokeEndpoint now:
\* during an update traffic is split between the old and the new fleet.
AnsweringFleets ==
  CASE endpoint.status = "InService" -> {endpoint.config}
    [] endpoint.status \in {"Updating", "RollingBack"} ->
         {endpoint.config, endpoint.target}
    [] OTHER -> {}
=============================================================================
