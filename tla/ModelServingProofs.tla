------------------------- MODULE ModelServingProofs -------------------------
(***************************************************************************)
(* Theorems of TrainingContainer, RequestCodecs and ModelServing, for any  *)
(* files, hyperparameters, packages, workers and requests.                 *)
(***************************************************************************)
EXTENDS ModelServing, TLAPS, WellFoundedInduction

Model      == [is: States, fit: Fit]
Evaluation == [is: States, sha: Fit, on: SUBSET Files]

\* What may be written to the directory, and to the state of the process.
LEMMA TreeFields ==
  ASSUME NEW t \in Tree
  PROVE  /\ \A y \in SUBSET Files : [t EXCEPT !.train = y] \in Tree
         /\ \A y \in SUBSET Files : [t EXCEPT !.validation = y] \in Tree
         /\ \A y \in Hyper : [t EXCEPT !.hyper = y] \in Tree
         /\ \A y \in Model : [t EXCEPT !.model = y] \in Tree
         /\ \A y \in Metadata : [t EXCEPT !.metadata = y] \in Tree
         /\ \A y \in Evaluation : [t EXCEPT !.evaluation = y] \in Tree
         /\ \A y \in BOOLEAN : [t EXCEPT !.failure = y] \in Tree
         /\ \A y \in BOOLEAN : [t EXCEPT !.checkpoints = y] \in Tree
         /\ \A y \in BOOLEAN : [t EXCEPT !.checkpoint = y] \in Tree
BY DEF Tree, Model, Evaluation

\* The fields of a training job.
LEMMA JobFields ==
  ASSUME NEW j \in Job
  PROVE  /\ \A y \in {"idle", "load", "fit", "evaluate", "dump", "dumping", "digest", "stamp",
                      "stamping", "report", "reporting"} : [j EXCEPT !.pc = y] \in Job
         /\ \A y \in {"none", "done", "failed", "killed"} : [j EXCEPT !.outcome = y] \in Job
         /\ \A y \in Fit : [j EXCEPT !.fit = y] \in Job
         /\ \A y \in Fit : [j EXCEPT !.sha = y] \in Job
         /\ \A y \in SUBSET Files : [j EXCEPT !.on = y] \in Job
         /\ \A y \in 0..MaxRuns : [j EXCEPT !.runs = y] \in Job
BY DEF Job

\* The records that stand for nothing are well typed.
LEMMA Empty ==
  NoFit \in Fit /\ NoTree \in Tree /\ NoJob \in Job /\ NoMetadata \in Metadata
<1>1. NoFit \in Fit
  BY TrainingAssumption DEF NoFit, Fit
<1>2. NoTree \in Tree
  <2>1. [label |-> "1", valid |-> TRUE, split |-> TRUE] \in Hyper
    BY TrainingAssumption DEF Hyper
  <2>2. [is |-> "absent", fit |-> NoFit] \in Model
    BY <1>1 DEF Model, States
  <2>3. [is |-> "absent", sha |-> NoFit, fit |-> NoFit, on |-> {}] \in Metadata
    BY <1>1 DEF Metadata, States
  <2>4. [is |-> "absent", sha |-> NoFit, on |-> {}] \in Evaluation
    BY <1>1 DEF Evaluation, States
  <2> QED
    BY <2>1, <2>2, <2>3, <2>4 DEF NoTree, Tree, Model, Evaluation
<1>3. NoJob \in Job
  <2>1. 0 \in 0..MaxRuns
    BY TrainingAssumption
  <2> QED
    BY <1>1, <2>1 DEF NoJob, Job
<1>4. NoMetadata \in Metadata
  BY <1>2 DEF NoMetadata, Tree
<1> QED
  BY <1>1, <1>2, <1>3, <1>4

\* Ending a training keeps its type.
LEMMA EndsType ==
  ASSUME TrainingTypeOK, NEW o \in {"none", "done", "failed", "killed"}, Ends(o)
  PROVE  job' \in Job /\ place' = place
<1>1. job \in Job
  BY DEF TrainingTypeOK
<1>2. [job EXCEPT !.pc = "idle"] \in Job
  BY <1>1, JobFields
<1>3. [[job EXCEPT !.pc = "idle"] EXCEPT !.outcome = o] \in Job
  BY <1>2, JobFields
<1>4. [[[job EXCEPT !.pc = "idle"] EXCEPT !.outcome = o] EXCEPT !.fit = NoFit] \in Job
  BY <1>3, Empty, JobFields
<1>5. [[[[job EXCEPT !.pc = "idle"] EXCEPT !.outcome = o] EXCEPT !.fit = NoFit]
          EXCEPT !.sha = NoFit] \in Job
  BY <1>4, Empty, JobFields
<1>6. [[[[[job EXCEPT !.pc = "idle"] EXCEPT !.outcome = o] EXCEPT !.fit = NoFit]
          EXCEPT !.sha = NoFit] EXCEPT !.on = {}] \in Job
  BY <1>5, JobFields
<1> QED
  BY <1>6 DEF Ends

\* So does an error, with its failure file.
LEMMA RaiseType ==
  ASSUME TrainingTypeOK, Raise
  PROVE  TrainingTypeOK'
<1>1. job' \in Job /\ place' = place
  BY EndsType DEF Raise
<1>2. tree' \in Tree
  BY TreeFields DEF Raise, TrainingTypeOK
<1> QED
  BY <1>1, <1>2 DEF TrainingTypeOK

\* The parts of a typed directory and process.
LEMMA Parts ==
  ASSUME TrainingTypeOK
  PROVE  /\ tree \in Tree /\ job \in Job
         /\ tree.model \in Model /\ tree.metadata \in Metadata /\ tree.evaluation \in Evaluation
         /\ tree.train \in SUBSET Files /\ tree.validation \in SUBSET Files /\ tree.hyper \in Hyper
         /\ tree.checkpoints \in BOOLEAN /\ tree.checkpoint \in BOOLEAN /\ tree.failure \in BOOLEAN
         /\ job.fit \in Fit /\ job.sha \in Fit /\ job.on \in SUBSET Files /\ job.runs \in 0..MaxRuns
BY DEF TrainingTypeOK, Tree, Job, Model, Evaluation

\* Writing one file keeps the directory typed.
LEMMA FileType ==
  ASSUME TrainingTypeOK, NEW is \in States
  PROVE  /\ \A f \in Fit : [tree EXCEPT !.model = [is |-> is, fit |-> f]] \in Tree
         /\ [tree EXCEPT !.model.is = is] \in Tree
         /\ [tree EXCEPT !.metadata.is = is] \in Tree
         /\ [tree EXCEPT !.evaluation.is = is] \in Tree
         /\ [tree EXCEPT !.metadata = [is |-> is, sha |-> job.sha, fit |-> job.fit, on |-> job.on]] \in Tree
         /\ [tree EXCEPT !.evaluation = [is |-> is, sha |-> job.sha, on |-> job.on]] \in Tree
<1>1. \A f \in Fit : [is |-> is, fit |-> f] \in Model
  BY DEF Model
<1>2. [tree.model EXCEPT !.is = is] \in Model
  BY Parts DEF Model
<1>3. [tree.metadata EXCEPT !.is = is] \in Metadata
  BY Parts DEF Metadata
<1>4. [tree.evaluation EXCEPT !.is = is] \in Evaluation
  BY Parts DEF Evaluation
<1>5. [is |-> is, sha |-> job.sha, fit |-> job.fit, on |-> job.on] \in Metadata
  BY Parts DEF Metadata
<1>6. [is |-> is, sha |-> job.sha, on |-> job.on] \in Evaluation
  BY Parts DEF Evaluation
<1>7. tree \in Tree
  BY Parts
<1>8. \A f \in Fit : [tree EXCEPT !.model = [is |-> is, fit |-> f]] \in Tree
  BY <1>1, <1>7, TreeFields
<1>9. [tree EXCEPT !.model.is = is] \in Tree
  BY <1>2, <1>7, TreeFields
<1>10. [tree EXCEPT !.metadata.is = is] \in Tree
  BY <1>3, <1>7, TreeFields
<1>11. [tree EXCEPT !.evaluation.is = is] \in Tree
  BY <1>4, <1>7, TreeFields
<1> QED
  BY <1>5, <1>6, <1>7, <1>8, <1>9, <1>10, <1>11, TreeFields

\* So does the start of a training.
LEMMA BeginType ==
  ASSUME TrainingTypeOK, NEW where, Begin(where)
  PROVE  job' \in Job /\ place' = place
<1>1. job.runs + 1 \in 0..MaxRuns
  BY Parts, TrainingAssumption DEF Begin
<1>2. [NoJob EXCEPT !.pc = "load"] \in Job
  BY Empty, JobFields
<1>3. [[NoJob EXCEPT !.pc = "load"] EXCEPT !.runs = job.runs + 1] \in Job
  BY <1>1, <1>2, JobFields
<1> QED
  BY <1>3 DEF Begin

\* Each step of a training keeps the types of job and tree.
LEMMA TrainingTypeStep ==
  ASSUME TrainingTypeOK, TrainingNext
  PROVE  TrainingTypeOK'
<1>1. ASSUME NEW train \in SUBSET Files, NEW validation \in SUBSET Files, NEW h \in Hypers,
             Launch(train, validation, h)
      PROVE  TrainingTypeOK'
  <2>0. h \in Hyper
    BY TrainingAssumption
  <2>1. [NoTree EXCEPT !.train = train] \in Tree
    BY Empty, TreeFields
  <2>2. [[NoTree EXCEPT !.train = train] EXCEPT !.validation = validation] \in Tree
    BY <2>1, TreeFields
  <2>3. [[[NoTree EXCEPT !.train = train] EXCEPT !.validation = validation] EXCEPT !.hyper = h] \in Tree
    BY <2>0, <2>2, TreeFields
  <2> QED
    BY <1>1, <2>3, BeginType DEF Launch, TrainingTypeOK
<1>2. ASSUME NEW f \in Files, NEW validation \in SUBSET Files, NEW h \in Hypers,
             Layout(f, validation, h)
      PROVE  TrainingTypeOK'
  <2>0. h \in Hyper /\ tree.train \cup {f} \in SUBSET Files /\ tree.validation \cup validation \in SUBSET Files
    BY Parts, TrainingAssumption
  <2> DEFINE a == [tree EXCEPT !.train = tree.train \cup {f}]
             b == [a EXCEPT !.validation = tree.validation \cup validation]
             c == [b EXCEPT !.hyper = h]
             d == [c EXCEPT !.checkpoints = TRUE]
  <2>1. a \in Tree
    BY <2>0, Parts, TreeFields
  <2>2. b \in Tree
    BY <2>0, <2>1, TreeFields
  <2>3. c \in Tree
    BY <2>0, <2>2, TreeFields
  <2>4. d \in Tree
    BY <2>3, TreeFields
  <2>5. tree' = d
    BY <1>2, Parts DEF Layout, Tree
  <2> QED
    BY <1>2, <2>4, <2>5, BeginType DEF Layout, TrainingTypeOK
<1>3. ASSUME Load PROVE TrainingTypeOK'
  <2>1. CASE Raise
    BY <2>1, RaiseType
  <2> DEFINE held == IF tree.validation # {} THEN tree.validation
                     ELSE IF tree.hyper.split THEN tree.train ELSE {}
             fit  == [rows |-> tree.train, split |-> tree.validation = {} /\ tree.hyper.split,
                      label |-> Printed(tree.hyper.label)]
  <2>2. CASE /\ job' = [job EXCEPT !.pc = "fit", !.on = held, !.fit = fit]
             /\ UNCHANGED <<place, tree>>
    <3>1. held \in SUBSET Files
      BY Parts
    <3>2. fit \in Fit
      <4>1. Printed(tree.hyper.label) \in Texts /\ tree.hyper.split \in BOOLEAN
        BY Parts, TrainingAssumption DEF Printed, Hyper
      <4> QED
        BY <4>1, Parts DEF Fit
    <3>3. [job EXCEPT !.pc = "fit"] \in Job
      BY Parts, JobFields
    <3>4. [[job EXCEPT !.pc = "fit"] EXCEPT !.on = held] \in Job
      BY <3>1, <3>3, JobFields
    <3>5. [[[job EXCEPT !.pc = "fit"] EXCEPT !.on = held] EXCEPT !.fit = fit] \in Job
      BY <3>2, <3>4, JobFields
    <3> QED
      BY <2>2, <3>5 DEF TrainingTypeOK
  <2> QED
    BY <1>3, <2>1, <2>2 DEF Load
<1>4. ASSUME FitModel PROVE TrainingTypeOK'
  <2>1. job' \in Job /\ place' = place
    BY <1>4, Parts, JobFields DEF FitModel, Step
  <2>2. (tree.checkpoint \/ tree.checkpoints) \in BOOLEAN
    OBVIOUS
  <2>3. tree' \in Tree
    BY <1>4, <2>2, Parts, TreeFields DEF FitModel
  <2> QED
    BY <2>1, <2>3 DEF TrainingTypeOK
<1>5. ASSUME Evaluate PROVE TrainingTypeOK'
  <2>1. CASE Raise
    BY <2>1, RaiseType
  <2>2. CASE Step("evaluate", "dump") /\ UNCHANGED tree
    BY <2>2, Parts, JobFields DEF Step, TrainingTypeOK
  <2> QED
    BY <1>5, <2>1, <2>2 DEF Evaluate
<1>6. ASSUME OpenModel PROVE TrainingTypeOK'
  BY <1>6, Parts, JobFields, FileType DEF OpenModel, Step, TrainingTypeOK, States
<1>7. ASSUME DumpModel PROVE TrainingTypeOK'
  BY <1>7, Parts, JobFields, FileType DEF DumpModel, Step, TrainingTypeOK, States
<1>8. ASSUME Digest PROVE TrainingTypeOK'
  <2>1. tree.model.fit \in Fit
    BY Parts DEF Model
  <2>2. [job EXCEPT !.pc = "stamp"] \in Job
    BY Parts, JobFields
  <2>3. [[job EXCEPT !.pc = "stamp"] EXCEPT !.sha = tree.model.fit] \in Job
    BY <2>1, <2>2, JobFields
  <2> QED
    BY <1>8, <2>3 DEF Digest, TrainingTypeOK
<1>9. ASSUME OpenMetadata PROVE TrainingTypeOK'
  BY <1>9, Parts, JobFields, FileType DEF OpenMetadata, Step, TrainingTypeOK, States
<1>10. ASSUME StampMetadata PROVE TrainingTypeOK'
  BY <1>10, Parts, JobFields, FileType DEF StampMetadata, Step, TrainingTypeOK, States
<1>11. ASSUME WriteEvaluation PROVE TrainingTypeOK'
  <2>1. CASE Step("report", "reporting")
             /\ tree' = [tree EXCEPT !.evaluation = [is |-> "partial", sha |-> job.sha, on |-> job.on]]
    BY <2>1, Parts, JobFields, FileType DEF Step, TrainingTypeOK, States
  <2>2. CASE Ends("done") /\ tree' = [tree EXCEPT !.evaluation.is = "whole"]
    BY <2>2, EndsType, FileType DEF TrainingTypeOK, States
  <2> QED
    BY <1>11, <2>1, <2>2 DEF WriteEvaluation
<1>12. ASSUME Fails PROVE TrainingTypeOK'
  BY <1>12, RaiseType DEF Fails
<1>13. ASSUME Kill PROVE TrainingTypeOK'
  BY <1>13, EndsType DEF Kill, TrainingTypeOK
<1> QED
  BY <1>1, <1>2, <1>3, <1>4, <1>5, <1>6, <1>7, <1>8, <1>9, <1>10, <1>11, <1>12, <1>13
     DEF TrainingNext, TrainingStep

(***************************************************************************)
(* What a training run leaves, and how far it has come.                    *)
(***************************************************************************)
TreeStamped ==
  /\ tree.metadata.sha = tree.metadata.fit
  /\ tree.model.is = "whole" => tree.model.fit # NoFit

TrainingInvariant ==
  /\ TrainingTypeOK /\ TrainingInOrder /\ TreeStamped
  /\ SuccessIsLoadable /\ FailureIsExplained

\* The fields of a job that ends.
LEMMA EndsFields ==
  ASSUME job \in Job, NEW o, Ends(o)
  PROVE  /\ job'.pc = "idle" /\ job'.outcome = o /\ job'.runs = job.runs
         /\ place' = place
BY DEF Ends, Job

\* An error leaves its reason and nothing that looks like a success.
LEMMA RaiseKeeps ==
  ASSUME TrainingInvariant, job.pc # "idle", Raise
  PROVE  TrainingInvariant'
<1>1. TrainingTypeOK'
  BY RaiseType DEF TrainingInvariant
<1>2. /\ job'.pc = "idle" /\ job'.outcome = "failed" /\ place' = place /\ place # "hosting"
  BY EndsFields DEF Raise, TrainingInvariant, TrainingTypeOK, TrainingInOrder
<1>3. /\ tree'.failure /\ tree'.model = tree.model /\ tree'.metadata = tree.metadata
  BY DEF Raise, TrainingInvariant, TrainingTypeOK, Tree
<1> QED
  BY <1>1, <1>2, <1>3 DEF TrainingInvariant, TrainingInOrder, TreeStamped, SuccessIsLoadable,
     FailureIsExplained

\* A step of the process that changes pc and one file.
LEMMA TrainingKeeps ==
  ASSUME TrainingInvariant, TrainingNext
  PROVE  TrainingInvariant'
<1> USE DEF TrainingInvariant
<1>0. TrainingTypeOK' /\ tree \in Tree /\ job \in Job
  BY TrainingTypeStep DEF TrainingTypeOK
<1>1. ASSUME NEW train \in SUBSET Files, NEW validation \in SUBSET Files, NEW h \in Hypers,
             Launch(train, validation, h)
      PROVE  TrainingInvariant'
  <2>1. job'.pc = "load" /\ job'.outcome = "none" /\ place' = place /\ place = "training"
    BY <1>1 DEF Launch, Begin, NoJob
  <2>2. ~tree'.failure /\ tree'.model = NoTree.model /\ tree'.metadata = NoTree.metadata
    BY <1>1 DEF Launch, NoTree
  <2> QED
    BY <1>0, <2>1, <2>2 DEF TrainingInOrder, TreeStamped, SuccessIsLoadable, FailureIsExplained, NoTree
<1>2. ASSUME NEW f \in Files, NEW validation \in SUBSET Files, NEW h \in Hypers,
             Layout(f, validation, h)
      PROVE  TrainingInvariant'
  <2>1. job'.pc = "load" /\ job'.outcome = "none" /\ place' = place /\ place = "local"
    BY <1>2 DEF Layout, Begin, NoJob
  <2>2. tree'.model = tree.model /\ tree'.metadata = tree.metadata
    BY <1>0, <1>2 DEF Layout, Tree
  <2> QED
    BY <1>0, <2>1, <2>2 DEF TrainingInOrder, TreeStamped, SuccessIsLoadable, FailureIsExplained
<1>3. ASSUME Load PROVE TrainingInvariant'
  <2>1. CASE Raise
    BY <1>3, <2>1, RaiseKeeps DEF Load
  <2>2. CASE ~Raise
    <3>1. /\ job'.pc = "fit" /\ job'.outcome = job.outcome /\ job'.runs = job.runs
          /\ job'.fit.rows = tree.train /\ tree.train # {} /\ UNCHANGED <<place, tree>>
      <4> DEFINE held == IF tree.validation # {} THEN tree.validation
                         ELSE IF tree.hyper.split THEN tree.train ELSE {}
                 fit  == [rows |-> tree.train, split |-> tree.validation = {} /\ tree.hyper.split,
                          label |-> Printed(tree.hyper.label)]
      <4>1. job' = [job EXCEPT !.pc = "fit", !.on = held, !.fit = fit] /\ UNCHANGED <<place, tree>>
        BY <1>3, <2>2 DEF Load
      <4>2. fit.rows = tree.train
        OBVIOUS
      <4> HIDE DEF held, fit
      <4>3. /\ job'.pc = "fit" /\ job'.outcome = job.outcome /\ job'.runs = job.runs
            /\ job'.fit = fit
        BY <1>0, <4>1 DEF Job
      <4>4. tree.train # {}
        BY <1>3, <2>2 DEF Load
      <4> QED
        BY <4>1, <4>2, <4>3, <4>4
    <3>2. job'.fit # NoFit
      BY <3>1 DEF NoFit
    <3> QED
      BY <1>0, <1>3, <3>1, <3>2 DEF Load, TrainingInOrder, TreeStamped, SuccessIsLoadable, FailureIsExplained
  <2> QED
    BY <2>1, <2>2
<1>4. ASSUME FitModel PROVE TrainingInvariant'
  <2>1. /\ job.pc = "fit" /\ job'.pc = "evaluate" /\ job'.outcome = job.outcome
        /\ job'.runs = job.runs /\ job'.fit = job.fit /\ place' = place
    BY <1>0, <1>4 DEF FitModel, Step, Job
  <2>2. /\ tree'.failure = tree.failure /\ tree'.model = tree.model /\ tree'.metadata = tree.metadata
    BY <1>0, <1>4 DEF FitModel, Tree
  <2> QED
    BY <1>0, <2>1, <2>2 DEF TrainingInOrder, TreeStamped, SuccessIsLoadable, FailureIsExplained
<1>5. ASSUME Evaluate PROVE TrainingInvariant'
  <2>1. CASE Raise
    BY <1>5, <2>1, RaiseKeeps DEF Evaluate
  <2>2. CASE ~Raise
    <3>1. /\ job.pc = "evaluate" /\ job'.pc = "dump" /\ job'.outcome = job.outcome
          /\ job'.runs = job.runs /\ job'.fit = job.fit /\ place' = place /\ tree' = tree
      BY <1>0, <1>5, <2>2 DEF Evaluate, Step, Job
    <3> QED
      BY <1>0, <3>1 DEF TrainingInOrder, TreeStamped, SuccessIsLoadable, FailureIsExplained
  <2> QED
    BY <2>1, <2>2
<1>6. ASSUME OpenModel PROVE TrainingInvariant'
  <2>1. /\ job.pc = "dump" /\ job'.pc = "dumping" /\ job'.outcome = job.outcome
        /\ job'.runs = job.runs /\ job'.fit = job.fit /\ place' = place
    BY <1>0, <1>6 DEF OpenModel, Step, Job
  <2>2. /\ tree'.failure = tree.failure /\ tree'.model = [is |-> "partial", fit |-> job.fit]
        /\ tree'.metadata = tree.metadata
    BY <1>0, <1>6 DEF OpenModel, Tree
  <2> QED
    BY <1>0, <2>1, <2>2 DEF TrainingInOrder, TreeStamped, SuccessIsLoadable, FailureIsExplained
<1>7. ASSUME DumpModel PROVE TrainingInvariant'
  <2>1. /\ job.pc = "dumping" /\ job'.pc = "digest" /\ job'.outcome = job.outcome
        /\ job'.runs = job.runs /\ job'.fit = job.fit /\ place' = place
    BY <1>0, <1>7 DEF DumpModel, Step, Job
  <2>2. /\ tree'.failure = tree.failure /\ tree'.model = [tree.model EXCEPT !.is = "whole"]
        /\ tree'.metadata = tree.metadata
    BY <1>0, <1>7 DEF DumpModel, Tree
  <2>3. tree'.model = [is |-> "whole", fit |-> job.fit]
    BY <2>1, <2>2 DEF TrainingInOrder
  <2> QED
    BY <1>0, <2>1, <2>2, <2>3 DEF TrainingInOrder, TreeStamped, SuccessIsLoadable, FailureIsExplained
<1>8. ASSUME Digest PROVE TrainingInvariant'
  <2>1. /\ job.pc = "digest" /\ job'.pc = "stamp" /\ job'.outcome = job.outcome
        /\ job'.runs = job.runs /\ job'.fit = job.fit /\ job'.sha = tree.model.fit
        /\ place' = place /\ tree' = tree
    BY <1>0, <1>8 DEF Digest, Job
  <2> QED
    BY <1>0, <2>1 DEF TrainingInOrder, TreeStamped, SuccessIsLoadable, FailureIsExplained
<1>9. ASSUME OpenMetadata PROVE TrainingInvariant'
  <2>1. /\ job.pc = "stamp" /\ job'.pc = "stamping" /\ job'.outcome = job.outcome
        /\ job'.runs = job.runs /\ job'.fit = job.fit /\ job'.sha = job.sha /\ job'.on = job.on
        /\ place' = place
    BY <1>0, <1>9 DEF OpenMetadata, Step, Job
  <2>2. /\ tree'.failure = tree.failure /\ tree'.model = tree.model
        /\ tree'.metadata = [is |-> "partial", sha |-> job.sha, fit |-> job.fit, on |-> job.on]
    BY <1>0, <1>9 DEF OpenMetadata, Tree
  <2> QED
    BY <1>0, <2>1, <2>2 DEF TrainingInOrder, TreeStamped, SuccessIsLoadable, FailureIsExplained
<1>10. ASSUME StampMetadata PROVE TrainingInvariant'
  <2>1. /\ job.pc = "stamping" /\ job'.pc = "report" /\ job'.outcome = job.outcome
        /\ job'.runs = job.runs /\ job'.fit = job.fit /\ job'.sha = job.sha /\ job'.on = job.on
        /\ place' = place
    BY <1>0, <1>10 DEF StampMetadata, Step, Job
  <2>2. /\ tree'.failure = tree.failure /\ tree'.model = tree.model
        /\ tree'.metadata = [tree.metadata EXCEPT !.is = "whole"]
    BY <1>0, <1>10 DEF StampMetadata, Tree
  <2>3. tree'.metadata = [is |-> "whole", sha |-> job.sha, fit |-> job.fit, on |-> job.on]
    BY <2>1, <2>2 DEF TrainingInOrder
  <2> QED
    BY <1>0, <2>1, <2>2, <2>3 DEF TrainingInOrder, TreeStamped, SuccessIsLoadable, FailureIsExplained
<1>11. ASSUME WriteEvaluation PROVE TrainingInvariant'
  <2>1. CASE /\ Step("report", "reporting")
             /\ tree' = [tree EXCEPT !.evaluation = [is |-> "partial", sha |-> job.sha, on |-> job.on]]
    <3>1. /\ job.pc = "report" /\ job'.pc = "reporting" /\ job'.outcome = job.outcome
          /\ job'.runs = job.runs /\ job'.fit = job.fit /\ job'.sha = job.sha /\ job'.on = job.on
          /\ place' = place
      BY <1>0, <2>1 DEF Step, Job
    <3>2. /\ tree'.failure = tree.failure /\ tree'.model = tree.model /\ tree'.metadata = tree.metadata
          /\ tree'.evaluation = [is |-> "partial", sha |-> job.sha, on |-> job.on]
      BY <1>0, <2>1 DEF Tree
    <3> QED
      BY <1>0, <3>1, <3>2 DEF TrainingInOrder, TreeStamped, SuccessIsLoadable, FailureIsExplained
  <2>2. CASE /\ job.pc = "reporting" /\ Ends("done")
             /\ tree' = [tree EXCEPT !.evaluation.is = "whole"]
    <3>1. job'.pc = "idle" /\ job'.outcome = "done" /\ job'.runs = job.runs /\ place' = place
      BY <1>0, <2>2, EndsFields
    <3>2. /\ tree'.failure = tree.failure /\ tree'.model = tree.model /\ tree'.metadata = tree.metadata
          /\ tree'.evaluation = [tree.evaluation EXCEPT !.is = "whole"]
      BY <1>0, <2>2 DEF Tree
    <3>3. tree'.evaluation = [is |-> "whole", sha |-> job.sha, on |-> job.on]
      BY <2>2, <3>2 DEF TrainingInOrder
    <3> QED
      BY <1>0, <2>2, <3>1, <3>2, <3>3
         DEF TrainingInOrder, TreeStamped, SuccessIsLoadable, FailureIsExplained
  <2> QED
    BY <1>11, <2>1, <2>2 DEF WriteEvaluation
<1>12. ASSUME Fails PROVE TrainingInvariant'
  BY <1>12, RaiseKeeps DEF Fails
<1>13. ASSUME Kill PROVE TrainingInvariant'
  <2>1. /\ job.pc # "idle" /\ job'.pc = "idle" /\ job'.outcome = "killed"
        /\ job'.runs = job.runs /\ place' = place /\ tree' = tree
    BY <1>0, <1>13, EndsFields DEF Kill
  <2> QED
    BY <1>0, <2>1 DEF TrainingInOrder, TreeStamped, SuccessIsLoadable, FailureIsExplained
<1> QED
  BY <1>1, <1>2, <1>3, <1>4, <1>5, <1>6, <1>7, <1>8, <1>9, <1>10, <1>11, <1>12, <1>13
     DEF TrainingNext, TrainingStep

(***************************************************************************)
(* What a request is answered with.                                        *)
(***************************************************************************)

\* The type that is negotiated exists.
LEMMA FirstSupported ==
  ASSUME NEW accept \in Seq(Media \cup {"any", "other"}),
         NEW n \in DOMAIN accept, accept[n] \in Media
  PROVE  \E i \in DOMAIN accept : accept[i] \in Media /\ \A j \in 1..(i - 1) : accept[j] \notin Media
<1> DEFINE supported == {i \in DOMAIN accept : accept[i] \in Media}
<1>1. DOMAIN accept = 1..Len(accept) /\ Len(accept) \in Nat
  OBVIOUS
<1>2. supported \in SUBSET Nat /\ supported # {}
  BY <1>1
<1>3. \E i \in supported : \A j \in supported : <<j, i>> \notin OpToRel(<, Nat)
  BY <1>2, NatLessThanWellFounded, WFMin
<1>4. PICK i \in supported : \A j \in supported : <<j, i>> \notin OpToRel(<, Nat)
  BY <1>3
<1>5. \A j \in supported : ~(j < i)
  BY <1>2, <1>4 DEF OpToRel
<1>6. \A j \in 1..(i - 1) : accept[j] \notin Media
  BY <1>1, <1>5
<1> QED
  BY <1>6

\* A media type that is negotiated is one the request accepts.
LEMMA NegotiatedIsAccepted ==
  ASSUME NEW r \in Request, Acceptable(r)
  PROVE  /\ NegotiateAccept(r.accept) \in Media
         /\ \/ \E i \in DOMAIN r.accept : r.accept[i] = NegotiateAccept(r.accept)
            \/ /\ NegotiateAccept(r.accept) = "json"
               /\ r.accept = <<>> \/ \E i \in DOMAIN r.accept : r.accept[i] = "any"
<1>1. CASE r.accept = <<>> \/ \E i \in DOMAIN r.accept : r.accept[i] = "any"
  BY <1>1 DEF NegotiateAccept, Media
<1>2. CASE ~(r.accept = <<>> \/ \E i \in DOMAIN r.accept : r.accept[i] = "any")
  <2>1. r.accept \in Seq(Media \cup {"any", "other"})
    BY DEF Request
  <2>2. PICK n \in DOMAIN r.accept : r.accept[n] \in Media
    BY <1>2 DEF Acceptable
  <2> DEFINE First(i) == r.accept[i] \in Media /\ \A j \in 1..(i - 1) : r.accept[j] \notin Media
             first == CHOOSE i \in DOMAIN r.accept : First(i)
  <2>3. \E i \in DOMAIN r.accept : First(i)
    BY <2>1, <2>2, FirstSupported
  <2>4. first \in DOMAIN r.accept /\ First(first)
    BY <2>3
  <2>5. NegotiateAccept(r.accept) = r.accept[first]
    BY <1>2 DEF NegotiateAccept
  <2> QED
    BY <2>4, <2>5
<1> QED
  BY <1>1, <1>2

\* What the pandas constructor does not take.
Misshapen(r) ==
  r.media = "json" /\ r.body.layout \in {"dataframe_split", "inputs"} /\ ~r.body.fits

\* What decoding gives, or why it does not.
LEMMA DecodingIsAccounted ==
  ASSUME NEW r \in Request
  PROVE  LET frame == DecodeRequest(r)
         IN  /\ frame.status \in {200, 400, 415, 500}
             /\ frame.status = 200 => /\ r.body.size # "empty" /\ r.decodes /\ r.body.parses
                                      /\ frame.rows = r.body.rows
                                      /\ frame.complete <=> GivesFeatures(r)
             /\ frame.status = 400 => BadBody(r)
             /\ frame.status = 415 => r.media = "other"
             /\ frame.status = 500 =>
                  ~r.decodes \/ Misshapen(r)
<1> DEFINE Right(frame) ==
             /\ frame.status \in {200, 400, 415, 500}
             /\ frame.status = 200 => /\ r.body.parses /\ frame.rows = r.body.rows
                                      /\ frame.complete <=> GivesFeatures(r)
             /\ frame.status = 415 => r.media = "other"
             /\ frame.status = 400 => BadBody(r)
             /\ frame.status = 500 => Misshapen(r)
<1>0. /\ r.media \in Media \cup {"none", "other"} /\ r.body \in Body /\ r.header \in BOOLEAN
      /\ r.body.layout \in Layouts /\ r.body.complete \in BOOLEAN
  BY DEF Request, Body
<1>1. CASE MediaType(r) = "csv"
  <2>1. Right(DecodeCsv(r.body, r.header))
    <3> DEFINE frame == DecodeCsv(r.body, r.header)
    <3>0. BadBody(r) => Right(Refused(400))
      BY DEF Refused
    <3>1. CASE ~r.body.parses
      <4>1. frame = Refused(400) /\ BadBody(r)
        BY <3>1 DEF DecodeCsv, BadBody
      <4> QED
        BY <3>0, <4>1
    <3>2. CASE r.body.parses /\ r.header
      <4>1. r.body.complete <=> GivesFeatures(r)
        BY <1>0, <1>1, <3>2 DEF GivesFeatures, MediaType
      <4>2. r.body.parses /\ frame.status = 200 /\ frame.rows = r.body.rows
        BY <1>0, <3>2 DEF DecodeCsv, Frame
      <4>3. frame.complete <=> GivesFeatures(r)
        BY <1>0, <3>2, <4>1 DEF DecodeCsv, Frame
      <4> QED
        BY <4>2, <4>3
    <3>3. CASE r.body.parses /\ ~r.header /\ ~r.body.fits
      <4>1. frame = Refused(400) /\ BadBody(r)
        BY <1>1, <3>3 DEF DecodeCsv, BadBody, GivesFeatures, MediaType
      <4> QED
        BY <3>0, <4>1
    <3>4. CASE r.body.parses /\ ~r.header /\ r.body.fits
      <4>1. CASE r.body.headed
        <5>1. frame = Refused(400) /\ BadBody(r)
          BY <1>1, <3>4, <4>1 DEF DecodeCsv, BadBody, GivesFeatures, MediaType
        <5> QED
          BY <3>0, <5>1
      <4>2. CASE ~r.body.headed
        <5>1. GivesFeatures(r)
          BY <1>1, <3>4, <4>2 DEF GivesFeatures, MediaType
        <5>2. frame.status = 200 /\ frame.rows = r.body.rows /\ frame.complete
          BY <3>4, <4>2 DEF DecodeCsv, Frame
        <5> QED
          BY <3>4, <5>1, <5>2
      <4> QED
        BY <4>1, <4>2
    <3> QED
      BY <3>1, <3>2, <3>3, <3>4
  <2> QED
    BY <1>1, <2>1 DEF DecodeRequest, DecodeText, Refused, BadBody
<1>2. CASE MediaType(r) = "json"
  <2>0. r.media = "json"
    BY <1>0, <1>2 DEF MediaType, Media
  <2>1. CASE r.body.layout \in {"instances", "dataframe_records", "list"}
    <3>1. r.body.parses => Right(RecordsOrRows(r.body))
      BY <1>0, <1>2, <2>0, <2>1 DEF RecordsOrRows, Frame, Refused, GivesFeatures, BadBody, Misshapen, Body
    <3>2. Right(DecodeJson(r.body))
      BY <1>0, <2>1, <3>1 DEF DecodeJson, Refused, BadBody, Body, Layouts
    <3> QED
      BY <1>2, <3>2 DEF DecodeRequest, DecodeText, Refused, BadBody
  <2>2. CASE r.body.layout \in {"dataframe_split", "inputs"}
    <3>1. Right(DecodeJson(r.body))
      <4>1. CASE ~r.body.parses
        BY <4>1 DEF DecodeJson, Refused, BadBody
      <4>2. CASE r.body.parses /\ r.body.layout = "dataframe_split" /\ r.body.items = "none"
        <5>1. ~GivesFeatures(r)
          BY <2>0, <4>2 DEF GivesFeatures, MediaType
        <5>2. DecodeJson(r.body) = Refused(400)
          BY <4>2 DEF DecodeJson
        <5> QED
          BY <5>1, <5>2 DEF Refused, BadBody
      <4>3. CASE r.body.parses /\ ~(r.body.layout = "dataframe_split" /\ r.body.items = "none")
        <5>1. DecodeJson(r.body) = Constructed(r.body)
          BY <2>2, <4>3 DEF DecodeJson
        <5>2. Right(Constructed(r.body))
          <6>1. GivesFeatures(r) <=> r.body.fits /\ r.body.complete
            BY <2>0, <2>2, <4>3 DEF GivesFeatures, MediaType
          <6>2. CASE r.body.fits
            BY <1>0, <4>3, <6>1, <6>2 DEF Constructed, Frame
          <6>3. CASE ~r.body.fits
            BY <2>0, <2>2, <6>3 DEF Constructed, Refused, Misshapen
          <6> QED
            BY <6>2, <6>3
        <5> QED
          BY <5>1, <5>2
      <4> QED
        BY <4>1, <4>2, <4>3
    <3> QED
      BY <1>2, <3>1 DEF DecodeRequest, DecodeText, Refused, BadBody
  <2>3. CASE r.body.layout = "other"
    <3>1. DecodeJson(r.body) = Refused(400) /\ BadBody(r)
      BY <2>0, <2>3 DEF DecodeJson, BadBody, GivesFeatures, MediaType
    <3> QED
      BY <1>2, <3>1 DEF DecodeRequest, DecodeText, Refused, BadBody
  <2> QED
    BY <1>0, <2>1, <2>2, <2>3 DEF Layouts
<1>3. CASE MediaType(r) = "jsonlines"
  <2>0. r.media = "jsonlines"
    BY <1>0, <1>3 DEF MediaType, Media
  <2>1. r.body.parses => Right(RecordsOrRows(r.body))
    BY <1>0, <1>3, <2>0 DEF RecordsOrRows, Frame, Refused, GivesFeatures, BadBody, Misshapen, Body
  <2>2. Right(DecodeJsonlines(r.body))
    BY <2>1 DEF DecodeJsonlines, Refused, BadBody
  <2> QED
    BY <1>3, <2>2 DEF DecodeRequest, DecodeText, Refused, BadBody
<1>4. CASE MediaType(r) = "other"
  <2>1. r.media = "other"
    BY <1>0, <1>4 DEF MediaType, Media
  <2> QED
    BY <1>4, <2>1 DEF DecodeRequest, DecodeText, Refused, BadBody
<1> QED
  BY <1>0, <1>1, <1>2, <1>3, <1>4 DEF MediaType, Media

\* The answer of a worker that has a model.
LEMMA InvocationIsAccounted ==
  ASSUME NEW r \in Request, r.declared # "large"
  PROVE  /\ Invocation(r) \in [status: Nat, media: Media]
         /\ Invocation(r).status # 503
         /\ Accounted(r, Invocation(r).status, Invocation(r).media)
<1>0. /\ r.body.rows \in 0..1 /\ r.body.scorable \in BOOLEAN
  BY DEF Request, Body
<1>1. CASE r.body.size = "large"
  <2>1. Invocation(r) = Answer(413, "json")
    BY <1>1 DEF Invocation
  <2> QED
    BY <1>1, <2>1 DEF Answer, Accounted, Media
<1>2. CASE r.body.size # "large" /\ ~Acceptable(r)
  <2>1. Invocation(r) = Answer(406, "json")
    BY <1>2 DEF Invocation
  <2> QED
    BY <1>2, <2>1 DEF Answer, Accounted, Media
<1>3. CASE r.body.size # "large" /\ Acceptable(r)
  <2> DEFINE frame  == DecodeRequest(r)
             status == Predict(r, frame)
             media  == IF status = 200 THEN NegotiateAccept(r.accept) ELSE "json"
  <2>1. Invocation(r) = Answer(status, media)
    BY <1>3 DEF Invocation
  <2>2. /\ status \in {200, 400, 415, 500}
        /\ status = 200 => r.decodes /\ ~BadBody(r) /\ r.body.scorable
        /\ status = 400 => BadBody(r)
        /\ status = 415 => r.media = "other"
        /\ status = 500 => ~r.decodes \/ ~r.body.scorable \/ Misshapen(r)
    <3> HIDE DEF frame
    <3>1. /\ frame.status \in {200, 400, 415, 500}
          /\ frame.status = 200 => /\ r.body.size # "empty" /\ r.decodes /\ r.body.parses
                                   /\ frame.rows = r.body.rows
                                   /\ frame.complete <=> GivesFeatures(r)
          /\ frame.status = 400 => BadBody(r)
          /\ frame.status = 415 => r.media = "other"
          /\ frame.status = 500 => ~r.decodes \/ Misshapen(r)
      BY DecodingIsAccounted DEF frame
    <3>2. CASE frame.status # 200
      BY <3>1, <3>2 DEF Predict
    <3>3. CASE frame.status = 200 /\ (~frame.complete \/ frame.rows = 0)
      BY <3>1, <3>3 DEF Predict, BadBody
    <3>4. CASE frame.status = 200 /\ ~(~frame.complete \/ frame.rows = 0)
      BY <3>1, <3>4 DEF Predict, BadBody
    <3> QED
      BY <3>2, <3>3, <3>4
  <2> HIDE DEF frame, status
  <2>3. media \in Media /\ (status = 200 => media = NegotiateAccept(r.accept))
    BY <1>3, NegotiatedIsAccepted DEF Media
  <2> HIDE DEF media
  <2>4. Invocation(r).status = status /\ Invocation(r).media = media
    BY <2>1 DEF Answer
  <2>5. Invocation(r) \in [status: Nat, media: Media] /\ status # 503
    BY <2>1, <2>2, <2>3 DEF Answer
  <2>6. CASE status = 200
    BY <1>0, <1>3, <2>2, <2>3, <2>4, <2>5, <2>6, NegotiatedIsAccepted DEF Accounted
  <2>7. CASE status # 200
    BY <2>2, <2>4, <2>5, <2>7 DEF Accounted, Misshapen
  <2> QED
    BY <2>6, <2>7
<1> QED
  BY <1>1, <1>2, <1>3

(***************************************************************************)
(* The workers and the request at one of them.                             *)
(***************************************************************************)
WorkerInvariant(u) ==
  /\ worker[u].pc \in {"verify", "load", "up"} => worker[u].meta.is = "whole"
  /\ worker[u].meta.sha = worker[u].meta.fit
  /\ worker[u].pc = "load" /\ ~worker[u].raced =>
       tree.model.is = "whole" /\ tree.model.fit = worker[u].meta.sha
  /\ worker[u].pc = "up" /\ ~worker[u].raced => worker[u].model = worker[u].meta.fit

RequestInvariant ==
  /\ \/ request = NoRequest
     \/ request \in [pc: {"reading"}, worker: Workers, request: Request]
     \/ request \in [pc: {"answered"}, worker: Workers, request: Request,
                    answer: [status: Nat, media: Media], ready: BOOLEAN]
  /\ ReaderIsUp /\ RequestsAreAccounted

WorkersTyped == threshold \in BOOLEAN /\ worker \in [Workers -> Worker]

\* ServingInvariant by its parts.
LEMMA ServingParts ==
  ServingInvariant <=> /\ TrainingInvariant /\ WorkersTyped
                       /\ \A u \in Workers : WorkerInvariant(u)
                       /\ RequestInvariant
BY DEF ServingInvariant, ServingTypeOK, TrainingInvariant, TreeStamped, StampedAsFitted,
   WorkersTyped, WorkerInvariant, RequestInvariant, LoadedIsVerified, ServedModelMatchesItsMetadata

\* The same of the next state.
LEMMA ServingPartsNext ==
  ASSUME TrainingInvariant', WorkersTyped', (\A u \in Workers : WorkerInvariant(u))', RequestInvariant'
  PROVE  ServingInvariant'
BY DEF ServingInvariant, ServingTypeOK, TrainingInvariant, TreeStamped, StampedAsFitted,
   WorkersTyped, WorkerInvariant, RequestInvariant, LoadedIsVerified, ServedModelMatchesItsMetadata

\* The part about training reads only its variables.
LEMMA TrainingUnchanged ==
  ASSUME TrainingInvariant, UNCHANGED training
  PROVE  TrainingInvariant'
BY DEF training, TrainingInvariant, TrainingTypeOK, TrainingInOrder, TreeStamped, SuccessIsLoadable,
   FailureIsExplained

\* The part about the request is kept while no worker that is up goes down.
LEMMA RequestKept ==
  ASSUME RequestInvariant, UNCHANGED request,
         \A u \in Workers : worker[u].pc = "up" => worker'[u].pc = "up"
  PROVE  RequestInvariant'
<1>1. request.pc = "reading" => request.worker \in Workers
  BY DEF RequestInvariant, NoRequest
<1> QED
  BY <1>1 DEF RequestInvariant, ReaderIsUp, RequestsAreAccounted

\* One worker changes and the directory does not.
LEMMA OneWorker ==
  ASSUME worker \in [Workers -> Worker], NEW w \in Workers, NEW x \in Worker,
         worker' = [worker EXCEPT ![w] = x]
  PROVE  /\ worker' \in [Workers -> Worker] /\ worker'[w] = x
         /\ \A u \in Workers : u # w => worker'[u] = worker[u]
OBVIOUS

\* The fields of a worker.
LEMMA WorkerFields ==
  ASSUME NEW x \in Worker
  PROVE  /\ \A y \in {"down", "metadata", "verify", "load", "up", "failed"} :
              /\ [x EXCEPT !.pc = y] \in Worker
              /\ [x EXCEPT !.pc = y].pc = y /\ [x EXCEPT !.pc = y].meta = x.meta
         /\ \A y \in Metadata : [x EXCEPT !.meta = y] \in Worker
         /\ \A y \in Fit : [x EXCEPT !.model = y] \in Worker
         /\ [x EXCEPT !.raced = TRUE] \in Worker
BY DEF Worker

\* A stopped and a failed worker are well typed.
LEMMA DownIsWorker == Down \in Worker /\ [Down EXCEPT !.pc = "failed"] \in Worker
BY Empty DEF Down, Worker

\* A worker goes on to x with nothing else in the system changed.
LEMMA LifespanKeeps ==
  ASSUME ServingInvariant, NEW w \in Workers, NEW x \in Worker,
         worker' = [worker EXCEPT ![w] = x], worker[w].pc # "up",
         UNCHANGED <<training, threshold, request>>,
         x.pc \in {"verify", "load", "up"} => x.meta.is = "whole",
         x.meta.sha = x.meta.fit,
         x.pc = "load" /\ ~x.raced => tree.model.is = "whole" /\ tree.model.fit = x.meta.sha,
         x.pc = "up" /\ ~x.raced => x.model = x.meta.fit
  PROVE  ServingInvariant'
<1>0. /\ TrainingInvariant /\ WorkersTyped /\ RequestInvariant
      /\ \A u \in Workers : WorkerInvariant(u)
  BY ServingParts
<1>1. TrainingInvariant'
  BY <1>0, TrainingUnchanged
<1>2. /\ worker' \in [Workers -> Worker] /\ worker'[w] = x
      /\ \A u \in Workers : u # w => worker'[u] = worker[u]
  BY <1>0, OneWorker DEF WorkersTyped
<1>3. WorkersTyped'
  BY <1>0, <1>2 DEF WorkersTyped
<1>4. RequestInvariant'
  BY <1>0, <1>2, RequestKept
<1>5. ASSUME NEW u \in Workers PROVE WorkerInvariant(u)'
  BY <1>0, <1>2 DEF WorkerInvariant, training
<1> QED
  BY <1>1, <1>3, <1>4, <1>5, ServingPartsNext

\* The request at the workers changes and nothing else.
LEMMA RequestKeeps ==
  ASSUME ServingInvariant, UNCHANGED <<training, threshold, worker>>, RequestInvariant'
  PROVE  ServingInvariant'
<1>0. /\ TrainingInvariant /\ WorkersTyped
      /\ \A u \in Workers : WorkerInvariant(u)
  BY ServingParts
<1>1. TrainingInvariant'
  BY <1>0, TrainingUnchanged
<1>2. WorkersTyped' /\ (\A u \in Workers : WorkerInvariant(u))'
  BY <1>0 DEF WorkersTyped, WorkerInvariant, training
<1> QED
  BY <1>1, <1>2, ServingPartsNext

\* Nothing is published, loaded or asked at first.
LEMMA ServingInit == Init => ServingInvariant
<1> SUFFICES ASSUME Init PROVE ServingInvariant
  OBVIOUS
<1>1. TrainingTypeOK
  BY Empty DEF Init, TrainingInit, TrainingTypeOK
<1>2. TrainingInvariant
  BY <1>1 DEF Init, TrainingInit, TrainingInvariant, TrainingInOrder, TreeStamped, SuccessIsLoadable,
     FailureIsExplained, NoTree, NoJob
<1>3. WorkersTyped
  BY DownIsWorker DEF Init, WorkersTyped
<1>4. ASSUME NEW u \in Workers PROVE WorkerInvariant(u)
  <2>1. worker[u] = Down
    BY DEF Init
  <2> QED
    BY <2>1 DEF WorkerInvariant, Down, NoMetadata, NoTree
<1>5. RequestInvariant
  BY DEF Init, RequestInvariant, ReaderIsUp, RequestsAreAccounted, NoRequest
<1> QED
  BY <1>2, <1>3, <1>4, <1>5, ServingParts

\* Training in the directory changes no worker but for what it notices.
LEMMA TrainingIsWatched ==
  ASSUME WorkersTyped, Train, NEW u \in Workers
  PROVE  /\ worker'[u] \in Worker
         /\ worker'[u].pc = worker[u].pc /\ worker'[u].meta = worker[u].meta
         /\ worker'[u].model = worker[u].model
         /\ worker[u].raced => worker'[u].raced
         /\ worker[u].pc \in {"verify", "load"} /\ ~worker'[u].raced => tree'.model = tree.model
<1>1. worker[u] \in Worker
  BY DEF WorkersTyped
<1>2. CASE worker[u].pc \in {"verify", "load"} /\ tree'.model # tree.model
  <2>1. worker'[u] = [worker[u] EXCEPT !.raced = TRUE]
    BY <1>2 DEF Train, Watched
  <2> QED
    BY <1>1, <2>1 DEF Worker
<1>3. CASE ~(worker[u].pc \in {"verify", "load"} /\ tree'.model # tree.model)
  <2>1. worker'[u] = worker[u]
    BY <1>3 DEF Train, Watched
  <2> QED
    BY <1>1, <1>3, <2>1
<1> QED
  BY <1>2, <1>3

\* A training step marks the workers that are loading meanwhile.
LEMMA TrainKeeps ==
  ASSUME ServingInvariant, Train
  PROVE  ServingInvariant'
<1>0. /\ TrainingInvariant /\ WorkersTyped /\ RequestInvariant
      /\ \A u \in Workers : WorkerInvariant(u)
  BY ServingParts
<1>1. TrainingInvariant'
  BY <1>0, TrainingKeeps DEF Train
<1>2. ASSUME NEW u \in Workers
      PROVE  /\ worker'[u] \in Worker
             /\ worker'[u].pc = worker[u].pc /\ worker'[u].meta = worker[u].meta
             /\ worker'[u].model = worker[u].model
             /\ worker[u].raced => worker'[u].raced
             /\ worker[u].pc \in {"verify", "load"} /\ ~worker'[u].raced => tree'.model = tree.model
  BY <1>0, TrainingIsWatched
<1>3. WorkersTyped'
  <2>1. worker' \in [Workers -> Worker]
    BY <1>2 DEF Train, Watched
  <2> QED
    BY <1>0, <2>1 DEF Train, Watched, WorkersTyped
<1>4. RequestInvariant'
  BY <1>0, <1>2, RequestKept DEF Train, Watched
<1>5. ASSUME NEW u \in Workers PROVE WorkerInvariant(u)'
  BY <1>0, <1>2 DEF WorkerInvariant
<1> QED
  BY <1>1, <1>3, <1>4, <1>5, ServingPartsNext

\* So does the extraction of a package.
LEMMA ExtractKeeps ==
  ASSUME ServingInvariant, NEW p \in Packages, Extract(p)
  PROVE  ServingInvariant'
<1>0. /\ TrainingInvariant /\ WorkersTyped /\ RequestInvariant
      /\ \A u \in Workers : WorkerInvariant(u)
  BY ServingParts
<1>1. /\ p.model \in Model /\ p.metadata \in Metadata /\ p.metadata.sha = p.metadata.fit
      /\ p.model.is = "whole" => p.model.fit # NoFit
  BY ServingAssumption DEF Model
<1>2. tree' \in Tree /\ tree'.model = p.model /\ tree'.metadata = p.metadata
  <2>1. [NoTree EXCEPT !.model = p.model] \in Tree
    BY <1>1, Empty, TreeFields
  <2>2. [[NoTree EXCEPT !.model = p.model] EXCEPT !.metadata = p.metadata] \in Tree
    BY <1>1, <2>1, TreeFields
  <2> QED
    BY <2>2 DEF Extract, NoTree
<1>3. place' = "hosting" /\ place = "hosting" /\ job' = job
  BY DEF Extract
<1>4. job.pc = "idle" /\ job.outcome = "none"
  BY <1>0, <1>3 DEF TrainingInvariant, TrainingInOrder
<1>5. TrainingInvariant'
  <2>1. TrainingTypeOK'
    BY <1>0, <1>2, <1>3 DEF TrainingInvariant, TrainingTypeOK
  <2> QED
    BY <1>1, <1>2, <1>3, <1>4, <2>1 DEF TrainingInvariant, TrainingInOrder, TreeStamped,
       SuccessIsLoadable, FailureIsExplained
<1>6. WorkersTyped' /\ RequestInvariant'
  BY <1>0, RequestKept DEF Extract, WorkersTyped
<1>7. ASSUME NEW u \in Workers PROVE WorkerInvariant(u)'
  <2>1. worker[u].pc = "down" /\ worker' = worker
    BY DEF Extract
  <2> QED
    BY <1>0, <2>1 DEF WorkerInvariant
<1> QED
  BY <1>5, <1>6, <1>7, ServingPartsNext

\* The fields of a worker that goes on to its next statement.
LEMMA MoveIs ==
  ASSUME worker \in [Workers -> Worker], NEW w \in Workers, NEW from, NEW to, Move(w, from, to)
  PROVE  worker[w].pc = from /\ worker' = [worker EXCEPT ![w] = [worker[w] EXCEPT !.pc = to]]
BY DEF Move

\* Loading verifies the bytes before it serves them.
LEMMA LifespanStepKeeps ==
  ASSUME ServingInvariant, NEW w \in Workers, Start(w) \/ Lifespan(w)
  PROVE  ServingInvariant'
<1>0. /\ worker \in [Workers -> Worker] /\ WorkerInvariant(w) /\ worker[w] \in Worker
      /\ tree \in Tree /\ tree.metadata \in Metadata /\ tree.model.fit \in Fit
      /\ tree.metadata.sha = tree.metadata.fit
  BY ServingParts, Parts DEF WorkersTyped, TrainingInvariant, TreeStamped, Model
<1>1. CASE Start(w)
  <2> DEFINE x == [worker[w] EXCEPT !.pc = "metadata"]
  <2>1. x \in Worker /\ x.pc = "metadata" /\ x.meta = worker[w].meta
    BY <1>0, WorkerFields
  <2>2. worker[w].pc = "down" /\ worker' = [worker EXCEPT ![w] = x]
    BY <1>0, <1>1, MoveIs DEF Start
  <2> HIDE DEF x
  <2> QED
    BY <1>0, <1>1, <2>1, <2>2, LifespanKeeps DEF Start, WorkerInvariant
<1> DEFINE failed == [Down EXCEPT !.pc = "failed"]
<1>2. failed \in Worker /\ failed.pc = "failed" /\ failed.meta.sha = failed.meta.fit
  BY DownIsWorker DEF Down, NoMetadata, NoTree
<1>3. CASE ReadMetadata(w)
  <2>1. CASE tree.metadata.is = "whole" /\ tree.model.is # "absent"
    <3> DEFINE x == [worker[w] EXCEPT !.pc = "verify", !.meta = tree.metadata]
    <3>1. [worker[w] EXCEPT !.pc = "verify"] \in Worker
      BY <1>0, WorkerFields
    <3>2. x \in Worker
      BY <1>0, <3>1, WorkerFields
    <3>3. x.pc = "verify" /\ x.meta = tree.metadata
      BY <1>0 DEF Worker
    <3>4. worker[w].pc = "metadata" /\ worker' = [worker EXCEPT ![w] = x]
      BY <1>3, <2>1 DEF ReadMetadata
    <3> HIDE DEF x
    <3> QED
      BY <1>0, <1>3, <2>1, <3>2, <3>3, <3>4, LifespanKeeps DEF ReadMetadata
  <2>2. CASE ~(tree.metadata.is = "whole" /\ tree.model.is # "absent")
    <3>1. worker[w].pc = "metadata" /\ worker' = [worker EXCEPT ![w] = failed]
      BY <1>3, <2>2 DEF ReadMetadata
    <3> HIDE DEF failed
    <3> QED
      BY <1>2, <1>3, <3>1, LifespanKeeps DEF ReadMetadata
  <2> QED
    BY <2>1, <2>2
<1>4. CASE VerifyDigest(w)
  <2>1. CASE tree.model.is = "whole" /\ tree.model.fit = worker[w].meta.sha
    <3> DEFINE x == [worker[w] EXCEPT !.pc = "load"]
    <3>1. x \in Worker /\ x.pc = "load" /\ x.meta = worker[w].meta
      BY <1>0, WorkerFields
    <3>2. worker[w].pc = "verify" /\ worker' = [worker EXCEPT ![w] = x]
      BY <1>0, <1>4, <2>1, MoveIs DEF VerifyDigest
    <3> HIDE DEF x
    <3> QED
      BY <1>0, <1>4, <2>1, <3>1, <3>2, LifespanKeeps DEF VerifyDigest, WorkerInvariant
  <2>2. CASE ~(tree.model.is = "whole" /\ tree.model.fit = worker[w].meta.sha)
    <3> DEFINE x == [worker[w] EXCEPT !.pc = "failed"]
    <3>1. x \in Worker /\ x.pc = "failed" /\ x.meta = worker[w].meta
      BY <1>0, WorkerFields
    <3>2. worker[w].pc = "verify" /\ worker' = [worker EXCEPT ![w] = x]
      BY <1>0, <1>4, <2>2, MoveIs DEF VerifyDigest
    <3> HIDE DEF x
    <3> QED
      BY <1>0, <1>4, <3>1, <3>2, LifespanKeeps DEF VerifyDigest, WorkerInvariant
  <2> QED
    BY <2>1, <2>2
<1>5. CASE LoadModel(w)
  <2>1. CASE tree.model.is = "whole" /\ threshold
    <3> DEFINE x == [worker[w] EXCEPT !.pc = "up", !.model = tree.model.fit]
    <3>1. [worker[w] EXCEPT !.pc = "up"] \in Worker
      BY <1>0, WorkerFields
    <3>2. x \in Worker
      BY <1>0, <3>1, WorkerFields
    <3>3. /\ x.pc = "up" /\ x.meta = worker[w].meta /\ x.model = tree.model.fit
          /\ x.raced = worker[w].raced
      BY <1>0 DEF Worker
    <3>4. worker[w].pc = "load" /\ worker' = [worker EXCEPT ![w] = x]
      BY <1>5, <2>1 DEF LoadModel
    <3> HIDE DEF x
    <3> QED
      <4>1. /\ x.meta.is = "whole" /\ x.meta.sha = x.meta.fit
            /\ ~x.raced => x.model = x.meta.fit
        BY <1>0, <3>3, <3>4 DEF WorkerInvariant
      <4>2. UNCHANGED <<training, threshold, request>>
        BY <1>5 DEF LoadModel
      <4> QED
        BY <3>2, <3>3, <3>4, <4>1, <4>2, LifespanKeeps
  <2>2. CASE ~(tree.model.is = "whole" /\ threshold)
    <3> DEFINE x == [worker[w] EXCEPT !.pc = "failed"]
    <3>1. x \in Worker /\ x.pc = "failed" /\ x.meta = worker[w].meta
      BY <1>0, WorkerFields
    <3>2. worker[w].pc = "load" /\ worker' = [worker EXCEPT ![w] = x]
      BY <1>5, <2>2 DEF LoadModel
    <3> HIDE DEF x
    <3> QED
      BY <1>0, <1>5, <3>1, <3>2, LifespanKeeps DEF LoadModel, WorkerInvariant
  <2> QED
    BY <2>1, <2>2
<1> QED
  BY <1>1, <1>3, <1>4, <1>5 DEF Lifespan

\* A worker that stops serves nothing.
LEMMA StopKeeps ==
  ASSUME ServingInvariant, NEW w \in Workers, Stop(w)
  PROVE  ServingInvariant'
<1>0. /\ TrainingInvariant /\ WorkersTyped /\ RequestInvariant
      /\ \A u \in Workers : WorkerInvariant(u)
  BY ServingParts
<1>1. TrainingInvariant'
  BY <1>0, TrainingUnchanged DEF Stop
<1>2. /\ worker' \in [Workers -> Worker] /\ worker'[w] = Down
      /\ \A u \in Workers : u # w => worker'[u] = worker[u]
  BY <1>0, DownIsWorker, OneWorker DEF WorkersTyped, Stop
<1>3. WorkersTyped'
  BY <1>0, <1>2 DEF WorkersTyped, Stop
<1>4. RequestInvariant'
  <2>1. CASE request' = NoRequest
    BY <2>1 DEF RequestInvariant, ReaderIsUp, RequestsAreAccounted, NoRequest
  <2>2. CASE request' = request /\ (request.pc = "reading" => request.worker # w)
    <3>1. request.pc = "reading" => request.worker \in Workers
      BY <1>0 DEF RequestInvariant, NoRequest
    <3> QED
      BY <1>0, <1>2, <2>2, <3>1 DEF RequestInvariant, ReaderIsUp, RequestsAreAccounted
  <2> QED
    BY <2>1, <2>2 DEF Stop
<1>5. ASSUME NEW u \in Workers PROVE WorkerInvariant(u)'
  BY <1>0, <1>2 DEF WorkerInvariant, Stop, Down, NoMetadata, NoTree, training
<1> QED
  BY <1>1, <1>3, <1>4, <1>5, ServingPartsNext

\* An answer that is accounted for keeps the request as it should be.
LEMMA AnswerKeeps ==
  ASSUME ServingInvariant, UNCHANGED <<training, threshold, worker>>,
         NEW w \in Workers, NEW r \in Request, NEW a \in [status: Nat, media: Media],
         Answered(w, r, a), worker[w].pc = "up" <=> a.status # 503, Accounted(r, a.status, a.media)
  PROVE  ServingInvariant'
<1>1. request' = [pc |-> "answered", worker |-> w, request |-> r, answer |-> a,
                  ready |-> worker[w].pc = "up"]
  BY DEF Answered
<1>2. /\ request'.pc = "answered" /\ request'.request = r /\ request'.answer = a
      /\ request'.ready <=> worker[w].pc = "up"
  BY <1>1
<1>3. request' \in [pc: {"answered"}, worker: Workers, request: Request,
                    answer: [status: Nat, media: Media], ready: BOOLEAN]
  BY <1>1
<1>4. ReaderIsUp' /\ RequestsAreAccounted'
  BY <1>2 DEF ReaderIsUp, RequestsAreAccounted
<1> QED
  BY <1>3, <1>4, RequestKeeps DEF RequestInvariant

\* A request that arrives has no answer yet.
LEMMA ArriveKeeps ==
  ASSUME ServingInvariant, NEW w \in Workers, NEW r \in Requests(place), Arrive(w, r)
  PROVE  ServingInvariant'
<1>1. r \in Request
  BY ServingParts, ServingAssumption DEF TrainingInvariant, TrainingTypeOK
<1>2. CASE worker[w].pc # "up"
  <2>1. Answered(w, r, Answer(503, "json"))
    BY <1>2 DEF Arrive, Ping
  <2>2. /\ Answer(503, "json") \in [status: Nat, media: Media] /\ Answer(503, "json").status = 503
        /\ Accounted(r, Answer(503, "json").status, Answer(503, "json").media)
    BY DEF Answer, Accounted, Media
  <2> QED
    BY <1>1, <1>2, <2>1, <2>2, AnswerKeeps DEF Arrive
<1>3. CASE worker[w].pc = "up" /\ r.declared = "large"
  <2>1. Answered(w, r, Answer(413, "json"))
    BY <1>3 DEF Arrive, Ping
  <2>2. /\ Answer(413, "json") \in [status: Nat, media: Media] /\ Answer(413, "json").status = 413
        /\ Accounted(r, Answer(413, "json").status, Answer(413, "json").media)
    BY <1>3 DEF Answer, Accounted, Media
  <2> QED
    BY <1>1, <1>3, <2>1, <2>2, AnswerKeeps DEF Arrive
<1>4. CASE worker[w].pc = "up" /\ r.declared # "large"
  <2>1. request' = [pc |-> "reading", worker |-> w, request |-> r] /\ worker' = worker
    BY <1>4 DEF Arrive, Ping
  <2>2. RequestInvariant'
    BY <1>1, <1>4, <2>1 DEF RequestInvariant, ReaderIsUp, RequestsAreAccounted
  <2> QED
    BY <2>2, RequestKeeps DEF Arrive
<1> QED
  BY <1>2, <1>3, <1>4

\* The answer is the one the request deserves.
LEMMA RespondKeeps ==
  ASSUME ServingInvariant, Respond
  PROVE  ServingInvariant'
<1>1. /\ request.worker \in Workers /\ request.request \in Request
      /\ worker[request.worker].pc = "up" /\ request.request.declared # "large"
  BY ServingParts DEF RequestInvariant, ReaderIsUp, Respond, NoRequest
<1> DEFINE a == Invocation(request.request)
<1>2. /\ a \in [status: Nat, media: Media] /\ a.status # 503
      /\ Accounted(request.request, a.status, a.media)
  BY <1>1, InvocationIsAccounted
<1> QED
  BY <1>1, <1>2, AnswerKeeps DEF Respond

\* A client that goes away leaves no answer to account for.
LEMMA DisconnectKeeps ==
  ASSUME ServingInvariant, Disconnect
  PROVE  ServingInvariant'
<1>1. RequestInvariant'
  BY DEF Disconnect, RequestInvariant, ReaderIsUp, RequestsAreAccounted, NoRequest
<1> QED
  BY <1>1, RequestKeeps DEF Disconnect

\* ServingInvariant is inductive.
LEMMA ServingStep ==
  ServingInvariant /\ [Next]_vars => ServingInvariant'
<1> SUFFICES ASSUME ServingInvariant, [Next]_vars PROVE ServingInvariant'
  OBVIOUS
<1>1. CASE UNCHANGED vars
  <2>1. UNCHANGED <<training, threshold, worker>> /\ UNCHANGED request
    BY <1>1 DEF vars, training
  <2>2. RequestInvariant'
    BY <2>1, ServingParts, RequestKept
  <2> QED
    BY <2>1, <2>2, RequestKeeps
<1>2. CASE Next
  BY <1>2, TrainKeeps, ExtractKeeps, LifespanStepKeeps, StopKeeps, ArriveKeeps, RespondKeeps,
     DisconnectKeeps DEF Next
<1> QED
  BY <1>1, <1>2

(***************************************************************************)
(* The theorems.                                                           *)
(***************************************************************************)

\* ServingInvariant holds in every reachable state: a training run is in its
\* directory where TrainingInOrder says, what is stamped was fitted, and what a
\* worker loads next is what it has verified.
THEOREM ServingInvariantHolds == Spec => []ServingInvariant
<1>1. Init /\ [][Next]_vars => []ServingInvariant
  BY ServingInit, ServingStep, PTL
<1> QED
  BY <1>1, PTL DEF Spec

\* Whatever packages are deployed, whatever is trained into the directory while
\* it is served and however often: a worker that answers does so with the model
\* its metadata was written for, unless the file was written between the two
\* times it opens it.
THEOREM ServedAsDescribed == Spec => []ServedModelMatchesItsMetadata
<1>1. ServingInvariant => ServedModelMatchesItsMetadata
  BY DEF ServingInvariant
<1> QED
  BY <1>1, ServingInvariantHolds, PTL

\* A training that reports success has left a directory that loads, and its
\* evaluation is of this very model.
THEOREM TrainingLeavesAModel == Spec => []SuccessIsLoadable
<1>1. ServingInvariant => SuccessIsLoadable
  BY DEF ServingInvariant
<1> QED
  BY <1>1, ServingInvariantHolds, PTL

\* In a training container the failure file is there exactly when this run raised.
THEOREM FailuresAreReported == Spec => []FailureIsExplained
<1>1. ServingInvariant => FailureIsExplained
  BY DEF ServingInvariant
<1> QED
  BY <1>1, ServingInvariantHolds, PTL

\* For requests with Accept headers of any length: a score, a refusal of each
\* kind, an internal error and a 503 are answered only for the reason that the
\* property gives for that status.
THEOREM AnswersHaveReasons == Spec => []RequestsAreAccounted
<1>1. ServingInvariant => RequestsAreAccounted
  BY DEF ServingInvariant
<1> QED
  BY <1>1, ServingInvariantHolds, PTL

(***************************************************************************)
(* The directory and its workers implement PublishedModels.                *)
(***************************************************************************)
Offered == IF tree.model.is = "whole" /\ tree.metadata.is = "whole"
              /\ tree.metadata.sha = tree.model.fit
           THEN tree.model.fit ELSE NoFit

Serving == [w \in Workers |-> IF worker[w].pc = "up" THEN worker[w].model ELSE NoFit]

\* What the abstract specification says of the mapped variables.
LEMMA PublishedDefs ==
  /\ Published!Init <=> Offered = NoFit /\ Serving = [w \in Workers |-> NoFit]
  /\ Published!Publish <=> Offered' \in Fit \cup {NoFit} /\ Serving' = Serving
  /\ \A w \in Workers :
       /\ Published!Take(w) <=> /\ Offered # NoFit /\ Serving[w] = NoFit
                                /\ Serving' = [Serving EXCEPT ![w] = Offered]
                                /\ Offered' = Offered
       /\ Published!Leave(w) <=> /\ Serving' = [Serving EXCEPT ![w] = NoFit]
                                 /\ Offered' = Offered
BY DEF Offered, Serving, Published!Init, Published!Publish, Published!Take, Published!Leave

\* At first nothing is offered or served.
LEMMA PublishedInit == Init => Published!Init
<1> SUFFICES ASSUME Init PROVE Offered = NoFit /\ Serving = [w \in Workers |-> NoFit]
  BY PublishedDefs
<1> QED
  BY DEF Init, TrainingInit, Offered, Serving, NoTree, Down

\* What the workers serve stays while none of them comes up or leaves.
LEMMA ServingStays ==
  ASSUME ServingInvariant, ServingInvariant',
         \A u \in Workers : \/ worker'[u].pc # "up" /\ worker[u].pc # "up"
                            \/ worker'[u].pc = worker[u].pc /\ worker'[u].model = worker[u].model
  PROVE  Published!Publish
<1>1. Serving' = Serving
  BY DEF Serving
<1>2. tree'.model.fit \in Fit
  BY DEF ServingInvariant, ServingTypeOK, TrainingTypeOK, Tree
<1>3. Offered' \in Fit \cup {NoFit}
  BY <1>2 DEF Offered
<1> QED
  BY <1>1, <1>3, PublishedDefs

\* Each step publishes, withdraws, loads or stops, or changes nothing abstract.
LEMMA PublishedStep ==
  ASSUME ServingInvariant, ServingInvariant', [Next]_vars
  PROVE  Published!Next \/ Overtaken
<1>0. /\ worker \in [Workers -> Worker] /\ WorkersTyped /\ TrainingInvariant
      /\ \A u \in Workers : WorkerInvariant(u)
  BY ServingParts DEF WorkersTyped
<1>1. ASSUME UNCHANGED worker PROVE Published!Publish
  BY <1>1, ServingStays
<1>2. ASSUME Train PROVE Published!Publish
  BY <1>0, <1>2, TrainingIsWatched, ServingStays
<1>3. ASSUME NEW w \in Workers, NEW x, worker' = [worker EXCEPT ![w] = x],
             worker[w].pc # "up", x.pc # "up"
      PROVE  Published!Publish
  <2>1. worker'[w] = x /\ \A u \in Workers : u # w => worker'[u] = worker[u]
    BY <1>0, <1>3
  <2> QED
    BY <1>3, <2>1, ServingStays
<1>4. ASSUME NEW w \in Workers, Start(w) PROVE Published!Publish
  <2>1. worker[w].pc = "down" /\ worker' = [worker EXCEPT ![w] = [worker[w] EXCEPT !.pc = "metadata"]]
    BY <1>0, <1>4, MoveIs DEF Start
  <2>2. [worker[w] EXCEPT !.pc = "metadata"].pc = "metadata"
    BY <1>0, WorkerFields
  <2> QED
    BY <1>3, <2>1, <2>2
<1>5. ASSUME NEW w \in Workers, ReadMetadata(w) PROVE Published!Publish
  <2> DEFINE x == IF tree.metadata.is = "whole" /\ tree.model.is # "absent"
                  THEN [worker[w] EXCEPT !.pc = "verify", !.meta = tree.metadata]
                  ELSE [Down EXCEPT !.pc = "failed"]
  <2>1. worker[w].pc = "metadata" /\ worker' = [worker EXCEPT ![w] = x]
    BY <1>5 DEF ReadMetadata
  <2>2. worker[w] \in Worker
    BY <1>0
  <2>3. x.pc # "up"
    <3>1. [worker[w] EXCEPT !.pc = "verify", !.meta = tree.metadata].pc = "verify"
      BY <2>2 DEF Worker
    <3>2. [Down EXCEPT !.pc = "failed"].pc = "failed"
      BY DEF Down
    <3> QED
      BY <3>1, <3>2
  <2> HIDE DEF x
  <2> QED
    BY <1>3, <2>1, <2>3
<1>6. ASSUME NEW w \in Workers, VerifyDigest(w) PROVE Published!Publish
  <2>1. PICK to \in {"load", "failed"} : Move(w, "verify", to)
    BY <1>6 DEF VerifyDigest
  <2>2. worker[w].pc = "verify" /\ worker' = [worker EXCEPT ![w] = [worker[w] EXCEPT !.pc = to]]
    BY <1>0, <2>1, MoveIs
  <2>3. [worker[w] EXCEPT !.pc = to].pc = to
    BY <1>0, WorkerFields
  <2> QED
    BY <1>3, <2>2, <2>3
<1>7. ASSUME NEW w \in Workers, LoadModel(w) PROVE Published!Take(w) \/ Published!Publish \/ Overtaken
  <2>0. worker[w] \in Worker /\ worker[w].pc = "load" /\ UNCHANGED tree
    BY <1>0, <1>7 DEF LoadModel, training
  <2>1. CASE tree.model.is = "whole" /\ threshold
    <3> DEFINE x == [worker[w] EXCEPT !.pc = "up", !.model = tree.model.fit]
    <3>1. x.pc = "up" /\ x.model = tree.model.fit
      BY <2>0 DEF Worker
    <3>2. worker' = [worker EXCEPT ![w] = x]
      BY <1>7, <2>1 DEF LoadModel
    <3> HIDE DEF x
    <3>3. worker'[w] = x /\ \A u \in Workers : u # w => worker'[u] = worker[u]
      BY <1>0, <3>2
    <3>4. CASE worker[w].raced \/ worker[w].meta # tree.metadata
      BY <2>0, <3>1, <3>3, <3>4 DEF Overtaken
    <3>5. CASE ~worker[w].raced /\ worker[w].meta = tree.metadata
      <4>1. /\ tree.metadata.is = "whole" /\ tree.metadata.sha = tree.model.fit
            /\ tree.model.fit # NoFit
        BY <1>0, <2>0, <2>1, <3>5 DEF WorkerInvariant, TrainingInvariant, TreeStamped
      <4>2. Offered = tree.model.fit /\ Offered' = Offered
        BY <2>0, <2>1, <4>1 DEF Offered
      <4>3. Serving[w] = NoFit
        BY <2>0 DEF Serving
      <4>4. Serving' = [Serving EXCEPT ![w] = Offered]
        BY <3>1, <3>3, <4>2 DEF Serving
      <4> QED
        BY <4>1, <4>2, <4>3, <4>4, PublishedDefs
    <3> QED
      BY <3>4, <3>5
  <2>2. CASE ~(tree.model.is = "whole" /\ threshold)
    <3>1. worker' = [worker EXCEPT ![w] = [worker[w] EXCEPT !.pc = "failed"]]
      BY <1>7, <2>2 DEF LoadModel
    <3>2. [worker[w] EXCEPT !.pc = "failed"].pc = "failed"
      BY <2>0, WorkerFields
    <3> QED
      BY <1>3, <2>0, <3>1, <3>2
  <2> QED
    BY <2>1, <2>2
<1>8. ASSUME NEW w \in Workers, Stop(w) PROVE Published!Leave(w)
  <2>1. worker'[w] = Down /\ \A u \in Workers : u # w => worker'[u] = worker[u]
    BY <1>0, <1>8 DEF Stop
  <2>2. worker'[w].pc # "up"
    BY <2>1 DEF Down
  <2>3. Serving' = [Serving EXCEPT ![w] = NoFit]
    BY <2>1, <2>2 DEF Serving
  <2>4. Offered' = Offered
    BY <1>8 DEF Stop, training, Offered
  <2> QED
    BY <2>3, <2>4, PublishedDefs
<1>9. CASE Next
  <2>1. CASE Train
    BY <1>2, <2>1 DEF Published!Next
  <2>2. CASE \E w \in Workers : Start(w) \/ ReadMetadata(w) \/ VerifyDigest(w) \/ LoadModel(w) \/ Stop(w)
    BY <1>4, <1>5, <1>6, <1>7, <1>8, <2>2 DEF Published!Next
  <2>3. CASE UNCHANGED worker
    BY <1>1, <2>3 DEF Published!Next
  <2> QED
    BY <1>9, <2>1, <2>2, <2>3 DEF Next, Lifespan, Extract, Arrive, Respond, Disconnect
<1>10. CASE UNCHANGED vars
  BY <1>1, <1>10 DEF vars, Published!Next
<1> QED
  BY <1>9, <1>10

\* save_model and load_model implement the abstract directory for any files,
\* packages and workers: every step publishes, takes what is published, leaves,
\* or is a load that was overtaken by a training.
THEOREM ServingImplementsPublished == Spec => ImplementsPublishedModels
<1>1. Init => Published!Init
  BY PublishedInit
<1>2. ServingInvariant /\ ServingInvariant' /\ [Next]_vars =>
        [Published!Next \/ Overtaken]_(Published!models)
  BY PublishedStep
<1> QED
  BY <1>1, <1>2, ServingInvariantHolds, PTL DEF Spec, ImplementsPublishedModels
=============================================================================
