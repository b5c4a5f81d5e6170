------------------------- MODULE TrainingContainer -------------------------
(***************************************************************************)
(* run_training on the SageMaker tree: channels and hyperparameters in,    *)
(* model directory, evaluation, checkpoint and failure file out.  The tree *)
(* is a fresh container's, or a base directory that `local-train` uses     *)
(* again with what earlier runs left in it.  Any step may raise, which     *)
(* writes the failure file, or be killed, which writes nothing.            *)
(***************************************************************************)
EXTENDS Integers, FiniteSets

CONSTANTS
  Texts,    \* what a cell or a hyperparameter may read
  Files,    \* csv files
  Cells,    \* Cells[f]: the target values of f, as pandas prints them
  Hypers,   \* the hyperparameters a run may get
  MaxRuns   \* bound: training runs

\* label: the text of positive_label in hyperparameters.json; valid: the
\* others pass validation; split: validation_split > 0.
Hyper == [label: Texts, valid: BOOLEAN, split: BOOLEAN]

ASSUME TrainingAssumption ==
  /\ {"1", "none"} \subseteq Texts
  /\ Cells \in [Files -> SUBSET Texts]
  /\ Hypers \subseteq Hyper
  /\ MaxRuns \in Nat

VARIABLES
  place,  \* where the tree is: a training job, a base directory, an endpoint
  tree,   \* what is on disk
  job     \* the training process; its outcome is the exit of the last one

training == <<place, tree, job>>

\* What decides the content of model.joblib: a digest stands for it.
NoFit == [rows |-> {}, split |-> FALSE, label |-> "none"]
Fit   == [rows: SUBSET Files, split: BOOLEAN, label: Texts]

States == {"absent", "partial", "whole"}

Metadata == [is: States, sha: Fit, fit: Fit, on: SUBSET Files]

NoTree ==
  [train |-> {}, validation |-> {},
   hyper |-> [label |-> "1", valid |-> TRUE, split |-> TRUE],
   model |-> [is |-> "absent", fit |-> NoFit],
   metadata |-> [is |-> "absent", sha |-> NoFit, fit |-> NoFit, on |-> {}],
   evaluation |-> [is |-> "absent", sha |-> NoFit, on |-> {}],
   failure |-> FALSE, checkpoints |-> FALSE, checkpoint |-> FALSE]

\* pc: the statement that comes next; sha: what save_model stamps; on: the
\* files the metrics were measured on.
NoJob == [pc |-> "idle", outcome |-> "none", fit |-> NoFit, sha |-> NoFit, on |-> {},
          runs |-> 0]

TrainingInit ==
  /\ place \in {"training", "local", "hosting"}
  /\ tree = NoTree /\ job = NoJob

Step(from, to) == job.pc = from /\ job' = [job EXCEPT !.pc = to] /\ UNCHANGED place

(***************************************************************************)
(* The start of a run.                                                     *)
(***************************************************************************)
Begin(where) ==
  /\ place = where /\ job.pc = "idle" /\ job.runs < MaxRuns
  /\ job' = [NoJob EXCEPT !.pc = "load", !.runs = job.runs + 1]
  /\ UNCHANGED place

\* SageMaker mounts a tree of its own for each job.
Launch(train, validation, hyper) ==
  /\ Begin("training")
  /\ tree' = [NoTree EXCEPT !.train = train, !.validation = validation, !.hyper = hyper]

\* write_sagemaker_layout adds to the directories that are there.
Layout(file, validation, hyper) ==
  /\ Begin("local")
  /\ tree' = [tree EXCEPT !.train = @ \cup {file}, !.validation = @ \cup validation,
                          !.hyper = hyper, !.checkpoints = TRUE]

(***************************************************************************)
(* Hyperparameters travel as text: _decode, and str() of what it gives.    *)
(***************************************************************************)
Accepted(hyper) == hyper.valid /\ hyper.label \notin {"null", "none"}
Printed(label)  == IF label = "true" THEN "1" ELSE label

\* binary_target: both classes are there.
TwoClasses(files, label) ==
  LET values == UNION {Cells[f] : f \in files}
  IN  Printed(label) \in values /\ values # {Printed(label)}

Ends(outcome) == job' = [job EXCEPT !.pc = "idle", !.outcome = outcome, !.fit = NoFit,
                                    !.sha = NoFit, !.on = {}]
                 /\ UNCHANGED place

\* Mutant: the reason is printed and not written.
RaiseSilently == Ends("failed") /\ UNCHANGED tree

\* The except clause of run_training.
Raise ==
  /\ Ends("failed")
  /\ tree' = [tree EXCEPT !.failure = TRUE]

\* load_channel_frame, infer_columns and binary_target of the training rows.
Load ==
  /\ job.pc = "load"
  /\ LET ok == /\ Accepted(tree.hyper) /\ tree.train # {}
               /\ TwoClasses(tree.train, tree.hyper.label)
         held == IF tree.validation # {} THEN tree.validation
                 ELSE IF tree.hyper.split THEN tree.train ELSE {}
     IN  IF ok
         THEN /\ job' = [job EXCEPT !.pc = "fit", !.on = held,
                           !.fit = [rows |-> tree.train,
                                    split |-> tree.validation = {} /\ tree.hyper.split,
                                    label |-> Printed(tree.hyper.label)]]
              /\ UNCHANGED <<place, tree>>
         ELSE Raise

\* pipeline.fit, then the checkpoint if there is a directory for it.
FitModel ==
  /\ Step("fit", "evaluate")
  /\ tree' = [tree EXCEPT !.checkpoint = @ \/ tree.checkpoints]

\* Metrics on the validation rows, or on the training rows, printed alike.
Evaluate ==
  /\ job.pc = "evaluate"
  /\ IF job.on \cap tree.validation # {} /\ ~TwoClasses(job.on, tree.hyper.label)
     THEN Raise
     ELSE Step("evaluate", "dump") /\ UNCHANGED tree

(***************************************************************************)
(* save_model and the evaluation: each file is truncated, then written.    *)
(***************************************************************************)
OpenModel ==
  /\ Step("dump", "dumping")
  /\ tree' = [tree EXCEPT !.model = [is |-> "partial", fit |-> job.fit]]

DumpModel ==
  /\ Step("dumping", "digest")
  /\ tree' = [tree EXCEPT !.model.is = "whole"]

Digest ==
  /\ job.pc = "digest"
  /\ job' = [job EXCEPT !.pc = "stamp", !.sha = tree.model.fit]
  /\ UNCHANGED <<place, tree>>

OpenMetadata ==
  /\ Step("stamp", "stamping")
  /\ tree' = [tree EXCEPT !.metadata =
               [is |-> "partial", sha |-> job.sha, fit |-> job.fit, on |-> job.on]]

\* Mutant: the digest of the metadata is left as the default.
StampNothing ==
  /\ Step("stamping", "report")
  /\ tree' = [tree EXCEPT !.metadata.is = "whole", !.metadata.sha = NoFit]

StampMetadata ==
  /\ Step("stamping", "report")
  /\ tree' = [tree EXCEPT !.metadata.is = "whole"]

WriteEvaluation ==
  \/ /\ Step("report", "reporting")
     /\ tree' = [tree EXCEPT !.evaluation = [is |-> "partial", sha |-> job.sha, on |-> job.on]]
  \/ /\ job.pc = "reporting" /\ Ends("done")
     /\ tree' = [tree EXCEPT !.evaluation.is = "whole"]

\* An exception of pandas, scikit-learn or the file system.
Fails == job.pc # "idle" /\ Raise

Kill == job.pc # "idle" /\ Ends("killed") /\ UNCHANGED tree

TrainingStep ==
  \/ Load \/ FitModel \/ Evaluate
  \/ OpenModel \/ DumpModel \/ Digest \/ OpenMetadata \/ StampMetadata
  \/ WriteEvaluation

TrainingNext ==
  \/ \E train, validation \in SUBSET Files, h \in Hypers : Launch(train, validation, h)
  \/ \E f \in Files, validation \in SUBSET Files, h \in Hypers : Layout(f, validation, h)
  \/ TrainingStep \/ Fails \/ Kill

Tree == [train: SUBSET Files, validation: SUBSET Files, hyper: Hyper,
         model: [is: States, fit: Fit], metadata: Metadata,
         evaluation: [is: States, sha: Fit, on: SUBSET Files],
         failure: BOOLEAN, checkpoints: BOOLEAN, checkpoint: BOOLEAN]

Job == [pc: {"idle", "load", "fit", "evaluate", "dump", "dumping", "digest", "stamp",
             "stamping", "report", "reporting"},
        outcome: {"none", "done", "failed", "killed"},
        fit: Fit, sha: Fit, on: SUBSET Files, runs: 0..MaxRuns]

TrainingTypeOK ==
  /\ place \in {"training", "local", "hosting"}
  /\ tree \in Tree /\ job \in Job
=============================================================================
