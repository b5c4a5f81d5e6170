---------------------------- MODULE ModelServing ----------------------------
(***************************************************************************)
(* The server on a model directory: serve.py starts workers, each loads    *)
(* and verifies the model once, in its lifespan, and answers /invocations  *)
(* with it until it stops.  On an endpoint the directory is extracted from *)
(* a package before the workers start; a local base directory may be       *)
(* trained into while they load.                                           *)
(***************************************************************************)
EXTENDS TrainingContainer, RequestCodecs

CONSTANTS
  Workers,      \* uvicorn workers
  Packages,     \* what a model.tar.gz may hold: [model, metadata]
  Requests(_)   \* the requests that arrive, by place

VARIABLES
  threshold,  \* whether SMDEPLOY_THRESHOLD, or else the model's, lies in (0, 1)
  worker,     \* the workers
  request     \* one request at a worker, and its answer

vars == <<place, tree, job, threshold, worker, request>>

\* A package holds what save_model wrote, truncated or mixed up on the way.
ASSUME ServingAssumption ==
  /\ \A p \in Packages :
       /\ p.model \in [is: States, fit: Fit] /\ p.metadata \in Metadata
       /\ p.metadata.sha = p.metadata.fit
       /\ p.model.is = "whole" => p.model.fit # NoFit
  /\ \A where \in {"training", "local", "hosting"} : Requests(where) \subseteq Request

NoMetadata == NoTree.metadata

\* pc: what the lifespan does next; raced: the model was written meanwhile.
Down == [pc |-> "down", meta |-> NoMetadata, model |-> NoFit, raced |-> FALSE]

NoRequest == [pc |-> "none"]

Init ==
  /\ TrainingInit
  /\ threshold \in BOOLEAN
  /\ worker = [w \in Workers |-> Down]
  /\ request = NoRequest

Move(w, from, to) ==
  /\ worker[w].pc = from
  /\ worker' = [worker EXCEPT ![w].pc = to]

(***************************************************************************)
(* The lifespan: ModelHandler.load, tried once.                            *)
(***************************************************************************)
Start(w) ==
  /\ place # "training"
  /\ Move(w, "down", "metadata")
  /\ UNCHANGED <<training, threshold, request>>

\* Mutant: metadata that does not parse gives the defaults.
ReadMetadataLeniently(w) ==
  /\ worker[w].pc = "metadata"
  /\ worker' = [worker EXCEPT ![w] =
       IF tree.metadata.is # "absent" /\ tree.model.is # "absent"
       THEN [worker[w] EXCEPT !.pc = "verify", !.meta = tree.metadata] ELSE [Down EXCEPT !.pc = "failed"]]
  /\ UNCHANGED <<training, threshold, request>>

\* load_metadata, and the file test of load_model.
ReadMetadata(w) ==
  /\ worker[w].pc = "metadata"
  /\ worker' = [worker EXCEPT ![w] =
       IF tree.metadata.is = "whole" /\ tree.model.is # "absent"
       THEN [worker[w] EXCEPT !.pc = "verify", !.meta = tree.metadata] ELSE [Down EXCEPT !.pc = "failed"]]
  /\ UNCHANGED <<training, threshold, request>>

\* Mutant: load_model(verify=False).
VerifyNothing(w) == Move(w, "verify", "load") /\ UNCHANGED <<training, threshold, request>>

VerifyDigest(w) ==
  /\ IF tree.model.is = "whole" /\ tree.model.fit = worker[w].meta.sha
     THEN Move(w, "verify", "load")
     ELSE Move(w, "verify", "failed")
  /\ UNCHANGED <<training, threshold, request>>

\* Mutant: a failed load is tried again.
LoadModelAgain(w) ==
  /\ worker[w].pc = "load"
  /\ worker' = [worker EXCEPT ![w] =
       IF tree.model.is = "whole" /\ threshold
       THEN [worker[w] EXCEPT !.pc = "up", !.model = tree.model.fit]
       ELSE [Down EXCEPT !.pc = "metadata"]]
  /\ UNCHANGED <<training, threshold, request>>

\* joblib.load opens the file again; Predictor checks the threshold.
LoadModel(w) ==
  /\ worker[w].pc = "load"
  /\ worker' = [worker EXCEPT ![w] =
       IF tree.model.is = "whole" /\ threshold
       THEN [worker[w] EXCEPT !.pc = "up", !.model = tree.model.fit]
       ELSE [worker[w] EXCEPT !.pc = "failed"]]
  /\ UNCHANGED <<training, threshold, request>>

\* The container stops, or the supervisor replaces a worker; the request it
\* was reading is lost.
Stop(w) ==
  /\ worker[w].pc # "down"
  /\ worker' = [worker EXCEPT ![w] = Down]
  /\ request' = IF request.pc = "reading" /\ request.worker = w THEN NoRequest ELSE request
  /\ UNCHANGED <<training, threshold>>

\* SageMaker extracts model.tar.gz before it starts the container.
Extract(p) ==
  /\ place = "hosting" /\ \A w \in Workers : worker[w].pc = "down"
  /\ tree' = [NoTree EXCEPT !.model = p.model, !.metadata = p.metadata]
  /\ UNCHANGED <<place, job, threshold, worker, request>>

\* Training in the directory that is being served.
Watched ==
  /\ worker' = [w \in Workers |->
       IF worker[w].pc \in {"verify", "load"} /\ tree'.model # tree.model
       THEN [worker[w] EXCEPT !.raced = TRUE] ELSE worker[w]]
  /\ UNCHANGED <<threshold, request>>

Train == TrainingNext /\ Watched

(***************************************************************************)
(* /ping and /invocations.                                                 *)
(***************************************************************************)
Ping(w) == IF worker[w].pc = "up" THEN 200 ELSE 503

Answered(w, r, answer) ==
  request' = [pc |-> "answered", worker |-> w, request |-> r, answer |-> answer,
              ready |-> worker[w].pc = "up"]

\* Up to the await of the body.
Arrive(w, r) ==
  /\ request = NoRequest /\ worker[w].pc \in {"up", "failed"}
  /\ CASE Ping(w) = 503                        -> Answered(w, r, Answer(503, "json"))
       [] Ping(w) = 200 /\ r.declared = "large" -> Answered(w, r, Answer(413, "json"))
       [] OTHER -> request' = [pc |-> "reading", worker |-> w, request |-> r]
  /\ UNCHANGED <<training, threshold, worker>>

Respond ==
  /\ request.pc = "reading"
  /\ Answered(request.worker, request.request, Invocation(request.request))
  /\ UNCHANGED <<training, threshold, worker>>

\* The client has its answer, or goes away before its body is complete.
Disconnect ==
  /\ request # NoRequest
  /\ request' = NoRequest
  /\ UNCHANGED <<training, threshold, worker>>

Lifespan(w) == ReadMetadata(w) \/ VerifyDigest(w) \/ LoadModel(w)

Next ==
  \/ Train
  \/ \E p \in Packages : Extract(p)
  \/ \E w \in Workers :
       \/ Start(w) \/ Lifespan(w) \/ Stop(w)
       \/ \E r \in Requests(place) : Arrive(w, r)
  \/ Respond \/ Disconnect

\* A worker runs its lifespan; a training run goes on until it ends.
Fairness == /\ \A w \in Workers : WF_vars(Lifespan(w))
            /\ WF_vars(TrainingStep /\ Watched)

Spec == Init /\ [][Next]_vars /\ Fairness

Worker == [pc: {"down", "metadata", "verify", "load", "up", "failed"},
           meta: Metadata, model: Fit, raced: BOOLEAN]

ServingTypeOK ==
  /\ TrainingTypeOK
  /\ threshold \in BOOLEAN
  /\ worker \in [Workers -> Worker]
  /\ \A w \in Workers : worker[w].pc \in {"verify", "load", "up"} => worker[w].meta.is = "whole"
  /\ \/ request = NoRequest
     \/ request \in [pc: {"reading"}, worker: Workers, request: Request]
     \/ request \in [pc: {"answered"}, worker: Workers, request: Request,
                    answer: [status: Nat, media: Media], ready: BOOLEAN]

(***************************************************************************)
(* Properties.                                                             *)
(***************************************************************************)

\* A worker that answers does so with the model its metadata was written for:
\* a truncated upload, a mismatched package or an interrupted save is never
\* served (model_io.py).  Training over the file while it is loaded is the
\* exception: load_model opens it a second time after verifying it.
ServedModelMatchesItsMetadata ==
  \A w \in Workers :
    worker[w].pc = "up" /\ ~worker[w].raced => worker[w].model = worker[w].meta.fit

\* A training that ended well left a directory that loads, with the digest
\* and the measurements of this very model in the evaluation, whatever
\* earlier runs in the tree left behind (run_training).
SuccessIsLoadable ==
  job.pc = "idle" /\ job.outcome = "done" =>
    /\ tree.model.is = "whole" /\ tree.metadata.is = "whole" /\ tree.evaluation.is = "whole"
    /\ tree.model.fit = tree.metadata.sha /\ tree.metadata.sha = tree.evaluation.sha
    /\ tree.metadata.fit = tree.model.fit /\ tree.metadata.on = tree.evaluation.on

\* In a container of its own a training leaves a failure file exactly when it
\* raised, and a killed one leaves none: what SageMaker shows as the reason
\* is the reason of this run (run_training, except clause).
FailureIsExplained ==
  place = "training" /\ job.runs > 0 => (tree.failure <=> job.outcome = "failed")

\* The body, read as its type says, gives every feature.
GivesFeatures(r) ==
  CASE MediaType(r) = "csv" -> IF r.header THEN r.body.complete ELSE r.body.fits /\ ~r.body.headed
    [] r.media = "json" /\ r.body.layout = "other" -> FALSE
    [] r.media = "json" /\ r.body.layout \in {"dataframe_split", "inputs"} ->
         /\ r.body.fits /\ r.body.complete
         /\ r.body.layout = "dataframe_split" => r.body.items # "none"
    [] OTHER -> IF r.body.items = "objects" THEN r.body.complete
                ELSE r.body.items = "arrays" /\ r.body.fits

BadBody(r) ==
  r.body.size = "empty" \/ ~r.body.parses \/ r.body.rows = 0 \/ ~GivesFeatures(r)

\* Why a request may be answered with a status.
Accounted(r, status, media) ==
  /\ status \in {200, 400, 406, 413, 415, 500, 503}
  /\ status = 200 => /\ r.body.size # "large" /\ r.declared # "large"
                     /\ r.decodes /\ ~BadBody(r) /\ r.body.scorable
                     /\ media \in Media
                     /\ \/ \E i \in DOMAIN r.accept : r.accept[i] = media
                        \/ /\ media = "json"
                           /\ r.accept = <<>> \/ \E i \in DOMAIN r.accept : r.accept[i] = "any"
  /\ status = 400 => BadBody(r)
  /\ status = 413 => r.body.size = "large" \/ r.declared = "large"
  /\ status = 415 => r.media = "other"
  /\ status = 406 => ~Acceptable(r)
  /\ status = 500 =>
       \/ ~r.decodes \/ ~r.body.scorable
       \/ r.media = "json" /\ r.body.layout \in {"dataframe_split", "inputs"} /\ ~r.body.fits

\* What a request may be answered with is decided by the request and the
\* worker alone: a score goes only to a request that names every feature of
\* at least one row, in a type the client takes; a refusal only to one that is
\* at fault in the way its status says, a 400 included; an internal error
\* only where decoding the text, building the frame or the pipeline raised
\* something the handler does not know (which includes faults of the client:
\* see ClientFaultsAreRefused); and 503 comes exactly from a worker without
\* a model.
RequestsAreAccounted ==
  request.pc = "answered" =>
    /\ (request.ready <=> request.answer.status # 503)
    /\ Accounted(request.request, request.answer.status, request.answer.media)

\* server.py: "4xx = client, 5xx = us".  A request whose text is not in its
\* charset, or whose body does not give the features, is not answered as an
\* internal error (it is, for an unknown charset and for a dataframe_split or
\* inputs that the pandas constructor does not take).
ClientFaultsAreRefused ==
  request.pc = "answered" /\ request.answer.status = 500 =>
    request.request.decodes /\ ~BadBody(request.request)

\* How far a training run has come in its directory.
TrainingInOrder ==
  /\ job.pc # "idle" => job.outcome = "none" /\ place # "hosting"
  /\ place = "hosting" => job.outcome = "none"
  /\ job.pc \notin {"idle", "load"} => job.fit # NoFit
  /\ job.pc \in {"dumping", "digest", "stamp", "stamping", "report", "reporting"} =>
       tree.model = [is |-> IF job.pc = "dumping" THEN "partial" ELSE "whole", fit |-> job.fit]
  /\ job.pc \in {"stamp", "stamping", "report", "reporting"} => job.sha = job.fit
  /\ job.pc \in {"stamping", "report", "reporting"} =>
       tree.metadata = [is |-> IF job.pc = "stamping" THEN "partial" ELSE "whole",
                        sha |-> job.sha, fit |-> job.fit, on |-> job.on]
  /\ job.pc = "reporting" => tree.evaluation = [is |-> "partial", sha |-> job.sha, on |-> job.on]

\* Metadata carries the digest of its own model; a model is fitted on rows.
StampedAsFitted ==
  /\ tree.metadata.sha = tree.metadata.fit
  /\ tree.model.is = "whole" => tree.model.fit # NoFit
  /\ \A w \in Workers : worker[w].meta.sha = worker[w].meta.fit

\* What a worker loads next is what it has verified, unless it was written since.
LoadedIsVerified ==
  \A w \in Workers :
    worker[w].pc = "load" /\ ~worker[w].raced =>
      tree.model.is = "whole" /\ tree.model.fit = worker[w].meta.sha

\* A request is read by a worker that has a model.
ReaderIsUp ==
  request.pc = "reading" => /\ worker[request.worker].pc = "up"
                            /\ request.request.declared # "large"

ServingInvariant ==
  /\ ServingTypeOK
  /\ TrainingInOrder /\ StampedAsFitted /\ LoadedIsVerified /\ ReaderIsUp
  /\ SuccessIsLoadable /\ FailureIsExplained
  /\ ServedModelMatchesItsMetadata /\ RequestsAreAccounted

Published == INSTANCE PublishedModels WITH
  Models    <- Fit,
  None      <- NoFit,
  published <- IF tree.model.is = "whole" /\ tree.metadata.is = "whole"
                  /\ tree.metadata.sha = tree.model.fit
               THEN tree.model.fit ELSE NoFit,
  serving   <- [w \in Workers |-> IF worker[w].pc = "up" THEN worker[w].model ELSE NoFit]

\* A worker comes up with what a training has written since it read the directory.
Overtaken ==
  \E w \in Workers : /\ worker[w].pc = "load" /\ worker'[w].pc = "up"
                     /\ (worker[w].raced \/ worker[w].meta # tree.metadata)

\* save_model and load_model implement the abstract directory, through
\* failures, kills and partial files: nothing is published by halves, and what
\* a worker takes is what is published then, unless it was overtaken.
ImplementsPublishedModels ==
  Published!Init /\ [][Published!Next \/ Overtaken]_(Published!models)

\* A worker that starts is up or has failed in the end, unless it is stopped,
\* and a training run comes to its end: neither waits for the other.
ServingSettles ==
  /\ \A w \in Workers : [](worker[w].pc = "metadata" => <>(worker[w].pc \in {"up", "failed", "down"}))
  /\ [](job.pc = "load" => <>(job.pc = "idle"))
=============================================================================
