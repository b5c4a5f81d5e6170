-------------------------- MODULE PublishedModels --------------------------
(***************************************************************************)
(* What a model directory and the server on it promise: a model is         *)
(* published with its metadata in one step or not at all, and a worker     *)
(* serves what was published when it took it.                              *)
(***************************************************************************)
CONSTANTS
  Models,   \* what may be published
  None,     \* nothing
  Workers   \* the processes that serve

VARIABLES
  published,  \* what the directory offers
  serving     \* what each worker answers with

models == <<published, serving>>

Init == published = None /\ serving = [w \in Workers |-> None]

\* Publishing, replacing or taking back.
Publish == published' \in Models \cup {None} /\ UNCHANGED serving

Take(w) ==
  /\ published # None /\ serving[w] = None
  /\ serving' = [serving EXCEPT ![w] = published]
  /\ UNCHANGED published

Leave(w) ==
  /\ serving' = [serving EXCEPT ![w] = None]
  /\ UNCHANGED published

Next == Publish \/ \E w \in Workers : Take(w) \/ Leave(w)
=============================================================================
