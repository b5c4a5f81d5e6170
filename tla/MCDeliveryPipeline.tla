------------------------- MODULE MCDeliveryPipeline -------------------------
(***************************************************************************)
(* Instances of DeliveryPipeline for TLC: two overlapping runs, or a run   *)
(* and a person.                                                           *)
(***************************************************************************)
EXTENDS DeliveryPipeline

CONSTANTS r1, r2, c1, c2

TwoRuns    == {r1, r2}
TwoCommits == {c1, c2}

\* The second run is a retraining of the same commit or of a later one.
SomeDispatches == {<<r1, c1, TRUE>>, <<r2, c1, FALSE>>, <<r2, c2, FALSE>>}

\* The bound on who acts: two runs, the second dispatched at once, or a run and
\* a person.  It allows every step of a wait, so the fairness is that of Spec.
BothRuns == \A r \in Runs : Started(r)

TwoActors ==
  BothRuns' /\ commands' # commands =>
    IF BothRuns THEN run' # run ELSE commands = 1

MCNext == Next /\ TwoActors

MCSpec == Init /\ [][MCNext]_vars /\ \A r \in Runs : WF_vars(WaitForTrainingJob(r))
=============================================================================
