-------------------------- MODULE ChampionRegistry --------------------------
(***************************************************************************)
(* What a deployment that loads models:/<name>@champion may rely on: the   *)
(* alias moves in one step, only to a version that the promotion gate      *)
(* passed against the incumbent, and never before the incumbent can be     *)
(* loaded as @previous.  AliasPromotion makes the same moves with one      *)
(* MLflow call at a time.                                                  *)
(***************************************************************************)
CONSTANTS
  Versions,  \* versions of the registered model
  None,      \* no version
  Passes     \* <<v, w>>: the gate passes v against the champion w (or None)

VARIABLES
  champion,  \* the version @champion points to
  previous   \* the version @previous points to

aliases == <<champion, previous>>

Init == champion = None /\ previous = None

\* The incumbent becomes the version to return to.
Keep ==
  /\ champion # None
  /\ previous' = champion
  /\ UNCHANGED champion

\* Another version takes over, or the first one starts.
Replace(v) ==
  /\ v # champion
  /\ <<v, champion>> \in Passes
  /\ previous = champion
  /\ champion' = v
  /\ UNCHANGED previous

Next == Keep \/ \E v \in Versions : Replace(v)

Spec == Init /\ [][Next]_aliases
=============================================================================
