--------------------------- MODULE MCEndpointRelease ---------------------------
(***************************************************************************)
(* Instances of EndpointRelease for TLC: two or three packages, of which   *)
(* one answers the smoke test badly, and one command slot.                 *)
(***************************************************************************)
EXTENDS EndpointRelease

CONSTANTS good, better, broken, job1

TwoPackages   == {good, broken}
ThreePackages == {good, better, broken}
GoodOnes      == {good}
TwoGood       == {good, better}

OneRun == {job1}

Production == {"alarms", "autoscaling"}
NoGuards   == {}

=============================================================================
