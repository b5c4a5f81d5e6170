-------------------------- MODULE MCMonitorLoop --------------------------
(***************************************************************************)
(* Instances of MonitorLoop for TLC: one feature and the score, one job    *)
(* and one exporter, and windows that each stand for one branch of decide. *)
(***************************************************************************)
EXTENDS MonitorLoop

CONSTANTS x, job, exporter

OneFeature  == {x}
OneJob      == {job}
OneExporter == {exporter}
NoExporter  == {}

Alerts == {"WARN", "CRITICAL"}

WindowWith(rows, psi, test, score, declines, quality, performance) ==
  [enoughRows |-> rows,
   feature |-> [f \in Features |-> [psi |-> psi, test |-> test]],
   scorePsi |-> score, declines |-> declines, quality |-> quality,
   performance |-> performance]

\* Suppressed, with a worse model; WARN on x; CRITICAL on both; WARN on the
\* score (PSI and test disagree on x); nothing.
Thin        == WindowWith(FALSE, "critical", "significant", "critical", TRUE, "OK", "CRITICAL")
FeatureWarn == WindowWith(TRUE, "warn", "significant", "nan", TRUE, "OK", "unlabelled")
Shift       == WindowWith(TRUE, "critical", "untested", "critical", FALSE, "WARN", "WARN")
ScoreWarn   == WindowWith(TRUE, "critical", "insignificant", "low", TRUE, "OK", "OK")
Quiet       == WindowWith(TRUE, "nan", "untested", "low", FALSE, "OK", "unlabelled")

AllSamples   == {Thin, FeatureWarn, Shift, ScoreWarn, Quiet}
WarnSamples  == {FeatureWarn}
=============================================================================
