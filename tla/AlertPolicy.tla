---------------------------- MODULE AlertPolicy ----------------------------
(***************************************************************************)
(* mlwatch.policy.decide: from the measurements of one window and the      *)
(* counters of MonitorState to a status, an action and the new counters.   *)
(* A measurement is reduced to the band of the policy it falls in.         *)
(***************************************************************************)
EXTENDS Integers, Sequences

CONSTANTS
  Features,            \* the monitored features
  N,                   \* consecutive_windows_for_critical
  RequireTestAndPsi,   \* data_drift.require_test_and_psi
  InvestigateOn,       \* actions.investigate_on
  RetrainOnPerformance,  \* actions.retrain_on_performance_critical
  RetrainOnSustained     \* actions.retrain_on_sustained_data_critical

Severities == {"OK", "WARN", "CRITICAL"}

\* The score is a metadata column (schema.META_COLUMNS), never a feature.
ASSUME PolicyAssumption ==
  /\ N \in Nat \ {0}
  /\ "score" \notin Features
  /\ InvestigateOn \subseteq Severities
  /\ {RequireTestAndPsi, RetrainOnPerformance, RetrainOnSustained} \subseteq BOOLEAN

Subjects == Features \cup {"score"}

Bands == {"nan", "low", "warn", "critical"}

FeatureDrift == [psi: Bands, test: {"untested", "significant", "insignificant"}]

\* What run_window measures in one window.
Window == [enoughRows: BOOLEAN,                  \* n_rows >= min_rows
           feature: [Features -> FeatureDrift],
           scorePsi: Bands,
           declines: BOOLEAN,                    \* decline_rate_change_warn reached
           quality: Severities,                  \* the worst quality issue
           performance: Severities \cup {"unlabelled"}]

Band(psi) == CASE psi = "critical" -> "CRITICAL" [] psi = "warn" -> "WARN" [] OTHER -> "OK"

\* _data_severity
DataSeverity(d) ==
  IF RequireTestAndPsi /\ d.test = "insignificant" THEN "OK" ELSE Band(d.psi)

ScoreSeverity(w) ==
  IF w.scorePsi \in {"low", "warn"} /\ w.declines THEN "WARN" ELSE Band(w.scorePsi)

\* The severity a window gives a subject before any escalation.
Measured(w, s) ==
  IF ~w.enoughRows THEN "OK"
  ELSE IF s = "score" THEN ScoreSeverity(w) ELSE DataSeverity(w.feature[s])

\* Mutant: a quiet window leaves the counter where it was.
StreakKept(counters, w, s) ==
  IF Measured(w, s) # "OK" THEN counters[s] + 1 ELSE counters[s]

Streak(counters, w, s) == IF Measured(w, s) # "OK" THEN counters[s] + 1 ELSE 0

NewCounters(counters, w) == [s \in Subjects |-> Streak(counters, w, s)]

\* Only features escalate from WARN; the score does not.
Severity(counters, w, s) ==
  IF s # "score" /\ Measured(w, s) = "WARN" /\ Streak(counters, w, s) >= N
  THEN "CRITICAL" ELSE Measured(w, s)

\* Mutant: one window more than the policy says.
SustainedLate(counters, w) ==
  \E s \in Subjects : Severity(counters, w, s) = "CRITICAL" /\ Streak(counters, w, s) > N

Sustained(counters, w) ==
  \E s \in Subjects : Severity(counters, w, s) = "CRITICAL" /\ Streak(counters, w, s) >= N

\* The worst of the findings.
Status(counters, w) ==
  LET severities == {Severity(counters, w, s) : s \in Subjects} \cup {w.quality, w.performance}
  IN  CASE "CRITICAL" \in severities -> "CRITICAL"
        [] "CRITICAL" \notin severities /\ ("WARN" \in severities \/ ~w.enoughRows) -> "WARN"
        [] OTHER -> "OK"

Retrains(counters, w) ==
  \/ w.performance = "CRITICAL" /\ RetrainOnPerformance
  \/ Sustained(counters, w) /\ RetrainOnSustained

Action(counters, w) ==
  CASE Retrains(counters, w) -> "RETRAIN"
    [] ~Retrains(counters, w) /\ Status(counters, w) \in InvestigateOn -> "INVESTIGATE"
    [] OTHER -> "NONE"
=============================================================================
