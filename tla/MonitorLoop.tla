---------------------------- MODULE MonitorLoop ----------------------------
(***************************************************************************)
(* The users of one MonitorState file: `mlwatch run`, which loads it for   *)
(* every window, and the exporter, which loads it when it starts and keeps *)
(* it in memory.  Both decide on a window, truncate the file, write it and *)
(* only then report; a job may be killed and an exporter restarted before  *)
(* each of these steps.  A window may be run again.                        *)
(*                                                                         *)
(* The handler of POST /run awaits nothing, so the exporter is a process   *)
(* that handles one request at a time.                                     *)
(***************************************************************************)
EXTENDS AlertPolicy

CONSTANTS
  CliJobs,      \* slots of `mlwatch run`: how many may overlap
  Exporters,    \* exporter processes on the file
  Samples,      \* the windows the run chooses from
  MaxWindows,   \* bound: windows that arrive
  MaxCounted    \* bound: windows one state may have counted

Users == CliJobs \cup Exporters

ASSUME LoopAssumption ==
  /\ CliJobs \cap Exporters = {}
  /\ Samples \subseteq Window
  /\ MaxWindows \in Nat
  /\ MaxCounted \in Nat

VARIABLES
  users,     \* the part of Users this deployment has; never changes
  windows,   \* the windows that have arrived, in order
  file,      \* the state file
  user,      \* the processes
  reported   \* history: the windows that were reported

vars == <<users, windows, file, user, reported>>

\* MonitorState, with the windows it has counted as a history.  (last_status
\* is written and never read.)
Entry == [window: Window, id: Nat]

State == [consecutive: [Subjects -> Nat], windows_seen: Nat, counted: Seq(Entry)]

Fresh == [consecutive |-> [s \in Subjects |-> 0], windows_seen |-> 0, counted |-> <<>>]

\* pc: the calls that come next.
User == [pc: {"down", "ready", "truncate", "write", "report"},
         state: State,
         id: Nat,
         action: {"NONE", "INVESTIGATE", "RETRAIN"}]

\* A process that does not run has no memory.
Gone == [pc |-> "down", state |-> Fresh, id |-> 0, action |-> "NONE"]

TypeOK ==
  /\ users \subseteq Users
  /\ windows \in Seq(Window)
  /\ file \in [readable: BOOLEAN, state: State]
  /\ user \in [Users -> User]
  /\ reported \subseteq Nat

\* MonitorState.load: a file that is missing is a fresh state.
Init ==
  /\ users \in SUBSET Users
  /\ windows = <<>>
  /\ file = [readable |-> TRUE, state |-> Fresh]
  /\ user = [u \in Users |-> Gone]
  /\ reported = {}

-----------------------------------------------------------------------------

Arrive ==
  /\ Len(windows) < MaxWindows
  /\ \E w \in Samples : windows' = Append(windows, w)
  /\ UNCHANGED <<users, file, user, reported>>

At(u, label) == user[u].pc = label
Becomes(u, record) == user' = [user EXCEPT ![u] = record]
Goto(u, label) == Becomes(u, [user[u] EXCEPT !.pc = label])

\* An exporter between requests, a job before its window.
Resting(state) == [pc |-> "ready", state |-> state, id |-> 0, action |-> "NONE"]

\* A file that was left half written does not parse: load raises.
Load(u) ==
  /\ At(u, "down")
  /\ u \in users
  /\ file.readable
  /\ Becomes(u, Resting(file.state))
  /\ UNCHANGED <<users, windows, file, reported>>

Counted(state, w, id) ==
  [consecutive  |-> NewCounters(state.consecutive, w),
   windows_seen |-> state.windows_seen + 1,
   counted      |-> Append(state.counted, [window |-> w, id |-> id])]

\* run_window: decide changes the counters in memory.
RunWindow(u) ==
  /\ At(u, "ready")
  /\ Len(user[u].state.counted) < MaxCounted
  /\ \E id \in 1..Len(windows) :
       Becomes(u, [pc     |-> "truncate",
                   state  |-> Counted(user[u].state, windows[id], id),
                   id     |-> id,
                   action |-> Action(user[u].state.consecutive, windows[id])])
  /\ UNCHANGED <<users, windows, file, reported>>

\* Mutant: the report first, the state when the report is out.
ReportFirst(u) ==
  /\ At(u, "truncate")
  /\ reported' = reported \cup {user[u].id}
  /\ Goto(u, "write")
  /\ UNCHANGED <<users, windows, file>>

\* MonitorState.save is write_text: the file is emptied, then written.
Truncate(u) ==
  /\ At(u, "truncate")
  /\ file' = [file EXCEPT !.readable = FALSE]
  /\ Goto(u, "write")
  /\ UNCHANGED <<users, windows, reported>>

Write(u) ==
  /\ At(u, "write")
  /\ file' = [readable |-> TRUE, state |-> user[u].state]
  /\ Goto(u, "report")
  /\ UNCHANGED <<users, windows, reported>>

\* The report of a job, the answer of the exporter.
Report(u) ==
  /\ At(u, "report")
  /\ reported' = reported \cup {user[u].id}
  /\ Becomes(u, IF u \in CliJobs THEN Gone ELSE Resting(user[u].state))
  /\ UNCHANGED <<users, windows, file>>

\* The exporter answers 500 when the save raises; its memory has moved on and
\* /metrics and /report show the window (exporter.update comes first).
SaveFails(u) ==
  /\ u \in Exporters
  /\ user[u].pc \in {"truncate", "write"}
  /\ reported' = reported \cup {user[u].id}
  /\ Becomes(u, Resting(user[u].state))
  /\ UNCHANGED <<users, windows, file>>

Crash(u) ==
  /\ user[u].pc # "down"
  /\ Becomes(u, Gone)
  /\ UNCHANGED <<users, windows, file, reported>>

UserStep(u) ==
  Load(u) \/ RunWindow(u) \/ Truncate(u) \/ Write(u) \/ Report(u) \/ SaveFails(u) \/ Crash(u)

Next == Arrive \/ \E u \in Users : UserStep(u)

Spec == Init /\ [][Next]_vars

-----------------------------------------------------------------------------
(* Properties.                                                              *)

\* The last n windows of a history all measured drift in s.
DriftedFor(history, s, n) ==
  /\ n <= Len(history)
  /\ \A i \in (Len(history) - n + 1)..Len(history) : Measured(history[i].window, s) # "OK"

\* What the policy says of a history of windows, in terms of the windows.
Sustains(history, s) ==
  /\ DriftedFor(history, s, N)
  /\ s = "score" => Measured(history[Len(history)].window, s) = "CRITICAL"

ShouldRetrain(history) ==
  \/ RetrainOnPerformance /\ history[Len(history)].window.performance = "CRITICAL"
  \/ RetrainOnSustained /\ \E s \in Subjects : Sustains(history, s)

Decided == {"truncate", "write", "report"}

\* A decision recommends retraining exactly when the performance is critical,
\* or a subject has drifted in each of the last N windows its state has
\* counted: however many jobs, exporters, crashes, restarts and failed saves
\* lie between these windows, the counters in the file stand for the windows
\* themselves (a thin window ends a drift).  It is the rule of policy.py and of
\* its tests (test_policy_monitor.py:84-87), in which a window at WARN counts;
\* the documentation asks for more, see SustainedBeforeRetrain.
RetrainMatchesHistory ==
  \A u \in Users :
    user[u].pc \in Decided =>
      (user[u].action = "RETRAIN" <=> ShouldRetrain(user[u].state.counted))

\* A counter is the length of the drift at the end of the history.
CountersMatch(state) ==
  /\ state.windows_seen = Len(state.counted)
  /\ \A s \in Subjects :
       /\ state.consecutive[s] <= Len(state.counted)
       /\ \A n \in 0..Len(state.counted) :
            state.consecutive[s] >= n <=> DriftedFor(state.counted, s, n)

\* The inductive form: every copy of the state stands for its history.
CountersMatchHistory ==
  /\ TypeOK
  /\ CountersMatch(file.state)
  /\ \A u \in Users : CountersMatch(user[u].state)
  /\ RetrainMatchesHistory

OneJobAlone == users \subseteq CliJobs /\ \A u, v \in users : u = v

Counts(state, id) == \E i \in DOMAIN state.counted : state.counted[i].id = id

\* Where `mlwatch run`, one job at a time, is the only user of the file, a window
\* that was reported is counted in every state a later run can load: cmd_run
\* saves the state before the report, so a crash in between repeats a window
\* and never forgets one.  It does not hold of an exporter, alone or not, which
\* shows a window before it saves (SaveFails), nor of two writers, of which the
\* last one wins.
ReportedIsCounted ==
  OneJobAlone /\ file.readable => \A id \in reported : Counts(file.state, id)

\* What a job that is alone has in memory, and has saved when it reports.
JobIsSaved(u) ==
  /\ user[u].pc # "down" => \A id \in reported : Counts(user[u].state, id)
  /\ user[u].pc \in Decided => Counts(user[u].state, user[u].id)
  /\ user[u].pc = "report" => file.state = user[u].state

MonitorInvariant ==
  /\ CountersMatchHistory
  /\ \A u \in Users \ users : user[u].pc = "down"
  /\ OneJobAlone => \A u \in users : JobIsSaved(u)
  /\ ReportedIsCounted

-----------------------------------------------------------------------------
(* What the documentation says, and the code does not keep.                 *)

RetrainsForDrift(u) ==
  /\ user[u].pc \in Decided
  /\ user[u].action = "RETRAIN"
  /\ windows[user[u].id].performance # "CRITICAL"

\* The severity of s in the last window of a history, as the window reported it.
ReportedCritical(history, s) ==
  \/ Measured(history[Len(history)].window, s) = "CRITICAL"
  \/ s # "score" /\ DriftedFor(history, s, N)

\* README.md:91: "RETRAIN needs either a performance CRITICAL or two consecutive
\* CRITICAL windows", and README.md:9-10: with the escalation "a single odd
\* batch never triggers a retrain".  Retraining for a drift follows two
\* different windows that both reported it CRITICAL.
SustainedBeforeRetrain ==
  \A u \in Users :
    LET history == user[u].state.counted
        last    == Len(history)
    IN  RetrainsForDrift(u) =>
          /\ last >= 2 /\ history[last - 1].id # history[last].id
          /\ \E s \in Subjects :
               ReportedCritical(history, s) /\ ReportedCritical(SubSeq(history, 1, last - 1), s)
=============================================================================
