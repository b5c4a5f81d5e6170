------------------------- MODULE MonitorLoopProofs -------------------------
(***************************************************************************)
(* Theorems of AlertPolicy and MonitorLoop for every policy, every set of  *)
(* features, any number of jobs and exporters on one state file, and any   *)
(* bound.                                                                  *)
(***************************************************************************)
EXTENDS MonitorLoop, TLAPS

\* A window gives every subject a severity.
LEMMA MeasuredType ==
  ASSUME NEW w \in Window, NEW s \in Subjects
  PROVE  Measured(w, s) \in Severities
<1>1. \A psi \in Bands : Band(psi) \in Severities
  BY DEF Bands, Band, Severities
<1>2. w.scorePsi \in Bands /\ \A f \in Features : w.feature[f].psi \in Bands
  BY DEF Window, FeatureDrift
<1>3. ScoreSeverity(w) \in Severities
  BY <1>1, <1>2 DEF ScoreSeverity, Severities
<1>4. s # "score" => DataSeverity(w.feature[s]) \in Severities
  BY <1>1, <1>2 DEF DataSeverity, Severities, Subjects
<1> QED
  BY <1>3, <1>4 DEF Measured, Severities

\* A window ends a drift of a subject, or makes it longer by one.
LEMMA DriftedForAppend ==
  ASSUME NEW h \in Seq(Entry), NEW e \in Entry, NEW s \in Subjects,
         NEW n \in 0..(Len(h) + 1)
  PROVE  DriftedFor(Append(h, e), s, n) <=>
           n = 0 \/ (Measured(e.window, s) # "OK" /\ DriftedFor(h, s, n - 1))
<1> DEFINE g == Append(h, e)
<1>1. /\ Len(g) = Len(h) + 1 /\ g[Len(h) + 1] = e /\ Len(h) \in Nat
      /\ \A i \in 1..Len(h) : g[i] = h[i]
  OBVIOUS
<1> HIDE DEF g
<1>2. CASE n = 0
  BY <1>1, <1>2 DEF DriftedFor, g
<1>3. CASE n # 0
  <2>1. (Len(g) - n + 1)..Len(g) = ((Len(h) - (n - 1) + 1)..Len(h)) \cup {Len(h) + 1}
    BY <1>1, <1>3
  <2>2. n <= Len(g) /\ n - 1 <= Len(h) /\ (Len(h) - (n - 1) + 1)..Len(h) \subseteq 1..Len(h)
    BY <1>1, <1>3
  <2>3. DriftedFor(g, s, n) <=>
          \A i \in ((Len(h) - (n - 1) + 1)..Len(h)) \cup {Len(h) + 1} :
             Measured(g[i].window, s) # "OK"
    BY <2>1, <2>2 DEF DriftedFor
  <2>4. DriftedFor(h, s, n - 1) <=>
          \A i \in (Len(h) - (n - 1) + 1)..Len(h) : Measured(g[i].window, s) # "OK"
    BY <1>1, <2>2 DEF DriftedFor
  <2> QED
    BY <1>1, <1>3, <2>3, <2>4 DEF g
<1> QED
  BY <1>2, <1>3

\* Counting a window gives a state.
LEMMA CountedType ==
  ASSUME NEW state \in State, NEW w \in Window, NEW id \in Nat
  PROVE  Counted(state, w, id) \in State
<1>1. NewCounters(state.consecutive, w) \in [Subjects -> Nat]
  BY DEF State, NewCounters, Streak
<1>2. [window |-> w, id |-> id] \in Entry
  BY DEF Entry
<1> QED
  BY <1>1, <1>2 DEF Counted, State

\* The counters keep standing for the history.
LEMMA CountedMatches ==
  ASSUME NEW state \in State, CountersMatch(state), NEW w \in Window, NEW id \in Nat
  PROVE  CountersMatch(Counted(state, w, id))
<1> DEFINE h == state.counted
           e == [window |-> w, id |-> id]
           c(s) == state.consecutive[s]
           d(s) == Streak(state.consecutive, w, s)
<1>0. /\ h \in Seq(Entry) /\ e \in Entry /\ Len(h) \in Nat /\ e.window = w
      /\ \A s \in Subjects : c(s) \in Nat
  BY DEF State, Entry
<1>1. /\ Counted(state, w, id).windows_seen = state.windows_seen + 1
      /\ Counted(state, w, id).counted = Append(h, e)
      /\ \A s \in Subjects : Counted(state, w, id).consecutive[s] = d(s)
  BY DEF Counted, NewCounters
<1>2. Len(Append(h, e)) = Len(h) + 1
  BY <1>0
<1>3. /\ state.windows_seen = Len(h)
      /\ \A s \in Subjects : /\ c(s) <= Len(h)
                             /\ \A n \in 0..Len(h) : c(s) >= n <=> DriftedFor(h, s, n)
  BY DEF CountersMatch
<1>4. \A s \in Subjects : d(s) = IF Measured(w, s) # "OK" THEN c(s) + 1 ELSE 0
  BY DEF Streak
<1> HIDE DEF h, e, c, d
<1>5. ASSUME NEW s \in Subjects
      PROVE  /\ d(s) <= Len(h) + 1
             /\ \A n \in 0..(Len(h) + 1) : d(s) >= n <=> DriftedFor(Append(h, e), s, n)
  <2>1. d(s) <= Len(h) + 1
    BY <1>0, <1>3, <1>4
  <2>2. ASSUME NEW n \in 0..(Len(h) + 1)
        PROVE  d(s) >= n <=> DriftedFor(Append(h, e), s, n)
    <3>1. DriftedFor(Append(h, e), s, n) <=>
            n = 0 \/ (Measured(w, s) # "OK" /\ DriftedFor(h, s, n - 1))
      BY <1>0, DriftedForAppend
    <3>2. CASE n = 0
      BY <1>0, <1>4, <3>1, <3>2
    <3>3. CASE n # 0
      <4>1. n - 1 \in 0..Len(h)
        BY <1>0, <3>3
      <4>2. c(s) >= n - 1 <=> DriftedFor(h, s, n - 1)
        BY <1>3, <4>1
      <4> QED
        BY <1>0, <1>4, <3>1, <3>3, <4>2
    <3> QED
      BY <3>2, <3>3
  <2> QED
    BY <2>1, <2>2
<1> QED
  BY <1>0, <1>1, <1>2, <1>3, <1>5 DEF CountersMatch

\* The decision on a window, from the counters, is the one the policy makes
\* on the windows.
LEMMA ActionMatches ==
  ASSUME NEW state \in State, CountersMatch(state), NEW w \in Window, NEW id \in Nat
  PROVE  Action(state.consecutive, w) = "RETRAIN" <=> ShouldRetrain(Counted(state, w, id).counted)
<1> DEFINE next == Counted(state, w, id)
           h == next.counted
           d(s) == Streak(state.consecutive, w, s)
<1>1. /\ next \in State /\ CountersMatch(next)
  BY CountedType, CountedMatches
<1>2. h \in Seq(Entry) /\ Len(h) \in Nat
  BY <1>1 DEF State
<1>3. Len(h) = Len(state.counted) + 1 /\ h[Len(h)].window = w
  BY DEF Counted, State
<1>4. \A s \in Subjects : next.consecutive[s] = d(s)
  BY DEF Counted, NewCounters
<1>5. \A s \in Subjects : d(s) \in Nat /\ (d(s) >= 1 => Measured(w, s) # "OK")
  BY DEF Streak, State
<1> HIDE DEF next, h, d
<1>6. ASSUME NEW s \in Subjects PROVE d(s) >= N <=> DriftedFor(h, s, N)
  <2>1. /\ d(s) <= Len(h) /\ \A n \in 0..Len(h) : d(s) >= n <=> DriftedFor(h, s, n)
    BY <1>1, <1>4 DEF CountersMatch, h
  <2>2. CASE N <= Len(h)
    BY <1>2, <2>1, <2>2, PolicyAssumption
  <2>3. CASE ~(N <= Len(h))
    BY <1>2, <1>5, <2>1, <2>3, PolicyAssumption DEF DriftedFor
  <2> QED
    BY <2>2, <2>3
<1>7. ASSUME NEW s \in Subjects
      PROVE  (Severity(state.consecutive, w, s) = "CRITICAL" /\ d(s) >= N) <=> Sustains(h, s)
  <2>1. Measured(w, s) \in Severities
    BY MeasuredType
  <2>2. d(s) >= N => Measured(w, s) # "OK"
    BY <1>5, PolicyAssumption
  <2> QED
    BY <1>3, <1>6, <2>1, <2>2 DEF Severity, Sustains, Severities, d
<1>8. Sustained(state.consecutive, w) <=> \E s \in Subjects : Sustains(h, s)
  BY <1>7 DEF Sustained, d
<1> QED
  BY <1>3, <1>8 DEF Action, Retrains, ShouldRetrain, h, next

-----------------------------------------------------------------------------
(* The loop.                                                                *)

\* The state of a process that starts from nothing.
LEMMA FreshMatches == Fresh \in State /\ CountersMatch(Fresh) /\ Gone \in User /\ CountersMatch(Gone.state)
<1>1. Fresh \in State
  BY DEF Fresh, State
<1>2. CountersMatch(Fresh)
  BY DEF Fresh, CountersMatch, DriftedFor
<1> QED
  BY <1>1, <1>2 DEF Gone, User

\* What one process must show when the others, and the windows, stay.
UserMatches(u) ==
  /\ user[u] \in User
  /\ CountersMatch(user[u].state)
  /\ user[u].pc \in Decided =>
       (user[u].action = "RETRAIN" <=> ShouldRetrain(user[u].state.counted))

\* The invariant, one process at a time.
LEMMA InvariantByUser ==
  CountersMatchHistory <=>
    /\ TypeOK
    /\ CountersMatch(file.state)
    /\ \A u \in Users : UserMatches(u)
BY DEF CountersMatchHistory, RetrainMatchesHistory, UserMatches, TypeOK

\* A step that replaces the record of one process and keeps the rest right.
LEMMA StepKeepsInvariant ==
  ASSUME CountersMatchHistory, NEW u \in Users, NEW record \in User, Becomes(u, record),
         CountersMatch(record.state),
         record.pc \in Decided =>
           (record.action = "RETRAIN" <=> ShouldRetrain(record.state.counted)),
         UNCHANGED <<users, windows>>, reported' \subseteq Nat,
         file' \in [readable: BOOLEAN, state: State], CountersMatch(file'.state)
  PROVE  CountersMatchHistory'
<1>0. TypeOK /\ \A v \in Users : UserMatches(v)
  BY InvariantByUser
<1>1. user' = [user EXCEPT ![u] = record] /\ user \in [Users -> User]
  BY <1>0 DEF Becomes, TypeOK
<1>2. user'[u] = record /\ \A v \in Users \ {u} : user'[v] = user[v]
  BY <1>1
<1>3. TypeOK'
  BY <1>0, <1>1 DEF TypeOK
<1>4. ASSUME NEW v \in Users PROVE UserMatches(v)'
  BY <1>0, <1>2 DEF UserMatches
<1>5. CountersMatch(file.state)'
  OBVIOUS
<1> QED
  BY <1>3, <1>4, <1>5 DEF CountersMatchHistory, RetrainMatchesHistory, UserMatches

\* Each step of a process keeps the invariant.
LEMMA UserStepKeepsInvariant ==
  ASSUME CountersMatchHistory, NEW u \in Users, UserStep(u)
  PROVE  CountersMatchHistory'
<1>0. /\ TypeOK /\ UserMatches(u) /\ user[u] \in User /\ user[u].state \in State
      /\ user[u].id \in Nat /\ user[u].action \in {"NONE", "INVESTIGATE", "RETRAIN"}
      /\ CountersMatch(user[u].state)
      /\ file \in [readable: BOOLEAN, state: State] /\ CountersMatch(file.state)
      /\ windows \in Seq(Window) /\ reported \subseteq Nat
  BY InvariantByUser DEF UserMatches, TypeOK, User
\* A process that is down or at rest owes only its state.
<1>1. ASSUME NEW state \in State, CountersMatch(state)
      PROVE  /\ Resting(state) \in User /\ CountersMatch(Resting(state).state)
             /\ Resting(state).pc \notin Decided
  BY <1>1 DEF Resting, User, Decided
<1>2. /\ Gone \in User /\ CountersMatch(Gone.state) /\ Gone.pc \notin Decided
  BY FreshMatches DEF Gone, Decided
<1>3. ASSUME NEW record \in User, Becomes(u, record), CountersMatch(record.state),
             record.pc \in Decided =>
               (record.action = "RETRAIN" <=> ShouldRetrain(record.state.counted)),
             UNCHANGED <<users, windows>>, reported' \subseteq Nat,
             file' \in [readable: BOOLEAN, state: State], CountersMatch(file'.state)
      PROVE  CountersMatchHistory'
  BY <1>3, StepKeepsInvariant
<1>4. CASE Load(u)
  <2>1. file.state \in State /\ Becomes(u, Resting(file.state))
        /\ UNCHANGED <<users, windows, file, reported>>
    BY <1>0, <1>4 DEF Load
  <2> QED
    BY <1>0, <1>1, <1>3, <2>1
<1>5. CASE RunWindow(u)
  <2>1. PICK id \in 1..Len(windows) :
          Becomes(u, [pc     |-> "truncate",
                      state  |-> Counted(user[u].state, windows[id], id),
                      id     |-> id,
                      action |-> Action(user[u].state.consecutive, windows[id])])
    BY <1>5 DEF RunWindow
  <2>2. windows[id] \in Window /\ id \in Nat
    BY <1>0
  <2> DEFINE next   == Counted(user[u].state, windows[id], id)
             action == Action(user[u].state.consecutive, windows[id])
             record == [pc |-> "truncate", state |-> next, id |-> id, action |-> action]
  <2>3. next \in State /\ CountersMatch(next)
    BY <1>0, <2>2, CountedType, CountedMatches
  <2>4. /\ action \in {"NONE", "INVESTIGATE", "RETRAIN"}
        /\ action = "RETRAIN" <=> ShouldRetrain(next.counted)
    <3>1. action = "RETRAIN" <=> ShouldRetrain(next.counted)
      BY <1>0, <2>2, ActionMatches
    <3>2. action \in {"NONE", "INVESTIGATE", "RETRAIN"}
      BY DEF Action
    <3> QED
      BY <3>1, <3>2
  <2>5. UNCHANGED <<users, windows, file, reported>>
    BY <1>5 DEF RunWindow
  <2>6. Becomes(u, record)
    BY <2>1
  <2> HIDE DEF next, action
  <2>7. /\ record \in User /\ record.state = next /\ record.action = action
    BY <2>2, <2>3, <2>4 DEF User
  <2> HIDE DEF record
  <2> QED
    BY <1>0, <1>3, <2>3, <2>4, <2>5, <2>6, <2>7
\* The record of a process that goes on to its next call.
<1>6. ASSUME NEW label \in {"write", "report"}
      PROVE  LET record == [user[u] EXCEPT !.pc = label]
             IN  /\ record \in User /\ record.pc = label
                 /\ record.state = user[u].state /\ record.action = user[u].action
  BY <1>0 DEF User
<1>7. CASE Truncate(u)
  <2>1. /\ Becomes(u, [user[u] EXCEPT !.pc = "write"]) /\ UNCHANGED <<users, windows, reported>>
        /\ file' = [file EXCEPT !.readable = FALSE] /\ user[u].pc = "truncate"
    BY <1>7 DEF Truncate, Goto, At
  <2>2. file' \in [readable: BOOLEAN, state: State] /\ file'.state = file.state
    BY <1>0, <2>1
  <2>3. user[u].action = "RETRAIN" <=> ShouldRetrain(user[u].state.counted)
    BY <1>0, <2>1 DEF UserMatches, Decided
  <2> QED
    BY <1>0, <1>3, <1>6, <2>1, <2>2, <2>3
<1>8. CASE Write(u)
  <2>1. /\ Becomes(u, [user[u] EXCEPT !.pc = "report"]) /\ UNCHANGED <<users, windows, reported>>
        /\ file' = [readable |-> TRUE, state |-> user[u].state] /\ user[u].pc = "write"
    BY <1>8 DEF Write, Goto, At
  <2>2. file' \in [readable: BOOLEAN, state: State] /\ file'.state = user[u].state
    BY <1>0, <2>1
  <2>3. user[u].action = "RETRAIN" <=> ShouldRetrain(user[u].state.counted)
    BY <1>0, <2>1 DEF UserMatches, Decided
  <2> QED
    BY <1>0, <1>3, <1>6, <2>1, <2>2, <2>3
<1>9. CASE Report(u)
  <2>1. /\ Becomes(u, Gone) \/ Becomes(u, Resting(user[u].state))
        /\ UNCHANGED <<users, windows, file>> /\ reported' \subseteq Nat
    BY <1>0, <1>9 DEF Report
  <2> QED
    BY <1>0, <1>1, <1>2, <1>3, <2>1
<1>10. CASE SaveFails(u)
  <2>1. /\ Becomes(u, Resting(user[u].state)) /\ UNCHANGED <<users, windows, file>>
        /\ reported' \subseteq Nat
    BY <1>0, <1>10 DEF SaveFails
  <2> QED
    BY <1>0, <1>1, <1>3, <2>1
<1>11. CASE Crash(u)
  <2>1. Becomes(u, Gone) /\ UNCHANGED <<users, windows, file, reported>>
    BY <1>11 DEF Crash
  <2> QED
    BY <1>0, <1>2, <1>3, <2>1
<1> QED
  BY <1>4, <1>5, <1>7, <1>8, <1>9, <1>10, <1>11 DEF UserStep

\* CountersMatchHistory is inductive.
LEMMA CountersInductive == CountersMatchHistory /\ [Next]_vars => CountersMatchHistory'
<1> SUFFICES ASSUME CountersMatchHistory, [Next]_vars PROVE CountersMatchHistory'
  OBVIOUS
<1>1. CASE Arrive
  <2>1. PICK w \in Samples : windows' = Append(windows, w)
    BY <1>1 DEF Arrive
  <2>2. TypeOK'
    BY <1>1, <2>1, LoopAssumption DEF Arrive, CountersMatchHistory, TypeOK
  <2> QED
    BY <1>1, <2>2 DEF Arrive, CountersMatchHistory, RetrainMatchesHistory
<1>2. ASSUME NEW u \in Users, UserStep(u) PROVE CountersMatchHistory'
  BY <1>2, UserStepKeepsInvariant
<1>3. CASE UNCHANGED vars
  BY <1>3 DEF vars, CountersMatchHistory, RetrainMatchesHistory, TypeOK
<1> QED
  BY <1>1, <1>2, <1>3 DEF Next

\* It holds when nothing has been counted.
LEMMA CountersInit == Init => CountersMatchHistory
<1> SUFFICES ASSUME Init PROVE CountersMatchHistory
  OBVIOUS
<1>1. TypeOK
  BY FreshMatches DEF Init, TypeOK
<1>2. \A u \in Users : user[u] = Gone
  BY DEF Init
<1> QED
  BY <1>1, <1>2, FreshMatches
  DEF Init, CountersMatchHistory, RetrainMatchesHistory, Gone, Decided

\* Every copy of the state, in the file or in memory, stands for the windows
\* it has counted.
THEOREM CountersAreHistory == Spec => []CountersMatchHistory
  BY CountersInit, CountersInductive, PTL DEF Spec

\* A retrain is recommended exactly when the rule of policy.py says so of the
\* windows counted, at WARN or worse, for every policy and however the users of the file interleave,
\* crash and restart.
THEOREM RetrainsMatchHistory == Spec => []RetrainMatchesHistory
<1>1. CountersMatchHistory => RetrainMatchesHistory
  BY DEF CountersMatchHistory
<1> QED
  BY <1>1, CountersAreHistory, PTL

-----------------------------------------------------------------------------
(* A job that is alone on the file.                                         *)

\* A window that is counted stays counted, and the new one is.
LEMMA CountedCounts ==
  ASSUME NEW state \in State, NEW w \in Window, NEW n \in Nat
  PROVE  /\ Counts(Counted(state, w, n), n)
         /\ \A id : Counts(state, id) => Counts(Counted(state, w, n), id)
<1> DEFINE h == state.counted
           e == [window |-> w, id |-> n]
           g == Append(h, e)
<1>1. h \in Seq(Entry) /\ e \in Entry /\ e.id = n
  BY DEF State, Entry
<1>2. Counted(state, w, n).counted = g
  BY DEF Counted
<1> HIDE DEF h, e
<1>3. /\ DOMAIN h = 1..Len(h) /\ DOMAIN g = 1..(Len(h) + 1) /\ Len(h) \in Nat
      /\ g[Len(h) + 1] = e /\ \A i \in 1..Len(h) : g[i] = h[i]
  BY <1>1
<1>4. Len(h) + 1 \in DOMAIN g /\ DOMAIN h \subseteq DOMAIN g
  BY <1>3
<1> HIDE DEF g
<1>5. Counts(Counted(state, w, n), n)
  BY <1>1, <1>2, <1>3, <1>4 DEF Counts
<1>6. ASSUME NEW id, Counts(state, id) PROVE Counts(Counted(state, w, n), id)
  BY <1>2, <1>3, <1>4, <1>6 DEF Counts, h
<1> QED
  BY <1>5, <1>6

\* Each step of the only job saves before it reports.
LEMMA SavedStep ==
  ASSUME MonitorInvariant, NEW u \in Users, UserStep(u)
  PROVE  /\ (\A v \in Users \ users : user[v].pc = "down")'
         /\ (OneJobAlone => \A v \in users : JobIsSaved(v))'
         /\ ReportedIsCounted'
<1>0. /\ TypeOK /\ users' = users /\ windows' = windows /\ u \in users
      /\ user \in [Users -> User] /\ user[u] \in User
      /\ user[u].state \in State /\ user[u].id \in Nat
  BY DEF UserStep, Load, RunWindow, Truncate, Write, Report, SaveFails, Crash, At, MonitorInvariant,
     CountersMatchHistory, TypeOK, User
<1>1. PICK record : Becomes(u, record)
  BY DEF UserStep, Load, RunWindow, Truncate, Write, Report, SaveFails, Crash, Goto
<1>2. user'[u] = record /\ \A v \in Users \ {u} : user'[v] = user[v]
  BY <1>0, <1>1 DEF Becomes
<1>3. (\A v \in Users \ users : user[v].pc = "down")'
  BY <1>0, <1>2 DEF MonitorInvariant
<1>4. ASSUME OneJobAlone
      PROVE  JobIsSaved(u)' /\ ReportedIsCounted'
  <2>0. /\ JobIsSaved(u) /\ u \in CliJobs /\ u \notin Exporters
        /\ file.readable => \A id \in reported : Counts(file.state, id)
    BY <1>0, <1>4, LoopAssumption DEF MonitorInvariant, OneJobAlone, ReportedIsCounted
  <2>1. CASE Load(u)
    <3>1. /\ user'[u].pc = "ready" /\ user'[u].state = file.state
          /\ file.readable /\ UNCHANGED <<file, reported>>
      BY <1>0, <2>1 DEF Load, Becomes, Resting
    <3> QED
      BY <2>0, <3>1 DEF JobIsSaved, ReportedIsCounted, Decided
  <2>2. CASE RunWindow(u)
    <3>1. PICK id \in 1..Len(windows) :
            Becomes(u, [pc     |-> "truncate",
                        state  |-> Counted(user[u].state, windows[id], id),
                        id     |-> id,
                        action |-> Action(user[u].state.consecutive, windows[id])])
      BY <2>2 DEF RunWindow
    <3>2. /\ user'[u].pc = "truncate" /\ user'[u].id = id
          /\ user'[u].state = Counted(user[u].state, windows[id], id)
      BY <1>0, <3>1 DEF Becomes
    <3>3. windows[id] \in Window /\ id \in Nat
      BY <1>0 DEF TypeOK
    <3>4. user[u].pc = "ready" /\ UNCHANGED <<file, reported>>
      BY <2>2 DEF RunWindow, At
    <3> QED
      BY <1>0, <2>0, <3>2, <3>3, <3>4, CountedCounts DEF JobIsSaved, ReportedIsCounted, Decided
  <2>3. ASSUME NEW label \in {"write", "report"}, Goto(u, label)
        PROVE  user'[u].pc = label /\ user'[u].state = user[u].state /\ user'[u].id = user[u].id
    BY <1>0, <2>3 DEF Goto, Becomes, User
  <2>4. CASE Truncate(u)
    <3>1. /\ user[u].pc = "truncate" /\ user'[u].pc = "write" /\ user'[u].state = user[u].state
          /\ user'[u].id = user[u].id /\ reported' = reported
      BY <2>3, <2>4 DEF Truncate, At
    <3>2. file' = [file EXCEPT !.readable = FALSE] /\ file \in [readable: BOOLEAN, state: State]
      BY <1>0, <2>4 DEF Truncate, TypeOK
    <3>3. ~file'.readable
      BY <3>2
    <3> QED
      BY <2>0, <3>1, <3>3 DEF JobIsSaved, ReportedIsCounted, Decided
  <2>5. CASE Write(u)
    <3>1. /\ user[u].pc = "write" /\ user'[u].pc = "report" /\ user'[u].state = user[u].state
          /\ user'[u].id = user[u].id /\ reported' = reported
      BY <2>3, <2>5 DEF Write, At
    <3>2. file'.state = user[u].state
      BY <2>5 DEF Write
    <3> QED
      BY <2>0, <3>1, <3>2 DEF JobIsSaved, ReportedIsCounted, Decided
  <2>6. CASE Report(u)
    <3>1. /\ user[u].pc = "report" /\ user'[u].pc = "down"
          /\ reported' = reported \cup {user[u].id} /\ file' = file
      BY <1>0, <2>0, <2>6 DEF Report, At, Becomes, Gone
    <3> QED
      BY <2>0, <3>1 DEF JobIsSaved, ReportedIsCounted, Decided
  <2>7. CASE Crash(u)
    <3>1. user'[u].pc = "down" /\ UNCHANGED <<file, reported>>
      BY <1>0, <2>7 DEF Crash, Becomes, Gone
    <3> QED
      BY <2>0, <3>1 DEF JobIsSaved, ReportedIsCounted, Decided
  <2> QED
    BY <2>0, <2>1, <2>2, <2>4, <2>5, <2>6, <2>7 DEF UserStep, SaveFails
<1>5. (OneJobAlone => \A v \in users : JobIsSaved(v))'
  BY <1>0, <1>4 DEF OneJobAlone
<1>6. ReportedIsCounted'
  BY <1>0, <1>4 DEF OneJobAlone, ReportedIsCounted
<1> QED
  BY <1>3, <1>5, <1>6

\* MonitorInvariant is inductive.
LEMMA MonitorInductive == MonitorInvariant /\ [Next]_vars => MonitorInvariant'
<1> SUFFICES ASSUME MonitorInvariant, [Next]_vars PROVE MonitorInvariant'
  OBVIOUS
<1>1. CountersMatchHistory'
  BY CountersInductive DEF MonitorInvariant
<1>2. CASE UNCHANGED <<users, file, user, reported>>
  BY <1>1, <1>2 DEF MonitorInvariant, OneJobAlone, JobIsSaved, ReportedIsCounted
<1>3. ASSUME NEW u \in Users, UserStep(u) PROVE MonitorInvariant'
  BY <1>1, <1>3, SavedStep DEF MonitorInvariant
<1> QED
  BY <1>2, <1>3 DEF Next, Arrive, vars

\* No window is counted or reported at first.
LEMMA MonitorInit == Init => MonitorInvariant
<1> SUFFICES ASSUME Init PROVE MonitorInvariant
  OBVIOUS
<1>1. \A u \in Users : user[u].pc = "down"
  BY DEF Init, Gone
<1>2. reported = {} /\ users \subseteq Users
  BY DEF Init
<1>3. \A u \in users : JobIsSaved(u)
  BY <1>1, <1>2 DEF JobIsSaved, Decided
<1> QED
  BY <1>1, <1>2, <1>3, CountersInit DEF MonitorInvariant, ReportedIsCounted

\* Every copy of the state stands for the windows it has counted, and where one
\* `mlwatch run` at a time is the only user, it has counted what was reported.
THEOREM MonitorInvariantHolds == Spec => []MonitorInvariant
  BY MonitorInit, MonitorInductive, PTL DEF Spec

\* Where `mlwatch run`, one job at a time, is the only user of its file, no
\* window it has reported is missing from the file when that can be read,
\* wherever a job was killed.  (Said of jobs: an exporter shows a window first.)
THEOREM ReportsAreSaved == Spec => []ReportedIsCounted
<1>1. MonitorInvariant => ReportedIsCounted
  BY DEF MonitorInvariant
<1> QED
  BY <1>1, MonitorInvariantHolds, PTL
=============================================================================
