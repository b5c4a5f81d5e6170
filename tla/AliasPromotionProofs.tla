------------------------ MODULE AliasPromotionProofs ------------------------
(***************************************************************************)
(* Theorems of AliasPromotion for every set of versions, every gate, every *)
(* set of splits and any number of overlapping jobs, and the refinement of *)
(* ChampionRegistry by jobs that do not overlap.                           *)
(***************************************************************************)
EXTENDS AliasPromotion, TLAPS

\* Replacing the record of a job by a job keeps every slot well typed.
LEMMA BecomesType ==
  ASSUME job \in [Jobs -> Job], NEW j \in Jobs, NEW r \in Job, Becomes(j, r)
  PROVE  job' \in [Jobs -> Job] /\ job'[j] = r /\ \A i \in Jobs \ {j} : job'[i] = job[i]
BY DEF Becomes

\* A job that starts is a job, and so is one that ends at once.
LEMMA StartedType ==
  ASSUME NEW label \in Labels, NEW v \in VersionOrNone, NEW w \in VersionOrNone,
         NEW a \in Aliases \cup {None}, NEW dry \in BOOLEAN, NEW result \in Results
  PROVE  /\ Started(label, v, w, a, dry) \in Job
         /\ [Started(label, v, w, a, dry) EXCEPT !.result = result] \in Job
<1>1. "none" \in Results /\ None \in VersionOrNone
  BY DEF Results, VersionOrNone
<1> QED
  BY <1>1 DEF Started, Job

\* Going on to another call changes the program counter only.
LEMMA GotoType ==
  ASSUME job \in [Jobs -> Job], NEW j \in Jobs, NEW label \in Labels, Goto(j, label)
  PROVE  /\ job' \in [Jobs -> Job]
         /\ job'[j].pc = label
         /\ job'[j].version = job[j].version /\ job'[j].champion = job[j].champion
         /\ job'[j].current = job[j].current /\ job'[j].dryRun = job[j].dryRun
         /\ job'[j].result = job[j].result
         /\ \A i \in Jobs \ {j} : job'[i] = job[i]
<1> DEFINE next == [job[j] EXCEPT !.pc = label]
<1>1. /\ next \in Job /\ next.pc = label
      /\ next.version = job[j].version /\ next.champion = job[j].champion
      /\ next.current = job[j].current /\ next.dryRun = job[j].dryRun
      /\ next.result = job[j].result
  BY DEF Job
<1>2. Becomes(j, next)
  BY DEF Goto
<1> HIDE DEF next
<1> QED
  BY <1>1, <1>2, BecomesType

\* Ending leaves an idle job with its result.
LEMMA EndType ==
  ASSUME job \in [Jobs -> Job], NEW j \in Jobs, NEW result \in Results, End(j, result)
  PROVE  /\ job' \in [Jobs -> Job]
         /\ job'[j].pc = "idle" /\ job'[j].version = job[j].version
         /\ job'[j].current = job[j].current /\ job'[j].result = result
         /\ \A i \in Jobs \ {j} : job'[i] = job[i]
<1> DEFINE next == [job[j] EXCEPT !.pc = "idle", !.result = result]
<1>1. "idle" \in Labels
  BY DEF Labels
<1>2. next \in Job /\ next.pc = "idle" /\ next.version = job[j].version
      /\ next.current = job[j].current /\ next.result = result
  BY <1>1 DEF Job
<1>3. Becomes(j, next)
  BY DEF End
<1> HIDE DEF next
<1> QED
  BY <1>2, <1>3, BecomesType

\* A job is earned when its own record is and the history only grows.
LEMMA OtherJobs ==
  ASSUME NEW i \in Jobs, JobIsEarned(i), job'[i] = job[i],
         earned \subseteq earned', held \subseteq held'
  PROVE  JobIsEarned(i)'
BY DEF JobIsEarned, GoesOn, Decision

\* An idle job owes nothing.
LEMMA IdleJob ==
  ASSUME NEW i \in Jobs, job'[i].pc = "idle"
  PROVE  JobIsEarned(i)'
BY DEF JobIsEarned, PastTheGate

\* What a step has to show besides its own record, in one place.
LEMMA StepKeepsInvariant ==
  ASSUME EarnedInvariant, NEW j \in Jobs,
         TypeOK', AliasesAreEarned', (alias[CHAMPION] \in held \cup {None})',
         earned \subseteq earned', held \subseteq held',
         \A i \in Jobs \ {j} : job'[i] = job[i],
         JobIsEarned(j)'
  PROVE  EarnedInvariant'
<1>1. ASSUME NEW i \in Jobs PROVE JobIsEarned(i)'
  BY OtherJobs DEF EarnedInvariant
<1> QED
  BY <1>1 DEF EarnedInvariant

\* Pointing an alias keeps the types, and the history of the champions.
LEMMA PointAliasType ==
  ASSUME TypeOK, NEW a \in Aliases, NEW v \in VersionOrNone, PointAlias(a, v)
  PROVE  /\ alias' = [alias EXCEPT ![a] = v]
         /\ alias' \in [Aliases -> VersionOrNone]
         /\ held \subseteq held' /\ held' \subseteq Versions
         /\ a = CHAMPION => v \in held' \cup {None}
         /\ UNCHANGED <<registered, decision, audit, retiredBy, earned>>
BY DEF PointAlias, TypeOK, tags, VersionOrNone

\* Steps that read, and end or go on.
LEMMA ReadingStep ==
  ASSUME EarnedInvariant, NEW j \in Jobs, Reads, job' \in [Jobs -> Job],
         \A i \in Jobs \ {j} : job'[i] = job[i], JobIsEarned(j)'
  PROVE  EarnedInvariant'
<1>1. /\ TypeOK' /\ AliasesAreEarned' /\ (alias[CHAMPION] \in held \cup {None})'
      /\ earned \subseteq earned' /\ held \subseteq held'
  BY DEF Reads, tags, history, EarnedInvariant, TypeOK, AliasesAreEarned
<1> QED
  BY <1>1, StepKeepsInvariant

\* Starting a command.
LEMMA StartStep ==
  ASSUME EarnedInvariant, NEW j \in Jobs, NEW v \in Versions,
         \/ \E a \in RegisterAliases \cup {None} : Register(j, v, a)
         \/ \E dry \in BOOLEAN : Promote(j, v, dry)
  PROVE  EarnedInvariant'
<1>0. /\ job \in [Jobs -> Job] /\ alias \in [Aliases -> VersionOrNone]
      /\ CHAMPION \in Aliases /\ v \in VersionOrNone /\ None \in VersionOrNone
      /\ {"idle", "register_alias", "score"} \subseteq Labels
      /\ {"registered", "already"} \subseteq Results
  BY DEF EarnedInvariant, TypeOK, Aliases, VersionOrNone, Labels, Results
<1>1. ASSUME NEW a \in RegisterAliases \cup {None}, Register(j, v, a) PROVE EarnedInvariant'
  <2>1. a \in Aliases \cup {None} /\ (a # None => a = CHALLENGER)
    BY PromotionAssumption DEF Aliases
  <2> DEFINE done  == [Started("idle", v, None, a, FALSE) EXCEPT !.result = "registered"]
             going == Started("register_alias", v, None, a, FALSE)
  <2>2. done \in Job /\ going \in Job
    BY <1>0, <2>1, StartedType
  <2>3. /\ job' \in [Jobs -> Job] /\ job'[j] \in {done, going}
        /\ job'[j] = going => a # None
        /\ \A i \in Jobs \ {j} : job'[i] = job[i]
    <3>1. CASE a = None
      <4> HIDE DEF done, going
      <4>1. Becomes(j, done)
        BY <1>1, <3>1 DEF Register, done
      <4>2. done.pc = "idle" /\ going.pc = "register_alias"
        BY DEF done, going, Started
      <4> QED
        BY <4>1, <4>2, <2>2, <1>0, BecomesType
    <3>2. CASE a # None
      <4> HIDE DEF done, going
      <4>1. Becomes(j, going)
        BY <1>1, <3>2 DEF Register, going
      <4> QED
        BY <4>1, <3>2, <2>2, <1>0, BecomesType
    <3> QED
      BY <3>1, <3>2
  <2>4. JobIsEarned(j)'
    <3>1. \/ job'[j].pc = "idle"
          \/ job'[j].pc = "register_alias" /\ job'[j].version = v /\ job'[j].alias = CHALLENGER
      BY <2>1, <2>3 DEF Started
    <3> QED
      BY <3>1, IdleJob DEF JobIsEarned, PastTheGate
  <2>5. /\ TypeOK' /\ AliasesAreEarned' /\ (alias[CHAMPION] \in held \cup {None})'
        /\ earned \subseteq earned' /\ held \subseteq held'
    BY <1>1, <2>3 DEF Register, tags, history, EarnedInvariant, TypeOK, AliasesAreEarned
  <2> QED
    BY <2>3, <2>4, <2>5, StepKeepsInvariant
<1>2. ASSUME NEW dry \in BOOLEAN, Promote(j, v, dry) PROVE EarnedInvariant'
  <2> DEFINE done  == [Started("idle", v, v, None, dry) EXCEPT !.result = "already"]
             going == Started("score", v, alias[CHAMPION], None, dry)
  <2>1. done \in Job /\ going \in Job
    BY <1>0, StartedType
  <2>2. Becomes(j, done) \/ Becomes(j, going)
    BY <1>2 DEF Promote
  <2>3. /\ job' \in [Jobs -> Job] /\ job'[j] \in {done, going}
        /\ \A i \in Jobs \ {j} : job'[i] = job[i]
    <3> HIDE DEF done, going
    <3> QED
      BY <2>1, <2>2, <1>0, BecomesType
  <2>4. JobIsEarned(j)'
    <3>1. job'[j].pc = "idle" \/ (job'[j].pc = "score" /\ job'[j].version = v)
      BY <2>3 DEF Started
    <3> QED
      BY <3>1, IdleJob DEF JobIsEarned, PastTheGate
  <2> QED
    BY <1>2, <2>3, <2>4, ReadingStep DEF Promote
<1> QED
  BY <1>1, <1>2

\* Evaluating the gate, and recording what it decided.
LEMMA GateStep ==
  ASSUME EarnedInvariant, NEW j \in Jobs, Score(j) \/ TagGate(j)
  PROVE  EarnedInvariant'
<1>0. /\ job \in [Jobs -> Job] /\ job[j] \in Job /\ JobIsEarned(j)
      /\ {"idle", "tag_gate", "get_current"} \subseteq Labels
      /\ {"mismatch", "dryRun", "held"} \subseteq Results
  BY DEF EarnedInvariant, TypeOK, Labels, Results
<1>1. CASE Score(j)
  <2>1. job[j].version \in Versions
    BY <1>0, <1>1 DEF Score, At, JobIsEarned
  <2>2. /\ earned \subseteq earned' /\ earned' \subseteq Versions
        /\ UNCHANGED <<registered, alias, decision, audit, retiredBy, held>>
    BY <1>1, <2>1 DEF Score, Earns, tags, EarnedInvariant, TypeOK
  <2>3. \/ Goto(j, "tag_gate") /\ Earns(j, job[j].champion)
        \/ End(j, "mismatch")
    BY <1>1 DEF Score
  <2>4. CASE Goto(j, "tag_gate") /\ Earns(j, job[j].champion)
    <3>1. /\ job' \in [Jobs -> Job] /\ job'[j].pc = "tag_gate"
          /\ job'[j].version = job[j].version /\ job'[j].champion = job[j].champion
          /\ job'[j].dryRun = job[j].dryRun
          /\ \A i \in Jobs \ {j} : job'[i] = job[i]
      BY <1>0, <2>4, GotoType
    <3>2. GoesOn(j, Decision(job[j].version, job[j].champion)) => job[j].version \in earned'
      BY <2>4 DEF Earns, GoesOn, Decision
    <3>3. JobIsEarned(j)'
      BY <2>1, <3>1, <3>2 DEF JobIsEarned, GoesOn, Decision, PastTheGate
    <3>4. /\ TypeOK' /\ AliasesAreEarned' /\ (alias[CHAMPION] \in held \cup {None})'
      BY <2>2, <3>1 DEF EarnedInvariant, TypeOK, AliasesAreEarned
    <3> QED
      BY <2>2, <3>1, <3>3, <3>4, StepKeepsInvariant
  <2>5. CASE End(j, "mismatch")
    <3>1. /\ job' \in [Jobs -> Job] /\ job'[j].pc = "idle"
          /\ \A i \in Jobs \ {j} : job'[i] = job[i]
      BY <1>0, <2>5, EndType
    <3>2. /\ TypeOK' /\ AliasesAreEarned' /\ (alias[CHAMPION] \in held \cup {None})'
      BY <2>2, <3>1 DEF EarnedInvariant, TypeOK, AliasesAreEarned
    <3> QED
      BY <2>2, <3>1, <3>2, IdleJob, StepKeepsInvariant
  <2> QED
    BY <2>3, <2>4, <2>5
<1>2. CASE TagGate(j)
  <2> DEFINE d == Decision(job[j].version, job[j].champion)
  <2>1. job[j].version \in Versions /\ (GoesOn(j, d) => job[j].version \in earned)
    BY <1>0, <1>2 DEF TagGate, At, JobIsEarned
  <2>2. /\ UNCHANGED <<registered, alias, audit, retiredBy, earned, held>>
        /\ decision' = [decision EXCEPT ![job[j].version] = d]
        /\ d \in {"PROMOTE", "HOLD"}
        /\ \/ GoesOn(j, d) /\ Goto(j, "get_current")
           \/ \E result \in {"dryRun", "held"} : End(j, result)
    BY <1>2 DEF TagGate, history, Decision
  <2>3. /\ job' \in [Jobs -> Job] /\ \A i \in Jobs \ {j} : job'[i] = job[i]
        /\ JobIsEarned(j)'
    <3>1. CASE GoesOn(j, d) /\ Goto(j, "get_current")
      <4>1. /\ job' \in [Jobs -> Job] /\ job'[j].pc = "get_current"
            /\ job'[j].version = job[j].version
            /\ \A i \in Jobs \ {j} : job'[i] = job[i]
        BY <1>0, <3>1, GotoType
      <4> QED
        BY <2>1, <2>2, <3>1, <4>1 DEF JobIsEarned, PastTheGate
    <3>2. CASE \E result \in {"dryRun", "held"} : End(j, result)
      <4>1. /\ job' \in [Jobs -> Job] /\ job'[j].pc = "idle"
            /\ \A i \in Jobs \ {j} : job'[i] = job[i]
        BY <1>0, <3>2, EndType
      <4> QED
        BY <4>1, IdleJob
    <3> QED
      BY <2>2, <3>1, <3>2
  <2>4. /\ TypeOK' /\ AliasesAreEarned' /\ (alias[CHAMPION] \in held \cup {None})'
    BY <2>1, <2>2, <2>3 DEF EarnedInvariant, TypeOK, AliasesAreEarned
  <2> QED
    BY <2>2, <2>3, <2>4, StepKeepsInvariant
<1> QED
  BY <1>1, <1>2

\* Reading the champion again, and the challenger at the end.
LEMMA ReadAliasStep ==
  ASSUME EarnedInvariant, NEW j \in Jobs, GetCurrent(j) \/ GetChallenger(j) \/ Interrupted(j)
  PROVE  EarnedInvariant'
<1>0. /\ job \in [Jobs -> Job] /\ job[j] \in Job /\ JobIsEarned(j)
      /\ {"idle", "set_champion", "set_previous", "delete_challenger"} \subseteq Labels
      /\ {"promoted", "error"} \subseteq Results
      /\ alias[CHAMPION] \in VersionOrNone /\ alias[CHAMPION] \in held \cup {None}
  BY DEF EarnedInvariant, TypeOK, Labels, Results, Aliases
<1>1. CASE GetCurrent(j)
  <2> DEFINE now   == [job[j] EXCEPT !.current = alias[CHAMPION]]
             first == [now EXCEPT !.pc = "set_champion"]
             next  == [now EXCEPT !.pc = "set_previous"]
             same  == [now EXCEPT !.pc = "idle", !.result = "promoted"]
  <2>1. /\ first \in Job /\ next \in Job /\ same \in Job
        /\ first.version = job[j].version /\ next.version = job[j].version
        /\ next.current = alias[CHAMPION]
        /\ first.pc = "set_champion" /\ next.pc = "set_previous" /\ same.pc = "idle"
    BY <1>0 DEF Job
  <2>2. \/ Becomes(j, same) \/ Becomes(j, first)
        \/ Becomes(j, next) /\ alias[CHAMPION] # None
    BY <1>1 DEF GetCurrent
  <2>3. job[j].version \in Versions /\ job[j].version \in earned
    BY <1>0, <1>1 DEF GetCurrent, At, JobIsEarned, PastTheGate
  <2>4. Reads
    BY <1>1 DEF GetCurrent
  <2> HIDE DEF now, first, next, same
  <2>5. /\ job' \in [Jobs -> Job] /\ \A i \in Jobs \ {j} : job'[i] = job[i]
        /\ \/ job'[j] = same \/ job'[j] = first
           \/ job'[j] = next /\ alias[CHAMPION] # None
    BY <1>0, <2>1, <2>2, BecomesType
  <2>6. JobIsEarned(j)'
    BY <1>0, <2>1, <2>3, <2>4, <2>5 DEF JobIsEarned, PastTheGate, Reads, history
  <2> QED
    BY <2>4, <2>5, <2>6, ReadingStep
<1>2. CASE GetChallenger(j)
  <2>1. /\ job' \in [Jobs -> Job] /\ \A i \in Jobs \ {j} : job'[i] = job[i]
        /\ job'[j].pc \in {"idle", "delete_challenger"} /\ job'[j].version = job[j].version
    <3>1. CASE Goto(j, "delete_challenger")
      BY <1>0, <3>1, GotoType
    <3>2. CASE End(j, "promoted")
      BY <1>0, <3>2, EndType
    <3> QED
      BY <1>2, <3>1, <3>2 DEF GetChallenger
  <2>2. JobIsEarned(j)'
    BY <1>0, <1>2, <2>1 DEF GetChallenger, At, JobIsEarned, PastTheGate
  <2> QED
    BY <1>2, <2>1, <2>2, ReadingStep DEF GetChallenger
<1>3. CASE Interrupted(j)
  <2>1. /\ job' \in [Jobs -> Job] /\ job'[j].pc = "idle"
        /\ \A i \in Jobs \ {j} : job'[i] = job[i]
    BY <1>0, <1>3, EndType DEF Interrupted
  <2> QED
    BY <1>3, <2>1, IdleJob, ReadingStep DEF Interrupted
<1> QED
  BY <1>1, <1>2, <1>3

\* Moving an alias: after register, and the three moves of promote().
LEMMA AliasStep ==
  ASSUME EarnedInvariant, NEW j \in Jobs,
         RegisterAlias(j) \/ SetPrevious(j) \/ SetChampion(j) \/ DeleteChallenger(j)
  PROVE  EarnedInvariant'
<1>0. /\ TypeOK /\ job \in [Jobs -> Job] /\ job[j] \in Job /\ JobIsEarned(j)
      /\ {"idle", "tag_retired", "tag_promoted_by"} \subseteq Labels
      /\ {"registered", "promoted"} \subseteq Results
      /\ Aliases = {CHAMPION, CHALLENGER, PREVIOUS}
      /\ CHAMPION # CHALLENGER /\ CHAMPION # PREVIOUS /\ CHALLENGER # PREVIOUS
  BY DEF EarnedInvariant, TypeOK, Labels, Results, Aliases, CHAMPION, CHALLENGER, PREVIOUS
<1>1. ASSUME NEW a \in Aliases, NEW v \in VersionOrNone, PointAlias(a, v),
             job' \in [Jobs -> Job], \A i \in Jobs \ {j} : job'[i] = job[i],
             JobIsEarned(j)', a = CHAMPION => v \in earned \cup {None},
             a = PREVIOUS => v \in held
      PROVE  EarnedInvariant'
  <2>1. /\ alias' = [alias EXCEPT ![a] = v] /\ alias' \in [Aliases -> VersionOrNone]
        /\ held \subseteq held' /\ held' \subseteq Versions
        /\ a = CHAMPION => v \in held' \cup {None}
        /\ UNCHANGED <<registered, decision, audit, retiredBy, earned>>
    BY <1>0, <1>1, PointAliasType
  <2>2. /\ alias'[CHAMPION] = IF a = CHAMPION THEN v ELSE alias[CHAMPION]
        /\ alias'[PREVIOUS] = IF a = PREVIOUS THEN v ELSE alias[PREVIOUS]
    BY <1>0, <2>1 DEF TypeOK
  <2>3. TypeOK'
    BY <1>1, <2>1 DEF EarnedInvariant, TypeOK
  <2>4. AliasesAreEarned' /\ (alias[CHAMPION] \in held \cup {None})'
    BY <1>0, <1>1, <2>1, <2>2 DEF EarnedInvariant, AliasesAreEarned
  <2> QED
    BY <1>1, <2>1, <2>3, <2>4, StepKeepsInvariant
<1>2. CASE RegisterAlias(j)
  <2>1. /\ job' \in [Jobs -> Job] /\ job'[j].pc = "idle"
        /\ \A i \in Jobs \ {j} : job'[i] = job[i]
    BY <1>0, <1>2, EndType DEF RegisterAlias
  <2>2. job[j].alias = CHALLENGER /\ job[j].version \in VersionOrNone
    BY <1>0, <1>2 DEF RegisterAlias, At, JobIsEarned, VersionOrNone
  <2>3. PointAlias(CHALLENGER, job[j].version)
    BY <1>2, <2>2 DEF RegisterAlias
  <2> QED
    BY <1>0, <1>1, <2>1, <2>2, <2>3, IdleJob
<1>3. CASE SetPrevious(j)
  <2>1. /\ job' \in [Jobs -> Job] /\ job'[j].pc = "tag_retired"
        /\ job'[j].version = job[j].version /\ job'[j].current = job[j].current
        /\ \A i \in Jobs \ {j} : job'[i] = job[i]
    BY <1>0, <1>3, GotoType DEF SetPrevious
  <2>2. /\ job[j].version \in Versions /\ job[j].version \in earned
        /\ job[j].current \in held /\ job[j].current \in VersionOrNone
        /\ PointAlias(PREVIOUS, job[j].current)
    BY <1>0, <1>3 DEF SetPrevious, At, JobIsEarned, PastTheGate, Job
  <2>3. JobIsEarned(j)'
    <3>1. earned' = earned /\ held \subseteq held'
      BY <1>0, <2>2, PointAliasType
    <3> QED
      BY <2>1, <2>2, <3>1 DEF JobIsEarned, PastTheGate
  <2> QED
    BY <1>0, <1>1, <2>1, <2>2, <2>3
<1>4. CASE SetChampion(j)
  <2>1. /\ job' \in [Jobs -> Job] /\ job'[j].pc = "tag_promoted_by"
        /\ job'[j].version = job[j].version
        /\ \A i \in Jobs \ {j} : job'[i] = job[i]
    BY <1>0, <1>4, GotoType DEF SetChampion
  <2>2. /\ job[j].version \in Versions /\ job[j].version \in earned
        /\ job[j].version \in VersionOrNone
        /\ PointAlias(CHAMPION, job[j].version)
    BY <1>0, <1>4 DEF SetChampion, At, JobIsEarned, PastTheGate, VersionOrNone
  <2>3. JobIsEarned(j)'
    BY <2>1, <2>2 DEF JobIsEarned, PastTheGate
  <2> QED
    BY <1>0, <1>1, <2>1, <2>2, <2>3
<1>5. CASE DeleteChallenger(j)
  <2>1. /\ job' \in [Jobs -> Job] /\ job'[j].pc = "idle"
        /\ \A i \in Jobs \ {j} : job'[i] = job[i]
    BY <1>0, <1>5, EndType DEF DeleteChallenger
  <2>2. None \in VersionOrNone /\ PointAlias(CHALLENGER, None)
    BY <1>5 DEF DeleteChallenger, VersionOrNone
  <2> QED
    BY <1>0, <1>1, <2>1, <2>2, IdleJob
<1> QED
  BY <1>2, <1>3, <1>4, <1>5

\* Writing the tags of a promotion.
LEMMA TagStep ==
  ASSUME EarnedInvariant, NEW j \in Jobs, TagRetired(j) \/ TagPromotedBy(j) \/ TagGateReport(j)
  PROVE  EarnedInvariant'
<1>0. /\ TypeOK /\ job \in [Jobs -> Job] /\ job[j] \in Job /\ JobIsEarned(j)
      /\ {"set_champion", "tag_gate_report", "get_challenger"} \subseteq Labels
  BY DEF EarnedInvariant, TypeOK, Labels
<1>1. job[j].version \in Versions
  BY <1>0 DEF TagRetired, TagPromotedBy, TagGateReport, At, JobIsEarned
<1>2. /\ job' \in [Jobs -> Job] /\ job'[j].version = job[j].version
      /\ job'[j].pc \in {"set_champion", "tag_gate_report", "get_challenger"}
      /\ job'[j].pc = "set_champion" => job[j].pc = "tag_retired"
      /\ \A i \in Jobs \ {j} : job'[i] = job[i]
  <2>1. PICK label \in {"set_champion", "tag_gate_report", "get_challenger"} :
          Goto(j, label) /\ (label = "set_champion" => job[j].pc = "tag_retired")
    BY DEF TagRetired, TagPromotedBy, TagGateReport, At
  <2> QED
    BY <1>0, <2>1, GotoType
<1>3. /\ UNCHANGED <<registered, alias, decision, earned, held>>
      /\ audit' \in [Versions -> SUBSET {"promoted_by", "gate.report"}]
      /\ retiredBy' \in [Versions -> VersionOrNone]
  BY <1>0, <1>1 DEF TagRetired, TagPromotedBy, TagGateReport, AddAudit, TypeOK, history,
     VersionOrNone
<1>4. JobIsEarned(j)'
  BY <1>0, <1>1, <1>2, <1>3 DEF JobIsEarned, PastTheGate
<1>5. TypeOK' /\ AliasesAreEarned' /\ (alias[CHAMPION] \in held \cup {None})'
  BY <1>2, <1>3 DEF EarnedInvariant, TypeOK, AliasesAreEarned
<1> QED
  BY <1>2, <1>3, <1>4, <1>5, StepKeepsInvariant

\* EarnedInvariant is inductive.
LEMMA EarnedInductive == EarnedInvariant /\ [Next]_vars => EarnedInvariant'
<1> SUFFICES ASSUME EarnedInvariant, [Next]_vars PROVE EarnedInvariant'
  OBVIOUS
<1>1. ASSUME NEW j \in Jobs, JobStep(j) PROVE EarnedInvariant'
  BY <1>1, StartStep, GateStep, ReadAliasStep, AliasStep, TagStep DEF JobStep, Begins, Continues
<1>2. CASE UNCHANGED vars
  BY <1>2 DEF vars, tags, history, EarnedInvariant, TypeOK, AliasesAreEarned, JobIsEarned,
     GoesOn, Decision
<1> QED
  BY <1>1, <1>2 DEF Next

\* It holds of the empty registry.
LEMMA EarnedInit == Init => EarnedInvariant
<1> SUFFICES ASSUME Init PROVE EarnedInvariant
  OBVIOUS
<1>1. None \in VersionOrNone /\ "idle" \in Labels /\ "none" \in Results
  BY DEF VersionOrNone, Labels, Results
<1>2. job \in [Jobs -> Job] /\ \A j \in Jobs : job[j].pc = "idle"
  BY <1>1, StartedType DEF Init, Started
<1>3. \A j \in Jobs : JobIsEarned(j)
  BY <1>2 DEF JobIsEarned, PastTheGate
<1> QED
  BY <1>1, <1>2, <1>3 DEF Init, EarnedInvariant, TypeOK, AliasesAreEarned, Aliases, CHAMPION, PREVIOUS

\* The inductive form holds in every behaviour.
THEOREM EarnedInvariantHolds == Spec => []EarnedInvariant
  BY EarnedInit, EarnedInductive, PTL DEF Spec

\* Whatever promotions overlap or stop half way, @champion only ever points
\* to a version that passed the gate and @previous only to a past champion.
THEOREM AliasesEarned == Spec => []AliasesAreEarned
<1>1. EarnedInvariant => AliasesAreEarned
  BY DEF EarnedInvariant
<1> QED
  BY <1>1, EarnedInvariantHolds, PTL

\* No step of any job takes the champion away.
LEMMA StepKeepsChampion ==
  EarnedInvariant /\ [Next]_vars => (alias[CHAMPION] # None => alias'[CHAMPION] # None)
<1> SUFFICES ASSUME EarnedInvariant, [Next]_vars, alias[CHAMPION] # None
             PROVE  alias'[CHAMPION] # None
  OBVIOUS
<1>0. /\ TypeOK /\ CHAMPION \in Aliases /\ CHALLENGER \in Aliases /\ PREVIOUS \in Aliases
      /\ CHAMPION # CHALLENGER /\ CHAMPION # PREVIOUS
      /\ alias \in [Aliases -> VersionOrNone]
  BY DEF EarnedInvariant, TypeOK, Aliases, CHAMPION, CHALLENGER, PREVIOUS
<1>1. ASSUME NEW j \in Jobs, JobStep(j) PROVE alias'[CHAMPION] # None
  <2>0. JobIsEarned(j)
    BY DEF EarnedInvariant
  <2>1. CASE RegisterAlias(j) \/ SetPrevious(j) \/ DeleteChallenger(j)
    BY <1>0, <2>0, <2>1 DEF RegisterAlias, SetPrevious, DeleteChallenger, PointAlias, At, JobIsEarned
  <2>2. CASE SetChampion(j)
    BY <1>0, <2>0, <2>2, PromotionAssumption
    DEF SetChampion, PointAlias, At, JobIsEarned, PastTheGate
  <2>3. CASE alias' = alias
    BY <2>3
  <2> QED
    BY <1>1, <2>1, <2>2, <2>3 DEF JobStep, Begins, Continues, Register, Promote, Score, TagGate,
       GetCurrent, TagRetired, TagPromotedBy, TagGateReport, AddAudit, GetChallenger, Interrupted, Reads
<1>2. CASE UNCHANGED vars
  BY <1>2 DEF vars
<1> QED
  BY <1>1, <1>2 DEF Next

\* A deployment that loads @champion always finds one once there was one.
THEOREM ChampionIsNeverLost == Spec => ChampionNeverLost
  BY EarnedInvariantHolds, StepKeepsChampion, PTL DEF Spec, ChampionNeverLost

-----------------------------------------------------------------------------
(* One job at a time.                                                       *)

\* The slot of a step is used from then on, and no other slot changes: as
\* long as the jobs do not overlap, none of the others was ever used.
LEMMA StepUses ==
  ASSUME EarnedInvariant, NEW j \in Jobs, JobStep(j)
  PROVE  /\ Used(j)' /\ \A i \in Jobs \ {j} : job'[i] = job[i]
         /\ Alone' => Alone /\ \A i \in Jobs \ {j} : ~Used(i)
<1>0. /\ job \in [Jobs -> Job] /\ None \notin Versions
      /\ job[j].pc # "idle" => job[j].version \in Versions
  BY PromotionAssumption DEF EarnedInvariant, TypeOK, JobIsEarned
<1>1. PICK r : Becomes(j, r) /\ r.version \in Versions
  <2>1. CASE \E v \in Versions, a \in RegisterAliases \cup {None} : Register(j, v, a)
    <3>1. PICK v \in Versions, a \in RegisterAliases \cup {None} : Register(j, v, a)
      BY <2>1
    <3>2. CASE a = None
      BY <3>1, <3>2 DEF Register, Started
    <3>3. CASE a # None
      BY <3>1, <3>3 DEF Register, Started
    <3> QED
      BY <3>2, <3>3
  <2>2. CASE \E v \in Versions, dry \in BOOLEAN : Promote(j, v, dry)
    <3>1. PICK v \in Versions, dry \in BOOLEAN : Promote(j, v, dry)
      BY <2>2
    <3>2. CASE alias[CHAMPION] = v
      BY <3>1, <3>2 DEF Promote, Started
    <3>3. CASE alias[CHAMPION] # v
      BY <3>1, <3>3 DEF Promote, Started
    <3> QED
      BY <3>2, <3>3
  <2>3. CASE Continues(j)
    <3>1. job[j].version \in Versions
      BY <1>0, <2>3 DEF Continues, RegisterAlias, Score, TagGate, GetCurrent, SetPrevious,
         TagRetired, SetChampion, TagPromotedBy, TagGateReport, GetChallenger, DeleteChallenger,
         Interrupted, At
    <3>2. ASSUME NEW l, Goto(j, l) PROVE \E r : Becomes(j, r) /\ r.version \in Versions
      BY <1>0, <3>1, <3>2 DEF Goto, Job
    <3>3. ASSUME NEW res, End(j, res) PROVE \E r : Becomes(j, r) /\ r.version \in Versions
      <4> DEFINE ended == [job[j] EXCEPT !.pc = "idle", !.result = res]
      <4>1. ended.version \in Versions
        BY <1>0, <3>1 DEF Job
      <4>2. Becomes(j, ended)
        BY <3>3 DEF End
      <4> HIDE DEF ended
      <4> QED
        BY <4>1, <4>2
    <3>4. CASE GetCurrent(j)
      <4> DEFINE now == [job[j] EXCEPT !.current = alias[CHAMPION]]
      <4> DEFINE done == [now EXCEPT !.pc = "idle", !.result = "promoted"]
      <4> DEFINE first == [now EXCEPT !.pc = "set_champion"]
      <4> DEFINE next == [now EXCEPT !.pc = "set_previous"]
      <4>1. done.version \in Versions /\ first.version \in Versions /\ next.version \in Versions
        BY <1>0, <3>1 DEF Job
      <4>2. Becomes(j, done) \/ Becomes(j, first) \/ Becomes(j, next)
        BY <3>4 DEF GetCurrent
      <4> HIDE DEF done, first, next
      <4> QED
        BY <4>1, <4>2
    <3>5. CASE ~GetCurrent(j)
      <4>1. \/ \E l \in Labels : Goto(j, l)
            \/ \E res \in Results : End(j, res)
        BY <2>3, <3>5 DEF Continues, RegisterAlias, Score, TagGate, SetPrevious, TagRetired,
           SetChampion, TagPromotedBy, TagGateReport, GetChallenger, DeleteChallenger,
           Interrupted, Labels, Results
      <4> QED
        BY <3>2, <3>3, <4>1
    <3> QED
      BY <3>4, <3>5
  <2> QED
    BY <2>1, <2>2, <2>3 DEF JobStep, Begins
<1>2. /\ job' = [job EXCEPT ![j] = r] /\ job'[j] = r
      /\ \A i \in Jobs \ {j} : job'[i] = job[i]
  BY <1>0, <1>1 DEF Becomes
<1>3. Used(j)'
  BY <1>0, <1>1, <1>2 DEF Used
<1>4. \A i \in Jobs \ {j} : Used(i)' = Used(i)
  BY <1>2 DEF Used
<1>5. ASSUME Alone' PROVE Alone /\ \A i \in Jobs \ {j} : ~Used(i)
  <2>1. \A i \in Jobs \ {j} : ~Used(i)
    BY <1>3, <1>4, <1>5 DEF Alone
  <2> QED
    BY <2>1 DEF Alone
<1> QED
  BY <1>2, <1>3, <1>5

\* Every step of a job that is alone keeps what it has read current.
LEMMA SerialStep ==
  ASSUME Alone, AloneInvariant, NEW j \in Jobs, JobStep(j)
  PROVE  JobIsCurrent(j)' /\ (alias[CHAMPION] = None => alias[PREVIOUS] = None)'
<1>0. /\ TypeOK /\ job \in [Jobs -> Job] /\ JobIsCurrent(j) /\ JobIsEarned(j)
      /\ alias \in [Aliases -> VersionOrNone]
      /\ CHAMPION \in Aliases /\ PREVIOUS \in Aliases /\ CHALLENGER \in Aliases
      /\ CHAMPION # CHALLENGER /\ CHAMPION # PREVIOUS /\ CHALLENGER # PREVIOUS
      /\ Labels = {"idle", "register_alias", "score", "tag_gate", "get_current",
           "set_previous", "tag_retired", "set_champion", "tag_promoted_by",
           "tag_gate_report", "get_challenger", "delete_challenger"}
      /\ Results = {"none", "registered", "promoted", "already", "mismatch", "held",
           "dryRun", "error"}
      /\ alias[CHAMPION] = None => alias[PREVIOUS] = None
  BY DEF AloneInvariant, EarnedInvariant, TypeOK, Aliases, CHAMPION, CHALLENGER, PREVIOUS,
     Labels, Results
\* Where a job is outside the promotion, nothing is asked of it.
<1>1. ASSUME job'[j].pc \notin {"score", "tag_gate"} \cup PastTheGate PROVE JobIsCurrent(j)'
  BY <1>1 DEF JobIsCurrent, PastTheGate
<1>2. CASE \E v \in Versions, a \in RegisterAliases \cup {None} : Register(j, v, a)
  <2>1. alias' = alias /\ job'[j].pc \in {"idle", "register_alias"}
    BY <1>0, <1>2 DEF Register, Becomes, Started
  <2> QED
    BY <1>0, <1>1, <2>1 DEF PastTheGate
<1>3. CASE \E v \in Versions, dry \in BOOLEAN : Promote(j, v, dry)
  <2>1. PICK v \in Versions, dry \in BOOLEAN : Promote(j, v, dry)
    BY <1>3
  <2>2. CASE alias[CHAMPION] = v
    <3>1. alias' = alias /\ job'[j].pc = "idle"
      BY <1>0, <2>1, <2>2 DEF Promote, Becomes, Started, Reads
    <3> QED
      BY <1>0, <1>1, <3>1 DEF PastTheGate
  <2>3. CASE alias[CHAMPION] # v
    <3>1. /\ alias' = alias /\ job'[j].pc = "score"
          /\ job'[j].version = v /\ job'[j].champion = alias[CHAMPION]
      BY <1>0, <2>1, <2>3 DEF Promote, Becomes, Started, Reads
    <3> QED
      BY <1>0, <2>3, <3>1 DEF JobIsCurrent, PastTheGate
  <2> QED
    BY <2>2, <2>3
<1>4. CASE RegisterAlias(j) \/ DeleteChallenger(j)
  <2>1. /\ alias'[CHAMPION] = alias[CHAMPION] /\ alias'[PREVIOUS] = alias[PREVIOUS]
    BY <1>0, <1>4 DEF RegisterAlias, DeleteChallenger, PointAlias, At, JobIsEarned
  <2>2. job'[j].pc = "idle"
    BY <1>0, <1>4, EndType DEF RegisterAlias, DeleteChallenger
  <2> QED
    BY <1>0, <1>1, <2>1, <2>2 DEF PastTheGate
<1>5. CASE Score(j)
  <2>1. alias' = alias /\ (Goto(j, "tag_gate") \/ End(j, "mismatch")) /\ job[j].pc = "score"
    BY <1>5 DEF Score, At
  <2>2. CASE Goto(j, "tag_gate")
    <3>1. job'[j].pc = "tag_gate" /\ job'[j].version = job[j].version
          /\ job'[j].champion = job[j].champion
      BY <1>0, <2>2, GotoType
    <3> QED
      BY <1>0, <2>1, <3>1 DEF JobIsCurrent, PastTheGate
  <2>3. CASE End(j, "mismatch")
    <3>1. job'[j].pc = "idle"
      BY <1>0, <2>3, EndType
    <3> QED
      BY <1>0, <1>1, <2>1, <3>1 DEF PastTheGate
  <2> QED
    BY <2>1, <2>2, <2>3
<1>6. CASE TagGate(j)
  <2>1. /\ alias' = alias /\ job[j].pc = "tag_gate"
        /\ \/ /\ Goto(j, "get_current")
              /\ <<job[j].version, job[j].champion>> \in Passes
           \/ \E result \in Results : End(j, result)
    BY <1>0, <1>6 DEF TagGate, At, GoesOn, Decision
  <2>2. CASE /\ Goto(j, "get_current")
             /\ <<job[j].version, job[j].champion>> \in Passes
    <3>1. job'[j].pc = "get_current" /\ job'[j].version = job[j].version
          /\ job'[j].champion = job[j].champion
      BY <1>0, <2>2, GotoType
    <3> QED
      BY <1>0, <2>1, <2>2, <3>1 DEF JobIsCurrent, PastTheGate
  <2>3. CASE \E result \in Results : End(j, result)
    <3>1. job'[j].pc = "idle"
      BY <1>0, <2>3, EndType
    <3> QED
      BY <1>0, <1>1, <2>1, <3>1 DEF PastTheGate
  <2> QED
    BY <2>1, <2>2, <2>3
<1>7. CASE GetCurrent(j)
  <2>1. /\ alias' = alias /\ job[j].pc = "get_current" /\ job[j].version # alias[CHAMPION]
        /\ <<job[j].version, job[j].champion>> \in Passes
        /\ job[j].champion = alias[CHAMPION]
    BY <1>0, <1>7 DEF GetCurrent, At, Reads, JobIsCurrent, PastTheGate
  <2>2. /\ job'[j].pc = IF alias[CHAMPION] = None THEN "set_champion" ELSE "set_previous"
        /\ job'[j].version = job[j].version /\ job'[j].champion = job[j].champion
        /\ job'[j].current = alias[CHAMPION]
    BY <1>0, <1>7, <2>1 DEF GetCurrent, Becomes, Job
  <2> QED
    BY <1>0, <2>1, <2>2 DEF JobIsCurrent, PastTheGate
<1>8. CASE SetPrevious(j)
  <2>1. /\ job[j].pc = "set_previous" /\ job[j].current = alias[CHAMPION]
        /\ alias'[CHAMPION] = alias[CHAMPION] /\ alias'[PREVIOUS] = alias[CHAMPION]
    BY <1>0, <1>8 DEF SetPrevious, At, PointAlias, JobIsCurrent
  <2>2. job'[j].pc = "tag_retired" /\ job'[j].version = job[j].version
        /\ job'[j].champion = job[j].champion /\ job'[j].current = job[j].current
    BY <1>0, <1>8, GotoType DEF SetPrevious
  <2> QED
    BY <1>0, <2>1, <2>2 DEF JobIsCurrent, PastTheGate
<1>9. CASE TagRetired(j)
  <2>1. job[j].pc = "tag_retired" /\ alias' = alias
    BY <1>9 DEF TagRetired, At
  <2>2. job'[j].pc = "set_champion" /\ job'[j].version = job[j].version
        /\ job'[j].champion = job[j].champion /\ job'[j].current = job[j].current
    BY <1>0, <1>9, GotoType DEF TagRetired
  <2> QED
    BY <1>0, <2>1, <2>2 DEF JobIsCurrent, PastTheGate
<1>10. CASE SetChampion(j)
  <2>1. /\ job[j].version \in Versions /\ alias'[CHAMPION] = job[j].version
    BY <1>0, <1>10 DEF SetChampion, At, PointAlias, JobIsEarned
  <2>2. job'[j].pc = "tag_promoted_by"
    BY <1>0, <1>10, GotoType DEF SetChampion
  <2> QED
    BY <1>1, <2>1, <2>2, PromotionAssumption DEF PastTheGate
<1>11. CASE TagPromotedBy(j) \/ TagGateReport(j) \/ GetChallenger(j) \/ Interrupted(j)
  <2>1. alias' = alias
    BY <1>11 DEF TagPromotedBy, TagGateReport, AddAudit, GetChallenger, Interrupted, Reads
  <2>2. \/ \E label \in {"tag_gate_report", "get_challenger", "delete_challenger"} : Goto(j, label)
        \/ \E result \in Results : End(j, result)
    BY <1>0, <1>11 DEF TagPromotedBy, TagGateReport, GetChallenger, Interrupted
  <2>3. job'[j].pc \in {"idle", "tag_gate_report", "get_challenger", "delete_challenger"}
    BY <1>0, <2>2, GotoType, EndType
  <2> QED
    BY <1>0, <1>1, <2>1, <2>3 DEF PastTheGate
<1> QED
  BY <1>2, <1>3, <1>4, <1>5, <1>6, <1>7, <1>8, <1>9, <1>10, <1>11 DEF JobStep, Begins, Continues

\* AloneInvariant is inductive: the slots that were never used are idle.
LEMMA AloneInductive == AloneInvariant /\ [Next]_vars => AloneInvariant'
<1> SUFFICES ASSUME AloneInvariant, [Next]_vars PROVE AloneInvariant'
  OBVIOUS
<1>0. EarnedInvariant
  BY DEF AloneInvariant
<1>1. EarnedInvariant'
  BY EarnedInductive DEF AloneInvariant
<1>2. ASSUME NEW j \in Jobs, JobStep(j) PROVE AloneInvariant'
  <2>1. ASSUME Alone'
        PROVE  (alias[CHAMPION] = None => alias[PREVIOUS] = None)' /\ \A i \in Jobs : JobIsCurrent(i)'
    <3>1. Alone /\ \A i \in Jobs \ {j} : ~Used(i) /\ job'[i] = job[i]
      BY <1>0, <1>2, <2>1, StepUses
    <3>2. JobIsCurrent(j)' /\ (alias[CHAMPION] = None => alias[PREVIOUS] = None)'
      BY <1>2, <3>1, SerialStep
    <3>3. \A i \in Jobs \ {j} : job'[i].pc = "idle"
      BY <1>0, <3>1, PromotionAssumption DEF EarnedInvariant, JobIsEarned, Used
    <3>4. \A i \in Jobs \ {j} : JobIsCurrent(i)'
      BY <3>3 DEF JobIsCurrent, PastTheGate
    <3> QED
      BY <3>2, <3>4
  <2> QED
    BY <1>1, <2>1 DEF AloneInvariant
<1>3. CASE UNCHANGED vars
  BY <1>1, <1>3 DEF vars, AloneInvariant, JobIsCurrent, Alone, Used
<1> QED
  BY <1>2, <1>3 DEF Next

\* It holds of the empty registry.
LEMMA AloneInit == Init => AloneInvariant
<1> SUFFICES ASSUME Init PROVE AloneInvariant
  OBVIOUS
<1>1. EarnedInvariant
  BY EarnedInit
<1>2. \A j \in Jobs : job[j].pc = "idle"
  BY DEF Init, Started
<1>3. \A j \in Jobs : JobIsCurrent(j)
  BY <1>2 DEF JobIsCurrent, PastTheGate
<1> QED
  BY <1>1, <1>3 DEF Init, AloneInvariant, Aliases, PREVIOUS

\* Each step of a job that is alone is one of the abstract registry, or none.
LEMMA SerialStepRefines ==
  ASSUME AloneInvariant, Alone
  PROVE  [Next]_vars => [Registry!Next]_(Registry!aliases)
<1> SUFFICES ASSUME [Next]_vars PROVE [Registry!Next]_(Registry!aliases)
  OBVIOUS
<1> USE DEF Registry!Next, Registry!aliases
<1>0. /\ CHAMPION \in Aliases /\ PREVIOUS \in Aliases /\ CHALLENGER \in Aliases
      /\ CHAMPION # CHALLENGER /\ CHAMPION # PREVIOUS /\ CHALLENGER # PREVIOUS
      /\ alias \in [Aliases -> VersionOrNone]
  BY DEF AloneInvariant, EarnedInvariant, TypeOK, Aliases, CHAMPION, CHALLENGER, PREVIOUS
<1>1. ASSUME NEW j \in Jobs, JobStep(j) PROVE [Registry!Next]_(Registry!aliases)
  <2>0. JobIsCurrent(j) /\ JobIsEarned(j)
    BY DEF AloneInvariant, EarnedInvariant
  <2>1. CASE SetPrevious(j)
    <3>1. Registry!Keep
      BY <1>0, <2>0, <2>1 DEF SetPrevious, At, PointAlias, JobIsCurrent, Registry!Keep
    <3> QED
      BY <3>1
  <2>2. CASE SetChampion(j)
    <3>1. job[j].version \in Versions /\ Registry!Replace(job[j].version)
      BY <1>0, <2>0, <2>2
      DEF SetChampion, At, PointAlias, JobIsCurrent, JobIsEarned, PastTheGate, Registry!Replace
    <3> QED
      BY <3>1
  <2>3. CASE RegisterAlias(j) \/ DeleteChallenger(j)
    <3>1. UNCHANGED <<alias[CHAMPION], alias[PREVIOUS]>>
      BY <1>0, <2>0, <2>3 DEF RegisterAlias, DeleteChallenger, PointAlias, At, JobIsEarned
    <3> QED
      BY <3>1
  <2>4. CASE alias' = alias
    BY <2>4
  <2> QED
    BY <1>1, <2>1, <2>2, <2>3, <2>4 DEF JobStep, Begins, Continues, Register, Promote, Score, TagGate,
       GetCurrent, TagRetired, TagPromotedBy, TagGateReport, AddAudit, GetChallenger, Interrupted, Reads
<1>2. CASE UNCHANGED vars
  BY <1>2 DEF vars
<1> QED
  BY <1>1, <1>2 DEF Next

\* As long as the jobs do not overlap, interrupted ones included, a
\* deployment sees the abstract registry: one move at a time, each backed by
\* the gate, and the incumbent kept before it is replaced.
THEOREM PromotionImplementsRegistry == Spec => ImplementsChampionRegistry
<1>1. Init => AloneInvariant /\ Registry!Init
  BY AloneInit DEF Init, Registry!Init, Aliases, CHAMPION, PREVIOUS
<1>2. AloneInvariant /\ [Next]_vars => AloneInvariant'
  BY AloneInductive
<1>3. ASSUME AloneInvariant, [Next]_vars, Alone' PROVE [Registry!Next]_(Registry!aliases)
  <2>1. CASE Next
    <3>1. Alone
      BY <1>3, <2>1, StepUses DEF Next, AloneInvariant
    <3> QED
      BY <1>3, <3>1, SerialStepRefines
  <2>2. CASE UNCHANGED vars
    BY <2>2 DEF vars, Registry!aliases
  <2> QED
    BY <1>3, <2>1, <2>2
<1>4. AloneInvariant /\ [Next]_vars => [Alone' => [Registry!Next]_(Registry!aliases)]_vars
  BY <1>3
<1> QED
  BY <1>1, <1>2, <1>4, PTL DEF Spec, ImplementsChampionRegistry

\* Jobs that never overlap implement the abstract registry outright.
THEOREM SerialUseImplementsRegistry == Spec /\ []Alone => Registry!Spec
<1>1. Init => AloneInvariant /\ Registry!Init
  BY AloneInit DEF Init, Registry!Init, Aliases, CHAMPION, PREVIOUS
<1>2. AloneInvariant /\ [Next]_vars => AloneInvariant'
  BY AloneInductive
<1>3. AloneInvariant /\ Alone => ([Next]_vars => [Registry!Next]_(Registry!aliases))
  BY SerialStepRefines
<1> QED
  BY <1>1, <1>2, <1>3, PTL DEF Spec, Registry!Spec

-----------------------------------------------------------------------------
(* The trail of a promotion, with one job at a time.                        *)

\* The gate.decision tag of the champion, whoever is alone.
TaggedPromote == alias[CHAMPION] # None => decision[alias[CHAMPION]] = "PROMOTE"

\* Each step of a job that is alone adds to the trail what it should.
LEMMA TrailStep ==
  ASSUME Alone, SerialInvariant, NEW j \in Jobs, JobStep(j)
  PROVE  JobLeavesTrail(j)' /\ Completed(j)' /\ TaggedPromote'
<1> USE DEF PastTheGate, AfterTheMove
<1>0. /\ JobIsCurrent(j) /\ JobIsEarned(j) /\ JobLeavesTrail(j) /\ Completed(j)
      /\ TaggedPromote /\ job \in [Jobs -> Job] /\ job[j].version \in VersionOrNone
      /\ job[j].pc # "idle" => job[j].version \in Versions
      /\ job[j].current \in VersionOrNone /\ None \notin Versions
      /\ alias \in [Aliases -> VersionOrNone]
      /\ decision \in [Versions -> {"none", "PROMOTE", "HOLD"}]
      /\ audit \in [Versions -> SUBSET {"promoted_by", "gate.report"}]
      /\ retiredBy \in [Versions -> VersionOrNone]
  BY PromotionAssumption DEF SerialInvariant, AloneInvariant, EarnedInvariant, TypeOK,
     CompletedPromotion, ChampionIsTaggedPromote, TaggedPromote, JobIsEarned, Job
<1>names. /\ CHAMPION \in Aliases /\ PREVIOUS \in Aliases /\ CHALLENGER \in Aliases
      /\ CHAMPION # CHALLENGER /\ CHAMPION # PREVIOUS /\ CHALLENGER # PREVIOUS
      /\ Labels = {"idle", "register_alias", "score", "tag_gate", "get_current",
           "set_previous", "tag_retired", "set_champion", "tag_promoted_by",
           "tag_gate_report", "get_challenger", "delete_challenger"}
      /\ Results = {"none", "registered", "promoted", "already", "mismatch", "held",
           "dryRun", "error"}
  BY DEF Aliases, CHAMPION, CHALLENGER, PREVIOUS, Labels, Results
\* Where the registry stays and the job is outside the promotion.
<1>1. ASSUME UNCHANGED <<alias, decision>>, job'[j].pc \in {"idle", "register_alias", "score", "tag_gate"},
             job'[j].result # "promoted", job'[j].pc # "idle" => job'[j].result = "none"
      PROVE  JobLeavesTrail(j)' /\ Completed(j)' /\ TaggedPromote'
  BY <1>0, <1>1 DEF JobLeavesTrail, Completed, TaggedPromote
<1>2. CASE \E v \in Versions, a \in RegisterAliases \cup {None} : Register(j, v, a)
  <2>1. PICK v \in Versions, a \in RegisterAliases \cup {None} : Register(j, v, a)
    BY <1>2
  <2>2. CASE a = None
    <3>1. job'[j].pc = "idle" /\ job'[j].result = "registered"
      BY <1>0, <2>1, <2>2 DEF Register, Becomes, Started
    <3> QED
      BY <1>1, <2>1, <3>1 DEF Register, tags
  <2>3. CASE a # None
    <3>1. job'[j].pc = "register_alias" /\ job'[j].result = "none"
      BY <1>0, <2>1, <2>3 DEF Register, Becomes, Started
    <3> QED
      BY <1>1, <2>1, <3>1 DEF Register, tags
  <2> QED
    BY <2>2, <2>3
<1>3. CASE \E v \in Versions, dry \in BOOLEAN : Promote(j, v, dry)
  <2>1. PICK v \in Versions, dry \in BOOLEAN : Promote(j, v, dry)
    BY <1>3
  <2>2. CASE alias[CHAMPION] = v
    <3>1. job'[j].pc = "idle" /\ job'[j].result = "already"
      BY <1>0, <2>1, <2>2 DEF Promote, Becomes, Started
    <3> QED
      BY <1>1, <2>1, <3>1 DEF Promote, Reads, tags
  <2>3. CASE alias[CHAMPION] # v
    <3>1. job'[j].pc = "score" /\ job'[j].result = "none"
      BY <1>0, <2>1, <2>3 DEF Promote, Becomes, Started
    <3> QED
      BY <1>1, <2>1, <3>1 DEF Promote, Reads, tags
  <2> QED
    BY <2>2, <2>3
<1>4. CASE RegisterAlias(j)
  <2>1. alias'[CHAMPION] = alias[CHAMPION] /\ decision' = decision
    BY <1>0, <1>names, <1>4 DEF RegisterAlias, PointAlias, At, JobIsEarned, tags
  <2>2. job'[j].pc = "idle" /\ job'[j].result = "registered"
    BY <1>0, <1>names, <1>4, EndType DEF RegisterAlias
  <2> QED
    BY <1>0, <2>1, <2>2 DEF JobLeavesTrail, Completed, TaggedPromote
<1>5. CASE Score(j)
  <2>1. /\ UNCHANGED <<alias, decision>> /\ (Goto(j, "tag_gate") \/ End(j, "mismatch"))
        /\ job[j].pc = "score"
    BY <1>5 DEF Score, At, tags
  <2>2. CASE Goto(j, "tag_gate")
    <3>1. job'[j].pc = "tag_gate" /\ job'[j].result = "none"
      BY <1>0, <1>names, <2>1, <2>2, GotoType DEF JobLeavesTrail
    <3> QED
      BY <1>1, <2>1, <3>1
  <2>3. CASE End(j, "mismatch")
    <3>1. job'[j].pc = "idle" /\ job'[j].result = "mismatch"
      BY <1>0, <1>names, <2>3, EndType
    <3> QED
      BY <1>1, <2>1, <3>1
  <2> QED
    BY <2>1, <2>2, <2>3
<1>6. CASE TagGate(j)
  <2> DEFINE d == Decision(job[j].version, job[j].champion)
  <2>1. /\ alias' = alias /\ job[j].pc = "tag_gate" /\ job[j].version \in Versions
        /\ job[j].version # alias[CHAMPION]
        /\ decision' = [decision EXCEPT ![job[j].version] = d]
        /\ \/ Goto(j, "get_current") /\ d = "PROMOTE"
           \/ End(j, "dryRun") \/ End(j, "held")
    BY <1>0, <1>6 DEF TagGate, At, GoesOn, JobIsCurrent
  <2>2. TaggedPromote'
    BY <1>0, <2>1 DEF TaggedPromote
  <2> HIDE DEF d
  <2>3. CASE Goto(j, "get_current") /\ d = "PROMOTE"
    <3>1. job'[j].pc = "get_current" /\ job'[j].version = job[j].version /\ job'[j].result = "none"
      BY <1>0, <1>names, <2>1, <2>3, GotoType DEF JobLeavesTrail
    <3>2. decision'[job[j].version] = "PROMOTE"
      BY <1>0, <2>1, <2>3
    <3> QED
      BY <2>2, <3>1, <3>2 DEF JobLeavesTrail, Completed
  <2>4. CASE End(j, "dryRun") \/ End(j, "held")
    <3>1. job'[j].pc = "idle" /\ job'[j].result \in {"dryRun", "held"}
      BY <1>0, <1>names, <2>4, EndType
    <3> QED
      BY <2>2, <3>1 DEF JobLeavesTrail, Completed
  <2> QED
    BY <2>1, <2>3, <2>4
<1>7. CASE GetCurrent(j)
  <2>1. /\ UNCHANGED <<alias, decision>> /\ job[j].pc = "get_current"
        /\ job[j].version # alias[CHAMPION]
        /\ decision[job[j].version] = "PROMOTE" /\ job[j].result = "none"
    BY <1>0, <1>7 DEF GetCurrent, At, Reads, tags, JobIsCurrent, JobLeavesTrail
  <2>2. PICK label \in {"set_champion", "set_previous"} :
          /\ label = IF alias[CHAMPION] = None THEN "set_champion" ELSE "set_previous"
          /\ Becomes(j, [[job[j] EXCEPT !.current = alias[CHAMPION]] EXCEPT !.pc = label])
    BY <1>7, <2>1 DEF GetCurrent
  <2>3. /\ job'[j].pc = label /\ job'[j].version = job[j].version
        /\ job'[j].result = job[j].result /\ job'[j].current = alias[CHAMPION]
    BY <1>0, <2>2 DEF Becomes, Job
  <2> QED
    BY <1>0, <2>1, <2>2, <2>3 DEF JobLeavesTrail, Completed, TaggedPromote
<1>8. CASE SetPrevious(j)
  <2>1. /\ job[j].pc = "set_previous" /\ decision' = decision
        /\ alias'[CHAMPION] = alias[CHAMPION]
    BY <1>0, <1>names, <1>8 DEF SetPrevious, At, PointAlias, tags
  <2>2. /\ job'[j].pc = "tag_retired" /\ job'[j].version = job[j].version
        /\ job'[j].result = job[j].result
    BY <1>0, <1>names, <1>8, GotoType DEF SetPrevious
  <2> QED
    BY <1>0, <2>1, <2>2 DEF JobLeavesTrail, Completed, TaggedPromote
<1>9. CASE TagRetired(j)
  <2>1. /\ job[j].pc = "tag_retired" /\ UNCHANGED <<alias, decision>>
        /\ job[j].current = alias[CHAMPION] /\ job[j].current \in Versions
        /\ retiredBy' = [retiredBy EXCEPT ![job[j].current] = job[j].version]
    BY <1>0, <1>9 DEF TagRetired, At, JobIsCurrent, VersionOrNone
  <2>2. retiredBy'[job[j].current] = job[j].version
    BY <1>0, <2>1
  <2>3. /\ job'[j].pc = "set_champion" /\ job'[j].version = job[j].version
        /\ job'[j].result = job[j].result /\ job'[j].current = job[j].current
    BY <1>0, <1>names, <1>9, GotoType DEF TagRetired
  <2> QED
    BY <1>0, <2>1, <2>2, <2>3 DEF JobLeavesTrail, Completed, TaggedPromote
<1>10. CASE SetChampion(j)
  <2>1. /\ job[j].pc = "set_champion" /\ job[j].version \in Versions
        /\ decision' = decision /\ retiredBy' = retiredBy
        /\ alias'[CHAMPION] = job[j].version /\ alias'[PREVIOUS] = alias[PREVIOUS]
        /\ alias[PREVIOUS] = alias[CHAMPION] /\ job[j].current = alias[CHAMPION]
        /\ job[j].current # None => retiredBy[job[j].current] = job[j].version
        /\ decision[job[j].version] = "PROMOTE" /\ job[j].result = "none"
    BY <1>0, <1>names, <1>10
       DEF SetChampion, At, PointAlias, tags, JobIsCurrent, JobLeavesTrail
  <2>2. /\ job'[j].pc = "tag_promoted_by" /\ job'[j].version = job[j].version
        /\ job'[j].result = job[j].result /\ job'[j].current = job[j].current
    BY <1>0, <1>names, <1>10, GotoType DEF SetChampion
  <2> QED
    BY <2>1, <2>2 DEF JobLeavesTrail, Completed, TaggedPromote
<1>11. CASE TagPromotedBy(j) \/ TagGateReport(j)
  <2>1. PICK tag \in {"promoted_by", "gate.report"} :
          /\ AddAudit(job[j].version, tag)
          /\ \/ /\ job[j].pc = "tag_promoted_by" /\ tag = "promoted_by" /\ Goto(j, "tag_gate_report")
             \/ /\ job[j].pc = "tag_gate_report" /\ tag = "gate.report" /\ Goto(j, "get_challenger")
    BY <1>11 DEF TagPromotedBy, TagGateReport, At
  <2>2. /\ UNCHANGED <<alias, decision, retiredBy>>
        /\ audit'[job[j].version] = audit[job[j].version] \cup {tag}
        /\ audit[job[j].version] \subseteq {"promoted_by", "gate.report"}
    BY <1>0, <2>1 DEF AddAudit
  <2>3. /\ job'[j].pc = IF tag = "promoted_by" THEN "tag_gate_report" ELSE "get_challenger"
        /\ job'[j].version = job[j].version
        /\ job'[j].result = job[j].result /\ job'[j].current = job[j].current
    BY <1>0, <1>names, <2>1, GotoType
  <2>4. tag = "gate.report" => audit'[job[j].version] = {"promoted_by", "gate.report"}
    BY <1>0, <2>1, <2>2 DEF JobLeavesTrail
  <2> QED
    BY <1>0, <2>1, <2>2, <2>3, <2>4 DEF JobLeavesTrail, Completed, TaggedPromote
<1>12. CASE GetChallenger(j)
  <2>1. job[j].pc = "get_challenger" /\ UNCHANGED <<alias, decision, retiredBy, audit>>
    BY <1>12 DEF GetChallenger, At, Reads, tags
  <2>2. CASE Goto(j, "delete_challenger")
    <3>1. /\ job'[j].pc = "delete_challenger" /\ job'[j].version = job[j].version
          /\ job'[j].result = job[j].result /\ job'[j].current = job[j].current
      BY <1>0, <1>names, <2>2, GotoType
    <3> QED
      BY <1>0, <2>1, <3>1 DEF JobLeavesTrail, Completed, TaggedPromote
  <2>3. CASE End(j, "promoted") /\ alias[CHALLENGER] # job[j].version
    <3>1. /\ job'[j].pc = "idle" /\ job'[j].version = job[j].version
          /\ job'[j].current = job[j].current
      BY <1>0, <1>names, <2>3, EndType
    <3> QED
      BY <1>0, <2>1, <2>3, <3>1 DEF JobLeavesTrail, Completed, TaggedPromote
  <2> QED
    BY <1>12, <2>2, <2>3 DEF GetChallenger
<1>13. CASE DeleteChallenger(j)
  <2>1. /\ job[j].pc = "delete_challenger" /\ UNCHANGED <<decision, retiredBy, audit>>
        /\ alias'[CHAMPION] = alias[CHAMPION] /\ alias'[PREVIOUS] = alias[PREVIOUS]
        /\ alias'[CHALLENGER] = None /\ job[j].version # None
    BY <1>0, <1>names, <1>13 DEF DeleteChallenger, At, PointAlias, tags
  <2>2. /\ job'[j].pc = "idle" /\ job'[j].version = job[j].version
        /\ job'[j].current = job[j].current
    BY <1>0, <1>names, <1>13, EndType DEF DeleteChallenger
  <2> QED
    BY <1>0, <2>1, <2>2 DEF JobLeavesTrail, Completed, TaggedPromote
<1>14. CASE Interrupted(j)
  <2>1. job'[j].pc = "idle" /\ job'[j].result = "error" /\ UNCHANGED <<alias, decision>>
    BY <1>0, <1>names, <1>14, EndType DEF Interrupted, Reads, tags
  <2> QED
    BY <1>1, <2>1
<1> QED
  BY <1>2, <1>3, <1>4, <1>5, <1>6, <1>7, <1>8, <1>9, <1>10, <1>11, <1>12, <1>13, <1>14 DEF JobStep, Begins, Continues

\* SerialInvariant is inductive: an interrupted job leaves the trail of its place.
LEMMA SerialInductive == SerialInvariant /\ [Next]_vars => SerialInvariant'
<1> SUFFICES ASSUME SerialInvariant, [Next]_vars PROVE SerialInvariant'
  OBVIOUS
<1>0. AloneInvariant /\ EarnedInvariant
  BY DEF SerialInvariant, AloneInvariant
<1>1. AloneInvariant'
  BY <1>0, AloneInductive
<1>2. ASSUME NEW j \in Jobs, JobStep(j) PROVE SerialInvariant'
  <2>1. Used(j)' /\ \A i \in Jobs \ {j} : job'[i] = job[i]
    BY <1>0, <1>2, StepUses
  <2>2. \A i \in Jobs : (Used(i) \/ job[i].result = "none")'
    BY <2>1 DEF SerialInvariant, Used
  <2>3. ASSUME Alone'
        PROVE  TaggedPromote' /\ \A i \in Jobs : Completed(i)' /\ JobLeavesTrail(i)'
    <3>1. Alone /\ \A i \in Jobs \ {j} : ~Used(i)
      BY <1>0, <1>2, <2>3, StepUses
    <3>2. JobLeavesTrail(j)' /\ Completed(j)' /\ TaggedPromote'
      BY <1>2, <3>1, TrailStep
    <3>3. \A i \in Jobs \ {j} : job'[i].pc = "idle" /\ job'[i].result = "none"
      BY <1>0, <2>1, <3>1, PromotionAssumption DEF SerialInvariant, EarnedInvariant, JobIsEarned, Used
    <3>4. \A i \in Jobs \ {j} : Completed(i)' /\ JobLeavesTrail(i)'
      BY <3>3 DEF Completed, JobLeavesTrail, PastTheGate, AfterTheMove
    <3> QED
      BY <3>2, <3>4
  <2> QED
    BY <1>1, <2>2, <2>3 DEF SerialInvariant, CompletedPromotion, ChampionIsTaggedPromote, TaggedPromote
<1>3. CASE UNCHANGED vars
  BY <1>1, <1>3 DEF vars, tags, SerialInvariant, JobLeavesTrail, CompletedPromotion, Completed,
     ChampionIsTaggedPromote, Alone, Used
<1> QED
  BY <1>2, <1>3 DEF Next

\* Nothing is registered and no job runs at first.
LEMMA SerialInit == Init => SerialInvariant
<1> SUFFICES ASSUME Init PROVE SerialInvariant
  OBVIOUS
<1>1. AloneInvariant
  BY AloneInit
<1>2. \A j \in Jobs : job[j].pc = "idle" /\ job[j].result = "none"
  BY DEF Init, Started
<1>3. alias[CHAMPION] = None
  BY DEF Init, Aliases, CHAMPION
<1> QED
  BY <1>1, <1>2, <1>3 DEF SerialInvariant, CompletedPromotion, Completed,
     ChampionIsTaggedPromote, JobLeavesTrail, PastTheGate, AfterTheMove

\* As long as jobs do not overlap, interrupted ones included, SerialInvariant holds
\* for any gate, holdouts and versions: a job never works on what it has read
\* too long ago, and has left the part of the trail that its place says.
THEOREM SerialInvariantHolds == Spec => []SerialInvariant
<1>1. Init => SerialInvariant
  BY SerialInit
<1>2. SerialInvariant /\ [Next]_vars => SerialInvariant'
  BY SerialInductive
<1> QED
  BY <1>1, <1>2, PTL DEF Spec

\* A promote that reports the move has completed all of it.
THEOREM PromotionsAreComplete == Spec => []CompletedPromotion
<1>1. SerialInvariant => CompletedPromotion
  BY DEF SerialInvariant
<1> QED
  BY <1>1, SerialInvariantHolds, PTL

\* The gate.decision tag of a champion never says HOLD.
THEOREM ChampionsPassed == Spec => []ChampionIsTaggedPromote
<1>1. SerialInvariant => ChampionIsTaggedPromote
  BY DEF SerialInvariant
<1> QED
  BY <1>1, SerialInvariantHolds, PTL
=============================================================================
