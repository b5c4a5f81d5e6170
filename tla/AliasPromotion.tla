--------------------------- MODULE AliasPromotion ---------------------------
(***************************************************************************)
(* The mlreg commands that write the MLflow registry of one model:         *)
(* `register` (and `train --register`) with --alias, and `promote`, which  *)
(* evaluates the gate against the champion and then moves the aliases.  A  *)
(* command is a job; each of its MLflow calls is a step, so the calls of   *)
(* other jobs fall in between, and a job may be interrupted before each:   *)
(* the CI run is cancelled (cancel-in-progress) or the call raises.        *)
(*                                                                         *)
(* The tags are reduced to those that carry the audit trail: gate.decision *)
(* for the gate's three, promoted_by for promoted_by, promoted_utc and     *)
(* promotion_alias, gate.report for the evidence, retired_by_version for   *)
(* it and retired_utc.                                                     *)
(***************************************************************************)
EXTENDS Naturals

CONSTANTS
  Versions,         \* versions the model may come to have
  None,             \* no version, no alias
  Jobs,             \* job slots: how many commands may overlap
  Holdouts,         \* for each split in use, the versions trained with it
  Passes,           \* the gate: <<v, w>> when v passes against champion w, or None
  RegisterAliases   \* the aliases given to register and train

CHAMPION   == "champion"
CHALLENGER == "challenger"
PREVIOUS   == "previous"

Aliases == {CHAMPION, CHALLENGER, PREVIOUS}

VersionOrNone == Versions \cup {None}

\* The documents, the Makefile and the CI register under @challenger only; a
\* version registered straight under @champion would not meet the gate.
ASSUME PromotionAssumption ==
  /\ None \notin Versions
  /\ None \notin Aliases
  /\ Holdouts \subseteq SUBSET Versions
  /\ Passes \subseteq Versions \X VersionOrNone
  /\ RegisterAliases \subseteq {CHALLENGER}

VARIABLES
  registered,   \* the versions that exist
  alias,        \* what each alias points to
  decision,     \* tag gate.decision of each version
  audit,        \* which of the tags promoted_by and gate.report a version has
  retiredBy,    \* tag retired_by_version
  job,          \* the commands
  earned,       \* history: versions the gate passed for a promote that is no dry run
  held          \* history: versions that have held @champion

tags == <<decision, audit, retiredBy>>
history == <<earned, held>>
vars == <<registered, alias, tags, job, history>>

Labels == {"idle", "register_alias", "score", "tag_gate", "get_current",
           "set_previous", "tag_retired", "set_champion", "tag_promoted_by",
           "tag_gate_report", "get_challenger", "delete_challenger"}

Results == {"none", "registered", "promoted", "already", "mismatch", "held",
            "dryRun", "error"}

Job == [pc: Labels,
        version: VersionOrNone,    \* the candidate, or the version registered
        champion: VersionOrNone,   \* what cmd_promote read
        current: VersionOrNone,    \* what promote() read again
        alias: Aliases \cup {None},
        dryRun: BOOLEAN,
        result: Results]

Started(label, v, w, a, dry) ==
  [pc |-> label, version |-> v, champion |-> w, current |-> None, alias |-> a,
   dryRun |-> dry, result |-> "none"]

TypeOK ==
  /\ registered \subseteq Versions
  /\ alias \in [Aliases -> VersionOrNone]
  /\ decision \in [Versions -> {"none", "PROMOTE", "HOLD"}]
  /\ audit \in [Versions -> SUBSET {"promoted_by", "gate.report"}]
  /\ retiredBy \in [Versions -> VersionOrNone]
  /\ job \in [Jobs -> Job]
  /\ earned \subseteq Versions
  /\ held \subseteq Versions

Init ==
  /\ registered = {}
  /\ alias = [a \in Aliases |-> None]
  /\ decision = [v \in Versions |-> "none"]
  /\ audit = [v \in Versions |-> {}]
  /\ retiredBy = [v \in Versions |-> None]
  /\ job = [j \in Jobs |-> Started("idle", None, None, None, FALSE)]
  /\ earned = {}
  /\ held = {}

-----------------------------------------------------------------------------
(* Helpers.                                                                 *)

At(j, label) == job[j].pc = label
Becomes(j, record) == job' = [job EXCEPT ![j] = record]
Goto(j, label) == Becomes(j, [job[j] EXCEPT !.pc = label])
End(j, result) == Becomes(j, [job[j] EXCEPT !.pc = "idle", !.result = result])

\* MlflowClient calls: each is one request to the tracking server.
PointAlias(a, v) ==
  /\ alias' = [alias EXCEPT ![a] = v]
  /\ held' = IF a = CHAMPION THEN held \cup ({v} \ {None}) ELSE held
  /\ UNCHANGED <<registered, tags, earned>>

AddAudit(v, tag) ==
  /\ audit' = [audit EXCEPT ![v] = @ \cup {tag}]
  /\ UNCHANGED <<registered, alias, decision, retiredBy, history>>

Reads == UNCHANGED <<registered, alias, tags, history>>

-----------------------------------------------------------------------------
(* register, and train --register.                                          *)

Register(j, v, a) ==
  /\ At(j, "idle")
  /\ v \notin registered
  /\ registered' = registered \cup {v}
  /\ Becomes(j, IF a = None
                THEN [Started("idle", v, None, a, FALSE) EXCEPT !.result = "registered"]
                ELSE Started("register_alias", v, None, a, FALSE))
  /\ UNCHANGED <<alias, tags, history>>

RegisterAlias(j) ==
  /\ At(j, "register_alias")
  /\ PointAlias(job[j].alias, job[j].version)
  /\ End(j, "registered")

-----------------------------------------------------------------------------
(* promote: the command up to the gate.                                     *)

\* The alias is that of every document and workflow: the option
\* --champion-alias is left out.
Promote(j, v, dry) ==
  /\ At(j, "idle")
  /\ v \in registered
  /\ Becomes(j, IF alias[CHAMPION] = v
                THEN [Started("idle", v, v, None, dry) EXCEPT !.result = "already"]
                ELSE Started("score", v, alias[CHAMPION], None, dry))
  /\ Reads

Earns(j, w) ==
  earned' = IF ~job[j].dryRun /\ <<job[j].version, w>> \in Passes
            THEN earned \cup {job[j].version} ELSE earned

\* Mutant: a champion without evidence is left out of the comparison.
ScoreAlone(j) ==
  /\ At(j, "score")
  /\ \E comparable \in Holdouts :
       /\ job[j].version \in comparable
       /\ LET w == IF job[j].champion \in comparable THEN job[j].champion ELSE None
          IN  Becomes(j, [job[j] EXCEPT !.pc = "tag_gate", !.champion = w]) /\ Earns(j, w)
  /\ UNCHANGED <<registered, alias, tags, held>>

\* Both arms must have evidence for the split of --config before any is
\* loaded (verify_run_holdout); then the gate is evaluated.
Score(j) ==
  /\ At(j, "score")
  /\ \E comparable \in Holdouts :
       IF {job[j].version, job[j].champion} \subseteq comparable \cup {None}
       THEN Goto(j, "tag_gate") /\ Earns(j, job[j].champion)
       ELSE End(j, "mismatch") /\ UNCHANGED earned
  /\ UNCHANGED <<registered, alias, tags, held>>

Decision(v, w) == IF <<v, w>> \in Passes THEN "PROMOTE" ELSE "HOLD"

\* Mutants: --dry-run is ignored; the recorded decision of any run counts.
GoesOnDryRun(j, d) == d = "PROMOTE"
GoesOnOverHold(j, d) == ~job[j].dryRun

GoesOn(j, d) == d = "PROMOTE" /\ ~job[j].dryRun

TagGate(j) ==
  /\ At(j, "tag_gate")
  /\ LET d == Decision(job[j].version, job[j].champion)
     IN  /\ decision' = [decision EXCEPT ![job[j].version] = d]
         /\ \/ GoesOn(j, d) /\ Goto(j, "get_current")
            \/ ~GoesOn(j, d) /\ End(j, IF d = "PROMOTE" THEN "dryRun" ELSE "held")
  /\ UNCHANGED <<registered, alias, audit, retiredBy, history>>

-----------------------------------------------------------------------------
(* registry.promote.                                                        *)

GetCurrent(j) ==
  /\ At(j, "get_current")
  /\ LET now == [job[j] EXCEPT !.current = alias[CHAMPION]]
     IN  \/ /\ alias[CHAMPION] = job[j].version
            /\ Becomes(j, [now EXCEPT !.pc = "idle", !.result = "promoted"])
         \/ /\ alias[CHAMPION] = None
            /\ Becomes(j, [now EXCEPT !.pc = "set_champion"])
         \/ /\ alias[CHAMPION] \notin {None, job[j].version}
            /\ Becomes(j, [now EXCEPT !.pc = "set_previous"])
  /\ Reads

\* Mutant: the new version is recorded as the previous one.
SetPreviousToNew(j) ==
  /\ At(j, "set_previous")
  /\ PointAlias(PREVIOUS, job[j].version)
  /\ Goto(j, "tag_retired")

SetPrevious(j) ==
  /\ At(j, "set_previous")
  /\ PointAlias(PREVIOUS, job[j].current)
  /\ Goto(j, "tag_retired")

TagRetired(j) ==
  /\ At(j, "tag_retired")
  /\ retiredBy' = [retiredBy EXCEPT ![job[j].current] = job[j].version]
  /\ Goto(j, "set_champion")
  /\ UNCHANGED <<registered, alias, decision, audit, history>>

\* Mutant: the audit tags are left to a later command.
SetChampionUntagged(j) ==
  /\ At(j, "set_champion")
  /\ PointAlias(CHAMPION, job[j].version)
  /\ Goto(j, "get_challenger")

SetChampion(j) ==
  /\ At(j, "set_champion")
  /\ PointAlias(CHAMPION, job[j].version)
  /\ Goto(j, "tag_promoted_by")

TagPromotedBy(j) ==
  /\ At(j, "tag_promoted_by")
  /\ AddAudit(job[j].version, "promoted_by")
  /\ Goto(j, "tag_gate_report")

TagGateReport(j) ==
  /\ At(j, "tag_gate_report")
  /\ AddAudit(job[j].version, "gate.report")
  /\ Goto(j, "get_challenger")

GetChallenger(j) ==
  /\ At(j, "get_challenger")
  /\ IF alias[CHALLENGER] = job[j].version THEN Goto(j, "delete_challenger")
                                           ELSE End(j, "promoted")
  /\ Reads

\* Mutant: the alias that was moved is the one that is deleted.
DeleteMovedAlias(j) ==
  /\ At(j, "delete_challenger")
  /\ PointAlias(CHAMPION, None)
  /\ End(j, "promoted")

\* delete_alias deletes the alias wherever it points by now.
DeleteChallenger(j) ==
  /\ At(j, "delete_challenger")
  /\ PointAlias(CHALLENGER, None)
  /\ End(j, "promoted")

-----------------------------------------------------------------------------

Interrupted(j) == job[j].pc # "idle" /\ End(j, "error") /\ Reads

Begins(j) ==
  \/ \E v \in Versions, a \in RegisterAliases \cup {None} : Register(j, v, a)
  \/ \E v \in Versions, dry \in BOOLEAN : Promote(j, v, dry)

Continues(j) ==
  \/ RegisterAlias(j)
  \/ Score(j) \/ TagGate(j) \/ GetCurrent(j)
  \/ SetPrevious(j) \/ TagRetired(j) \/ SetChampion(j)
  \/ TagPromotedBy(j) \/ TagGateReport(j)
  \/ GetChallenger(j) \/ DeleteChallenger(j)
  \/ Interrupted(j)

JobStep(j) == Begins(j) \/ Continues(j)

Next == \E j \in Jobs : JobStep(j)

Spec == Init /\ [][Next]_vars

-----------------------------------------------------------------------------
(* Properties.                                                              *)

\* Whatever jobs overlap or stop half way, @champion only ever points to a
\* version the gate passed for a promotion that was no dry run, and @previous
\* only to a version that has been the champion.
AliasesAreEarned ==
  /\ alias[CHAMPION] \in earned \cup {None}
  /\ alias[PREVIOUS] \in held \cup {None}

PastTheGate == {"get_current", "set_previous", "tag_retired", "set_champion"}

\* A job past the gate carries an earned version, and what it read as the
\* champion has held the alias.
JobIsEarned(j) ==
  /\ job[j].pc # "idle" => job[j].version \in Versions
  /\ job[j].pc = "tag_gate" =>
       (GoesOn(j, Decision(job[j].version, job[j].champion)) => job[j].version \in earned)
  /\ job[j].pc \in PastTheGate => job[j].version \in earned
  /\ job[j].pc \in {"set_previous", "tag_retired"} => job[j].current \in held
  /\ job[j].pc = "register_alias" => job[j].alias = CHALLENGER

\* The inductive form: the aliases are earned because the jobs that move
\* them are.
EarnedInvariant ==
  /\ TypeOK
  /\ AliasesAreEarned
  /\ alias[CHAMPION] \in held \cup {None}
  /\ \A j \in Jobs : JobIsEarned(j)

\* Once there is a champion there always is one: a deployment that loads
\* @champion never meets a moment without it, in the middle of a promotion,
\* between two promotions, or after an interrupted one.
ChampionNeverLost ==
  [][alias[CHAMPION] # None => alias'[CHAMPION] # None]_vars

\* One job at a time: all the commands so far ran in one slot, one after the
\* other.  It is how the documents use the registry.
Used(j) == job[j].version # None

Alone == \A i, j \in Jobs : Used(i) /\ Used(j) => i = j

\* As long as the jobs do not overlap, each step is one of the abstract
\* registry that the aliases show, or leaves it alone.
Registry == INSTANCE ChampionRegistry
              WITH champion <- alias[CHAMPION], previous <- alias[PREVIOUS]

ImplementsChampionRegistry ==
  /\ Registry!Init
  /\ [][Alone' => [Registry!Next]_(Registry!aliases)]_vars

\* What a job has read is still so when it is alone.
JobIsCurrent(j) ==
  /\ job[j].pc \in {"score", "tag_gate"} \cup PastTheGate =>
       job[j].champion = alias[CHAMPION] /\ job[j].version # alias[CHAMPION]
  /\ job[j].pc \in PastTheGate => <<job[j].version, job[j].champion>> \in Passes
  /\ job[j].pc \in {"set_previous", "tag_retired"} =>
       job[j].current = alias[CHAMPION] /\ alias[CHAMPION] # None
  /\ job[j].pc \in {"tag_retired", "set_champion"} => alias[PREVIOUS] = alias[CHAMPION]

\* The inductive form of the refinement.
AloneInvariant ==
  /\ EarnedInvariant
  /\ Alone => /\ alias[CHAMPION] = None => alias[PREVIOUS] = None
              /\ \A j \in Jobs : JobIsCurrent(j)

Completed(j) ==
  job[j].result = "promoted" =>
    /\ alias[CHAMPION] = job[j].version
    /\ audit[job[j].version] = {"promoted_by", "gate.report"}
    /\ alias[CHALLENGER] # job[j].version
    /\ job[j].current # None =>
         /\ alias[PREVIOUS] = job[j].current
         /\ retiredBy[job[j].current] = job[j].version

\* With one job at a time: a promote that reports the move has completed all
\* of it, the trail and the clean-up included.
CompletedPromotion == Alone => \A j \in Jobs : Completed(j)

\* With one job at a time, interrupted or not, the gate.decision tag of the
\* champion never says HOLD: the decision is tagged before the alias moves,
\* and a champion is not evaluated again.
ChampionIsTaggedPromote ==
  Alone /\ alias[CHAMPION] # None => decision[alias[CHAMPION]] = "PROMOTE"

AfterTheMove == {"tag_promoted_by", "tag_gate_report", "get_challenger", "delete_challenger"}

\* The move, as far as the job has come with it.
JobLeavesTrail(j) ==
  /\ job[j].pc # "idle" => job[j].result = "none"
  /\ job[j].pc \in PastTheGate => decision[job[j].version] = "PROMOTE"
  /\ job[j].pc = "set_champion" =>
       /\ job[j].current = alias[CHAMPION]
       /\ job[j].current # None => retiredBy[job[j].current] = job[j].version
  /\ job[j].pc \in AfterTheMove =>
       /\ alias[CHAMPION] = job[j].version
       /\ job[j].current # None =>
            /\ alias[PREVIOUS] = job[j].current
            /\ retiredBy[job[j].current] = job[j].version
  /\ job[j].pc = "tag_gate_report" => "promoted_by" \in audit[job[j].version]
  /\ job[j].pc \in {"get_challenger", "delete_challenger"} =>
       audit[job[j].version] = {"promoted_by", "gate.report"}

\* The inductive form of the two: what a job that runs alone has left behind
\* so far, wherever the jobs before it were interrupted.
SerialInvariant ==
  /\ AloneInvariant
  /\ CompletedPromotion /\ ChampionIsTaggedPromote
  /\ \A j \in Jobs : Used(j) \/ job[j].result = "none"
  /\ Alone => \A j \in Jobs : JobLeavesTrail(j)

-----------------------------------------------------------------------------
(* What the documentation says, and the code does not keep.                 *)

\* README.md: promotion is one atomic move that leaves a tagged audit trail.
\* A promote that exits 0 without a dry run leaves the champion with its
\* trail (it does not when an earlier one was interrupted after the move).
AuditTrail ==
  \A j \in Jobs :
    job[j].result \in {"promoted", "already"} =>
      audit[job[j].version] = {"promoted_by", "gate.report"}
=============================================================================
