----------------------------- MODULE StoryRules -----------------------------
(***************************************************************************)
(* The answers of the helper commands the story loop is driven by:         *)
(* commands/orchestrator.py, commands/orchestrator_epic_agents.py, the     *)
(* success verifiers of core/success_verifiers.py and the git commands of  *)
(* commands/basic.py.  Each is a function of the files it reads.           *)
(***************************************************************************)
EXTENDS Naturals, Sequences, FiniteSetsExt, SequencesExt
CONSTANT NoValue

Lower(status) == IF status = "Done" THEN "done" ELSE status

(* ---- verifiers and status ---- *)

\* sprint_status_get compares the row as it is written, the review verifier
\* without regard to case; a story's file is asked when the row is not done.
SprintDone(row) == row = "done"
\* create_story_artifact: exactly the expected number of story files.
CreateVerified(files, expected) == files = expected
ReviewCompletion(row, file) ==
  IF Lower(row) = "done" THEN [verified |-> TRUE, source |-> "sprint-status.yaml"]
  ELSE IF Lower(file) = "done" THEN [verified |-> TRUE, source |-> "story-file"]
  ELSE [verified |-> FALSE, source |-> "none"]
\* epic_complete: the row of the story, when its full key was given, is there and
\* done, and so is every row of its epic; sprint-status check-epic gives no key.
EpicComplete(rows, key) ==
  /\ key # NoValue => key \in DOMAIN rows /\ SprintDone(rows[key])
  /\ DOMAIN rows # {} /\ \A s \in DOMAIN rows : SprintDone(rows[s])
\* step-03b F: done by the row, or by the word done in the story's file.
StoryIsDone(row, file) == SprintDone(row) \/ file = "done"

\* verify-step: the verifier named by the step's contract, and a veto after a
\* development session; any failure to load or run it is an unverified answer.
VerifyStep(verifier, contractOk, answer, vetoed) ==
  IF ~contractOk \/ verifier = NoValue THEN "verifier_contract_invalid"
  ELSE IF verifier = "session_exit" /\ vetoed THEN "plugin_veto"
  ELSE IF verifier = "session_exit" \/ answer THEN "verified" ELSE "unverified"

\* commit-ready: only a story whose row is done, with something to commit.
CommitReady(row, dirty, vetoed, gitOk) ==
  IF ~SprintDone(row) THEN "not_done"
  ELSE IF vetoed THEN "plugin_veto"
  ELSE IF ~gitOk THEN "git_status_failed"
  ELSE IF dirty = {} THEN "no_changes" ELSE "ready"

\* escalate: an unreadable policy escalates, an unknown trigger does not.
Escalates(trigger, count, limit, policyOk) ==
  \/ ~policyOk
  \/ trigger \in {"review-loop", "session-crash"} /\ count >= limit
  \/ trigger = "story-validation" /\ count # 1

(* ---- git ---- *)

\* reconcile-story --write: the story's File List becomes the uncommitted files.
ReconcileSection(fileList, dirty) ==
  [fileList |-> dirty, missing |-> dirty \ fileList, stale |-> fileList \ dirty]
\* test-counts: an artifact of this run, else one the command makes now.
TestCountSource(configured, artifact, command, emits) ==
  IF ~configured THEN "skipped"
  ELSE IF artifact = "fresh" THEN "capture"
  ELSE IF command /\ (emits \/ artifact = "stale") THEN "rerun"
  ELSE "skipped"

(* ---- the state document ---- *)

\* state-update: the keys the document has are set, the others passed over, and
\* nothing is written when there are only others; one operand without "=" abandons
\* them all.
StateUpdate(doc, sets, wellFormed) ==
  LET known == DOMAIN sets \cap DOMAIN doc
  IN  IF ~wellFormed THEN [ok |-> FALSE, doc |-> doc, audited |-> FALSE]
      ELSE [ok |-> known # {},
            doc |-> [key \in DOMAIN doc |-> IF key \in known THEN sets[key] ELSE doc[key]],
            audited |-> "status" \in known]
\* state-latest and state-latest-incomplete: the youngest of the documents kept.
StateLatest(docs) ==
  IF docs = {} THEN NoValue ELSE CHOOSE d \in docs : \A e \in docs : d.updated >= e.updated
StateLatestIncomplete(docs) == StateLatest({d \in docs : d.status # "COMPLETE"})

(* ---- epics and dependencies ---- *)

\* get-epic-stories: the run's range, else the sprint rows, else the epic file.
EpicStories(range, rows, inFile) ==
  IF range # {} THEN range ELSE IF rows # {} THEN rows ELSE inFile
\* check-epic-complete: whether a story is the highest of the epic's; a state
\* document is believed even when it names no story of the epic.
IsLastStory(story, hasDoc, range, rows) ==
  LET stories == IF hasDoc THEN range ELSE rows
  IN  stories # {} /\ story = Max(stories)
\* check-blocking: without an epic file a story is taken to block others.
Dependents(story, needs) == {s \in DOMAIN needs : story \in needs[s]}
Blocking(story, needs) == needs = NoValue \/ Dependents(story, needs) # {}

(* ---- which agent ---- *)

\* resolve_agent: a field of the complexity override, else of the task, else the
\* default; "auto" is the runtime the helper is installed for, and no fallback
\* at all is a value of its own.
AgentField(config, level, task, field) ==
  LET Has(entries, key) == key \in DOMAIN entries /\ field \in DOMAIN entries[key]
      override == IF level \in DOMAIN config.overrides THEN config.overrides[level] ELSE config.none
  IN  IF Has(override, task) THEN override[task][field]
      ELSE IF Has(config.perTask, task) THEN config.perTask[task][field]
      ELSE config.default[field]
ResolveAgent(config, level, task, provider) ==
  LET primary == AgentField(config, level, task, "primary")
      fallback == AgentField(config, level, task, "fallback")
  IN  [primary |-> IF primary \in {"", "auto"} THEN provider ELSE primary,
       fallback |-> IF fallback \in {"", "auto", "none"} THEN "false" ELSE fallback,
       model |-> AgentField(config, level, task, "model")]
Tasks == {"create", "dev", "auto", "review"}
\* agents-build: a selection for every task of every story with an identifier.
AgentsBuild(config, levels, provider) ==
  [s \in DOMAIN levels \ {NoValue} |-> [t \in Tasks |-> ResolveAgent(config, levels[s], t, provider)]]
\* agents-resolve: the plan's selection, under the very spelling it was built with.
AgentsResolve(plan, story, task) ==
  IF plan = NoValue THEN "agents_file_invalid"
  ELSE IF story \notin DOMAIN plan THEN "story_not_found"
  ELSE IF task \notin DOMAIN plan[story] THEN "task_not_found" ELSE "ok"
RetroAgent(config, provider) == ResolveAgent(config, "medium", "retro", provider)

(* ---- checked over bounded inputs ---- *)

\* What the loop takes for done is what the review verifier took for done, or the
\* loop would send the story back; the two differ on the spelling of a story file
\* (success_verifiers.py:125 against step-03b-execute-finish.md:80).
DoneAgrees(statuses) ==
  \A row, file \in statuses \ {"Done"} :
    ReviewCompletion(row, file).verified <=> StoryIsDone(row, file)
\* A field set for a task and a level wins over one set for the task, and that
\* over the default, each on its own (orchestrator_epic_agents.py:683).
FieldsAreInherited(names) ==
  LET fields == {"primary", "fallback", "model"}
      Entry == UNION {[S -> names] : S \in SUBSET fields}
  IN  \A high, task \in Entry :
        LET config == [default |-> [f \in fields |-> "d"], none |-> [t \in {} |-> task],
                       perTask |-> [t \in {"dev"} |-> task],
                       overrides |-> [l \in {"high"} |-> [t \in {"dev"} |-> high]]]
            Of(f) == AgentField(config, "high", "dev", f)
        IN  \A f \in fields :
              /\ f \in DOMAIN high => Of(f) = high[f]
              /\ f \notin DOMAIN high /\ f \in DOMAIN task => Of(f) = task[f]
              /\ f \notin DOMAIN high \cup DOMAIN task => Of(f) = "d"
              /\ AgentField(config, "low", "dev", f) = IF f \in DOMAIN task THEN task[f] ELSE "d"
=============================================================================
