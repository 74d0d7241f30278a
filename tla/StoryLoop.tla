----------------------------- MODULE StoryLoop -----------------------------
(***************************************************************************)
(* The build cycle over the stories of a run: the steps of                 *)
(* steps-c/step-03*.md carried out by one driver with the helper commands  *)
(* of StoryRules, the ceilings of Budget and the routing of GateRouting,   *)
(* and the agent sessions it spawns.  The driver dies and is resumed from  *)
(* its state document; a session that was running then goes on without it. *)
(*                                                                         *)
(* What a session does is not the program's: it may edit files of its      *)
(* story, set the story's row, the Status and the File List of its file,   *)
(* and spend money.  An edit is <<story, n>>; at most MaxEdits are made.   *)
(***************************************************************************)
EXTENDS StoryRules, Budget, GateRouting, SpecCompliance

CONSTANTS StoryRange,     \* storyRange: a sequence of stories
          MaxAttempts,    \* of create and of dev; 5 in the steps
          Plateau,        \* attempts of dev after which it may be deferred; 3 in the steps
          MaxAuto,        \* attempts at the guardrails; 3 in the steps
          MaxCycles,      \* of review; 5 in data/code-review-loop.md
          Ceiling,        \* the ceiling on story_start and retry_start
          Contracts,      \* of the gate verifier: cycle, maxCycles, risk9; None without
          GateFiles,      \* the gate files a production gate may leave
          Words,          \* the Status agents write into a story's file
          ListSizes,      \* how many edits a File List written by an agent claims
          MaxEdits, MaxCrashes   \* bounds of the model

Stories == {StoryRange[i] : i \in DOMAIN StoryRange}
ASSUME StoriesAssumption == StoryRange \in Seq(Stories) /\ "none" \notin Stories
ASSUME LimitsAssumption ==
  /\ MaxAttempts \in Nat \ {0} /\ MaxAuto \in Nat \ {0} /\ MaxCycles \in Nat \ {0}
  /\ Ceiling.limit \in Nat /\ MaxEdits \in Nat /\ MaxCrashes \in Nat
  /\ ListSizes \subseteq 0..MaxEdits /\ Words \subseteq {"review", "done", "Done"}
Steps == {"step-03-execute", "step-03a-execute-review", "step-03b-execute-finish",
          "step-04-wrapup"}
Progress == {"none", "create", "dev", "auto", "review", "commit", "done"}

VARIABLES
  sprint, file,     \* the row, and the story file's Status ("none": no file)
  dirty, committed, \* the edits not committed, and those that are
  fileList,         \* the edits the story's file lists
  gate, records,    \* the one gate file the contract names; parked, debt and tasks
  doc,              \* the state document's frontmatter
  progress,         \* the story's row of the progress table
  pc, count,        \* the driver: what it does next, and the attempt or cycle it is at
  spent,            \* one per session; what is beyond the ceiling is not told apart
  contract,         \* the gate verifier's contract in the run's policy
  crashes,
  left, strays,     \* the stories whose session outlived a driver, and its edits
  \* history, for the properties:
  unreviewed,       \* the edits no review of their story has followed
  warned,           \* the stories whose last reconciliation failed
  returned,         \* the stories the status check sent back to review
  waived            \* the stories let go without the commit, since the last commit
outside == <<sprint, file, dirty, committed, fileList, gate, records, contract, left, strays>>
past == <<unreviewed, warned, returned, waived>>
vars == <<outside, doc, progress, pc, count, spent, crashes, past>>

TypeOK ==
  /\ sprint \in [Stories -> {"ready-for-dev", "done"}]
  /\ file \in [Stories -> {"none", "review", "done", "Done"}]
  /\ dirty \subseteq Stories \X (1..MaxEdits)
  /\ committed \subseteq Stories \X (1..MaxEdits)
  /\ fileList \in [Stories -> SUBSET (Stories \X (1..MaxEdits))]
  /\ doc.currentStory \in Stories \cup {"none"} /\ doc.currentStep \in Steps
  /\ doc.status \in {"IN_PROGRESS", "EXECUTION_COMPLETE"}
  /\ progress \in [Stories -> Progress]
  /\ pc \in {"start", "create", "verify-create", "dev", "parse-dev", "auto", "parse-auto",
             "preflight", "review", "verify-review", "reconcile", "commit", "commit-failed",
             "committed", "verify-done", "complete", "epic", "finish", "escalated", "stopped",
             "dead", "finished"}
  /\ count \in 1..(MaxAttempts + MaxAuto + MaxCycles + 1)
  /\ spent \in 0..Ceiling.limit
  /\ left \cup warned \cup returned \cup waived \subseteq Stories
  /\ strays \cup unreviewed \subseteq dirty \cup committed
  /\ contract \in Contracts
  /\ crashes \in 0..MaxCrashes

Init ==
  /\ sprint = [s \in Stories |-> "ready-for-dev"]
  /\ file \in [Stories -> {"none", "review"}]
  /\ dirty = {} /\ committed = {}
  /\ fileList = [s \in Stories |-> {}]
  /\ gate = None
  /\ records = [parked |-> [s \in Stories |-> None], debt |-> [s \in Stories |-> None],
                tasks |-> [s \in Stories |-> [c \in {} |-> 0]]]
  /\ doc = [currentStory |-> "none", currentStep |-> "step-03-execute", status |-> "IN_PROGRESS"]
  /\ progress = [s \in Stories |-> "none"]
  /\ pc = "start" /\ count = 1
  /\ spent = 0 /\ crashes = 0
  /\ left = {} /\ strays = {}
  /\ unreviewed = {} /\ warned = {} /\ returned = {} /\ waived = {}
  /\ contract \in Contracts

cur == doc.currentStory
Position(s) == IF s = "none" THEN 0 ELSE CHOOSE i \in DOMAIN StoryRange : StoryRange[i] = s
Goto(next) == pc' = next /\ count' = 1
Update(sets) == doc' = StateUpdate(doc, sets, TRUE).doc
Mark(s, row) == progress' = [progress EXCEPT ![s] = row]

(* ---- the ceiling, the agents ---- *)

Ledger == [i \in 1..spent |-> [at |-> 0, cost |-> 1]]
Allowed(name) == Proceeds(CeilingCheck(<<Ceiling>>, name, Ledger, 0, TRUE), FALSE)

\* The steps record no cost themselves: a session's may be recorded or not.
Spend == spent' \in {spent, IF spent < Ceiling.limit THEN spent + 1 ELSE spent}
Edit(s) == <<s, Cardinality(dirty \cup committed) + 1>>
NewEdit(s) ==
  /\ Cardinality(dirty \cup committed) < MaxEdits
  /\ dirty' = dirty \cup {Edit(s)} /\ unreviewed' = unreviewed \cup {Edit(s)}
\* The row, the Status and the File List, which may name anything.
Writes(s) ==
  /\ \E row \in {"ready-for-dev", "done"} : sprint' = [sprint EXCEPT ![s] = row]
  /\ \E word \in Words \cup {file[s]} : file' = [file EXCEPT ![s] = word]
  /\ \E n \in ListSizes : fileList' = [fileList EXCEPT ![s] = {s} \X (1..n)]
\* A session works on the current story.
Session ==
  /\ Spend
  /\ UNCHANGED <<dirty, unreviewed>> \/ NewEdit(cur)
  /\ UNCHANGED <<committed, records, contract, left, strays, doc, progress, crashes,
                 warned, returned, waived>>
Works == Session /\ Writes(cur)

(* ---- A, B and C: create, develop, automate ---- *)

\* Mutant: the step of the last story stays in the document.
StartStoryKeepsStep ==
  /\ pc = "start"
  /\ IF Position(cur) = Len(StoryRange)
     THEN Goto("finish") /\ UNCHANGED doc
     ELSE /\ Update([currentStory |-> StoryRange[Position(cur) + 1]])
          /\ Goto(IF Allowed("story_start") THEN "create" ELSE "stopped")
  /\ UNCHANGED <<outside, progress, spent, crashes, past>>
\* The next story of the range, unless a ceiling stops the run.
StartStory ==
  /\ pc = "start"
  /\ IF Position(cur) = Len(StoryRange)
     THEN Goto("finish") /\ UNCHANGED doc
     ELSE /\ Update([currentStory |-> StoryRange[Position(cur) + 1],
                  currentStep |-> "step-03-execute"])
          /\ Goto(IF Allowed("story_start") THEN "create" ELSE "stopped")
  /\ UNCHANGED <<outside, progress, spent, crashes, past>>

SkipCreate ==
  /\ pc = "create" /\ file[cur] # "none"
  /\ Goto("dev") /\ UNCHANGED <<outside, doc, progress, spent, crashes, past>>
CreateSession ==
  /\ pc = "create" /\ file[cur] = "none"
  /\ Session /\ UNCHANGED <<sprint, fileList, gate>>
  /\ \E word \in {"none", "review"} : file' = [file EXCEPT ![cur] = word]
  /\ pc' = "verify-create" /\ UNCHANGED count
VerifyCreate ==
  /\ pc = "verify-create"
  /\ IF CreateVerified(IF file[cur] = "none" THEN 0 ELSE 1, 1)
     THEN Goto("dev") /\ Mark(cur, "create")
     ELSE /\ IF count < MaxAttempts THEN pc' = "create" /\ count' = count + 1
                                    ELSE Goto("escalated")
          /\ UNCHANGED progress
  /\ UNCHANGED <<outside, doc, spent, crashes, past>>

DevSession ==
  /\ pc = "dev" /\ Works /\ UNCHANGED gate
  /\ pc' = "parse-dev" /\ UNCHANGED count
\* The parser of the session's log says proceed or retry; a plateau defers the story.
DevProceeds ==
  /\ pc = "parse-dev"
  /\ Goto("auto") /\ Mark(cur, "dev")
  /\ Update([currentStep |-> "step-03a-execute-review"])
  /\ UNCHANGED <<outside, spent, crashes, past>>
DevRetries ==
  /\ pc = "parse-dev"
  /\ IF count < MaxAttempts THEN pc' = "dev" /\ count' = count + 1 ELSE Goto("escalated")
  /\ UNCHANGED <<outside, doc, progress, spent, crashes, past>>
DevDefers ==
  /\ pc = "parse-dev" /\ count >= Plateau
  /\ Goto("start") /\ UNCHANGED <<outside, doc, progress, spent, crashes, past>>

AutoSession ==
  /\ pc = "auto" /\ Works /\ UNCHANGED gate
  /\ pc' = "parse-auto" /\ UNCHANGED count
\* A failure of the guardrails is retried while the ceiling allows it, then passed over.
AutoEnds ==
  /\ pc = "parse-auto"
  /\ \/ Goto("preflight") /\ Mark(cur, "auto")
     \/ /\ IF count < MaxAuto /\ Allowed("retry_start")
           THEN pc' = "auto" /\ count' = count + 1 ELSE Goto("preflight")
        /\ UNCHANGED progress
  /\ UNCHANGED <<outside, doc, spent, crashes, past>>

(* ---- D: review ---- *)

\* The three compliance layers halt the run before the first review, by a block or
\* an error, or let it pass (with a notice, for warn).
Preflight ==
  /\ pc = "preflight"
  /\ \E answer \in Answers : Goto(IF answer \in {"block", "error"} THEN "stopped" ELSE "review")
  /\ UNCHANGED <<outside, doc, progress, spent, crashes, past>>

\* A production gate run by hand meanwhile leaves its file: the contract names one
\* gate file for all the stories of the run.
ReviewSession ==
  /\ pc = "review" /\ Works
  /\ gate' \in {gate} \cup (IF contract = None THEN {} ELSE GateFiles)
  /\ pc' = "verify-review" /\ UNCHANGED count
\* The session's verifier, then the row; a failed cycle is repeated, with the
\* tasks of the failed gate in the story's file.
VerifyReview ==
  /\ pc = "verify-review"
  /\ LET answer == IF contract = None THEN ReviewCompletion(sprint[cur], file[cur])
                   ELSE ProductionReadyGate(records, gate, cur, contract, TRUE)
     IN  /\ records' = IF contract = None THEN records ELSE answer.records
         /\ IF answer.verified \/ SprintDone(sprint[cur])
            THEN /\ Goto("reconcile") /\ Mark(cur, "review")
                 /\ Update([currentStep |-> "step-03b-execute-finish"])
                 /\ unreviewed' = {edit \in unreviewed : edit[1] # cur}
            ELSE /\ IF Escalates("review-loop", count, MaxCycles, TRUE)
                    THEN Goto("escalated") ELSE pc' = "review" /\ count' = count + 1
                 /\ UNCHANGED <<progress, doc, unreviewed>>
  /\ UNCHANGED <<sprint, file, dirty, committed, fileList, gate, contract, left, strays,
                 spent, crashes, warned, returned, waived>>

(* ---- E to H: reconcile, commit, verify, retrospective ---- *)

\* A reconciliation that fails is logged, and the story committed with the list
\* its file has.
ReconcileStory ==
  /\ pc = "reconcile" /\ Goto("commit")
  /\ \/ /\ fileList' = [fileList EXCEPT ![cur] = ReconcileSection(@, dirty).fileList]
        /\ warned' = warned \ {cur}
     \/ warned' = warned \cup {cur} /\ UNCHANGED fileList
  /\ UNCHANGED <<sprint, file, dirty, committed, gate, records, contract, left, strays,
                 doc, progress, spent, crashes, unreviewed, returned, waived>>
\* commit-story adds the whole tree.  It fails when git does or when nothing has
\* changed; the story's file and the state document, which were just written, are a
\* change where git does not ignore them, so that a commit need hold no edit.
Commits == /\ Goto("committed") /\ waived' = {}
           /\ committed' = committed \cup dirty /\ dirty' = {}
\* Mutant: a commit that fails is tried again from the reconciliation.
CommitStoryInsists ==
  /\ pc = "commit"
  /\ Commits \/ (Goto("reconcile") /\ UNCHANGED <<dirty, committed, waived>>)
  /\ UNCHANGED <<sprint, file, fileList, gate, records, contract, left, strays, doc, progress,
                 spent, crashes, unreviewed, warned, returned>>
CommitStory ==
  /\ pc = "commit"
  /\ Commits \/ (Goto("commit-failed") /\ UNCHANGED <<dirty, committed, waived>>)
  /\ UNCHANGED <<sprint, file, fileList, gate, records, contract, left, strays, doc, progress,
                 spent, crashes, unreviewed, warned, returned>>
MarkCommit ==
  /\ pc = "committed" /\ Mark(cur, "commit") /\ Goto("verify-done")
  /\ UNCHANGED <<outside, doc, spent, crashes, past>>
\* Mutant: the review's answer is taken for the story's status.
VerifyDoneTrusts ==
  /\ pc = "verify-done" /\ Goto("complete")
  /\ UNCHANGED <<outside, doc, progress, spent, crashes, past>>
\* Back to the first cycle of review, without asking how often it was there.
VerifyDone ==
  /\ pc = "verify-done"
  /\ IF StoryIsDone(sprint[cur], file[cur])
     THEN Goto("complete") /\ UNCHANGED returned
     ELSE Goto("review") /\ returned' = returned \cup {cur}
  /\ UNCHANGED <<outside, doc, progress, spent, crashes, unreviewed, warned, waived>>
CompleteStory ==
  /\ pc = "complete" /\ Mark(cur, "done") /\ Goto("epic")
  /\ UNCHANGED <<outside, doc, spent, crashes, past>>
\* The retrospective, when the whole epic is done, never stops the run.
CheckEpic ==
  /\ pc = "epic"
  /\ IF EpicComplete(sprint, NoValue) THEN Spend ELSE UNCHANGED spent
  /\ Goto("start")
  /\ UNCHANGED <<outside, doc, progress, crashes, past>>
\* Mutant: the run is closed before its wrap-up.
FinishCloses ==
  /\ pc = "finish"
  /\ Update([status |-> "COMPLETE", currentStep |-> "step-04-wrapup"])
  /\ Goto("finished")
  /\ UNCHANGED <<outside, progress, spent, crashes, past>>
Finish ==
  /\ pc = "finish"
  /\ Update([status |-> "EXECUTION_COMPLETE", currentStep |-> "step-04-wrapup"])
  /\ Goto("finished")
  /\ UNCHANGED <<outside, progress, spent, crashes, past>>

\* The operator skips the story the driver gave up on; or has the commit that
\* failed tried again, or goes on without it.
SkipStory ==
  /\ pc \in {"escalated", "commit-failed"} /\ Goto("start")
  /\ UNCHANGED <<outside, doc, progress, spent, crashes, past>>
RetryCommit ==
  /\ pc = "commit-failed" /\ Goto("commit")
  /\ UNCHANGED <<outside, doc, progress, spent, crashes, past>>
SkipCommit ==
  /\ pc = "commit-failed" /\ Goto("verify-done")
  /\ waived' = waived \cup {cur}
  /\ UNCHANGED <<outside, doc, progress, spent, crashes, unreviewed, warned, returned>>

(* ---- the driver dies, and is resumed ---- *)

\* A session is a detached tmux session: one that is running outlives the driver.
Crash ==
  /\ pc \notin {"dead", "stopped", "finished"} /\ crashes < MaxCrashes
  /\ crashes' = crashes + 1 /\ Goto("dead")
  /\ \/ UNCHANGED left
     \/ pc \in {"create", "dev", "auto", "review"} /\ left' = left \cup {cur}
  /\ UNCHANGED <<sprint, file, dirty, committed, fileList, gate, records, contract, strays,
                 doc, progress, spent, past>>
\* The resume counts such sessions and ends none: it works beside the driver for as
\* long as it likes.
LeftSession ==
  \E s \in left :
    /\ Writes(s)
    /\ \/ UNCHANGED <<dirty, unreviewed, strays>>
       \/ NewEdit(s) /\ strays' = strays \cup {Edit(s)}
    /\ UNCHANGED <<committed, gate, records, contract, left, doc, progress, pc, count, spent,
                   crashes, warned, returned, waived>>
\* step-01b: by the document's status and step, at the step's first section.
Resume ==
  /\ pc = "dead"
  /\ Goto(CASE doc.status = "EXECUTION_COMPLETE" -> "finished"
            [] doc.status # "EXECUTION_COMPLETE" /\ cur = "none" -> "start"
            [] doc.status # "EXECUTION_COMPLETE" /\ cur # "none" ->
                 CASE doc.currentStep = "step-03-execute" -> "create"
                   [] doc.currentStep = "step-03a-execute-review" -> "auto"
                   [] doc.currentStep = "step-03b-execute-finish" -> "reconcile")
  /\ UNCHANGED <<outside, doc, progress, spent, crashes, past>>

Driver == \/ StartStory \/ SkipCreate \/ VerifyCreate \/ DevProceeds \/ DevRetries \/ DevDefers
          \/ AutoEnds \/ Preflight \/ VerifyReview \/ ReconcileStory \/ CommitStory \/ MarkCommit
          \/ VerifyDone \/ CompleteStory \/ CheckEpic \/ Finish \/ Resume
          \/ CreateSession \/ DevSession \/ AutoSession \/ ReviewSession
Operator == SkipStory \/ RetryCommit \/ SkipCommit
Next == Driver \/ Operator \/ Crash \/ LeftSession
        \/ (pc \in {"stopped", "finished"} /\ UNCHANGED vars)
\* Sessions end (the monitor's timeouts) and a driver that died is resumed; an
\* operator may leave an escalation unanswered, and a session that was left may idle.
Spec == Init /\ [][Next]_vars /\ WF_vars(Driver)

(* ---- properties ---- *)

\* An edit no review has followed gets into a commit in three ways only: a session
\* that outlived its driver made it; its story had been sent back from the status
\* check, with the state document already at the last step; or its story was given
\* up before, and git add -A takes its edits along with another story's.  Through
\* every other resume the step in the state document, which decides where a resumed
\* run goes on, is never ahead of the work (step-01b-continue.md).
CommitsAreReviewed ==
  [][\A edit \in committed' \ committed : edit \in unreviewed =>
       \/ edit \in strays
       \/ edit[1] \in returned
       \/ edit[1] # cur /\ progress[edit[1]] # "done"]_vars

\* A story the progress table calls done is done in the sprint or in its file; none
\* of its edits is left out of the commits, unless the operator let it go without
\* one; and neither is one of its own that its file lists, unless that list could
\* not be reconciled: whatever was skipped, retried or resumed on the way.  A session
\* left behind may undo all of it.
CompletedIsCommitted ==
  \A s \in Stories : progress[s] = "done" /\ s \notin left =>
    /\ StoryIsDone(sprint[s], file[s])
    /\ s \in waived \/ \A edit \in dirty : edit[1] # s
    /\ s \in waived \cup warned \/ \A edit \in fileList[s] : edit[1] = s => edit \in committed

\* The run ends, is stopped by the ceiling, or waits for the operator, unless the
\* status check sends it back: that one loop, from the last step to review, nothing
\* bounds; every other one does end.
StoriesSettle ==
  []<>(\/ pc \in {"finished", "stopped", "escalated", "commit-failed"}
       \/ pc = "verify-done" /\ ~StoryIsDone(sprint[cur], file[cur]))
=============================================================================
