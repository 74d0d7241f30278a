-------------------------- MODULE StoryLoop_proofs --------------------------
(***************************************************************************)
(* Proofs about StoryLoop, for any range of stories, any limits and any     *)
(* number of crashes and resumes; and about the rules the loop rests on,     *)
(* for inputs of any size.                                                  *)
(***************************************************************************)
EXTENDS StoryLoop, FiniteSetTheorems, WellFoundedInduction, TLAPS

(* ---- the inductive invariant of the types ---- *)

\* From a story's first step to its last there is a story.
Working == {"create", "verify-create", "dev", "parse-dev", "auto", "parse-auto", "preflight",
            "review", "verify-review", "reconcile", "commit", "commit-failed", "committed",
            "verify-done", "complete", "epic", "escalated"}

Docs == [currentStory : Stories \cup {"none"}, currentStep : Steps,
         status : {"IN_PROGRESS", "EXECUTION_COMPLETE"}]

DocFits ==
  /\ doc \in Docs
  /\ pc \in Working => cur \in Stories
  /\ doc.currentStep = "step-04-wrapup" => doc.status = "EXECUTION_COMPLETE"

TInv == TypeOK /\ DocFits /\ IsFiniteSet(dirty \cup committed)

\* What state-update does with the keys the driver sets.
LEMMA UpdateStory ==
  ASSUME doc \in Docs, NEW s, NEW step, Update([currentStory |-> s, currentStep |-> step])
  PROVE  doc' = [currentStory |-> s, currentStep |-> step, status |-> doc.status]
BY DEF Docs, Update, StateUpdate

LEMMA UpdateStep ==
  ASSUME doc \in Docs, NEW step, Update([currentStep |-> step])
  PROVE  doc' = [currentStory |-> cur, currentStep |-> step, status |-> doc.status]
BY DEF Docs, Update, StateUpdate, cur

LEMMA UpdateStatus ==
  ASSUME doc \in Docs, NEW status, NEW step, Update([status |-> status, currentStep |-> step])
  PROVE  doc' = [currentStory |-> cur, currentStep |-> step, status |-> status]
BY DEF Docs, Update, StateUpdate, cur

LEMMA NextStory ==
  ASSUME cur \in Stories \cup {"none"}
  PROVE  /\ Position(cur) \in 0..Len(StoryRange)
         /\ cur \in Stories => Position(cur) \in DOMAIN StoryRange /\ StoryRange[Position(cur)] = cur
         /\ Position(cur) # Len(StoryRange) => StoryRange[Position(cur) + 1] \in Stories
<1>1. DOMAIN StoryRange = 1..Len(StoryRange) /\ Len(StoryRange) \in Nat
  BY StoriesAssumption
<1>2. cur \in Stories => Position(cur) \in DOMAIN StoryRange /\ StoryRange[Position(cur)] = cur
  BY StoriesAssumption DEF Position, Stories
<1>3. cur = "none" => Position(cur) = 0
  BY DEF Position
<1> QED BY <1>1, <1>2, <1>3 DEF Stories

LEMMA InitTyped == Init => TInv
<1> SUFFICES ASSUME Init PROVE TInv
  OBVIOUS
<1>1. TypeOK
  BY LimitsAssumption DEF Init, TypeOK, Steps, Progress
<1>2. DocFits
  BY DEF Init, DocFits, Docs, Working, Steps, cur
<1>3. IsFiniteSet(dirty \cup committed)
  BY FS_EmptySet DEF Init
<1> QED BY <1>1, <1>2, <1>3 DEF TInv

\* A new edit, in the types.
LEMMA NewEditTyped ==
  ASSUME TInv, NEW s \in Stories, NewEdit(s), committed' = committed
  PROVE  /\ dirty' \subseteq Stories \X (1..MaxEdits)
         /\ unreviewed' \subseteq dirty' \cup committed'
         /\ Edit(s)[1] = s /\ Edit(s) \in dirty'
         /\ IsFiniteSet((dirty \cup committed)')
<1> DEFINE n == Cardinality(dirty \cup committed)
<1>1. n \in Nat
  BY FS_CardinalityType DEF TInv
<1>2. Edit(s) \in Stories \X (1..MaxEdits) /\ Edit(s)[1] = s
  <2>1. n < MaxEdits /\ MaxEdits \in Nat
    BY LimitsAssumption DEF NewEdit
  <2>2. n + 1 \in 1..MaxEdits
    BY <1>1, <2>1
  <2>3. Edit(s) = <<s, n + 1>>
    BY DEF Edit
  <2> QED BY <2>2, <2>3
<1>3. IsFiniteSet((dirty \cup committed) \cup {Edit(s)})
  BY FS_AddElement DEF TInv
<1>4. (dirty \cup committed)' = (dirty \cup committed) \cup {Edit(s)}
  BY DEF NewEdit
<1> QED BY <1>2, <1>3, <1>4 DEF NewEdit, TInv, TypeOK

LEMMA WritesTyped ==
  ASSUME TInv, NEW s \in Stories, Writes(s)
  PROVE  /\ sprint' \in [Stories -> {"ready-for-dev", "done"}]
         /\ file' \in [Stories -> {"none", "review", "done", "Done"}]
         /\ fileList' \in [Stories -> SUBSET (Stories \X (1..MaxEdits))]
<1>1. sprint' \in [Stories -> {"ready-for-dev", "done"}]
  BY DEF TInv, TypeOK, Writes
<1>2. file' \in [Stories -> {"none", "review", "done", "Done"}]
  BY LimitsAssumption DEF TInv, TypeOK, Writes
<1>3. \A n \in ListSizes : {s} \X (1..n) \subseteq Stories \X (1..MaxEdits)
  BY LimitsAssumption
<1>4. fileList' \in [Stories -> SUBSET (Stories \X (1..MaxEdits))]
  BY <1>3 DEF TInv, TypeOK, Writes
<1> QED BY <1>1, <1>2, <1>4

\* What a session leaves of the types, besides the row, the file and the driver's
\* next step.
LEMMA SessionTyped ==
  ASSUME TInv, cur \in Stories, Session
  PROVE  /\ spent' \in 0..Ceiling.limit /\ unreviewed' \cup strays \subseteq dirty' \cup committed
         /\ dirty' \subseteq Stories \X (1..MaxEdits)
         /\ IsFiniteSet((dirty \cup committed)')
         /\ UNCHANGED <<committed, contract, doc, progress, crashes, left, strays, warned, returned, waived>>
<1>0. UNCHANGED <<committed, contract, doc, progress, crashes, left, strays, warned, returned, waived>>
  BY DEF Session
<1>1. spent' \in 0..Ceiling.limit
  BY LimitsAssumption DEF TInv, TypeOK, Session, Spend
<1>2. CASE UNCHANGED <<dirty, unreviewed>>
  BY <1>0, <1>1, <1>2 DEF TInv, TypeOK
<1>3. CASE NewEdit(cur)
  <2>1. strays \subseteq dirty' \cup committed
    BY <1>3 DEF NewEdit, TInv, TypeOK
  <2> QED BY <1>0, <1>1, <1>3, <2>1, NewEditTyped
<1> QED BY <1>2, <1>3 DEF Session

LEMMA StepTyped == TInv /\ [Next]_vars => TInv'
<1> SUFFICES ASSUME TInv, [Next]_vars PROVE TInv'
  OBVIOUS
<1> USE DEF Working, Steps, Progress
<1>1. CASE UNCHANGED vars
  BY <1>1 DEF vars, outside, past, TInv, TypeOK, DocFits, Docs, cur
<1>2. CASE StartStory
  <2>1. CASE Position(cur) = Len(StoryRange)
    <3>1. pc' = "finish" /\ count' = 1 /\ doc' = doc
      BY <1>2, <2>1 DEF StartStory, Goto
    <3> QED BY <1>2, <3>1, LimitsAssumption DEF StartStory, outside, past, TInv, TypeOK, DocFits, cur
  <2>2. CASE Position(cur) # Len(StoryRange)
    <3> DEFINE s == StoryRange[Position(cur) + 1]
    <3>1. s \in Stories
      BY <2>2, NextStory DEF TInv, DocFits, Docs, cur
    <3>2. doc' = [currentStory |-> s, currentStep |-> "step-03-execute", status |-> doc.status]
      BY <1>2, <2>2, UpdateStory DEF StartStory, TInv, DocFits
    <3>3. pc' \in {"create", "stopped"} /\ count' = 1
      BY <1>2, <2>2 DEF StartStory, Goto
    <3> QED BY <1>2, <3>1, <3>2, <3>3, LimitsAssumption
            DEF StartStory, outside, past, TInv, TypeOK, DocFits, Docs, cur
  <2> QED BY <2>1, <2>2
<1>3. CASE SkipCreate
  BY <1>3, LimitsAssumption DEF SkipCreate, Goto, outside, past, TInv, TypeOK, DocFits, cur
<1>4. CASE CreateSession
  <2>1. cur \in Stories /\ Session /\ pc' = "verify-create" /\ count' = count
        /\ sprint' = sprint /\ fileList' = fileList
    BY <1>4 DEF CreateSession, TInv, DocFits
  <2>2. file' \in [Stories -> {"none", "review", "done", "Done"}]
    BY <1>4 DEF CreateSession, TInv, TypeOK
  <2> QED BY <2>1, <2>2, SessionTyped DEF TInv, TypeOK, DocFits, cur
<1>5. CASE VerifyCreate
  BY <1>5, LimitsAssumption DEF VerifyCreate, Goto, Mark, outside, past, TInv, TypeOK, DocFits, cur
<1>6. CASE DevSession
  <2>1. cur \in Stories /\ Session /\ Writes(cur) /\ pc' = "parse-dev" /\ count' = count
    BY <1>6 DEF DevSession, Works, TInv, DocFits
  <2> QED BY <2>1, SessionTyped, WritesTyped DEF TInv, TypeOK, DocFits, cur
<1>7. CASE DevProceeds
  <2>1. doc' = [currentStory |-> cur, currentStep |-> "step-03a-execute-review", status |-> doc.status]
    BY <1>7, UpdateStep DEF DevProceeds, TInv, DocFits
  <2> QED BY <1>7, <2>1, LimitsAssumption
          DEF DevProceeds, Goto, Mark, outside, past, TInv, TypeOK, DocFits, Docs, cur
<1>8. CASE DevRetries
  BY <1>8, LimitsAssumption DEF DevRetries, Goto, outside, past, TInv, TypeOK, DocFits, cur
<1>9. CASE DevDefers
  BY <1>9, LimitsAssumption DEF DevDefers, Goto, outside, past, TInv, TypeOK, DocFits, cur
<1>10. CASE AutoSession
  <2>1. cur \in Stories /\ Session /\ Writes(cur) /\ pc' = "parse-auto" /\ count' = count
    BY <1>10 DEF AutoSession, Works, TInv, DocFits
  <2> QED BY <2>1, SessionTyped, WritesTyped DEF TInv, TypeOK, DocFits, cur
<1>11. CASE AutoEnds
  BY <1>11, LimitsAssumption DEF AutoEnds, Goto, Mark, outside, past, TInv, TypeOK, DocFits, cur
<1>12. CASE Preflight
  BY <1>12, LimitsAssumption DEF Preflight, Goto, outside, past, TInv, TypeOK, DocFits, cur
<1>13. CASE ReviewSession
  <2>1. cur \in Stories /\ Session /\ Writes(cur) /\ pc' = "verify-review" /\ count' = count
    BY <1>13 DEF ReviewSession, Works, TInv, DocFits
  <2> QED BY <2>1, SessionTyped, WritesTyped DEF TInv, TypeOK, DocFits, cur
<1>14. CASE VerifyReview
  <2>1. \/ /\ pc' = "reconcile" /\ count' = 1
           /\ progress' = [progress EXCEPT ![cur] = "review"]
           /\ doc' = [currentStory |-> cur, currentStep |-> "step-03b-execute-finish", status |-> doc.status]
           /\ unreviewed' \subseteq unreviewed
        \/ /\ pc' = "escalated" /\ count' = 1
           /\ UNCHANGED <<progress, doc, unreviewed>>
        \/ /\ pc' = "review" /\ count' = count + 1 /\ count < MaxCycles
           /\ UNCHANGED <<progress, doc, unreviewed>>
    <3>1. count \in Nat /\ MaxCycles \in Nat /\ doc \in Docs
      BY LimitsAssumption DEF TInv, TypeOK, DocFits
    <3>2. ~Escalates("review-loop", count, MaxCycles, TRUE) => count < MaxCycles
      BY <3>1 DEF Escalates
    <3>3. {edit \in unreviewed : edit[1] # cur} \subseteq unreviewed
      OBVIOUS
    <3> QED BY <1>14, <3>1, <3>2, <3>3, UpdateStep DEF VerifyReview, Goto, Mark
  <2> QED BY <1>14, <2>1, LimitsAssumption DEF VerifyReview, TInv, TypeOK, DocFits, Docs, cur
<1>15. CASE ReconcileStory
  <2>1. fileList' = [fileList EXCEPT ![cur] = dirty] \/ fileList' = fileList
    BY <1>15 DEF ReconcileStory, ReconcileSection
  <2>2. cur \in Stories /\ pc' = "commit" /\ count' = 1 /\ warned' \subseteq warned \cup {cur}
    BY <1>15 DEF ReconcileStory, Goto, TInv, DocFits
  <2> QED BY <1>15, <2>1, <2>2, LimitsAssumption DEF ReconcileStory, TInv, TypeOK, DocFits, cur
<1>16. CASE CommitStory
  <2>1. (dirty \cup committed)' = dirty \cup committed
    BY <1>16 DEF CommitStory, Commits
  <2>2. /\ pc' \in {"commit-failed", "committed"} /\ count' = 1 /\ waived' \subseteq waived
        /\ UNCHANGED <<sprint, file, fileList, contract, left, strays, doc, progress, spent, crashes,
                       unreviewed, warned, returned>>
    BY <1>16 DEF CommitStory, Commits, Goto
  <2>3. cur \in Stories
    BY <1>16 DEF CommitStory, TInv, DocFits
  <2>4. committed' \subseteq Stories \X (1..MaxEdits) /\ dirty' \subseteq Stories \X (1..MaxEdits)
    BY <2>1 DEF TInv, TypeOK
  <2>5. TypeOK'
    BY <2>1, <2>2, <2>4, LimitsAssumption DEF TInv, TypeOK
  <2>6. DocFits'
    BY <2>2, <2>3 DEF TInv, DocFits, cur
  <2> QED BY <2>1, <2>5, <2>6 DEF TInv
<1>17. CASE MarkCommit
  BY <1>17, LimitsAssumption DEF MarkCommit, Goto, Mark, outside, past, TInv, TypeOK, DocFits, cur
<1>18. CASE VerifyDone
  BY <1>18, LimitsAssumption DEF VerifyDone, Goto, outside, past, TInv, TypeOK, DocFits, cur
<1>19. CASE CompleteStory
  BY <1>19, LimitsAssumption DEF CompleteStory, Goto, Mark, outside, past, TInv, TypeOK, DocFits, cur
<1>20. CASE CheckEpic
  <2>1. spent' \in 0..Ceiling.limit
    BY <1>20, LimitsAssumption DEF CheckEpic, Spend, TInv, TypeOK
  <2> QED BY <1>20, <2>1, LimitsAssumption DEF CheckEpic, Goto, outside, past, TInv, TypeOK, DocFits, cur
<1>21. CASE Finish
  <2>1. doc' = [currentStory |-> cur, currentStep |-> "step-04-wrapup", status |-> "EXECUTION_COMPLETE"]
    BY <1>21, UpdateStatus DEF Finish, TInv, DocFits
  <2> QED BY <1>21, <2>1, LimitsAssumption DEF Finish, Goto, outside, past, TInv, TypeOK, DocFits, Docs, cur
<1>22. CASE SkipStory
  BY <1>22, LimitsAssumption DEF SkipStory, Goto, outside, past, TInv, TypeOK, DocFits, cur
<1>23. CASE RetryCommit
  BY <1>23, LimitsAssumption DEF RetryCommit, Goto, outside, past, TInv, TypeOK, DocFits, cur
<1>24. CASE SkipCommit
  BY <1>24, LimitsAssumption DEF SkipCommit, Goto, outside, past, TInv, TypeOK, DocFits, cur
<1>25. CASE Crash
  <2>1. left' \subseteq Stories
    <3>1. pc \in {"create", "dev", "auto", "review"} => cur \in Stories
      BY DEF TInv, DocFits
    <3> QED BY <1>25, <3>1 DEF Crash, TInv, TypeOK
  <2> QED BY <1>25, <2>1, LimitsAssumption DEF Crash, Goto, past, TInv, TypeOK, DocFits, cur
<1>26. CASE Resume
  <2>1. pc' \in {"finished", "start"} \/ (pc' \in {"create", "auto", "reconcile"} /\ cur \in Stories)
    BY <1>26 DEF Resume, Goto, TInv, DocFits, Docs, cur
  <2> QED BY <1>26, <2>1, LimitsAssumption DEF Resume, Goto, outside, past, TInv, TypeOK, DocFits, cur
<1>27. CASE LeftSession
  <2>1. PICK s \in left :
          /\ Writes(s)
          /\ \/ UNCHANGED <<dirty, unreviewed, strays>>
             \/ NewEdit(s) /\ strays' = strays \cup {Edit(s)}
          /\ UNCHANGED <<committed, gate, records, contract, left, doc, progress, pc, count, spent,
                         crashes, warned, returned, waived>>
    BY <1>27 DEF LeftSession
  <2>2. s \in Stories
    BY DEF TInv, TypeOK
  <2>3. /\ dirty' \subseteq Stories \X (1..MaxEdits) /\ IsFiniteSet((dirty \cup committed)')
        /\ strays' \cup unreviewed' \subseteq dirty' \cup committed'
    <3>1. CASE UNCHANGED <<dirty, unreviewed, strays>>
      BY <2>1, <3>1 DEF TInv, TypeOK
    <3>2. CASE NewEdit(s) /\ strays' = strays \cup {Edit(s)}
      BY <2>1, <2>2, <3>2, NewEditTyped DEF NewEdit, TInv, TypeOK
    <3> QED BY <2>1, <3>1, <3>2
  <2> QED BY <2>1, <2>2, <2>3, WritesTyped DEF TInv, TypeOK, DocFits, cur
<1> QED
  BY <1>1, <1>2, <1>3, <1>4, <1>5, <1>6, <1>7, <1>8, <1>9, <1>10, <1>11, <1>12, <1>13, <1>14,
     <1>15, <1>16, <1>17, <1>18, <1>19, <1>20, <1>21, <1>22, <1>23, <1>24, <1>25, <1>26, <1>27
     DEF Next, Driver, Operator

\* Every variable keeps its type, whatever the limits (run story_loop, for all
\* values of its constants).
THEOREM TypeCorrect == Spec => []TypeOK
<1>1. TInv => TypeOK
  BY DEF TInv
<1> QED BY <1>1, InitTyped, StepTyped, PTL DEF Spec

(* ---- what a commit holds was reviewed ---- *)

\* No story is named twice in the range.
DistinctStories == \A i, j \in DOMAIN StoryRange : StoryRange[i] = StoryRange[j] => i = j

FinishStep == "step-03b-execute-finish"

\* The step in the state document fits the driver's place, so that a resume goes
\* back to a place the work has reached; from the last step only a story the status
\* check sent back is reviewed.
StepFits ==
  /\ pc \in {"create", "verify-create", "dev", "parse-dev"} => doc.currentStep = "step-03-execute"
  /\ pc \in {"auto", "parse-auto", "preflight"} => doc.currentStep = "step-03a-execute-review"
  /\ pc \in {"review", "verify-review"} =>
       doc.currentStep = "step-03a-execute-review" \/ (doc.currentStep = FinishStep /\ cur \in returned)
  /\ pc \in {"reconcile", "commit", "commit-failed", "committed", "verify-done", "complete", "epic"} =>
       doc.currentStep = FinishStep

\* A current story that is done is past its last step, and the stories ahead are not
\* done.
PlaceFits ==
  /\ cur \in Stories /\ progress[cur] = "done" => doc.currentStep \in {FinishStep, "step-04-wrapup"}
  /\ \A i \in DOMAIN StoryRange : i > Position(cur) => progress[StoryRange[i]] # "done"

\* Why an edit that waits for its commit may have had no review.
Excused(edit) ==
  \/ edit \in strays \/ edit[1] \in returned
  \/ progress[edit[1]] # "done" /\ (doc.currentStep = FinishStep => edit[1] # cur)
EditsFit == \A edit \in dirty \cap unreviewed : Excused(edit)

RInv == StepFits /\ PlaceFits /\ EditsFit

LEMMA InitReviewed == Init => RInv
BY DEF Init, RInv, StepFits, PlaceFits, EditsFit, Stories, cur

\* The current story is none of those ahead.
LEMMA NotAhead ==
  ASSUME DistinctStories, TInv, cur \in Stories
  PROVE  \A i \in DOMAIN StoryRange : i > Position(cur) => StoryRange[i] # cur
<1>1. Position(cur) \in DOMAIN StoryRange /\ StoryRange[Position(cur)] = cur
  BY NextStory
<1> QED BY <1>1, StoriesAssumption DEF DistinctStories

\* What the driver marks is the current story, so nothing ahead of it is marked; and
\* it marks it with another word than done, if it is not at its last step.
LEMMA PlaceStays ==
  ASSUME DistinctStories, TInv, PlaceFits, cur \in Stories \cup {"none"}, cur' = cur,
         NEW row \in Progress, progress' = progress \/ (cur \in Stories /\ Mark(cur, row)),
         \/ doc'.currentStep \in {FinishStep, "step-04-wrapup"}
         \/ doc'.currentStep = doc.currentStep /\ row # "done"
         \/ row # "done" /\ Mark(cur, row)
  PROVE  PlaceFits'
<1>1. Position(cur)' = Position(cur)
  BY DEF Position
<1>2. progress \in [Stories -> Progress]
  BY DEF TInv, TypeOK
<1>3. \A i \in DOMAIN StoryRange : i > Position(cur) => progress'[StoryRange[i]] = progress[StoryRange[i]]
  <2>1. CASE cur \in Stories /\ Mark(cur, row)
    BY <1>2, <2>1, NotAhead DEF Mark, Stories
  <2>2. CASE progress' = progress
    BY <2>2
  <2> QED BY <2>1, <2>2
<1>4. cur \in Stories /\ progress'[cur] = "done" => doc'.currentStep \in {FinishStep, "step-04-wrapup"}
  BY <1>2 DEF PlaceFits, Mark
<1> QED BY <1>1, <1>3, <1>4 DEF PlaceFits

\* The edits wait on when none is made, nothing is marked done and the driver does
\* not come to the last step.
LEMMA EditsStay ==
  ASSUME TInv, EditsFit, UNCHANGED <<dirty, strays>>, unreviewed' \subseteq unreviewed,
         returned \subseteq returned',
         NEW row \in Progress \ {"done"}, progress' = progress \/ Mark(cur, row),
         doc'.currentStep # FinishStep \/ (doc.currentStep = FinishStep /\ cur' = cur)
  PROVE  EditsFit'
<1>1. progress \in [Stories -> Progress]
  BY DEF TInv, TypeOK
<1>2. ASSUME NEW edit \in dirty' \cap unreviewed' PROVE Excused(edit)'
  <2>1. Excused(edit)
    BY <1>2 DEF EditsFit
  <2>2. progress[edit[1]] # "done" => progress'[edit[1]] # "done"
    <3>1. edit[1] \in Stories
      BY <1>2 DEF TInv, TypeOK
    <3> QED BY <1>1, <3>1 DEF Mark
  <2> QED BY <2>1, <2>2 DEF Excused
<1> QED BY <1>2 DEF EditsFit

\* A session in the last step reviews a story that was sent back.
LEMMA SessionReviewed ==
  ASSUME DistinctStories, TInv, RInv, cur \in Stories, Session,
         doc.currentStep \in {"step-03-execute", "step-03a-execute-review"} \/ cur \in returned
  PROVE  PlaceFits' /\ EditsFit' /\ cur' = cur /\ doc' = doc /\ returned' = returned
<1>1. UNCHANGED <<doc, progress, strays, returned, committed>> /\ cur' = cur
  BY DEF Session, cur
<1>2. PlaceFits'
  BY <1>1 DEF RInv, PlaceFits, Position
<1>3. CASE UNCHANGED <<dirty, unreviewed>>
  BY <1>1, <1>2, <1>3 DEF RInv, EditsFit, Excused
<1>4. CASE NewEdit(cur)
  <2>1. Edit(cur)[1] = cur
    BY <1>1, <1>4, NewEditTyped
  <2>2. cur \in returned \/ (progress[cur] # "done" /\ doc.currentStep # FinishStep)
    BY DEF RInv, PlaceFits, FinishStep
  <2>3. Excused(Edit(cur))
    BY <2>1, <2>2 DEF Excused
  <2>4. \A edit \in dirty' \cap unreviewed' : Excused(edit)
    BY <1>4, <2>3 DEF NewEdit, RInv, EditsFit, TInv, TypeOK
  <2>5. EditsFit'
    BY <1>1, <2>4 DEF EditsFit, Excused
  <2> QED BY <1>1, <1>2, <2>5
<1> QED BY <1>3, <1>4 DEF Session

LEMMA StepReviewed == DistinctStories /\ TInv /\ RInv /\ [Next]_vars => RInv'
<1> SUFFICES ASSUME DistinctStories, TInv, RInv, [Next]_vars PROVE RInv'
  OBVIOUS
<1> USE DEF Working, Steps, Progress, FinishStep
<1>0. /\ cur \in Stories \cup {"none"} /\ doc \in Docs /\ progress \in [Stories -> Progress]
      /\ StepFits /\ PlaceFits /\ EditsFit
  BY DEF TInv, TypeOK, DocFits, Docs, cur, RInv
<1>q. ASSUME UNCHANGED <<doc, progress, dirty, strays, unreviewed, returned>> PROVE PlaceFits' /\ EditsFit'
  BY <1>0, <1>q DEF PlaceFits, EditsFit, Excused, Position, cur
<1>m. ASSUME NEW row \in Progress \ {"done"}, progress' = progress \/ (cur \in Stories /\ Mark(cur, row)),
             UNCHANGED <<doc, dirty, strays, unreviewed, returned>>
      PROVE  PlaceFits' /\ EditsFit'
  <2>1. cur' = cur
    BY <1>m DEF cur
  <2>2. PlaceFits'
    BY <1>0, <1>m, <2>1, PlaceStays
  <2>3. EditsFit'
    BY <1>0, <1>m, <2>1, EditsStay
  <2> QED BY <2>2, <2>3
<1>1. CASE UNCHANGED vars
  BY <1>1, <1>0, <1>q DEF vars, outside, past, RInv, StepFits, cur
<1>2. CASE StartStory
  <2>1. CASE Position(cur) = Len(StoryRange)
    <3>1. pc' = "finish" /\ UNCHANGED <<doc, progress, dirty, strays, unreviewed, returned>>
      BY <1>2, <2>1 DEF StartStory, Goto, outside, past
    <3> QED BY <1>q, <3>1 DEF RInv, StepFits
  <2>2. CASE Position(cur) # Len(StoryRange)
    <3> DEFINE next == Position(cur) + 1
    <3>1. next \in DOMAIN StoryRange /\ StoryRange[next] \in Stories
      BY <1>0, <2>2, NextStory, StoriesAssumption
    <3>2. cur' = StoryRange[next] /\ doc'.currentStep = "step-03-execute" /\ pc' \in {"create", "stopped"}
      BY <1>0, <1>2, <2>2, UpdateStory DEF StartStory, Goto, cur
    <3>3. Position(cur)' = next
      <4>1. StoryRange[next] # "none"
        BY <3>1, StoriesAssumption
      <4>2. \A i \in DOMAIN StoryRange : StoryRange[i] = StoryRange[next] => i = next
        BY <3>1 DEF DistinctStories
      <4>3. (CHOOSE i \in DOMAIN StoryRange : StoryRange[i] = StoryRange[next]) = next
        BY <3>1, <4>2
      <4> QED BY <3>2, <4>1, <4>3 DEF Position
    <3>4. UNCHANGED <<progress, dirty, strays, unreviewed, returned>>
      BY <1>2 DEF StartStory, outside, past
    <3>5. Position(cur) \in Nat
      BY <1>0, NextStory
    <3>6. PlaceFits'
      BY <1>0, <3>1, <3>2, <3>3, <3>4, <3>5, StoriesAssumption DEF PlaceFits
    <3>7. EditsFit'
      BY <1>0, <3>2, <3>4 DEF EditsFit, Excused
    <3>8. StepFits'
      BY <3>2 DEF StepFits
    <3> QED BY <3>6, <3>7, <3>8 DEF RInv
  <2> QED BY <2>1, <2>2
<1>3. CASE SkipCreate
  <2>1. pc' = "dev" /\ UNCHANGED <<doc, progress, dirty, strays, unreviewed, returned>>
    BY <1>3 DEF SkipCreate, Goto, outside, past
  <2> QED BY <1>3, <1>0, <1>q, <2>1 DEF SkipCreate, RInv, StepFits, cur
<1>4. CASE CreateSession
  <2>1. cur \in Stories /\ Session /\ pc' = "verify-create" /\ doc.currentStep = "step-03-execute"
    BY <1>4, <1>0 DEF CreateSession, Works, TInv, DocFits, StepFits
  <2> QED BY <2>1, SessionReviewed DEF RInv, StepFits
<1>5. CASE VerifyCreate
  <2>1. /\ pc' \in {"create", "dev", "escalated"}
        /\ progress' = progress \/ (cur \in Stories /\ Mark(cur, "create"))
        /\ UNCHANGED <<doc, dirty, strays, unreviewed, returned>>
    BY <1>5 DEF VerifyCreate, Goto, outside, past, TInv, DocFits
  <2>2. PlaceFits' /\ EditsFit'
    BY <1>m, <2>1
  <2>3. StepFits'
    <3>1. cur' = cur /\ (pc = "verify-create" => doc.currentStep = "step-03-execute")
          /\ (pc = "parse-auto" => doc.currentStep = "step-03a-execute-review")
          /\ (pc = "committed" => doc.currentStep = FinishStep)
      BY <1>0, <2>1 DEF StepFits, cur
    <3>2. pc = "verify-create"
      BY <1>5 DEF VerifyCreate
    <3> QED BY <2>1, <3>1, <3>2 DEF StepFits
  <2> QED BY <2>2, <2>3 DEF RInv
<1>6. CASE DevSession
  <2>1. cur \in Stories /\ Session /\ pc' = "parse-dev" /\ doc.currentStep = "step-03-execute"
    BY <1>6, <1>0 DEF DevSession, Works, TInv, DocFits, StepFits
  <2> QED BY <2>1, SessionReviewed DEF RInv, StepFits
<1>7. CASE DevProceeds
  <2>1. /\ cur \in Stories /\ Mark(cur, "dev") /\ pc' = "auto"
        /\ UNCHANGED <<dirty, strays, unreviewed, returned>>
    BY <1>7 DEF DevProceeds, Goto, outside, past, TInv, DocFits
  <2>2. doc'.currentStep = "step-03a-execute-review" /\ cur' = cur
    BY <1>0, <1>7, UpdateStep DEF DevProceeds, cur
  <2>3. PlaceFits'
    BY <1>0, <2>1, <2>2, PlaceStays
  <2>4. EditsFit'
    BY <1>0, <2>1, <2>2, EditsStay
  <2> QED BY <2>1, <2>2, <2>3, <2>4 DEF RInv, StepFits
<1>8. CASE DevRetries
  <2>1. pc' \in {"dev", "escalated"} /\ UNCHANGED <<doc, progress, dirty, strays, unreviewed, returned>>
    BY <1>8 DEF DevRetries, Goto, outside, past
  <2> QED BY <1>8, <1>0, <1>q, <2>1 DEF DevRetries, RInv, StepFits, cur
<1>9. CASE DevDefers
  <2>1. pc' = "start" /\ UNCHANGED <<doc, progress, dirty, strays, unreviewed, returned>>
    BY <1>9 DEF DevDefers, Goto, outside, past
  <2> QED BY <1>9, <1>0, <1>q, <2>1 DEF DevDefers, RInv, StepFits, cur
<1>10. CASE AutoSession
  <2>1. cur \in Stories /\ Session /\ pc' = "parse-auto" /\ doc.currentStep = "step-03a-execute-review"
    BY <1>10, <1>0 DEF AutoSession, Works, TInv, DocFits, StepFits
  <2> QED BY <2>1, SessionReviewed DEF RInv, StepFits
<1>11. CASE AutoEnds
  <2>1. /\ pc' \in {"auto", "preflight"}
        /\ progress' = progress \/ (cur \in Stories /\ Mark(cur, "auto"))
        /\ UNCHANGED <<doc, dirty, strays, unreviewed, returned>>
    BY <1>11 DEF AutoEnds, Goto, outside, past, TInv, DocFits
  <2>2. PlaceFits' /\ EditsFit'
    BY <1>m, <2>1
  <2>3. StepFits'
    <3>1. cur' = cur /\ (pc = "verify-create" => doc.currentStep = "step-03-execute")
          /\ (pc = "parse-auto" => doc.currentStep = "step-03a-execute-review")
          /\ (pc = "committed" => doc.currentStep = FinishStep)
      BY <1>0, <2>1 DEF StepFits, cur
    <3>2. pc = "parse-auto"
      BY <1>11 DEF AutoEnds
    <3> QED BY <2>1, <3>1, <3>2 DEF StepFits
  <2> QED BY <2>2, <2>3 DEF RInv
<1>12. CASE Preflight
  <2>1. pc' \in {"stopped", "review"} /\ UNCHANGED <<doc, progress, dirty, strays, unreviewed, returned>>
    BY <1>12 DEF Preflight, Goto, outside, past
  <2> QED BY <1>12, <1>0, <1>q, <2>1 DEF Preflight, RInv, StepFits, cur
<1>13. CASE ReviewSession
  <2>1. /\ cur \in Stories /\ Session /\ pc' = "verify-review"
        /\ doc.currentStep = "step-03a-execute-review" \/ (doc.currentStep = FinishStep /\ cur \in returned)
    BY <1>13, <1>0 DEF ReviewSession, Works, TInv, DocFits, StepFits
  <2>2. PlaceFits' /\ EditsFit' /\ cur' = cur /\ doc' = doc /\ returned' = returned
    BY <2>1, SessionReviewed
  <2> QED BY <2>1, <2>2 DEF RInv, StepFits
<1>14. CASE VerifyReview
  <2>1. cur \in Stories /\ UNCHANGED <<dirty, strays, returned>>
    BY <1>14 DEF VerifyReview, TInv, DocFits
  <2>2. CASE /\ pc' = "reconcile" /\ Mark(cur, "review")
             /\ Update([currentStep |-> FinishStep]) /\ unreviewed' = {edit \in unreviewed : edit[1] # cur}
    <3>1. doc'.currentStep = FinishStep /\ cur' = cur
      BY <1>0, <2>2, UpdateStep DEF cur
    <3>2. PlaceFits'
      BY <1>0, <2>1, <2>2, <3>1, PlaceStays
    <3>3. ASSUME NEW edit \in dirty' \cap unreviewed' PROVE Excused(edit)'
      <4>1. Excused(edit) /\ edit[1] # cur
        BY <1>0, <2>1, <2>2, <3>3 DEF EditsFit
      <4>2. progress'[edit[1]] = progress[edit[1]]
        BY <1>0, <2>2, <4>1 DEF Mark
      <4> QED BY <2>1, <3>1, <4>1, <4>2 DEF Excused
    <3>4. EditsFit'
      BY <3>3 DEF EditsFit
    <3> QED BY <2>2, <3>1, <3>2, <3>4 DEF RInv, StepFits
  <2>3. CASE pc' \in {"escalated", "review"} /\ UNCHANGED <<progress, doc, unreviewed>>
    <3>1. PlaceFits' /\ EditsFit'
      BY <1>q, <2>1, <2>3
    <3> QED BY <1>0, <1>14, <2>1, <2>3, <3>1 DEF VerifyReview, RInv, StepFits, cur
  <2> QED BY <1>14, <2>2, <2>3 DEF VerifyReview, Goto
<1>15. CASE ReconcileStory
  <2>1. pc' = "commit" /\ UNCHANGED <<doc, progress, dirty, strays, unreviewed, returned>>
    BY <1>15 DEF ReconcileStory, Goto
  <2> QED BY <1>15, <1>0, <1>q, <2>1 DEF ReconcileStory, RInv, StepFits, cur
<1>16. CASE CommitStory
  <2>1. /\ pc' \in {"commit-failed", "committed"} /\ dirty' \in {dirty, {}}
        /\ UNCHANGED <<doc, progress, strays, unreviewed, returned>>
    BY <1>16 DEF CommitStory, Commits, Goto
  <2>2. PlaceFits' /\ EditsFit'
    BY <1>0, <2>1 DEF PlaceFits, EditsFit, Excused, Position, cur
  <2> QED BY <1>16, <1>0, <2>1, <2>2 DEF CommitStory, RInv, StepFits, cur
<1>17. CASE MarkCommit
  <2>1. /\ pc' = "verify-done"
        /\ progress' = progress \/ (cur \in Stories /\ Mark(cur, "commit"))
        /\ UNCHANGED <<doc, dirty, strays, unreviewed, returned>>
    BY <1>17 DEF MarkCommit, Goto, outside, past, TInv, DocFits
  <2>2. PlaceFits' /\ EditsFit'
    BY <1>m, <2>1
  <2>3. StepFits'
    <3>1. cur' = cur /\ (pc = "verify-create" => doc.currentStep = "step-03-execute")
          /\ (pc = "parse-auto" => doc.currentStep = "step-03a-execute-review")
          /\ (pc = "committed" => doc.currentStep = FinishStep)
      BY <1>0, <2>1 DEF StepFits, cur
    <3>2. pc = "committed"
      BY <1>17 DEF MarkCommit
    <3> QED BY <2>1, <3>1, <3>2 DEF StepFits
  <2> QED BY <2>2, <2>3 DEF RInv
<1>18. CASE VerifyDone
  <2>1. /\ doc.currentStep = FinishStep /\ UNCHANGED <<doc, dirty, strays, unreviewed, progress>> /\ cur' = cur
        /\ \/ pc' = "complete" /\ returned' = returned
           \/ pc' = "review" /\ returned' = returned \cup {cur}
    BY <1>18, <1>0 DEF VerifyDone, Goto, outside, StepFits, cur
  <2>2. PlaceFits' /\ EditsFit'
    BY <1>0, <2>1 DEF PlaceFits, EditsFit, Excused, Position, cur
  <2> QED BY <2>1, <2>2 DEF RInv, StepFits
<1>19. CASE CompleteStory
  <2>1. /\ doc.currentStep = FinishStep /\ cur \in Stories /\ Mark(cur, "done") /\ pc' = "epic" /\ cur' = cur
        /\ UNCHANGED <<doc, dirty, strays, unreviewed, returned>>
    BY <1>19, <1>0 DEF CompleteStory, Goto, outside, past, StepFits, TInv, DocFits, cur
  <2>2. PlaceFits'
    BY <1>0, <2>1, PlaceStays
  <2>3. ASSUME NEW edit \in dirty' \cap unreviewed' PROVE Excused(edit)'
    <3>1. Excused(edit)
      BY <1>0, <2>1, <2>3 DEF EditsFit
    <3>2. edit[1] # cur => progress'[edit[1]] = progress[edit[1]]
      BY <1>0, <2>1 DEF Mark
    <3> QED BY <2>1, <3>1, <3>2 DEF Excused
  <2>4. EditsFit'
    BY <2>3 DEF EditsFit
  <2> QED BY <2>1, <2>2, <2>4 DEF RInv, StepFits
<1>20. CASE CheckEpic
  <2>1. pc' = "start" /\ UNCHANGED <<doc, progress, dirty, strays, unreviewed, returned>>
    BY <1>20 DEF CheckEpic, Goto, outside, past
  <2> QED BY <1>q, <2>1 DEF RInv, StepFits
<1>21. CASE Finish
  <2>1. doc'.currentStep = "step-04-wrapup" /\ cur' = cur /\ pc' = "finished"
        /\ UNCHANGED <<progress, dirty, strays, unreviewed, returned>>
    BY <1>0, <1>21, UpdateStatus DEF Finish, Goto, outside, past, cur
  <2>2. PlaceFits'
    BY <1>0, <2>1 DEF PlaceFits, Position
  <2>3. EditsFit'
    BY <1>0, <2>1 DEF EditsFit, Excused
  <2> QED BY <2>1, <2>2, <2>3 DEF RInv, StepFits
<1>22. CASE SkipStory
  <2>1. pc' = "start" /\ UNCHANGED <<doc, progress, dirty, strays, unreviewed, returned>>
    BY <1>22 DEF SkipStory, Goto, outside, past
  <2> QED BY <1>22, <1>0, <1>q, <2>1 DEF SkipStory, RInv, StepFits, cur
<1>23. CASE RetryCommit
  <2>1. pc' = "commit" /\ UNCHANGED <<doc, progress, dirty, strays, unreviewed, returned>>
    BY <1>23 DEF RetryCommit, Goto, outside, past
  <2> QED BY <1>23, <1>0, <1>q, <2>1 DEF RetryCommit, RInv, StepFits, cur
<1>24. CASE SkipCommit
  <2>1. pc' = "verify-done" /\ UNCHANGED <<doc, progress, dirty, strays, unreviewed, returned>>
    BY <1>24 DEF SkipCommit, Goto, outside, past
  <2> QED BY <1>24, <1>0, <1>q, <2>1 DEF SkipCommit, RInv, StepFits, cur
<1>25. CASE Crash
  <2>1. pc' = "dead" /\ UNCHANGED <<doc, progress, dirty, strays, unreviewed, returned>>
    BY <1>25 DEF Crash, Goto, past
  <2> QED BY <1>q, <2>1 DEF RInv, StepFits
<1>26. CASE Resume
  <2>1. \/ pc' \in {"finished", "start"}
        \/ pc' = "create" /\ doc.currentStep = "step-03-execute"
        \/ pc' = "auto" /\ doc.currentStep = "step-03a-execute-review"
        \/ pc' = "reconcile" /\ doc.currentStep = FinishStep
    BY <1>26 DEF Resume, Goto, TInv, DocFits, Docs, cur
  <2>2. UNCHANGED <<doc, progress, dirty, strays, unreviewed, returned>>
    BY <1>26 DEF Resume, outside, past
  <2> QED BY <1>q, <2>1, <2>2 DEF RInv, StepFits
<1>27. CASE LeftSession
  <2>1. /\ UNCHANGED <<doc, progress, pc, returned>> /\ cur' = cur
        /\ \/ UNCHANGED <<dirty, unreviewed, strays>>
           \/ \E s \in left : NewEdit(s) /\ strays' = strays \cup {Edit(s)}
    BY <1>27 DEF LeftSession, cur
  <2>2. PlaceFits' /\ StepFits'
    BY <1>0, <2>1 DEF PlaceFits, StepFits, Position
  <2>3. EditsFit'
    <3>1. CASE UNCHANGED <<dirty, unreviewed, strays>>
      BY <1>0, <2>1, <3>1 DEF EditsFit, Excused
    <3>2. CASE \E s \in left : NewEdit(s) /\ strays' = strays \cup {Edit(s)}
      <4>1. PICK new : /\ dirty' = dirty \cup {new} /\ unreviewed' = unreviewed \cup {new}
                       /\ strays' = strays \cup {new}
        BY <3>2 DEF NewEdit
      <4>2. ASSUME NEW edit \in dirty' \cap unreviewed', edit # new PROVE Excused(edit)
        BY <1>0, <4>1, <4>2 DEF EditsFit
      <4> QED BY <2>1, <4>1, <4>2 DEF EditsFit, Excused
    <3> QED BY <2>1, <3>1, <3>2
  <2> QED BY <2>2, <2>3 DEF RInv
<1> QED
  BY <1>1, <1>2, <1>3, <1>4, <1>5, <1>6, <1>7, <1>8, <1>9, <1>10, <1>11, <1>12, <1>13, <1>14,
     <1>15, <1>16, <1>17, <1>18, <1>19, <1>20, <1>21, <1>22, <1>23, <1>24, <1>25, <1>26, <1>27
     DEF Next, Driver, Operator

\* Only commit-story commits, in the last step.
LEMMA CommitsReviewed ==
  ASSUME TInv, RInv, [Next]_vars, NEW edit \in committed' \ committed, edit \in unreviewed
  PROVE  edit \in strays \/ edit[1] \in returned \/ (edit[1] # cur /\ progress[edit[1]] # "done")
<1>1. CASE CommitStory
  <2>1. edit \in dirty /\ doc.currentStep = FinishStep
    BY <1>1 DEF CommitStory, Commits, RInv, StepFits
  <2> QED BY <2>1 DEF RInv, EditsFit, Excused
<1>2. CASE ~CommitStory
  <2>1. committed' = committed
    BY <1>2 DEF Next, Driver, Operator, Session, Works, StartStory, SkipCreate, CreateSession, VerifyCreate,
       DevSession, DevProceeds, DevRetries, DevDefers, AutoSession, AutoEnds, Preflight, ReviewSession,
       VerifyReview, ReconcileStory, MarkCommit, VerifyDone, CompleteStory, CheckEpic, Finish, SkipStory,
       RetryCommit, SkipCommit, Crash, Resume, LeftSession, vars, outside
  <2> QED BY <2>1
<1> QED BY <1>1, <1>2

\* An edit no review has followed gets into a commit only when a session that outlived
\* its driver made it, when its story had been sent back from the status check, or when
\* its story was given up before: for every range that names no story twice, and any
\* number of crashes, sessions left behind, failed commits and review cycles.
THEOREM UnreviewedCommitsAreExcused ==
  ASSUME DistinctStories PROVE Spec => CommitsAreReviewed
<1>1. TInv /\ RInv /\ [Next]_vars =>
        [\A edit \in committed' \ committed : edit \in unreviewed =>
           \/ edit \in strays
           \/ edit[1] \in returned
           \/ edit[1] # cur /\ progress[edit[1]] # "done"]_vars
  BY CommitsReviewed
<1>2. Init => TInv /\ RInv
  BY InitTyped, InitReviewed
<1>3. TInv /\ RInv /\ [Next]_vars => TInv' /\ RInv'
  BY StepTyped, StepReviewed
<1> QED BY <1>1, <1>2, <1>3, PTL DEF Spec, CommitsAreReviewed

(* ---- what is done is committed ---- *)

Committed == {"committed", "verify-done", "complete"}
Reconciled == {"commit", "commit-failed"} \cup Committed
Late == {"reconcile", "epic", "start", "finish", "finished", "dead"} \cup Reconciled

Reaches(s, places) == progress[s] = "done" \/ (s = cur /\ pc \in places)
NoneDirty(s) == s \in waived \/ \A edit \in dirty : edit[1] # s
ListKept(s) == s \in warned \/ \A edit \in fileList[s] : edit[1] = s => edit \in dirty \cup committed

Gains(s) ==
  /\ Reaches(s, Committed) => NoneDirty(s)
  /\ Reaches(s, Reconciled) => ListKept(s)
  /\ Reaches(s, {"complete"}) => StoryIsDone(sprint[s], file[s])

\* What a step of the driver achieves for its story holds from that step on, and after
\* the row says done, as long as no session left behind works on the story; and once
\* the row says done the driver never works on the story before reconciling it again.
CInv ==
  /\ \A s \in Stories \ left : Gains(s)
  /\ cur \in Stories \ left /\ progress[cur] = "done" => pc \in Late

LEMMA InitCommitted == Init => CInv
BY DEF Init, CInv, Gains, Reaches, Committed, Reconciled, cur

\* The state of the stories and the driver's gains stay when it goes no further.
LEMMA GainsStay ==
  ASSUME TInv, CInv, UNCHANGED <<sprint, file, dirty, committed, fileList, left, warned, waived>>,
         cur' = cur,
         NEW row \in Progress \ {"done"}, progress' = progress \/ (cur \in Stories /\ Mark(cur, row)),
         pc' \in Committed => pc \in Committed, pc' \in Reconciled => pc \in Reconciled,
         pc' = "complete" => pc = "complete", pc \in Late => pc' \in Late
  PROVE  CInv'
<1>1. ASSUME NEW s \in Stories PROVE progress'[s] = "done" => progress[s] = "done"
  BY <1>1 DEF Mark, TInv, TypeOK
<1>2. ASSUME NEW s \in Stories \ left'
      PROVE  Gains(s)'
  <2>1. /\ Reaches(s, Committed)' => Reaches(s, Committed)
        /\ Reaches(s, Reconciled)' => Reaches(s, Reconciled)
        /\ Reaches(s, {"complete"})' => Reaches(s, {"complete"})
    BY <1>1, <1>2 DEF Reaches, Committed, Reconciled
  <2> QED BY <1>2, <2>1 DEF CInv, Gains, NoneDirty, ListKept
<1>3. cur' \in Stories \ left' /\ progress'[cur'] = "done" => pc' \in Late
  BY <1>1 DEF CInv
<1> QED BY <1>2, <1>3 DEF CInv, Late, Reconciled, Committed

\* A session works on a story that is not done yet.
LEMMA SessionCommitted ==
  ASSUME TInv, CInv, cur \in Stories, Session, pc \in {"create", "dev", "auto", "review"},
         pc' \in {"verify-create", "parse-dev", "parse-auto", "verify-review"},
         \A s \in Stories \ {cur} : /\ sprint'[s] = sprint[s] /\ file'[s] = file[s]
                                   /\ fileList'[s] = fileList[s]
  PROVE  CInv'
<1>1. UNCHANGED <<doc, progress, left, committed, warned, waived>> /\ cur' = cur
  BY DEF Session, cur
<1>2. cur \in Stories \ left => progress[cur] # "done"
  BY DEF CInv, Late, Reconciled, Committed
<1>3. dirty \subseteq dirty' /\ \A edit \in dirty' \ dirty : edit[1] = cur
  <2>1. CASE NewEdit(cur)
    <3>1. Edit(cur)[1] = cur
      BY <1>1, <2>1, NewEditTyped
    <3> QED BY <2>1, <3>1 DEF NewEdit
  <2> QED BY <2>1 DEF Session
<1>4. ASSUME NEW s \in Stories \ left', s # cur
      PROVE  Gains(s)'
  <2>1. \A places : Reaches(s, places)' = (progress[s] = "done")
    BY <1>1, <1>4 DEF Reaches
  <2>2. /\ s \in Stories \ left
        /\ progress[s] = "done" => NoneDirty(s) /\ ListKept(s) /\ StoryIsDone(sprint[s], file[s])
    BY <1>1, <1>4 DEF CInv, Gains, Reaches
  <2> QED BY <1>1, <1>3, <1>4, <2>1, <2>2 DEF Gains, Reaches, NoneDirty, ListKept
<1>5. \A places : cur \in Stories \ left => (Reaches(cur, places)' = (pc' \in places))
  BY <1>1, <1>2 DEF Reaches
<1>6. pc' \notin Reconciled /\ pc' \notin Committed /\ pc' # "complete"
  BY DEF Reconciled, Committed
<1>7. cur \in Stories \ left => /\ ~ Reaches(cur, Committed)' /\ ~ Reaches(cur, Reconciled)'
                               /\ ~ Reaches(cur, {"complete"})'
  BY <1>1, <1>2, <1>6 DEF Reaches
<1>8. ASSUME NEW s \in Stories \ left'
      PROVE  Gains(s)'
  BY <1>1, <1>4, <1>7, <1>8 DEF Gains
<1>9. ~ (cur' \in Stories \ left' /\ progress'[cur'] = "done")
  BY <1>1, <1>2
<1> QED BY <1>8, <1>9 DEF CInv, Reconciled, Committed

LEMMA StepCommitted == DistinctStories /\ TInv /\ RInv /\ CInv /\ [Next]_vars => CInv'
<1> SUFFICES ASSUME DistinctStories, TInv, RInv, CInv, [Next]_vars PROVE CInv'
  OBVIOUS
<1> USE DEF Progress
<1>0. doc \in Docs /\ progress \in [Stories -> Progress] /\ (pc \in Working => cur \in Stories)
  BY DEF TInv, TypeOK, DocFits
<1>1. CASE UNCHANGED vars
  <2>1. /\ UNCHANGED <<sprint, file, dirty, committed, fileList, left, warned, waived, progress, pc>>
        /\ cur' = cur
    BY <1>1 DEF vars, outside, past, cur
  <2> QED BY <2>1, GainsStay
<1>2. CASE StartStory
  <2>1. UNCHANGED <<sprint, file, dirty, committed, fileList, left, warned, waived, progress>>
    BY <1>2 DEF StartStory, outside, past
  <2>2. CASE Position(cur) = Len(StoryRange)
    <3>1. pc' = "finish" /\ cur' = cur
      BY <1>2, <2>2 DEF StartStory, Goto, cur
    <3> QED BY <2>1, <3>1, GainsStay DEF Committed, Reconciled, Late
  <2>3. CASE Position(cur) # Len(StoryRange)
    <3>1. cur \in Stories \cup {"none"}
      BY <1>0 DEF Docs, cur
    <3>2. Position(cur) + 1 \in DOMAIN StoryRange /\ Position(cur) \in Nat
      BY <2>3, <3>1, NextStory
    <3>3. cur' = StoryRange[Position(cur) + 1] /\ pc' \in {"create", "stopped"}
      BY <1>0, <1>2, <2>3, <3>2, UpdateStory DEF StartStory, Goto, Stories, cur
    <3>4. progress[StoryRange[Position(cur) + 1]] # "done"
      BY <3>2 DEF RInv, PlaceFits
    <3>5. pc' \notin Reconciled /\ pc' \notin Committed /\ pc' # "complete"
      BY <3>3 DEF Reconciled, Committed
    <3>6. ASSUME NEW s \in Stories \ left'
          PROVE  Gains(s)'
      <4>1. /\ Reaches(s, Committed)' => Reaches(s, Committed)
            /\ Reaches(s, Reconciled)' => Reaches(s, Reconciled)
            /\ Reaches(s, {"complete"})' => Reaches(s, {"complete"})
        BY <2>1, <3>5 DEF Reaches, Committed, Reconciled
      <4> QED BY <2>1, <3>6, <4>1 DEF CInv, Gains, NoneDirty, ListKept
    <3> QED BY <2>1, <3>3, <3>4, <3>6 DEF CInv, Reconciled, Committed
  <2> QED BY <2>2, <2>3
<1>3. CASE SkipCreate
  <2>1. /\ pc = "create" /\ pc' = "dev" /\ cur' = cur
        /\ UNCHANGED <<sprint, file, dirty, committed, fileList, left, warned, waived>>
        /\ progress' = progress
    BY <1>0, <1>3 DEF SkipCreate, Goto, outside, past, cur, Working
  <2> QED BY <2>1, GainsStay DEF Committed, Reconciled, Late
<1>4. CASE CreateSession
  <2>1. /\ cur \in Stories /\ Session /\ pc = "create" /\ pc' = "verify-create"
        /\ UNCHANGED <<sprint, fileList>>
    BY <1>0, <1>4 DEF CreateSession, Working
  <2>2. \A s \in Stories \ {cur} : file'[s] = file[s]
    BY <1>4 DEF CreateSession, TInv, TypeOK
  <2> QED BY <2>1, <2>2, SessionCommitted
<1>5. CASE VerifyCreate
  <2>1. /\ pc = "verify-create" /\ pc' \in {"create", "dev", "escalated"} /\ cur' = cur
        /\ UNCHANGED <<sprint, file, dirty, committed, fileList, left, warned, waived>>
        /\ progress' = progress \/ (cur \in Stories /\ Mark(cur, "create"))
    BY <1>0, <1>5 DEF VerifyCreate, Goto, outside, past, cur, Working
  <2> QED BY <2>1, GainsStay DEF Committed, Reconciled, Late
<1>6. CASE DevSession
  <2>1. cur \in Stories /\ Session /\ Writes(cur) /\ pc = "dev" /\ pc' = "parse-dev"
    BY <1>0, <1>6 DEF DevSession, Works, Working
  <2>2. \A s \in Stories \ {cur} : sprint'[s] = sprint[s] /\ file'[s] = file[s] /\ fileList'[s] = fileList[s]
    BY <2>1 DEF Writes, TInv, TypeOK
  <2> QED BY <2>1, <2>2, SessionCommitted
<1>7. CASE DevProceeds
  <2>1. /\ pc = "parse-dev" /\ pc' = "auto" /\ cur \in Stories /\ Mark(cur, "dev")
        /\ UNCHANGED <<sprint, file, dirty, committed, fileList, left, warned, waived>>
    BY <1>0, <1>7 DEF DevProceeds, Goto, outside, past, Working
  <2>2. cur' = cur
    BY <1>0, <1>7, UpdateStep DEF DevProceeds, Steps, cur
  <2> QED BY <2>1, <2>2, GainsStay DEF Committed, Reconciled, Late
<1>8. CASE DevRetries
  <2>1. /\ pc = "parse-dev" /\ pc' \in {"dev", "escalated"} /\ cur' = cur
        /\ UNCHANGED <<sprint, file, dirty, committed, fileList, left, warned, waived>>
        /\ progress' = progress
    BY <1>0, <1>8 DEF DevRetries, Goto, outside, past, cur, Working
  <2> QED BY <2>1, GainsStay DEF Committed, Reconciled, Late
<1>9. CASE DevDefers
  <2>1. /\ pc = "parse-dev" /\ pc' = "start" /\ cur' = cur
        /\ UNCHANGED <<sprint, file, dirty, committed, fileList, left, warned, waived, progress>>
    BY <1>9 DEF DevDefers, Goto, outside, past, cur
  <2> QED BY <2>1, GainsStay DEF Committed, Reconciled, Late
<1>10. CASE AutoSession
  <2>1. cur \in Stories /\ Session /\ Writes(cur) /\ pc = "auto" /\ pc' = "parse-auto"
    BY <1>0, <1>10 DEF AutoSession, Works, Working
  <2>2. \A s \in Stories \ {cur} : sprint'[s] = sprint[s] /\ file'[s] = file[s] /\ fileList'[s] = fileList[s]
    BY <2>1 DEF Writes, TInv, TypeOK
  <2> QED BY <2>1, <2>2, SessionCommitted
<1>11. CASE AutoEnds
  <2>1. /\ pc = "parse-auto" /\ pc' \in {"auto", "preflight"} /\ cur' = cur
        /\ UNCHANGED <<sprint, file, dirty, committed, fileList, left, warned, waived>>
        /\ progress' = progress \/ (cur \in Stories /\ Mark(cur, "auto"))
    BY <1>0, <1>11 DEF AutoEnds, Goto, outside, past, cur, Working
  <2> QED BY <2>1, GainsStay DEF Committed, Reconciled, Late
<1>12. CASE Preflight
  <2>1. /\ pc = "preflight" /\ pc' \in {"stopped", "review"} /\ cur' = cur
        /\ UNCHANGED <<sprint, file, dirty, committed, fileList, left, warned, waived>>
        /\ progress' = progress
    BY <1>0, <1>12 DEF Preflight, Goto, outside, past, cur, Working
  <2> QED BY <2>1, GainsStay DEF Committed, Reconciled, Late
<1>13. CASE ReviewSession
  <2>1. cur \in Stories /\ Session /\ Writes(cur) /\ pc = "review" /\ pc' = "verify-review"
    BY <1>0, <1>13 DEF ReviewSession, Works, Working
  <2>2. \A s \in Stories \ {cur} : sprint'[s] = sprint[s] /\ file'[s] = file[s] /\ fileList'[s] = fileList[s]
    BY <2>1 DEF Writes, TInv, TypeOK
  <2> QED BY <2>1, <2>2, SessionCommitted
<1>14. CASE VerifyReview
  <2>1. /\ pc = "verify-review" /\ pc' \in {"reconcile", "escalated", "review"} /\ cur \in Stories
        /\ UNCHANGED <<sprint, file, dirty, committed, fileList, left, warned, waived>>
        /\ progress' = progress \/ Mark(cur, "review")
        /\ doc' = doc \/ Update([currentStep |-> FinishStep])
    BY <1>0, <1>14 DEF VerifyReview, Goto, Working, FinishStep
  <2>2. cur' = cur
    BY <1>0, <2>1, UpdateStep DEF cur, Steps, FinishStep
  <2> QED BY <2>1, <2>2, GainsStay DEF Committed, Reconciled, Late
<1>15. CASE ReconcileStory
  <2>1. /\ pc = "reconcile" /\ pc' = "commit" /\ cur' = cur /\ cur \in Stories
        /\ UNCHANGED <<sprint, file, dirty, committed, left, waived, progress>>
    BY <1>0, <1>15 DEF ReconcileStory, Goto, Working, cur
  <2>2. \/ fileList' = [fileList EXCEPT ![cur] = dirty] /\ warned' = warned \ {cur}
        \/ fileList' = fileList /\ warned' = warned \cup {cur}
    BY <1>15 DEF ReconcileStory, ReconcileSection
  <2>3. ASSUME NEW s \in Stories \ left'
        PROVE  Gains(s)'
    <3>1. Reaches(s, Committed)' => NoneDirty(s)'
      BY <2>1, <2>3 DEF CInv, Gains, Reaches, Committed, NoneDirty
    <3>2. Reaches(s, {"complete"})' => StoryIsDone(sprint[s], file[s])'
      BY <2>1, <2>3 DEF CInv, Gains, Reaches
    <3>3. s = cur => ListKept(s)'
      BY <2>1, <2>2, <2>3 DEF ListKept, TInv, TypeOK
    <3>4. s # cur /\ Reaches(s, Reconciled)' => ListKept(s)'
      <4>1. s # cur => fileList'[s] = fileList[s] /\ (s \in warned' <=> s \in warned)
        BY <2>2, <2>3 DEF TInv, TypeOK
      <4>2. s # cur /\ Reaches(s, Reconciled)' => ListKept(s)
        BY <2>1, <2>3 DEF CInv, Gains, Reaches
      <4> QED BY <2>1, <4>1, <4>2 DEF ListKept
    <3> QED BY <3>1, <3>2, <3>3, <3>4 DEF Gains
  <2> QED BY <2>1, <2>3 DEF CInv, Late, Reconciled, Committed
<1>16. CASE CommitStory
  <2>1. /\ pc = "commit" /\ cur' = cur /\ cur \in Stories
        /\ UNCHANGED <<sprint, file, fileList, left, progress, warned>>
    BY <1>0, <1>16 DEF CommitStory, Working, cur
  <2>2. CASE pc' = "commit-failed" /\ UNCHANGED <<dirty, committed, waived>>
    BY <2>1, <2>2, GainsStay DEF Committed, Reconciled, Late
  <2>3. CASE pc' = "committed" /\ dirty' = {} /\ committed' = committed \cup dirty
    <3>1. ASSUME NEW s \in Stories \ left'
          PROVE  Gains(s)'
      <4>1. NoneDirty(s)'
        BY <2>3 DEF NoneDirty
      <4>2. Reaches(s, Reconciled)' => ListKept(s)'
        <5>1. Reaches(s, Reconciled)' => ListKept(s)
          BY <2>1, <3>1 DEF CInv, Gains, Reaches, Reconciled
        <5> QED BY <2>1, <2>3, <5>1 DEF ListKept
      <4>3. Reaches(s, {"complete"})' => StoryIsDone(sprint[s], file[s])'
        BY <2>1, <2>3, <3>1 DEF CInv, Gains, Reaches
      <4> QED BY <4>1, <4>2, <4>3 DEF Gains
    <3> QED BY <2>1, <2>3, <3>1 DEF CInv, Late, Reconciled, Committed
  <2> QED BY <1>16, <2>2, <2>3 DEF CommitStory, Commits, Goto
<1>17. CASE MarkCommit
  <2>1. /\ pc = "committed" /\ pc' = "verify-done" /\ cur' = cur
        /\ UNCHANGED <<sprint, file, dirty, committed, fileList, left, warned, waived>>
        /\ progress' = progress \/ (cur \in Stories /\ Mark(cur, "commit"))
    BY <1>0, <1>17 DEF MarkCommit, Goto, outside, past, cur, Working
  <2> QED BY <2>1, GainsStay DEF Committed, Reconciled, Late
<1>18. CASE VerifyDone
  <2>1. /\ pc = "verify-done" /\ cur' = cur /\ cur \in Stories
        /\ UNCHANGED <<sprint, file, dirty, committed, fileList, left, progress, warned, waived>>
        /\ \/ pc' = "complete" /\ StoryIsDone(sprint[cur], file[cur])
           \/ pc' = "review" /\ ~ StoryIsDone(sprint[cur], file[cur])
    BY <1>0, <1>18 DEF VerifyDone, Goto, outside, Working, cur
  <2>2. ASSUME NEW s \in Stories \ left'
        PROVE  Gains(s)'
    <3>1. s \in Stories \ left /\ (Reaches(s, Committed)' => Reaches(s, Committed)) /\ (Reaches(s, Reconciled)' => Reaches(s, Reconciled))
      BY <2>1, <2>2 DEF Reaches, Committed, Reconciled
    <3>2. Reaches(s, {"complete"})' => StoryIsDone(sprint[s], file[s])'
      BY <2>1, <2>2 DEF CInv, Gains, Reaches
    <3> QED BY <2>1, <3>1, <3>2 DEF CInv, Gains, NoneDirty, ListKept
  <2>3. cur \in Stories \ left /\ progress[cur] = "done" => pc' \in Late
    BY <2>1 DEF CInv, Gains, Reaches, Late, Reconciled, Committed
  <2> QED BY <2>1, <2>2, <2>3 DEF CInv, Late, Reconciled, Committed
<1>19. CASE CompleteStory
  <2>1. /\ pc = "complete" /\ pc' = "epic" /\ cur' = cur /\ cur \in Stories /\ Mark(cur, "done")
        /\ UNCHANGED <<sprint, file, dirty, committed, fileList, left, warned, waived>>
    BY <1>0, <1>19 DEF CompleteStory, Goto, outside, past, Working, cur
  <2>2. ASSUME NEW s \in Stories \ left'
        PROVE  Gains(s)'
    <3>1. /\ Reaches(s, Committed)' => Reaches(s, Committed)
          /\ Reaches(s, Reconciled)' => Reaches(s, Reconciled)
          /\ Reaches(s, {"complete"})' => Reaches(s, {"complete"})
      BY <1>0, <2>1, <2>2 DEF Reaches, Mark, Committed, Reconciled
    <3> QED BY <2>1, <2>2, <3>1 DEF CInv, Gains, NoneDirty, ListKept
  <2> QED BY <2>1, <2>2 DEF CInv, Late, Reconciled, Committed
<1>20. CASE CheckEpic
  <2>1. /\ pc = "epic" /\ pc' = "start" /\ cur' = cur
        /\ UNCHANGED <<sprint, file, dirty, committed, fileList, left, warned, waived>>
        /\ progress' = progress
    BY <1>0, <1>20 DEF CheckEpic, Goto, outside, past, cur, Working
  <2> QED BY <2>1, GainsStay DEF Committed, Reconciled, Late
<1>21. CASE Finish
  <2>1. /\ pc = "finish" /\ pc' = "finished"
        /\ UNCHANGED <<sprint, file, dirty, committed, fileList, left, warned, waived, progress>>
    BY <1>21 DEF Finish, Goto, outside, past
  <2>2. cur' = cur
    BY <1>0, <1>21, UpdateStatus DEF Finish, cur
  <2> QED BY <2>1, <2>2, GainsStay DEF Committed, Reconciled, Late
<1>22. CASE SkipStory
  <2>1. /\ pc \in {"escalated", "commit-failed"} /\ pc' = "start" /\ cur' = cur
        /\ UNCHANGED <<sprint, file, dirty, committed, fileList, left, warned, waived, progress>>
    BY <1>22 DEF SkipStory, Goto, outside, past, cur
  <2> QED BY <2>1, GainsStay DEF Committed, Reconciled, Late
<1>23. CASE RetryCommit
  <2>1. /\ pc = "commit-failed" /\ pc' = "commit" /\ cur' = cur
        /\ UNCHANGED <<sprint, file, dirty, committed, fileList, left, warned, waived>>
        /\ progress' = progress
    BY <1>0, <1>23 DEF RetryCommit, Goto, outside, past, cur, Working
  <2> QED BY <2>1, GainsStay DEF Committed, Reconciled, Late
<1>24. CASE SkipCommit
  <2>1. /\ pc = "commit-failed" /\ pc' = "verify-done" /\ cur' = cur /\ waived' = waived \cup {cur}
        /\ UNCHANGED <<sprint, file, dirty, committed, fileList, left, warned, progress>>
    BY <1>24 DEF SkipCommit, Goto, outside, cur
  <2>2. ASSUME NEW s \in Stories \ left'
        PROVE  Gains(s)'
    <3>1. s # cur /\ Reaches(s, Committed)' => Reaches(s, Committed)
      BY <2>1 DEF Reaches
    <3>2. Reaches(s, Committed)' => NoneDirty(s)'
      BY <2>1, <2>2, <3>1 DEF CInv, Gains, NoneDirty
    <3>3. (Reaches(s, Reconciled)' => Reaches(s, Reconciled)) /\ (Reaches(s, {"complete"})' => Reaches(s, {"complete"}))
      BY <2>1 DEF Reaches, Reconciled, Committed
    <3> QED BY <2>1, <2>2, <3>2, <3>3 DEF CInv, Gains, ListKept
  <2> QED BY <2>1, <2>2 DEF CInv, Late, Reconciled, Committed
<1>25. CASE Crash
  <2>1. /\ pc' = "dead" /\ left \subseteq left' /\ cur' = cur
        /\ UNCHANGED <<sprint, file, dirty, committed, fileList, warned, waived, progress>>
    BY <1>25 DEF Crash, Goto, past, cur
  <2>2. ASSUME NEW s \in Stories \ left'
        PROVE  Gains(s)'
    <3>1. /\ s \in Stories \ left
          /\ Reaches(s, Committed)' => Reaches(s, Committed)
          /\ Reaches(s, Reconciled)' => Reaches(s, Reconciled)
          /\ Reaches(s, {"complete"})' => Reaches(s, {"complete"})
      BY <2>1, <2>2 DEF Reaches, Committed, Reconciled
    <3> QED BY <2>1, <3>1 DEF CInv, Gains, NoneDirty, ListKept
  <2> QED BY <2>1, <2>2 DEF CInv, Late, Reconciled, Committed
<1>26. CASE Resume
  <2>1. /\ pc = "dead" /\ cur' = cur /\ pc' \in {"finished", "start", "create", "auto", "reconcile"}
        /\ UNCHANGED <<sprint, file, dirty, committed, fileList, left, warned, waived, progress>>
    BY <1>0, <1>26 DEF Resume, Goto, outside, past, Docs, DocFits, TInv, Steps, cur
  <2>2. cur \in Stories /\ progress[cur] = "done" => pc' \in {"finished", "start", "reconcile"}
    <3>1. cur \in Stories /\ progress[cur] = "done" => doc.currentStep \in {FinishStep, "step-04-wrapup"}
      BY DEF RInv, PlaceFits
    <3> QED BY <1>26, <3>1 DEF Resume, Goto, TInv, DocFits, FinishStep, cur
  <2>3. ASSUME NEW s \in Stories \ left'
        PROVE  Gains(s)'
    <3>1. /\ Reaches(s, Committed)' => Reaches(s, Committed)
          /\ Reaches(s, Reconciled)' => Reaches(s, Reconciled)
          /\ Reaches(s, {"complete"})' => Reaches(s, {"complete"})
      BY <2>1 DEF Reaches, Committed, Reconciled
    <3> QED BY <2>1, <2>3, <3>1 DEF CInv, Gains, NoneDirty, ListKept
  <2> QED BY <2>1, <2>2, <2>3 DEF CInv, Late, Reconciled, Committed
<1>27. CASE LeftSession
  <2>1. PICK s \in left :
          /\ Writes(s)
          /\ \/ UNCHANGED <<dirty, unreviewed, strays>>
             \/ NewEdit(s)
          /\ UNCHANGED <<committed, left, doc, progress, pc, warned, waived>>
    BY <1>27 DEF LeftSession
  <2>2. s \in Stories /\ cur' = cur
    BY <2>1 DEF TInv, TypeOK, cur
  <2>3. dirty \subseteq dirty' /\ \A edit \in dirty' \ dirty : edit[1] = s
    <3>1. CASE NewEdit(s)
      <4>1. Edit(s)[1] = s
        BY <2>1, <2>2, <3>1, NewEditTyped
      <4> QED BY <3>1, <4>1 DEF NewEdit
    <3> QED BY <2>1, <3>1
  <2>4. ASSUME NEW t \in Stories \ left'
        PROVE  Gains(t)'
    <3>1. t # s /\ t \in Stories \ left
      BY <2>1, <2>4
    <3>2. sprint'[t] = sprint[t] /\ file'[t] = file[t] /\ fileList'[t] = fileList[t]
      BY <2>1, <3>1 DEF Writes, TInv, TypeOK
    <3>3. /\ Reaches(t, Committed)' => Reaches(t, Committed)
          /\ Reaches(t, Reconciled)' => Reaches(t, Reconciled)
          /\ Reaches(t, {"complete"})' => Reaches(t, {"complete"})
      BY <2>1, <2>2 DEF Reaches, Committed, Reconciled
    <3>4. Reaches(t, Committed)' => NoneDirty(t)'
      BY <2>1, <2>3, <3>1, <3>3 DEF CInv, Gains, NoneDirty
    <3>5. Reaches(t, Reconciled)' => ListKept(t)'
      BY <2>1, <2>3, <3>1, <3>2, <3>3 DEF CInv, Gains, ListKept
    <3>6. Reaches(t, {"complete"})' => StoryIsDone(sprint[t], file[t])'
      BY <3>1, <3>2, <3>3 DEF CInv, Gains
    <3> QED BY <3>4, <3>5, <3>6 DEF Gains
  <2> QED BY <2>1, <2>2, <2>4 DEF CInv, Late, Reconciled, Committed
<1> QED
  BY <1>1, <1>2, <1>3, <1>4, <1>5, <1>6, <1>7, <1>8, <1>9, <1>10, <1>11, <1>12, <1>13, <1>14,
     <1>15, <1>16, <1>17, <1>18, <1>19, <1>20, <1>21, <1>22, <1>23, <1>24, <1>25, <1>26, <1>27
     DEF Next, Driver, Operator

LEMMA CommittedHolds == TInv /\ CInv => CompletedIsCommitted
<1> SUFFICES ASSUME TInv, CInv, NEW s \in Stories, progress[s] = "done", s \notin left
             PROVE  /\ StoryIsDone(sprint[s], file[s])
                    /\ s \in waived \/ \A edit \in dirty : edit[1] # s
                    /\ s \in waived \cup warned \/ \A edit \in fileList[s] : edit[1] = s => edit \in committed
  BY DEF CompletedIsCommitted
<1> QED BY DEF CInv, Gains, Reaches, NoneDirty, ListKept

\* A story the progress table calls done is done in the sprint or its file and has
\* none of its edits, and none its file lists, left out of the commits, except where
\* the operator let it go without a commit, its list could not be reconciled, or a
\* session left behind works on it: for every range that names no story twice, and any
\* number of crashes, of failed commits and of review cycles.
THEOREM CompletedStoriesAreCommitted ==
  ASSUME DistinctStories PROVE Spec => []CompletedIsCommitted
<1>1. Init => TInv /\ RInv /\ CInv
  BY InitTyped, InitReviewed, InitCommitted
<1>2. TInv /\ RInv /\ CInv /\ [Next]_vars => TInv' /\ RInv' /\ CInv'
  BY StepTyped, StepReviewed, StepCommitted
<1> QED BY <1>1, <1>2, CommittedHolds, PTL DEF Spec

(* ---- what becomes of a gate that goes on failing ---- *)

\* Every set of numbers has a least one: what an induction over rounds rests on.
LEMMA Least == ASSUME NEW S \in SUBSET Nat, S # {} PROVE \E m \in S : \A n \in S : m <= n
<1> DEFINE R == OpToRel(<, Nat)
<1>1. IsWellFoundedOn(R, Nat)
  BY NatLessThanWellFounded
<1>2. \A x, y \in Nat : y < x => <<y, x>> \in R
  BY DEF OpToRel
<1> HIDE DEF R
<1>3. PICK m \in S : \A n \in S : ~ (<<n, m>> \in R)
  BY <1>1, WFMin
<1>4. \A n \in S : m <= n
  <2> SUFFICES ASSUME NEW n \in S, ~ (m <= n) PROVE FALSE
    OBVIOUS
  <2>1. n < m /\ m \in Nat /\ n \in Nat
    OBVIOUS
  <2> QED BY <1>2, <1>3, <2>1
<1> QED BY <1>4

Fresh == [parked |-> [t \in {"s"} |-> None], debt |-> [t \in {"s"} |-> None],
          tasks |-> [t \in {"s"} |-> [c \in {} |-> 0]]]
Start == [action |-> "remediate", cycle |-> 0, records |-> Fresh]
Routed(g, m, risk9, r) ==
  IF r.action = "remediate" THEN RouteGateVerdict(r.records, g, "s", r.cycle, m, risk9, TRUE) ELSE r

\* The first n rounds: the run routes the gate as long as it is told to remediate.
Rounds(g, m, risk9, n, after) ==
  after = [k \in 0..n |-> IF k = 0 THEN Start ELSE Routed(g, m, risk9, after[k - 1])]

LEMMA RoundsExist ==
  ASSUME NEW g, NEW m, NEW risk9, NEW N \in Nat PROVE \E after : Rounds(g, m, risk9, N, after)
<1> DEFINE D == {n \in Nat : ~ \E after : Rounds(g, m, risk9, n, after)}
<1> SUFFICES ASSUME D # {} PROVE FALSE
  OBVIOUS
<1>1. PICK n \in D : \A k \in D : n <= k
  <2>1. D \in SUBSET Nat
    OBVIOUS
  <2> HIDE DEF D
  <2> QED BY <2>1, Least
<1>2. CASE n = 0
  <2>1. PICK after : after = [k \in 0..0 |-> Start]
    OBVIOUS
  <2>2. Rounds(g, m, risk9, n, after)
    BY <1>2, <2>1 DEF Rounds
  <2> QED BY <1>1, <2>2
<1>3. CASE n # 0
  <2>1. n - 1 \in Nat /\ ~ (n <= n - 1) /\ n \in Nat
    BY <1>1, <1>3
  <2>2. PICK before : Rounds(g, m, risk9, n - 1, before)
    BY <1>1, <2>1
  <2>3. PICK after : after = [k \in 0..n |-> IF k # n THEN before[k]
                                             ELSE Routed(g, m, risk9, before[k - 1])]
    OBVIOUS
  <2>4. ASSUME NEW k \in 0..n
        PROVE  after[k] = IF k = 0 THEN Start ELSE Routed(g, m, risk9, after[k - 1])
    <3>1. k # n => k \in 0..(n - 1) /\ after[k] = before[k]
      BY <2>1, <2>3
    <3>2. k # 0 => k - 1 \in 0..n /\ k - 1 # n /\ after[k - 1] = before[k - 1]
      BY <2>1, <2>3
    <3>3. k = n => after[k] = Routed(g, m, risk9, before[k - 1])
      BY <2>3
    <3>4. k # n => before[k] = IF k = 0 THEN Start ELSE Routed(g, m, risk9, before[k - 1])
      BY <2>2, <3>1 DEF Rounds
    <3> QED BY <1>3, <3>1, <3>2, <3>3, <3>4
  <2>5. after = [k \in 0..n |-> after[k]]
    BY <2>3
  <2>6. Rounds(g, m, risk9, n, after)
    BY <2>4, <2>5 DEF Rounds
  <2> QED BY <1>1, <2>6
<1> QED BY <1>2, <1>3

Bad(g) == g.overall \notin {"PASS", "WAIVED", "CONCERNS"}

\* The records after n rounds that remediated.
Remediated(g, n, kept) ==
  /\ kept.parked = [t \in {"s"} |-> None]
  /\ kept = [parked |-> kept.parked, debt |-> kept.debt, tasks |-> kept.tasks]
  /\ kept.tasks = [t \in {"s"} |-> kept.tasks["s"]]
  /\ RemediationTasks(g) # {} =>
       kept.tasks["s"] = IF n = 0 THEN [c \in {} |-> 0] ELSE [c \in RemediationTasks(g) |-> n]

LEMMA OneMoreRound ==
  ASSUME NEW g, Bad(g), NEW m \in Nat, NEW n \in Nat, n < m, NEW kept, Remediated(g, n, kept)
  PROVE  \E next : /\ RouteGateVerdict(kept, g, "s", n, m, FALSE, TRUE)
                        = [action |-> "remediate", cycle |-> n + 1, records |-> next]
                   /\ Remediated(g, n + 1, next)
<1> DEFINE T == RemediationTasks(g)
           next == IF T # {} THEN WriteTasks(kept, "s", T) ELSE kept
<1>1. RouteGateVerdict(kept, g, "s", n, m, FALSE, TRUE)
        = [action |-> "remediate", cycle |-> n + 1, records |-> next]
  BY DEF RouteGateVerdict, Bad
<1>2. Remediated(g, n + 1, next)
  <2>1. CASE T = {}
    BY <2>1 DEF Remediated
  <2>2. CASE T # {}
    <3> DEFINE old == kept.tasks["s"]
    <3>1. old = IF n = 0 THEN [c \in {} |-> 0] ELSE [c \in T |-> n]
      BY <2>2 DEF Remediated
    <3>2. kept = [parked |-> kept.parked, debt |-> kept.debt, tasks |-> kept.tasks]
          /\ kept.tasks = [t \in {"s"} |-> old]
      BY DEF Remediated
    <3>3. WriteTasks(kept, "s", T)
            = [kept EXCEPT !.tasks["s"] = [c \in T \cup DOMAIN old |->
                 (IF c \in DOMAIN old THEN old[c] ELSE 0) + (IF c \in T THEN 1 ELSE 0)]]
      BY <3>2 DEF WriteTasks
    <3>4. [c \in T \cup DOMAIN old |->
             (IF c \in DOMAIN old THEN old[c] ELSE 0) + (IF c \in T THEN 1 ELSE 0)]
            = [c \in T |-> n + 1]
      <4> HIDE DEF T, old
      <4>1. CASE n = 0
        <5>1. DOMAIN old = {}
          BY <3>1, <4>1
        <5> QED BY <4>1, <5>1
      <4>2. CASE n # 0
        <5>1. DOMAIN old = T /\ \A c \in T : old[c] = n
          BY <3>1, <4>2
        <5> QED BY <5>1
      <4> QED BY <4>1, <4>2
    <3>5. next = [kept EXCEPT !.tasks["s"] = [c \in T |-> n + 1]]
      BY <2>2, <3>3, <3>4
    <3> HIDE DEF next, T, old
    <3>6. next.parked = kept.parked /\ next.debt = kept.debt
          /\ next.tasks = [t \in {"s"} |-> [c \in T |-> n + 1]]
          /\ next = [parked |-> next.parked, debt |-> next.debt, tasks |-> next.tasks]
      BY <3>2, <3>5
    <3> QED BY <2>2, <3>6 DEF Remediated, T
  <2> QED BY <2>1, <2>2
<1> HIDE DEF next
<1> QED BY <1>1, <1>2

\* "No record" is none of the reasons a story is parked for.
NoneIsNoReason == None \notin {"risk-9", "exhausted"}

\* Whatever a gate goes on saying, and however many cycles the policy allows: a story
\* is passed or parked, it is recorded as parked exactly when it is, and a gate that
\* goes on failing has its tasks written once per cycle before the story is parked
\* (route_gate_verdict, gate_orchestrator.py).
THEOREM RemediationEnds ==
  ASSUME NoneIsNoReason, NEW gates, NEW m \in Nat \ {0} PROVE RoutingEnds(gates, m)
<1> SUFFICES ASSUME NEW g \in gates, NEW risk9 \in BOOLEAN,
                    NEW after, Rounds(g, m, risk9, m + 1, after),
                    NEW end, end = after[m + 1]
             PROVE  /\ end.action \in {"done", "park"}
                    /\ end.action = "park" <=> end.records.parked["s"] # None
                    /\ end.action = "done" => g.overall \in Verdicts \ {"FAIL"} /\ end.cycle = 0
                    /\ g.overall = "FAIL" /\ ~risk9 =>
                         /\ end.cycle = m
                         /\ \A c \in RemediationTasks(g) : end.records.tasks["s"][c] = m
  <2> DEFINE P(g, risk9, end) ==
               /\ end.action \in {"done", "park"}
               /\ end.action = "park" <=> end.records.parked["s"] # None
               /\ end.action = "done" => g.overall \in Verdicts \ {"FAIL"} /\ end.cycle = 0
               /\ g.overall = "FAIL" /\ ~risk9 =>
                    /\ end.cycle = m
                    /\ \A c \in RemediationTasks(g) : end.records.tasks["s"][c] = m
             Q(g, risk9, after) ==
               after = [n \in 0..(m + 1) |->
                          IF n = 0 THEN Start
                          ELSE IF after[n - 1].action = "remediate"
                               THEN RouteGateVerdict(after[n - 1].records, g, "s",
                                                     after[n - 1].cycle, m, risk9, TRUE)
                               ELSE after[n - 1]]
  <2>1. \A g, risk9, after : Q(g, risk9, after) <=> Rounds(g, m, risk9, m + 1, after)
    BY DEF Rounds, Routed
  <2>2. RoutingEnds(gates, m)
          <=> \A g \in gates, risk9 \in BOOLEAN :
                P(g, risk9, (CHOOSE after : Q(g, risk9, after))[m + 1])
    BY DEF RoutingEnds, Start, Fresh
  <2> HIDE DEF P, Q
  <2>3. ASSUME NEW g \in gates, NEW risk9 \in BOOLEAN
        PROVE  P(g, risk9, (CHOOSE after : Q(g, risk9, after))[m + 1])
    <3>1. m + 1 \in Nat
      OBVIOUS
    <3>2. \E after : Q(g, risk9, after)
      BY <2>1, <3>1, RoundsExist
    <3>3. Q(g, risk9, CHOOSE after : Q(g, risk9, after))
      BY <3>2
    <3> QED BY <2>1, <3>3 DEF P
  <2> QED BY <2>2, <2>3
<1>1. m \in Nat /\ m + 1 # 0 /\ m + 1 \in 0..(m + 1) /\ m + 1 - 1 = m
  OBVIOUS
<1>2. after[0] = Start
      /\ \A k \in 1..(m + 1) : after[k] = Routed(g, m, risk9, after[k - 1])
  BY <1>1 DEF Rounds
<1>3. Start.action = "remediate" /\ Start.cycle = 0 /\ Start.records = Fresh
  BY DEF Start
<1>4. Remediated(g, 0, Fresh)
  BY DEF Remediated, Fresh
<1>5. CASE ~ Bad(g) \/ risk9
  <2>1. /\ after[1].action \in {"done", "park"} /\ after[1].cycle = 0
        /\ after[1].action = "park" <=> after[1].records.parked["s"] # None
        /\ after[1].action = "park" <=> Bad(g)
    <3>1. after[1] = RouteGateVerdict(Fresh, g, "s", 0, m, risk9, TRUE)
      <4>1. 1 \in 1..(m + 1) /\ 1 - 1 = 0
        BY <1>1
      <4>2. after[1] = Routed(g, m, risk9, after[1 - 1])
        BY <1>2, <4>1
      <4>3. after[1] = Routed(g, m, risk9, Start)
        BY <1>2, <4>1, <4>2
      <4> QED BY <1>3, <4>3 DEF Routed
    <3>2. CASE Bad(g)
      <4>1. after[1] = [action |-> "park", cycle |-> 0, records |-> ParkStory(Fresh, "s", "risk-9")]
        BY <1>5, <3>1, <3>2 DEF RouteGateVerdict, Bad
      <4>2. ParkStory(Fresh, "s", "risk-9").parked["s"] = "risk-9"
        BY DEF ParkStory, Fresh
      <4> QED BY <3>2, <4>1, <4>2, NoneIsNoReason DEF NoneIsNoReason
    <3>3. CASE g.overall \in {"PASS", "WAIVED"}
      <4>1. after[1] = [action |-> "done", cycle |-> 0, records |-> Fresh]
        BY <3>1, <3>3 DEF RouteGateVerdict
      <4> QED BY <3>3, <4>1 DEF Fresh, Bad
    <3>4. CASE g.overall = "CONCERNS"
      <4>1. after[1] = [action |-> "done", cycle |-> 0,
                        records |-> RecordMitigationDebt(Fresh, "s", CategoriesWith(g, "CONCERNS"))]
        BY <3>1, <3>4 DEF RouteGateVerdict
      <4>2. RecordMitigationDebt(Fresh, "s", CategoriesWith(g, "CONCERNS")).parked["s"] = None
        BY DEF RecordMitigationDebt, Fresh
      <4> QED BY <3>4, <4>1, <4>2 DEF Bad
    <3> QED BY <3>2, <3>3, <3>4 DEF Bad
  <2>2. ASSUME NEW n \in 1..(m + 1), after[n] # after[1] PROVE FALSE
    <3> DEFINE D == {k \in 1..(m + 1) : after[k] # after[1]}
    <3>1. PICK k \in D : \A j \in D : k <= j
      <4>1. D \in SUBSET Nat /\ D # {}
        BY <2>2
      <4> HIDE DEF D
      <4> QED BY <4>1, Least
    <3>2. k \in 1..(m + 1) /\ k # 1 /\ k - 1 \in 1..(m + 1) /\ ~ (k <= k - 1)
      BY <3>1
    <3>3. after[k - 1] = after[1]
      BY <3>1, <3>2
    <3>4. after[k] = after[1]
      BY <1>2, <2>1, <3>2, <3>3 DEF Routed
    <3> QED BY <3>1, <3>4
  <2>3. end = after[1]
    <3>1. m + 1 \in 1..(m + 1)
      OBVIOUS
    <3> QED BY <2>2, <3>1
  <2> QED BY <1>5, <2>1, <2>3 DEF Bad, Verdicts
<1>6. CASE Bad(g) /\ ~ risk9
  <2> DEFINE P(n) == after[n].action = "remediate" /\ after[n].cycle = n
                     /\ Remediated(g, n, after[n].records)
             D == {n \in 0..m : ~ P(n)}
  <2> HIDE DEF P
  <2>1. ASSUME D # {} PROVE FALSE
    <3>1. PICK n \in D : \A k \in D : n <= k
      <4>1. D \in SUBSET Nat
        OBVIOUS
      <4> HIDE DEF D
      <4> QED BY <2>1, <4>1, Least
    <3>2. n # 0
      <4>1. P(0)
        BY <1>2, <1>3, <1>4 DEF P
      <4> QED BY <3>1, <4>1
    <3>3. n \in 1..(m + 1) /\ n - 1 \in 0..m /\ n - 1 < m /\ ~ (n <= n - 1) /\ n - 1 + 1 = n
          /\ n - 1 \in Nat
      BY <3>1, <3>2
    <3>4. P(n - 1)
      BY <3>1, <3>3
    <3>5. after[n] = RouteGateVerdict(after[n - 1].records, g, "s", n - 1, m, FALSE, TRUE)
      BY <1>2, <1>6, <3>3, <3>4 DEF P, Routed
    <3>6. PICK k \in Nat : k = n - 1
      BY <3>3
    <3>r. PICK kept : kept = after[n - 1].records
      OBVIOUS
    <3>7. PICK next : /\ RouteGateVerdict(kept, g, "s", k, m, FALSE, TRUE)
                         = [action |-> "remediate", cycle |-> k + 1, records |-> next]
                      /\ Remediated(g, k + 1, next)
      <4>1. Bad(g) /\ m \in Nat /\ k < m /\ Remediated(g, k, kept)
        BY <1>1, <1>6, <3>3, <3>4, <3>6, <3>r DEF P
      <4> QED BY <4>1, OneMoreRound
    <3>8. after[n] = [action |-> "remediate", cycle |-> n, records |-> next] /\ Remediated(g, n, next)
      <4>1. k + 1 = n
        BY <3>3, <3>6
      <4> QED BY <3>5, <3>6, <3>r, <3>7, <4>1
    <3>9. P(n)
      BY <3>8 DEF P
    <3> QED BY <3>1, <3>9
  <2>2. P(m)
    <3>1. m \in 0..m
      OBVIOUS
    <3> QED BY <2>1, <3>1
  <2>3. PICK kept : kept = after[m].records
    OBVIOUS
  <2>4. Remediated(g, m, kept)
    BY <2>2, <2>3 DEF P
  <2>5. end = RouteGateVerdict(kept, g, "s", m, m, FALSE, TRUE)
    <3>1. m + 1 \in 1..(m + 1)
      OBVIOUS
    <3>2. end = Routed(g, m, risk9, after[m])
      BY <1>1, <1>2, <3>1
    <3> QED BY <1>6, <2>2, <2>3, <3>2 DEF P, Routed
  <2>6. end = [action |-> "park", cycle |-> m, records |-> ParkStory(kept, "s", "exhausted")]
    BY <1>1, <1>6, <2>5 DEF RouteGateVerdict, Bad
  <2>7. /\ ParkStory(kept, "s", "exhausted").parked["s"] = "exhausted"
        /\ ParkStory(kept, "s", "exhausted").tasks = kept.tasks
    BY <2>4 DEF ParkStory, Remediated
  <2>8. \A c \in RemediationTasks(g) : kept.tasks["s"][c] = m
    <3>1. m # 0
      OBVIOUS
    <3> QED BY <2>4, <3>1 DEF Remediated
  <2> QED BY <2>6, <2>7, <2>8, NoneIsNoReason DEF NoneIsNoReason
<1> QED BY <1>5, <1>6

(* ---- the ceilings ---- *)

Of(cs, i, es, at) == DecideCeiling(cs[i], Spent(es, cs[i].window, at))
Before(cs, es, at, i, j) ==
  \/ Rank(Of(cs, i, es, at)) > Rank(Of(cs, j, es, at))
  \/ Rank(Of(cs, i, es, at)) = Rank(Of(cs, j, es, at)) /\ i <= j

LEMMA Ranks == /\ Rank("ALLOW") = 0 /\ Rank("WARN") = 1 /\ Rank("BLOCK") = 2
BY DEF Rank

LEMMA RankOf ==
  ASSUME NEW cs, NEW i, NEW es, NEW at
  PROVE  /\ Of(cs, i, es, at) \in {"ALLOW", "WARN", "BLOCK"}
         /\ Rank(Of(cs, i, es, at)) \in 0..2
         /\ Of(cs, i, es, at) = "BLOCK" <=> Rank(Of(cs, i, es, at)) = 2
         /\ Of(cs, i, es, at) = "BLOCK" <=> Spent(es, cs[i].window, at) >= cs[i].limit
<1>1. Of(cs, i, es, at) \in {"ALLOW", "WARN", "BLOCK"}
  BY DEF Of, DecideCeiling
<1>2. Of(cs, i, es, at) = "BLOCK" <=> Spent(es, cs[i].window, at) >= cs[i].limit
  BY DEF Of, DecideCeiling
<1> QED BY <1>1, <1>2, Ranks

\* Of the ceilings that watch a gate there is a first one with the most severe decision.
LEMMA WorstOne ==
  ASSUME NEW cs, NEW es, NEW at, NEW W \in SUBSET Nat, W # {}
  PROVE  \E i \in W : \A j \in W : Before(cs, es, at, i, j)
<1> DEFINE At(r) == {i \in W : Rank(Of(cs, i, es, at)) = r}
<1>1. \A i \in W : Rank(Of(cs, i, es, at)) \in 0..2
  BY RankOf
<1>2. PICK r \in 0..2 : At(r) # {} /\ \A i \in W : Rank(Of(cs, i, es, at)) <= r
  <2>1. CASE At(2) # {}
    BY <1>1, <2>1
  <2>2. CASE At(2) = {} /\ At(1) # {}
    BY <1>1, <2>2
  <2>3. CASE At(2) = {} /\ At(1) = {}
    <3>1. \A i \in W : Rank(Of(cs, i, es, at)) = 0
      <4> SUFFICES ASSUME NEW i \in W PROVE Rank(Of(cs, i, es, at)) = 0
        OBVIOUS
      <4>1. Rank(Of(cs, i, es, at)) # 2 /\ Rank(Of(cs, i, es, at)) # 1
        BY <2>3
      <4> QED BY <1>1, <4>1
    <3>2. At(0) # {}
      BY <3>1
    <3> QED BY <3>1, <3>2
  <2> QED BY <2>1, <2>2, <2>3
<1>3. PICK i \in At(r) : \A j \in At(r) : i <= j
  <2>1. At(r) \in SUBSET Nat
    OBVIOUS
  <2> HIDE DEF At
  <2> QED BY <1>2, <2>1, Least
<1>4. ASSUME NEW j \in W PROVE Before(cs, es, at, i, j)
  <2>1. CASE Rank(Of(cs, j, es, at)) = r
    BY <1>3, <2>1 DEF Before
  <2>2. CASE Rank(Of(cs, j, es, at)) # r
    BY <1>1, <1>2, <1>3, <2>2 DEF Before
  <2> QED BY <2>1, <2>2
<1> QED BY <1>3, <1>4

LEMMA Evaluated ==
  ASSUME NEW cs, NEW watched, NEW es, NEW at, Watching(cs, watched) \in SUBSET Nat
  PROVE  \/ Watching(cs, watched) = {} /\ EvaluateCeilings(cs, watched, es, at).decision = "ALLOW"
         \/ \E i \in Watching(cs, watched) :
              /\ EvaluateCeilings(cs, watched, es, at).decision = Of(cs, i, es, at)
              /\ \A j \in Watching(cs, watched) : Before(cs, es, at, i, j)
<1>1. CASE Watching(cs, watched) = {}
  BY <1>1 DEF EvaluateCeilings, NoCeiling
<1>2. CASE Watching(cs, watched) # {}
  <2> DEFINE worst == CHOOSE i \in Watching(cs, watched) :
                        \A j \in Watching(cs, watched) : Before(cs, es, at, i, j)
  <2>1. EvaluateCeilings(cs, watched, es, at).decision = Of(cs, worst, es, at)
    BY <1>2 DEF EvaluateCeilings, Before, Of
  <2>2. worst \in Watching(cs, watched) /\ \A j \in Watching(cs, watched) : Before(cs, es, at, worst, j)
    BY <1>2, WorstOne
  <2> QED BY <2>1, <2>2
<1> QED BY <1>1, <1>2

\* The merge of the ceilings loses none: whatever workflow.json declares and the
\* ledger says was spent, a gate is blocked exactly when a valid ceiling that
\* watches it is reached, and declaring one more never makes the answer milder
\* (evaluate_ceilings, budget_ceilings.py).
THEOREM CeilingsAreMerged ==
  ASSUME NEW raws, Len(raws) \in Nat, DOMAIN raws = 1..Len(raws), NEW watched, NEW events, NEW now
  PROVE  NoCeilingIsLost(raws, watched, events, now)
<1> DEFINE Decision(cs) == EvaluateCeilings(cs, watched, events, now).decision
<1>1. Watching(raws, watched) \in SUBSET Nat
  BY DEF Watching, ParseCeilings
<1>2. Decision(raws) = "BLOCK" <=>
        \E i \in Watching(raws, watched) : Spent(events, raws[i].window, now) >= raws[i].limit
  <2>1. CASE Watching(raws, watched) = {}
    BY <1>1, <2>1, Evaluated
  <2>2. CASE Watching(raws, watched) # {}
    <3>1. PICK i \in Watching(raws, watched) :
            /\ Decision(raws) = Of(raws, i, events, now)
            /\ \A j \in Watching(raws, watched) : Before(raws, events, now, i, j)
      BY <1>1, <2>2, Evaluated
    <3>2. ASSUME NEW j \in Watching(raws, watched), Spent(events, raws[j].window, now) >= raws[j].limit
          PROVE  Decision(raws) = "BLOCK"
      <4>1. Rank(Of(raws, j, events, now)) = 2
        BY <3>2, RankOf
      <4>2. Rank(Of(raws, i, events, now)) = 2
        BY <3>1, <4>1, RankOf DEF Before
      <4> QED BY <3>1, <4>2, RankOf
    <3> QED BY <3>1, <3>2, RankOf
  <2> QED BY <2>1, <2>2
<1>3. ASSUME NEW n \in 0..Len(raws)
      PROVE  Rank(Decision([i \in 1..n |-> raws[i]])) <= Rank(Decision(raws))
  <2>1. PICK some : some = [i \in 1..n |-> raws[i]]
    OBVIOUS
  <2>2. \A i \in Watching(some, watched) : i \in Watching(raws, watched) /\ some[i] = raws[i]
    BY <2>1 DEF Watching, ParseCeilings
  <2>3. Watching(some, watched) \in SUBSET Nat
    BY <1>1, <2>2
  <2>4. Rank(Decision(raws)) \in 0..2
    BY <1>1, Evaluated, RankOf, Ranks
  <2>5. CASE Decision(some) = "ALLOW"
    BY <2>1, <2>4, <2>5, Ranks
  <2>6. CASE Decision(some) # "ALLOW"
    <3>1. PICK j \in Watching(some, watched) : Decision(some) = Of(some, j, events, now)
      BY <2>3, <2>6, Evaluated
    <3>2. Of(some, j, events, now) = Of(raws, j, events, now) /\ j \in Watching(raws, watched)
      BY <2>2, <3>1 DEF Of
    <3>3. PICK i \in Watching(raws, watched) :
            /\ Decision(raws) = Of(raws, i, events, now)
            /\ \A k \in Watching(raws, watched) : Before(raws, events, now, i, k)
      BY <1>1, <3>2, Evaluated
    <3>4. Before(raws, events, now, i, j)
      BY <3>2, <3>3
    <3>5. Rank(Of(raws, j, events, now)) <= Rank(Of(raws, i, events, now))
      BY <3>4, RankOf DEF Before
    <3> QED BY <2>1, <3>1, <3>2, <3>3, <3>5
  <2> QED BY <2>5, <2>6
<1> QED BY <1>2, <1>3 DEF NoCeilingIsLost

(* ---- the layers of spec compliance ---- *)

\* The sums of the first confidences.
Sums(s, N, sum) == sum = [n \in 0..N |-> IF n = 0 THEN 0 ELSE sum[n - 1] + Confidence(GapStatus(s[n]))]

LEMMA SumsExist == ASSUME NEW s, NEW N \in Nat PROVE \E sum : Sums(s, N, sum)
<1> DEFINE D == {n \in Nat : ~ \E sum : Sums(s, n, sum)}
<1> SUFFICES ASSUME D # {} PROVE FALSE
  OBVIOUS
<1>1. PICK n \in D : \A k \in D : n <= k
  <2>1. D \in SUBSET Nat
    OBVIOUS
  <2> HIDE DEF D
  <2> QED BY <2>1, Least
<1>2. CASE n = 0
  <2>1. PICK sum : sum = [k \in 0..0 |-> 0]
    OBVIOUS
  <2>2. Sums(s, n, sum)
    BY <1>2, <2>1 DEF Sums
  <2> QED BY <1>1, <2>2
<1>3. CASE n # 0
  <2>1. n - 1 \in Nat /\ ~ (n <= n - 1) /\ n \in Nat
    BY <1>1, <1>3
  <2>2. PICK before : Sums(s, n - 1, before)
    BY <1>1, <2>1
  <2>3. PICK sum : sum = [k \in 0..n |-> IF k # n THEN before[k] ELSE before[k - 1] + Confidence(GapStatus(s[k]))]
    OBVIOUS
  <2>4. ASSUME NEW k \in 0..n PROVE sum[k] = IF k = 0 THEN 0 ELSE sum[k - 1] + Confidence(GapStatus(s[k]))
    <3>1. k # n => k \in 0..(n - 1) /\ sum[k] = before[k]
      BY <2>1, <2>3
    <3>2. k # 0 => k - 1 \in 0..n /\ k - 1 # n /\ sum[k - 1] = before[k - 1]
      BY <2>1, <2>3
    <3>3. k = n => sum[k] = before[k - 1] + Confidence(GapStatus(s[k]))
      BY <2>3
    <3>4. k # n => before[k] = IF k = 0 THEN 0 ELSE before[k - 1] + Confidence(GapStatus(s[k]))
      BY <2>2, <3>1 DEF Sums
    <3> QED BY <1>3, <3>1, <3>2, <3>3, <3>4
  <2>5. sum = [k \in 0..n |-> sum[k]]
    BY <2>3
  <2>6. Sums(s, n, sum)
    BY <2>4, <2>5 DEF Sums
  <2> QED BY <1>1, <2>6
<1> QED BY <1>2, <1>3

LEMMA ConfidenceOf == ASSUME NEW gap PROVE Confidence(GapStatus(gap)) \in Nat /\ Confidence(GapStatus(gap)) >= 80
<1> DEFINE checks == {"path_exists", "line_in_range", "symbol_present"}
           held == {check \in DOMAIN GapStatus(gap) : GapStatus(gap)[check]}
<1>1. held \subseteq checks
  BY DEF GapStatus
<1>2. IsFiniteSet(checks)
  <2>1. IsFiniteSet({}) /\ checks = (({} \cup {"path_exists"}) \cup {"line_in_range"}) \cup {"symbol_present"}
    BY FS_EmptySet
  <2>2. IsFiniteSet({} \cup {"path_exists"})
    BY <2>1, FS_AddElement
  <2>3. IsFiniteSet(({} \cup {"path_exists"}) \cup {"line_in_range"})
    BY <2>2, FS_AddElement
  <2> QED BY <2>1, <2>3, FS_AddElement
<1>3. Cardinality(held) \in Nat
  BY <1>1, <1>2, FS_Subset, FS_CardinalityType
<1>4. Confidence(GapStatus(gap)) = 80 + 5 * Cardinality(held)
  BY DEF Confidence
<1> QED BY <1>3, <1>4

LEMMA SumsAtLeast ==
  ASSUME NEW s, NEW N \in Nat, NEW sum, Sums(s, N, sum)
  PROVE  sum[N] \in Nat /\ sum[N] >= 80 * N
<1> DEFINE D == {n \in 0..N : ~ (sum[n] \in Nat /\ sum[n] >= 80 * n)}
<1>1. ASSUME D # {} PROVE FALSE
  <2>1. PICK n \in D : \A k \in D : n <= k
    <3>1. D \in SUBSET Nat
      OBVIOUS
    <3> HIDE DEF D
    <3> QED BY <1>1, <3>1, Least
  <2>2. n # 0
    <3>1. 0 \in 0..N
      OBVIOUS
    <3>2. sum[0] = 0
      BY <3>1 DEF Sums
    <3> QED BY <2>1, <3>2
  <2>3. n \in 1..N /\ n - 1 \in 0..N /\ ~ (n <= n - 1)
    BY <2>1, <2>2
  <2>4. sum[n - 1] \in Nat /\ sum[n - 1] >= 80 * (n - 1)
    BY <2>1, <2>3
  <2>5. PICK c \in Nat : c >= 80 /\ sum[n] = sum[n - 1] + c
    <3>1. sum[n] = sum[n - 1] + Confidence(GapStatus(s[n]))
      BY <2>3 DEF Sums
    <3> QED BY <3>1, ConfidenceOf
  <2>6. sum[n] \in Nat /\ sum[n] >= 80 * n
    BY <2>3, <2>4, <2>5
  <2> QED BY <2>1, <2>6
<1>2. N \in 0..N
  OBVIOUS
<1> QED BY <1>1, <1>2

\* However many gaps are cited and however wrong the citations are, layer 1 never
\* warns: a citation counts for 80 at least and the warning is given below 60
\* (validate_gaps, gap_validator.py).
THEOREM CitationsAreNeverLow == \A length \in Nat : CitationsNeverWarn(length)
<1> SUFFICES ASSUME NEW length \in Nat, NEW n \in 0..length, NEW gaps \in [1..n -> Citations]
             PROVE  ~ LowConfidence(gaps)
  BY DEF CitationsNeverWarn
<1>1. Len(gaps) = n /\ n \in Nat
  OBVIOUS
<1>2. ConfidenceSum(gaps) \in Nat /\ ConfidenceSum(gaps) >= 80 * n
  <2> DEFINE sum == CHOOSE sum : Sums(gaps, n, sum)
  <2>1. ConfidenceSum(gaps) = sum[n]
    BY <1>1 DEF ConfidenceSum, Sums
  <2>2. Sums(gaps, n, sum)
    BY <1>1, SumsExist
  <2> HIDE DEF sum
  <2> QED BY <1>1, <2>1, <2>2, SumsAtLeast
<1>3. ~ (ConfidenceSum(gaps) < 60 * n)
  BY <1>1, <1>2
<1> QED BY <1>1, <1>3 DEF LowConfidence

Unplanned(T) == [plan |-> <<>>, tests |-> T, raised |-> FALSE]
\* What has been planned after the first verdicts.
Plans(vs, T, N, run) ==
  run = [n \in 0..N |-> IF n = 0 THEN Unplanned(T) ELSE PlanTest(run[n - 1], vs[n], FALSE)]

LEMMA PlansExist == ASSUME NEW vs, NEW T, NEW N \in Nat PROVE \E run : Plans(vs, T, N, run)
<1> DEFINE D == {n \in Nat : ~ \E run : Plans(vs, T, n, run)}
<1> SUFFICES ASSUME D # {} PROVE FALSE
  OBVIOUS
<1>1. PICK n \in D : \A k \in D : n <= k
  <2>1. D \in SUBSET Nat
    OBVIOUS
  <2> HIDE DEF D
  <2> QED BY <2>1, Least
<1>2. CASE n = 0
  <2>1. PICK run : run = [k \in 0..0 |-> Unplanned(T)]
    OBVIOUS
  <2>2. Plans(vs, T, n, run)
    BY <1>2, <2>1 DEF Plans
  <2> QED BY <1>1, <2>2
<1>3. CASE n # 0
  <2>1. n - 1 \in Nat /\ ~ (n <= n - 1) /\ n \in Nat
    BY <1>1, <1>3
  <2>2. PICK before : Plans(vs, T, n - 1, before)
    BY <1>1, <2>1
  <2>3. PICK run : run = [k \in 0..n |-> IF k # n THEN before[k] ELSE PlanTest(before[k - 1], vs[k], FALSE)]
    OBVIOUS
  <2>4. ASSUME NEW k \in 0..n PROVE run[k] = IF k = 0 THEN Unplanned(T) ELSE PlanTest(run[k - 1], vs[k], FALSE)
    <3>1. k # n => k \in 0..(n - 1) /\ run[k] = before[k]
      BY <2>1, <2>3
    <3>0. k # 0 => k - 1 \in 0..n /\ k - 1 # n
      BY <2>1
    <3>2. k # 0 => run[k - 1] = before[k - 1]
      BY <2>3, <3>0
    <3>3. k = n => run[k] = PlanTest(before[k - 1], vs[k], FALSE)
      BY <2>3
    <3>4. k # n => before[k] = IF k = 0 THEN Unplanned(T) ELSE PlanTest(before[k - 1], vs[k], FALSE)
      BY <2>2, <3>1 DEF Plans
    <3> QED BY <1>3, <3>1, <3>2, <3>3, <3>4
  <2>5. run = [k \in 0..n |-> run[k]]
    BY <2>3
  <2>6. Plans(vs, T, n, run)
    BY <2>4, <2>5 DEF Plans
  <2> QED BY <1>1, <2>6
<1> QED BY <1>2, <1>3

Outcomes == {"found", "skipped", "created"}
Plannings == [plan : Seq(Outcomes), tests : SUBSET ReqIds, raised : BOOLEAN]
Created(state) == \E i \in DOMAIN state.plan : state.plan[i] = "created"
\* The first n verdicts are planned for.
Planned(vs, T, n, state) ==
  /\ state \in Plannings /\ T \subseteq state.tests
  /\ ~ state.raised => \A k \in 1..n : vs[k].status = "implemented" => vs[k].req \in state.tests
  /\ ~ Created(state) => state.tests = T

LEMMA AppendFacts ==
  ASSUME NEW S, NEW s \in Seq(S), NEW x \in S
  PROVE  /\ Append(s, x) \in Seq(S) /\ DOMAIN Append(s, x) = 1..(Len(s) + 1)
         /\ DOMAIN s = 1..Len(s) /\ Len(s) \in Nat
         /\ \A i \in 1..Len(s) : Append(s, x)[i] = s[i]
         /\ Append(s, x)[Len(s) + 1] = x
OBVIOUS

LEMMA CreatedAfter ==
  ASSUME NEW state \in Plannings, NEW x \in Outcomes, NEW next, next.plan = Append(state.plan, x)
  PROVE  next.plan \in Seq(Outcomes) /\ (Created(next) <=> x = "created" \/ Created(state))
<1>1. PICK s \in Seq(Outcomes) : s = state.plan
  BY DEF Plannings
<1>2. /\ Append(s, x) \in Seq(Outcomes) /\ DOMAIN Append(s, x) = 1..(Len(s) + 1)
      /\ DOMAIN s = 1..Len(s) /\ Len(s) \in Nat
      /\ \A i \in 1..Len(s) : Append(s, x)[i] = s[i]
      /\ Append(s, x)[Len(s) + 1] = x
  BY AppendFacts
<1>3. PICK e : e = Append(s, x)
  OBVIOUS
<1>4. \A i \in 1..(Len(s) + 1) : i = Len(s) + 1 \/ i \in 1..Len(s)
  BY <1>2
<1>5. Len(s) + 1 \in 1..(Len(s) + 1) /\ \A i \in 1..Len(s) : i \in 1..(Len(s) + 1)
  BY <1>2
<1>6. (\E i \in DOMAIN e : e[i] = "created") <=> x = "created" \/ \E i \in DOMAIN s : s[i] = "created"
  BY <1>2, <1>3, <1>4, <1>5
<1> QED BY <1>1, <1>2, <1>3, <1>6 DEF Created

LEMMA PlanTestIs ==
  ASSUME NEW P, NEW X, NEW v, v.status = "implemented", v.req \in ReqIds
  PROVE  PlanTest([plan |-> P, tests |-> X, raised |-> FALSE], v, FALSE)
           = [plan |-> Append(P, IF v.req \in X THEN "found" ELSE "created"),
              tests |-> X \cup {v.req}, raised |-> FALSE]
<1>1. CASE v.req \in X
  <2>1. PlanTest([plan |-> P, tests |-> X, raised |-> FALSE], v, FALSE)
          = [plan |-> Append(P, "found"), tests |-> X, raised |-> FALSE]
    BY <1>1 DEF PlanTest
  <2>2. X \cup {v.req} = X
    BY <1>1
  <2> QED BY <1>1, <2>1, <2>2
<1>2. CASE v.req \notin X
  BY <1>2 DEF PlanTest
<1> QED BY <1>1, <1>2

LEMMA PlanningFields ==
  ASSUME NEW P, NEW X, NEW next, next = [plan |-> P, tests |-> X, raised |-> FALSE]
  PROVE  next.plan = P /\ next.tests = X /\ ~ next.raised
OBVIOUS

LEMMA IsPlanning ==
  ASSUME NEW P \in Seq(Outcomes), NEW X \in SUBSET ReqIds
  PROVE  [plan |-> P, tests |-> X, raised |-> FALSE] \in Plannings
BY DEF Plannings

TestPlanned(state, v, x, next) ==
  /\ x = IF v.req \in state.tests THEN "found" ELSE "created"
  /\ next.plan = Append(state.plan, x)
  /\ next.tests = state.tests \cup {v.req} /\ ~ next.raised
  /\ next = [plan |-> next.plan, tests |-> next.tests, raised |-> FALSE]

LEMMA TestPlannedWhen ==
  ASSUME NEW state, NEW v, NEW x, x = IF v.req \in state.tests THEN "found" ELSE "created", NEW next,
         next = [plan |-> Append(state.plan, x), tests |-> state.tests \cup {v.req}, raised |-> FALSE]
  PROVE  TestPlanned(state, v, x, next)
<1>1. PICK Q, Y : Q = Append(state.plan, x) /\ Y = state.tests \cup {v.req}
  OBVIOUS
<1>2. next = [plan |-> Q, tests |-> Y, raised |-> FALSE]
  BY <1>1
<1>3. next.plan = Q /\ next.tests = Y /\ ~ next.raised
  BY <1>2, PlanningFields
<1> QED BY <1>1, <1>2, <1>3 DEF TestPlanned

LEMMA PlanTestFacts ==
  ASSUME NEW state \in Plannings, NEW v, ~ state.raised, v.status = "implemented", v.req \in ReqIds,
         NEW next, next = PlanTest(state, v, FALSE)
  PROVE  \E x \in Outcomes : TestPlanned(state, v, x, next)
<1>1. PICK P, X : P = state.plan /\ X = state.tests
  OBVIOUS
<1>2. state = [plan |-> P, tests |-> X, raised |-> FALSE]
  BY <1>1 DEF Plannings
<1>3. PICK x \in Outcomes : x = IF v.req \in X THEN "found" ELSE "created"
  BY DEF Outcomes
<1>4. next = [plan |-> Append(P, x), tests |-> X \cup {v.req}, raised |-> FALSE]
  BY <1>2, <1>3, PlanTestIs
<1> QED BY <1>1, <1>3, <1>4, TestPlannedWhen

LEMMA PlanOneMore ==
  ASSUME NEW vs, NEW T, NEW n \in Nat \ {0}, NEW state, Planned(vs, T, n - 1, state)
  PROVE  Planned(vs, T, n, PlanTest(state, vs[n], FALSE))
<1> DEFINE v == vs[n]
<1>1. \A k \in 1..n : k = n \/ k \in 1..(n - 1)
  OBVIOUS
<1>2. state \in Plannings /\ T \subseteq state.tests
  BY DEF Planned
<1>3. CASE state.raised
  <2>1. PlanTest(state, v, FALSE) = state
    BY <1>3 DEF PlanTest
  <2> QED BY <1>3, <2>1 DEF Planned
<1>4. CASE ~ state.raised /\ v.status # "implemented"
  <2>1. PlanTest(state, v, FALSE) = state
    BY <1>4 DEF PlanTest
  <2> QED BY <1>1, <1>4, <2>1 DEF Planned
<1>5. CASE ~ state.raised /\ v.status = "implemented" /\ v.req \notin ReqIds
  <2>1. PICK next : next = PlanTest(state, v, FALSE)
    OBVIOUS
  <2>2. next = [state EXCEPT !.raised = TRUE]
    BY <1>5, <2>1 DEF PlanTest
  <2>3. next \in Plannings /\ next.raised /\ next.plan = state.plan /\ next.tests = state.tests
    BY <1>2, <2>2 DEF Plannings
  <2> QED BY <2>1, <2>3 DEF Planned, Created
<1>6. CASE ~ state.raised /\ v.status = "implemented" /\ v.req \in ReqIds
  <2>0. PICK next : next = PlanTest(state, v, FALSE)
    OBVIOUS
  <2>1. PICK x \in Outcomes : TestPlanned(state, v, x, next)
    BY <1>2, <1>6, <2>0, PlanTestFacts
  <2>2. next.tests = state.tests \cup {v.req} /\ ~ next.raised
        /\ next = [plan |-> next.plan, tests |-> next.tests, raised |-> FALSE]
    BY <2>1 DEF TestPlanned
  <2>3. x \in Outcomes /\ next.plan = Append(state.plan, x) /\ (x # "created" => v.req \in state.tests)
    BY <2>1 DEF TestPlanned
  <2>4. next.plan \in Seq(Outcomes) /\ (Created(next) <=> x = "created" \/ Created(state))
    BY <1>2, <2>3, CreatedAfter
  <2>5. next.tests \subseteq ReqIds /\ state.tests \subseteq next.tests
    BY <1>2, <1>6, <2>2 DEF Plannings
  <2>6. next \in Plannings
    BY <2>2, <2>4, <2>5, IsPlanning
  <2>7. \A k \in 1..n : vs[k].status = "implemented" => vs[k].req \in next.tests
    BY <1>1, <1>6, <2>2 DEF Planned
  <2>8. ~ Created(next) => next.tests = T
    <3> SUFFICES ASSUME ~ Created(next) PROVE next.tests = T
      OBVIOUS
    <3>1. v.req \in state.tests /\ ~ Created(state)
      BY <2>3, <2>4
    <3> QED BY <2>2, <3>1 DEF Planned
  <2>9. ~ state.raised => ~ next.raised /\ T \subseteq next.tests
    BY <1>2, <2>2, <2>5
  <2>10. Planned(vs, T, n, next)
    BY <2>6, <2>7, <2>8, <2>9, <1>6 DEF Planned
  <2> QED BY <2>0, <2>10
<1> QED BY <1>3, <1>4, <1>5, <1>6

LEMMA PlansArePlanned ==
  ASSUME NEW vs, NEW T \in SUBSET ReqIds, NEW N \in Nat, NEW run, Plans(vs, T, N, run)
  PROVE  Planned(vs, T, N, run[N])
<1> DEFINE D == {n \in 0..N : ~ Planned(vs, T, n, run[n])}
<1>1. ASSUME D # {} PROVE FALSE
  <2>1. PICK n \in D : \A k \in D : n <= k
    <3>1. D \in SUBSET Nat
      OBVIOUS
    <3> HIDE DEF D
    <3> QED BY <1>1, <3>1, Least
  <2>2. n # 0
    <3>1. run[0] = Unplanned(T)
      BY DEF Plans
    <3>2. Planned(vs, T, 0, Unplanned(T))
      BY DEF Planned, Plannings, Unplanned
    <3> QED BY <2>1, <3>1, <3>2
  <2>3. n \in 1..N /\ n \in Nat \ {0} /\ n - 1 \in 0..N /\ ~ (n <= n - 1)
    BY <2>1, <2>2
  <2>4. Planned(vs, T, n - 1, run[n - 1])
    BY <2>1, <2>3
  <2>5. run[n] = PlanTest(run[n - 1], vs[n], FALSE)
    BY <2>3 DEF Plans
  <2>6. Planned(vs, T, n, run[n])
    BY <2>3, <2>4, <2>5, PlanOneMore
  <2> QED BY <2>1, <2>6
<1>2. N \in 0..N
  OBVIOUS
<1> QED BY <1>1, <1>2

\* Once every implemented requirement has its test there is nothing left to create.
NothingLeft(T, state) == state \in Plannings /\ ~ state.raised /\ state.tests = T /\ ~ Created(state)

LEMMA PlansSettle ==
  ASSUME NEW vs, NEW T \in SUBSET ReqIds, NEW N \in Nat, NEW run, Plans(vs, T, N, run),
         \A k \in 1..N : vs[k].status = "implemented" => vs[k].req \in T
  PROVE  NothingLeft(T, run[N])
<1> DEFINE D == {n \in 0..N : ~ NothingLeft(T, run[n])}
<1>1. ASSUME D # {} PROVE FALSE
  <2>1. PICK n \in D : \A k \in D : n <= k
    <3>1. D \in SUBSET Nat
      OBVIOUS
    <3> HIDE DEF D
    <3> QED BY <1>1, <3>1, Least
  <2>2. n # 0
    <3>1. run[0] = Unplanned(T)
      BY DEF Plans
    <3>2. NothingLeft(T, Unplanned(T))
      BY DEF NothingLeft, Plannings, Unplanned, Created
    <3> QED BY <2>1, <3>1, <3>2
  <2>3. n \in 1..N /\ n - 1 \in 0..N /\ ~ (n <= n - 1)
    BY <2>1, <2>2
  <2>4. PICK state : state = run[n - 1] /\ NothingLeft(T, state)
    BY <2>1, <2>3
  <2>5. run[n] = PlanTest(run[n - 1], vs[n], FALSE)
    <3>1. n \in 0..N /\ n # 0
      BY <2>3
    <3> QED BY <3>1 DEF Plans
  <2>6. CASE vs[n].status # "implemented"
    <3>1. run[n] = state
      BY <2>4, <2>5, <2>6 DEF PlanTest
    <3> QED BY <2>1, <2>4, <3>1
  <2>7. CASE vs[n].status = "implemented"
    <3>1. vs[n].req \in T /\ vs[n].req \in ReqIds /\ state \in Plannings /\ ~ state.raised
          /\ state.tests = T /\ ~ Created(state)
      BY <2>3, <2>4, <2>7 DEF NothingLeft
    <3>2. PICK v : v = vs[n]
      OBVIOUS
    <3>n. PICK next : next = PlanTest(state, v, FALSE)
      OBVIOUS
    <3>3. PICK x \in Outcomes : TestPlanned(state, v, x, next)
      BY <2>7, <3>1, <3>2, <3>n, PlanTestFacts
    <3>4. next = run[n] /\ next.plan = Append(state.plan, "found") /\ next.tests = T
      BY <2>4, <2>5, <3>1, <3>2, <3>n, <3>3 DEF TestPlanned
    <3>5. next.plan \in Seq(Outcomes) /\ ~ Created(next)
      BY <3>1, <3>4, CreatedAfter DEF Outcomes
    <3>6. NothingLeft(T, next)
      <4>1. next = [plan |-> next.plan, tests |-> next.tests, raised |-> FALSE] /\ ~ next.raised
        BY <3>3 DEF TestPlanned
      <4>2. next \in Plannings
        BY <3>4, <3>5, <4>1, IsPlanning
      <4> QED BY <3>4, <3>5, <4>1, <4>2 DEF NothingLeft
    <3> QED BY <2>1, <3>4, <3>6
  <2> QED BY <2>6, <2>7
<1>2. N \in 0..N
  OBVIOUS
<1> QED BY <1>1, <1>2

LEMMA PlanOf ==
  ASSUME NEW vs, Len(vs) \in Nat, NEW T \in SUBSET ReqIds
  PROVE  \E run : Plans(vs, T, Len(vs), run) /\ PlanFeatureTests(vs, T, FALSE) = run[Len(vs)]
<1>1. PICK N \in Nat : N = Len(vs)
  OBVIOUS
<1> DEFINE run == CHOOSE run : Plans(vs, T, N, run)
<1>2. PlanFeatureTests(vs, T, FALSE) = run[N]
  BY <1>1 DEF PlanFeatureTests, Plans, Unplanned
<1>3. Plans(vs, T, N, run)
  BY <1>1, PlansExist
<1> HIDE DEF run
<1> QED BY <1>1, <1>2, <1>3

Judged(vs, plan) ==
  IF \E i \in DOMAIN vs : vs[i].status = "missing" THEN "block"
  ELSE IF Created(plan) THEN "warn" ELSE "pass"
Answered(vs, disk, plan) ==
  IF plan.raised THEN [answer |-> "error", disk |-> [disk EXCEPT !.tests = plan.tests]]
  ELSE [answer |-> Judged(vs, plan), disk |-> [tests |-> plan.tests, result |-> Judged(vs, plan)]]

LEMMA Trusted ==
  ASSUME NEW disk, NEW child
  PROVE  TrustVerify(disk, <<>>, child)
           = IF ~ CheckCompliance(child).ok THEN [answer |-> "error", disk |-> disk]
             ELSE Answered(CheckCompliance(child).verdicts, disk,
                           PlanFeatureTests(CheckCompliance(child).verdicts, disk.tests, FALSE))
<1>1. ParseGapList(<<>>).ok = TRUE /\ ParseGapList(<<>>).gaps = <<>>
  BY DEF ParseGapList
<1>2. ~ LowConfidence(<<>>)
  BY DEF LowConfidence
<1>3. PICK l1, l2, l3 : /\ l1 = ParseGapList(<<>>) /\ l2 = CheckCompliance(child)
                       /\ l3 = PlanFeatureTests(l2.verdicts, disk.tests, FALSE)
  OBVIOUS
<1>4. Judged(l2.verdicts, l3) = Decide(l1.gaps, l2.verdicts, l3.plan)
  BY <1>1, <1>2, <1>3 DEF Decide, Created, Judged
<1>5. PICK decision : decision = Judged(l2.verdicts, l3)
  OBVIOUS
<1>6. TrustVerify(disk, <<>>, child)
        = IF ~ l1.ok \/ ~ l2.ok THEN [answer |-> "error", disk |-> disk]
          ELSE IF l3.raised THEN [answer |-> "error", disk |-> [disk EXCEPT !.tests = l3.tests]]
          ELSE [answer |-> decision, disk |-> [tests |-> l3.tests, result |-> decision]]
  BY <1>3, <1>4, <1>5 DEF TrustVerify
<1> QED BY <1>1, <1>3, <1>5, <1>6 DEF Answered

\* Whatever the model answers and the disk holds: a pass means every implemented
\* requirement already had its test, a warning has left the tests behind that make
\* the next run pass, and what is stored is the answer (trust_verify.py).
THEOREM PassesAreEarned ==
  ASSUME NEW children, \A child \in children : /\ Len(child.verdicts) \in Nat
                                               /\ DOMAIN child.verdicts = 1..Len(child.verdicts),
         NEW disks, \A disk \in disks : /\ disk = [tests |-> disk.tests, result |-> disk.result]
                                        /\ disk.tests \subseteq ReqIds
  PROVE  PassIsEarned(children, disks)
<1> SUFFICES ASSUME NEW child \in children, NEW disk \in disks,
                    NEW first, first = TrustVerify(disk, <<>>, child),
                    NEW again, again = TrustVerify(first.disk, <<>>, child)
             PROVE  /\ first.answer = "pass" =>
                         /\ child.exit = 0
                         /\ \A i \in DOMAIN child.verdicts :
                              /\ child.verdicts[i].status \in {"implemented", "partial"}
                              /\ child.verdicts[i].status = "implemented" =>
                                   child.verdicts[i].req \in disk.tests
                    /\ first.answer = "warn" => again.answer = "pass"
                    /\ first.disk.result = IF first.answer = "error" THEN disk.result ELSE first.answer
  BY DEF PassIsEarned
<1>1. PICK vs : vs = child.verdicts
  OBVIOUS
<1>2. PICK N \in Nat : N = Len(vs) /\ DOMAIN vs = 1..N
  BY <1>1
<1>3. PICK T : T = disk.tests /\ T \subseteq ReqIds
  OBVIOUS
<1>4. PICK plan : plan = PlanFeatureTests(vs, T, FALSE)
  OBVIOUS
<1>5. Planned(vs, T, N, plan)
  BY <1>2, <1>3, <1>4, PlanOf, PlansArePlanned
<1> DEFINE Malformed == child.exit # 0 \/ \E i \in DOMAIN vs : \/ vs[i].status \notin {"implemented", "missing", "partial"}
                                                       \/ vs[i].req = ""
                                                       \/ vs[i].confidence \notin 0..100
           Absent == \E i \in DOMAIN vs : vs[i].status = "missing"
<1>6. CheckCompliance(child) = IF Malformed THEN [ok |-> FALSE, verdicts |-> <<>>] ELSE [ok |-> TRUE, verdicts |-> vs]
  BY <1>1 DEF CheckCompliance
<1> HIDE DEF Malformed
<1>7. ~ Malformed => \A d : TrustVerify(d, <<>>, child) = Answered(vs, d, PlanFeatureTests(vs, d.tests, FALSE))
  <2>1. ~ Malformed => CheckCompliance(child).ok = TRUE /\ CheckCompliance(child).verdicts = vs
    BY <1>6
  <2> QED BY <2>1, Trusted
<1>8. CASE Malformed
  <2>1. first = [answer |-> "error", disk |-> disk]
    <3>1. CheckCompliance(child).ok = FALSE
      BY <1>6, <1>8
    <3> QED BY <3>1, Trusted
  <2> QED BY <2>1
<1>9. CASE ~ Malformed /\ plan.raised
  <2>1. first = [answer |-> "error", disk |-> [disk EXCEPT !.tests = plan.tests]]
    BY <1>3, <1>4, <1>7, <1>9 DEF Answered
  <2>2. [disk EXCEPT !.tests = plan.tests].result = disk.result
    OBVIOUS
  <2> QED BY <2>1, <2>2
<1>10. CASE ~ Malformed /\ ~ plan.raised
  <2> DEFINE decision == Judged(vs, plan)
  <2>1. first = [answer |-> decision, disk |-> [tests |-> plan.tests, result |-> decision]]
    BY <1>3, <1>4, <1>7, <1>10 DEF Answered
  <2> HIDE DEF decision
  <2>2. first.disk.result = first.answer /\ first.answer = decision /\ first.disk.tests = plan.tests
    BY <2>1
  <2>3. decision \in {"pass", "warn", "block"}
    BY DEF decision, Judged
  <2>4. ASSUME decision = "pass"
        PROVE  /\ child.exit = 0
               /\ \A i \in DOMAIN vs : /\ vs[i].status \in {"implemented", "partial"}
                                       /\ vs[i].status = "implemented" => vs[i].req \in T
    <3>1. ~ Absent /\ ~ Created(plan)
      BY <2>4 DEF decision, Judged
    <3>2. plan.tests = T /\ \A k \in 1..N : vs[k].status = "implemented" => vs[k].req \in T
      BY <1>5, <1>10, <3>1 DEF Planned
    <3> QED BY <1>2, <1>10, <3>1, <3>2 DEF Malformed
  <2>5. ASSUME decision = "warn" PROVE again.answer = "pass"
    <3>1. ~ Absent
      BY <2>5 DEF decision, Judged
    <3>2. PICK U : U = plan.tests /\ U \subseteq ReqIds
                   /\ \A k \in 1..N : vs[k].status = "implemented" => vs[k].req \in U
      BY <1>5, <1>10 DEF Planned, Plannings
    <3>3. PICK more : more = PlanFeatureTests(vs, U, FALSE)
      OBVIOUS
    <3>4. NothingLeft(U, more)
      <4>1. PICK run : Plans(vs, U, N, run) /\ more = run[N]
        BY <1>2, <3>2, <3>3, PlanOf
      <4> QED BY <3>2, <4>1, PlansSettle
    <3>5. first.disk.tests = U
      BY <2>2, <3>2
    <3>6. ~ more.raised /\ ~ Created(more)
      BY <3>4 DEF NothingLeft
    <3>7. Judged(vs, more) = "pass"
      BY <3>1, <3>6 DEF Judged
    <3>8. again = Answered(vs, first.disk, more)
      BY <1>7, <1>10, <3>3, <3>5
    <3> QED BY <3>6, <3>7, <3>8 DEF Answered
  <2> QED BY <1>1, <1>3, <2>2, <2>3, <2>4, <2>5
<1> QED BY <1>8, <1>9, <1>10
=============================================================================
