----------------------------- MODULE Readiness -----------------------------
(***************************************************************************)
(* Risk profiles (core/risk_profile.py) and the readiness of a story or an *)
(* epic (core/readiness_gate.py), with the run that reads and stores both  *)
(* (core/gate_orchestrator.py run_readiness_gate).  A risk entry is        *)
(* [category, probability, impact, score, mitigated], mitigated being      *)
(* whether it has a rationale; a profile is a sequence of entries.         *)
(***************************************************************************)
EXTENDS Naturals, Sequences, FiniteSetsExt, SequencesExt

RiskCategories == {"TECH", "SEC", "PERF", "DATA", "BUS", "OPS"}
Priorities == {"P0", "P1", "P2", "P3"}
Order(priority) == CASE priority = "P0" -> 0 [] priority = "P1" -> 1
                     [] priority = "P2" -> 2 [] priority = "P3" -> 3
MostUrgent(priorities) ==
  IF priorities = {} THEN "P3"
  ELSE CHOOSE p \in priorities : \A q \in priorities : Order(p) <= Order(q)

\* A profile is refused as a whole when any entry is wrong, and a category may
\* occur once.
ValidRiskEntry(entry) ==
  /\ entry.category \in RiskCategories
  /\ entry.probability \in 1..3 /\ entry.impact \in 1..3
  /\ entry.score = entry.probability * entry.impact
ValidRiskProfile(entries) ==
  /\ entries # <<>>
  /\ \A i \in DOMAIN entries : ValidRiskEntry(entries[i])
  /\ \A i, j \in DOMAIN entries : entries[i].category = entries[j].category => i = j

\* The priority of a score is that of the highest threshold it reaches.
DefaultRiskThresholds == [t \in {9, 6, 3, 1} |->
  CASE t = 9 -> "P0" [] t = 6 -> "P1" [] t = 3 -> "P2" [] t = 1 -> "P3"]
RiskScoreToPriority(score, thresholds) ==
  LET reached == {t \in DOMAIN thresholds : score >= t}
  IN  IF reached = {} THEN "P3" ELSE thresholds[Max(reached)]
AggregateRiskPriority(entries, thresholds) ==
  MostUrgent({RiskScoreToPriority(entries[i].score, thresholds) : i \in DOMAIN entries})
HasUnmitigatedRisk9(entries) ==
  \E i \in DOMAIN entries : entries[i].score = 9 /\ ~entries[i].mitigated
RiskScoreToAction(score) ==
  IF score <= 3 THEN "DOCUMENT" ELSE IF score <= 5 THEN "MONITOR"
  ELSE IF score <= 8 THEN "MITIGATE" ELSE "BLOCK"
ActionBlocksRelease(action) == action = "BLOCK"

\* The decisions a profile of the product forbids the story until.
Blockers(forbidden, story) == {adr \in DOMAIN forbidden : story \in forbidden[adr]}

\* check_readiness.  Open decisions come first; a story nobody assessed is not
\* ready.  An unmitigated risk of nine is reported, and stops nothing here.
CheckReadiness(story, forbidden, entries) ==
  IF Blockers(forbidden, story) # {} THEN [verdict |-> "BLOCKED", priority |-> ""]
  ELSE IF entries = <<>> THEN [verdict |-> "NEEDS_RISK", priority |-> ""]
  ELSE IF ~ValidRiskProfile(entries) THEN [verdict |-> "error", priority |-> ""]
  ELSE [verdict |-> "READY", priority |-> AggregateRiskPriority(entries, DefaultRiskThresholds)]
CanCreate(story, forbidden, entries) == CheckReadiness(story, forbidden, entries).verdict = "READY"

\* check_epic_readiness: the worst verdict, and with READY the most urgent priority.
CheckEpicReadiness(stories, forbidden, risks) ==
  LET results == {CheckReadiness(s, forbidden, risks[s]) : s \in stories}
      verdicts == {r.verdict : r \in results}
      verdict == IF stories = {} THEN "NEEDS_RISK"
                 ELSE IF "error" \in verdicts THEN "error"
                 ELSE IF "BLOCKED" \in verdicts THEN "BLOCKED"
                 ELSE IF "NEEDS_RISK" \in verdicts THEN "NEEDS_RISK" ELSE "READY"
  IN  [verdict |-> verdict,
       priority |-> IF verdict = "READY" THEN MostUrgent({r.priority : r \in results}) ELSE ""]

\* run_readiness_gate.  The disk holds a risk profile and a result per story,
\* None where there is none; given entries replace the stored profile, and a
\* stored profile that is no longer valid counts as none.
CONSTANT None
RunReadinessGate(disk, story, forbidden, given) ==
  LET risks == IF given # None /\ given # <<>> THEN [disk.risks EXCEPT ![story] = given]
               ELSE disk.risks
      entries == IF given # None THEN given
                 ELSE IF disk.risks[story] # None /\ ValidRiskProfile(disk.risks[story])
                 THEN disk.risks[story] ELSE <<>>
      result == CheckReadiness(story, forbidden, entries)
  IN  IF given \notin {None, <<>>} /\ ~ValidRiskProfile(given)
      THEN [disk |-> disk, result |-> [verdict |-> "error", priority |-> ""]]
      ELSE [disk |-> [risks |-> risks, results |-> [disk.results EXCEPT ![story] = result]],
            result |-> result]

\* The readiness verifier reads what the last run stored, whenever that was.
ReadinessVerified(disk, story) ==
  disk.results[story] # None /\ disk.results[story].verdict = "READY"

(* ---- checked over bounded inputs ---- *)

Entries(scores) ==
  {[category |-> c, probability |-> p, impact |-> i, score |-> p * i, mitigated |-> m] :
     c \in {"TECH", "SEC"}, p \in scores, i \in scores, m \in BOOLEAN}
\* Another risk, or a greater one, never makes a story less urgent; a risk that
\* blocks a release makes it P0 (risk_profile.py:123 against :279).
RisksOnlyRaise(scores) ==
  \A a, b \in Entries(scores) :
    LET both == <<a, b>>
        Urgency(entries) == Order(AggregateRiskPriority(entries, DefaultRiskThresholds))
    IN  ValidRiskProfile(both) =>
          /\ Urgency(both) <= Urgency(<<a>>)
          /\ (a.score <= b.score) => Urgency(<<b>>) <= Urgency(<<a>>)
          /\ (\E e \in {a, b} : ActionBlocksRelease(RiskScoreToAction(e.score)))
               => AggregateRiskPriority(both, DefaultRiskThresholds) = "P0"
\* An epic is ready exactly when each of its stories is, and as urgent as the
\* most urgent of them.
EpicsAreTheirStories(stories, profiles) ==
  \A forbidden \in [{"adr"} -> SUBSET stories], risks \in [stories -> profiles] :
    LET epic == CheckEpicReadiness(stories, forbidden, risks)
        Of(s) == CheckReadiness(s, forbidden, risks[s])
    IN  /\ epic.verdict = "READY" <=> \A s \in stories : Of(s).verdict = "READY"
        /\ epic.verdict = "READY" =>
             /\ \E s \in stories : Of(s).priority = epic.priority
             /\ \A s \in stories : Order(epic.priority) <= Order(Of(s).priority)
=============================================================================
