---------------------------- MODULE GateRouting ----------------------------
(***************************************************************************)
(* What becomes of a story, or of an epic, once its gate has spoken:       *)
(* core/gate_orchestrator.py route_gate_verdict, core/system_gate.py       *)
(* route_epic_verdict, the records of core/gate_status.py and the tasks    *)
(* core/gate_remediation.py writes into a story file.  A gate file is      *)
(* [overall, categories], categories giving each category's verdict; the   *)
(* records are [parked, debt, tasks], by target, with None for no record.  *)
(***************************************************************************)
EXTENDS Naturals, Sequences, FiniteSets
CONSTANT None

Verdicts == {"PASS", "CONCERNS", "FAIL", "WAIVED"}
CategoriesWith(gate, verdict) == {c \in DOMAIN gate.categories : gate.categories[c] = verdict}
\* The tasks of a failed gate: one per category that failed, and for no other.
RemediationTasks(gate) == CategoriesWith(gate, "FAIL")

\* park_story and record_mitigation_debt replace a record that was there.
ParkStory(records, target, reason) == [records EXCEPT !.parked[target] = reason]
RecordMitigationDebt(records, target, categories) == [records EXCEPT !.debt[target] = categories]
ClearMitigationDebt(records, target) == [records EXCEPT !.debt[target] = None]
ListParked(records, reason) ==
  {t \in DOMAIN records.parked : records.parked[t] # None /\ reason \in {None, records.parked[t]}}
\* resume_story: a record that cannot be parsed is neither returned nor removed.
ResumeStory(records, target) ==
  IF records.parked[target] \in {None, "corrupt"} THEN [records |-> records, resumed |-> FALSE]
  ELSE [records |-> [records EXCEPT !.parked[target] = None], resumed |-> TRUE]

\* write_remediation_to_story puts the tasks in front of those that stand there:
\* a task is written again each time.
WriteTasks(records, target, tasks) ==
  [records EXCEPT !.tasks[target] = [c \in tasks \cup DOMAIN @ |->
     (IF c \in DOMAIN @ THEN @[c] ELSE 0) + (IF c \in tasks THEN 1 ELSE 0)]]

\* route_gate_verdict.  A verdict outside the vocabulary is a failure; a story
\* with an unmitigated risk of nine, or at its last cycle, is parked; any other
\* gets its tasks, if its file could be written.
RouteGateVerdict(records, gate, target, cycle, maxCycles, risk9, writable) ==
  CASE gate.overall \in {"PASS", "WAIVED"} ->
         [action |-> "done", cycle |-> cycle, records |-> records]
    [] gate.overall = "CONCERNS" ->
         [action |-> "done", cycle |-> cycle,
          records |-> RecordMitigationDebt(records, target, CategoriesWith(gate, "CONCERNS"))]
    [] gate.overall \notin {"PASS", "WAIVED", "CONCERNS"} /\ risk9 ->
         [action |-> "park", cycle |-> cycle, records |-> ParkStory(records, target, "risk-9")]
    [] gate.overall \notin {"PASS", "WAIVED", "CONCERNS"} /\ ~risk9 /\ cycle >= maxCycles ->
         [action |-> "park", cycle |-> cycle, records |-> ParkStory(records, target, "exhausted")]
    [] OTHER ->
         [action |-> "remediate", cycle |-> cycle + 1,
          records |-> IF writable /\ RemediationTasks(gate) # {}
                      THEN WriteTasks(records, target, RemediationTasks(gate)) ELSE records]

\* route_epic_verdict: a failed epic reopens all of its stories.  A verdict
\* outside the vocabulary counts as failed and reopens none.
StoriesToReopen(gate, stories) == IF gate.overall = "FAIL" THEN stories ELSE {}
RouteEpicVerdict(records, gate, epic, stories, cycle, maxCycles) ==
  CASE gate.overall \in {"PASS", "WAIVED"} ->
         [action |-> "done", reopened |-> {}, cycle |-> cycle, records |-> records]
    [] gate.overall = "CONCERNS" ->
         [action |-> "done", reopened |-> {}, cycle |-> cycle,
          records |-> RecordMitigationDebt(records, epic, CategoriesWith(gate, "CONCERNS"))]
    [] gate.overall \notin {"PASS", "WAIVED", "CONCERNS"} /\ cycle >= maxCycles ->
         [action |-> "park", reopened |-> {}, cycle |-> cycle,
          records |-> ParkStory(records, epic, "exhausted")]
    [] OTHER ->
         [action |-> "reopen", reopened |-> StoriesToReopen(gate, stories),
          cycle |-> cycle + 1, records |-> records]

\* run_system_gate when its environment did not come up: a failed gate file
\* without categories, which is returned and not stored.
ProvisionFailed == [overall |-> "FAIL", categories |-> [c \in {} |-> "FAIL"]]

\* The verifier production_ready_gate.  Its cycle, its limit, its risk flag and
\* its gate_id are fixed by the contract: gate is the one file it names, the same
\* for every story, or None when it names none.  Without a gate file it verifies
\* nothing; only a failed gate is routed, and what routing raises is swallowed.
ProductionReadyGate(records, gate, target, contract, writable) ==
  IF gate = None THEN [verified |-> FALSE, reason |-> "gate_file_absent", records |-> records]
  ELSE IF gate.overall # "FAIL"
  THEN [verified |-> TRUE, reason |-> gate.overall, records |-> records]
  ELSE LET routed == RouteGateVerdict(records, gate, target, contract.cycle,
                                      contract.maxCycles, contract.risk9, writable)
       IN  [verified |-> FALSE, reason |-> routed.action, records |-> routed.records]

(* ---- checked over bounded inputs ---- *)

\* Followed as its docstring asks (gate_orchestrator.py:1336), a gate that goes
\* on failing is routed to remediation exactly maxCycles times and then parked,
\* and no verdict is both done and recorded as a failure.
RoutingEnds(gates, maxCycles) ==
  \A g \in gates, risk9 \in BOOLEAN :
    LET fresh == [parked |-> [t \in {"s"} |-> None], debt |-> [t \in {"s"} |-> None],
                  tasks |-> [t \in {"s"} |-> [c \in {} |-> 0]]]
        start == [action |-> "remediate", cycle |-> 0, records |-> fresh]
        Step(r) == RouteGateVerdict(r.records, g, "s", r.cycle, maxCycles, risk9, TRUE)
        after[n \in 0..(maxCycles + 1)] ==
          IF n = 0 THEN start
          ELSE IF after[n - 1].action = "remediate" THEN Step(after[n - 1]) ELSE after[n - 1]
        end == after[maxCycles + 1]
    IN  /\ end.action \in {"done", "park"}
        /\ end.action = "park" <=> end.records.parked["s"] # None
        /\ end.action = "done" => g.overall \in Verdicts \ {"FAIL"} /\ end.cycle = 0
        /\ g.overall = "FAIL" /\ ~risk9 =>
             /\ end.cycle = maxCycles
             /\ \A c \in RemediationTasks(g) : end.records.tasks["s"][c] = maxCycles
=============================================================================
