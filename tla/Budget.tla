------------------------------- MODULE Budget -------------------------------
(***************************************************************************)
(* The spending limits of core/budget_ceilings.py, read by the command     *)
(* ceiling-check before a story or a retry starts, and the limits per      *)
(* phase and persona of core/innovation/phase_budget.py.  Money and time   *)
(* are naturals; a ceiling warns at a percentage of its limit.             *)
(***************************************************************************)
EXTENDS Naturals, Sequences, SequencesExt

Gates == {"init", "story_start", "retry_start"}
Windows == {"per_run", "24h", "7d", "30d"}
CONSTANTS WindowSeconds,   \* of the windows other than per_run
          Missing          \* a cost that is not there, a time that cannot be read
Rank(decision) == CASE decision = "ALLOW" -> 0 [] decision = "WARN" -> 1 [] decision = "BLOCK" -> 2

\* An entry of workflow.json's policy.cost_ceilings is dropped, and so not
\* enforced, unless all of its fields make sense; the others keep their order.
ValidCeiling(raw) ==
  /\ DOMAIN raw = {"window", "limit", "warn", "gates"}
  /\ raw.window \in Windows
  /\ raw.limit > 0
  /\ raw.warn \in 1..100
ParseCeilings(raws) == {i \in DOMAIN raws : ValidCeiling(raws[i])}

\* What the ledger's events spent in a window.  Events without a cost, or
\* without a readable time, do not count in it.  "per_run" has no lower end, and
\* the file is never cut: it is everything ever spent.
Apart(a, b) == IF a > b THEN a - b ELSE b - a
Counts(event, window, now) ==
  /\ event.cost # Missing
  /\ window # "per_run" => event.at # Missing /\ Apart(now, event.at) <= WindowSeconds[window]
Spent(events, window, now) ==
  FoldLeft(LAMBDA sum, e : IF Counts(e, window, now) THEN sum + e.cost ELSE sum, 0, events)

DecideCeiling(ceiling, spent) ==
  IF spent >= ceiling.limit THEN "BLOCK"
  ELSE IF spent * 100 >= ceiling.limit * ceiling.warn THEN "WARN"
  ELSE "ALLOW"

\* evaluate_ceilings: of the ceilings that watch the gate, the first one with
\* the most severe decision; none when no ceiling watches it.
NoCeiling == [decision |-> "ALLOW", ceiling |-> Missing]
Watching(raws, gate) == {i \in ParseCeilings(raws) : gate \in raws[i].gates}
EvaluateCeilings(raws, gate, events, now) ==
  LET Decision(i) == DecideCeiling(raws[i], Spent(events, raws[i].window, now))
      Precedes(i, j) == \/ Rank(Decision(i)) > Rank(Decision(j))
                        \/ Rank(Decision(i)) = Rank(Decision(j)) /\ i <= j
      worst == CHOOSE i \in Watching(raws, gate) : \A j \in Watching(raws, gate) : Precedes(i, j)
  IN  IF Watching(raws, gate) = {} THEN NoCeiling
      ELSE [decision |-> Decision(worst), ceiling |-> raws[worst]]

\* bypass_allowed: the variable is set to exactly "1" and somebody is at the terminal.
BypassAllowed(variable, terminal) == variable = "1" /\ terminal

\* The ceiling-check command: its answer carries a verdict only when the call was
\* well formed and the ledger could be read.
CeilingCheck(raws, gate, events, now, readable) ==
  IF gate \notin Gates \/ ~readable THEN [ok |-> FALSE]
  ELSE [ok |-> TRUE, verdict |-> EvaluateCeilings(raws, gate, events, now).decision]

\* What the steps make of it: only the word BLOCK stops them, and an answer
\* without a verdict is no such word.
Proceeds(answer, bypassed) == answer.ok /\ answer.verdict = "BLOCK" => bypassed

(* ---- per phase and persona ---- *)

Phases == {"dev-running", "review-verify"}
ClassifyOverspend(priority, phase) ==
  CASE phase = "review-verify" -> "pause"
    [] phase = "dev-running" /\ priority = "P0" -> "retry_cheap"
    [] OTHER -> "escalate"

\* enforce_phase_spend: both totals are charged before they are judged.
EnforcePhaseSpend(config, ledger, phase, persona, priority, spend) ==
  LET charged == [ledger EXCEPT ![<<phase, persona>>] = @ + spend, ![<<phase, "total">>] = @ + spend]
      over == \E who \in {persona, "total"} : charged[phase, who] > config[phase, who]
  IN  [ledger |-> charged,
       action |-> IF over THEN ClassifyOverspend(priority, phase) ELSE "allow"]
Remaining(config, ledger, phase, who) ==
  IF ledger[phase, who] >= config[phase, who] THEN 0 ELSE config[phase, who] - ledger[phase, who]
SummarizePhase(config, ledger, phase, personas) ==
  [who \in personas \cup {"total"} |->
     [limit |-> config[phase, who], spent |-> ledger[phase, who],
      remaining |-> Remaining(config, ledger, phase, who)]]

(* ---- checked over bounded inputs ---- *)

\* BLOCK is given exactly when some watching ceiling is reached, and a ceiling
\* that is added never makes the decision milder: the merge of several ceilings
\* loses none (budget_ceilings.py:403).
NoCeilingIsLost(raws, gate, events, now) ==
  LET Of(cs) == EvaluateCeilings(cs, gate, events, now).decision
  IN  /\ Of(raws) = "BLOCK" <=>
           \E i \in Watching(raws, gate) : Spent(events, raws[i].window, now) >= raws[i].limit
      /\ \A n \in 0..Len(raws) : Rank(Of([i \in 1..n |-> raws[i]])) <= Rank(Of(raws))
\* Nor does a decision become milder when more is spent.
CeilingsAreMonotone(ceilings, costs) ==
  \A a, b \in ceilings, x, y \in costs :
    LET one == <<[at |-> 0, cost |-> x]>>
        two == one \o <<[at |-> 0, cost |-> y]>>
        Of(es) == EvaluateCeilings(<<a, b>>, "story_start", es, 0).decision
    IN  /\ Rank(Of(one)) <= Rank(Of(two))
        /\ NoCeilingIsLost(<<a, b>>, "story_start", two, 0)
\* A phase's total is charged whatever persona spends, so personas who all stay
\* within their own limits still overspend the phase (phase_budget.py:195).
PhasesAddUp(config, ledger, spends) ==
  \A ph \in Phases, a, b \in {"developer", "qa"}, x, y \in spends :
    LET first == EnforcePhaseSpend(config, ledger, ph, a, "P0", x)
        second == EnforcePhaseSpend(config, first.ledger, ph, b, "P0", y)
    IN  /\ second.ledger[ph, "total"] = ledger[ph, "total"] + x + y
        /\ second.action = "allow" =>
             Remaining(config, second.ledger, ph, "total") + x + y
               = Remaining(config, ledger, ph, "total")
=============================================================================
