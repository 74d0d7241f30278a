--------------------------- MODULE CategoryRules ---------------------------
(***************************************************************************)
(* How the evidence of one quality category becomes its verdict            *)
(* (core/category_rules.py), with the small rules of core/gate_rules.py it *)
(* stands beside.  An evidence record is [status, metrics], metrics being  *)
(* a function on the names of the metrics the collector reported; floats   *)
(* are naturals, and a verdict stands for its result without the           *)
(* rationale.  Records reach the rules schema-checked, so a metric is      *)
(* neither null nor NaN and a status is one of the four.                   *)
(***************************************************************************)
EXTENDS Naturals, Sequences, FiniteSetsExt, SequencesExt, TLC

EvidenceStatuses == {"ok", "violation", "timeout", "error"}
Severity == [s \in EvidenceStatuses |->
  CASE s = "ok" -> 0 [] s = "violation" -> 1 [] s = "timeout" -> 2 [] s = "error" -> 3]
Rank == [PASS |-> 0, CONCERNS |-> 1, FAIL |-> 2]

\* The worst status on record; no record at all is an error.
worst_evidence_status(evidence) ==
  LET statuses == {evidence[i].status : i \in DOMAIN evidence}
  IN  IF statuses = {} THEN "error"
      ELSE CHOOSE s \in statuses : \A t \in statuses : Severity[t] <= Severity[s]

-----------------------------------------------------------------------------
(* Metrics of several collectors.                                          *)

Summed == {"sast_high_count", "deps_critical_count", "secrets_count", "regressions",
           "flaky_count", "hard_wait_count", "forbidden_count", "boundary_violations",
           "mutants_survived", "mutants_total", "mutants_killed"}
Lowest == {"coverage_pct", "mutation_score", "mutation_score_pct", "test_review_score",
           "scenarios_passed"}
AnyTrue == {"slo_breached"}
AllTrue == {"signal_survived", "rollout_completed"}

\* The value a metric has over all the records that carry it.
Aggregate(evidence, key, default) ==
  LET carrying == SelectSeq(evidence, LAMBDA record : key \in DOMAIN record.metrics)
      values == {carrying[i].metrics[key] : i \in DOMAIN carrying}
  IN  CASE carrying = <<>> -> default
        [] key \in Summed -> FoldLeft(LAMBDA sum, record : sum + record.metrics[key], 0, carrying)
        [] key \in Lowest -> Min(values)
        [] key \in AnyTrue -> TRUE \in values
        [] key \in AllTrue -> FALSE \notin values
        [] key = "strategy" -> carrying[1].metrics[key]
        [] OTHER -> Max(values)

-----------------------------------------------------------------------------
(* What the collectors of the registry report (core/metric_parsers.py): an *)
(* output is Unparsed, or the sequence of the severities it lists, or the  *)
(* numbers of its summary line.                                            *)

Unparsed == "text"
NoMetrics == [key \in {} |-> 0]

\* Only known names are let through, and an output without the summary line
\* reports nothing (the mutation, coverage and burn-in checks).
Summary(output, allowed) ==
  IF output = Unparsed THEN NoMetrics
  ELSE [key \in allowed \cap DOMAIN output |-> output[key]]
parse_mutation_metrics(output) ==
  Summary(output, {"mutation_score", "mutants_total", "mutants_killed", "mutants_survived"})
parse_coverage_metrics(output) == Summary(output, {"coverage_pct"})
parse_burn_in_metrics(output) == Summary(output, {"flaky_count"})

\* The scanners' findings are counted, those of a grave severity only.
Counted(output, key, grave) ==
  IF output = Unparsed THEN NoMetrics
  ELSE key :> Cardinality({i \in DOMAIN output : output[i] \in grave})
parse_semgrep_metrics(output) == Counted(output, "sast_high_count", {"ERROR", "CRITICAL", "HIGH"})
parse_trivy_metrics(output) == Counted(output, "deps_critical_count", {"CRITICAL"})
parse_osv_metrics(output) == Counted(output, "deps_critical_count", {"CRITICAL"})
parse_gitleaks_metrics(output) == Counted(output, "secrets_count", ToSet(output))

\* The metrics the registry's collectors of a category can report; the others
\* are registered without a parser.
Reportable(category) ==
  CASE category = "mutation" -> {"mutation_score", "mutants_total", "mutants_killed", "mutants_survived"}
    [] category = "correctness" -> {"coverage_pct"}
    [] category = "test_quality" -> {"flaky_count"}
    [] category = "security" -> {"sast_high_count", "deps_critical_count", "secrets_count"}
    [] OTHER -> {}

-----------------------------------------------------------------------------
(* The rules.                                                              *)

\* What a profile says of a category, or the default the rule brings.
Limit(rules, name, default) == IF name \in DOMAIN rules THEN rules[name] ELSE default

\* A target of zero asks for nothing; only P1 has a band below its target.
coverage_verdict(actual, target, priority) ==
  IF target = 0 \/ actual >= target THEN "PASS"
  ELSE IF priority = "P1" /\ actual >= 80 THEN "CONCERNS" ELSE "FAIL"

risk_to_requirements(priority, matrix) ==
  LET known == IF priority \in DOMAIN matrix THEN priority ELSE "P1"
  IN  [coverage_pct |-> matrix[known], priority |-> known]

\* Every rule fails closed on a collector that crashed or ran out of time, and
\* fails on its own limits or on a violation the collector itself reported.
Verdict(evidence, exceeded) ==
  IF worst_evidence_status(evidence) # "ok" \/ exceeded THEN "FAIL" ELSE "PASS"

correctness_rule(evidence, required) ==
  IF Verdict(evidence, Aggregate(evidence, "regressions", 0) > 0) = "FAIL" THEN "FAIL"
  ELSE coverage_verdict(Aggregate(evidence, "coverage_pct", 0),
                        required.coverage_pct, required.priority)

security_rule(evidence, rules) == Verdict(evidence,
  \/ Aggregate(evidence, "sast_high_count", 0) > Limit(rules, "sast_max_high", 0)
  \/ Aggregate(evidence, "deps_critical_count", 0) > Limit(rules, "deps_max_critical", 0)
  \/ Aggregate(evidence, "secrets_count", 0) > Limit(rules, "secrets_max", 0))

status_based_rule(evidence) == Verdict(evidence, FALSE)

license_rule(evidence) == Verdict(evidence,
  Aggregate(evidence, "forbidden_count", 0) > 0 \/ Aggregate(evidence, "boundary_violations", 0) > 0)

\* No review score on record is no reason to fail.
test_quality_rule(evidence, rules) ==
  LET least == Limit(rules, "min_score", 70)
  IN  Verdict(evidence, \/ Aggregate(evidence, "flaky_count", 0) > Limit(rules, "max_flaky", 0)
                        \/ Aggregate(evidence, "hard_wait_count", 0) > 0
                        \/ Aggregate(evidence, "test_review_score", least) < least)

mutation_rule(evidence, rules) ==
  Verdict(evidence, Aggregate(evidence, "mutation_score", 0) < Limit(rules, "min_score", 60))

reliability_rule(evidence, rules) == Verdict(evidence,
  \/ Aggregate(evidence, "rto_seconds", 0) > Limit(rules, "max_rto_seconds", 300)
  \/ Aggregate(evidence, "rpo_seconds", 0) > Limit(rules, "max_rpo_seconds", 60))

resilience_rule(evidence) ==
  LET total == Aggregate(evidence, "scenarios_total", 0)
  IN  Verdict(evidence, total = 0 \/ Aggregate(evidence, "scenarios_passed", 0) < total)

blast_radius_rule(evidence) == Verdict(evidence, Aggregate(evidence, "slo_breached", FALSE))
durable_hitl_rule(evidence) == Verdict(evidence, ~Aggregate(evidence, "signal_survived", FALSE))
progressive_delivery_rule(evidence) ==
  Verdict(evidence, ~Aggregate(evidence, "rollout_completed", FALSE))

\* gate_rules.verdict_for_cost_tier: undecided until the sales unit is named.
\* A tier is [sku, max_pod_cost] ("" and 0: not given); {} stands for no tier.
verdict_for_cost_tier(tiers, forbidden) ==
  IF "DG-2" \in forbidden \/ (\A tier \in tiers : tier.sku = "") THEN "CONCERNS" ELSE "PASS"

\* An undecided tier is CONCERNS whatever was measured, a violation included.
cost_to_serve_rule(evidence, tiers, forbidden) ==
  LET limit == IF tiers = {} THEN 0 ELSE Max({tier.max_pod_cost : tier \in tiers})
  IN  IF worst_evidence_status(evidence) \in {"error", "timeout"} THEN "FAIL"
      ELSE IF verdict_for_cost_tier(tiers, forbidden) = "CONCERNS" THEN "CONCERNS"
      ELSE Verdict(evidence, limit > 0 /\ Aggregate(evidence, "pod_cost_per_tenant", 0) > limit)

\* A person's checkpoint: what no collector settled waits for one.
cert_cadence_rule(evidence) ==
  CASE worst_evidence_status(evidence) = "ok" -> "PASS"
    [] worst_evidence_status(evidence) = "violation" -> "CONCERNS"
    [] OTHER -> "FAIL"

\* A profile is [rules (of a category), tiers, forbidden].
apply_category_rule(category, evidence, profile, required) ==
  CASE category = "correctness" -> correctness_rule(evidence, required)
    [] category = "security" -> security_rule(evidence, profile.rules)
    [] category = "license" -> license_rule(evidence)
    [] category = "test_quality" -> test_quality_rule(evidence, profile.rules)
    [] category = "mutation" -> mutation_rule(evidence, profile.rules)
    [] category = "reliability" -> reliability_rule(evidence, profile.rules)
    [] category = "resilience" -> resilience_rule(evidence)
    [] category = "blast_radius" -> blast_radius_rule(evidence)
    [] category = "durable_hitl" -> durable_hitl_rule(evidence)
    [] category = "cost_to_serve" -> cost_to_serve_rule(evidence, profile.tiers, profile.forbidden)
    [] category = "progressive_delivery" -> progressive_delivery_rule(evidence)
    [] category = "cert_cadence" -> cert_cadence_rule(evidence)
    [] OTHER -> status_based_rule(evidence)

-----------------------------------------------------------------------------
(* The rules of core/gate_rules.py beside them.                            *)

\* Coverage a priority requires and the floor under which it fails.
PriorityThresholds == [P0 |-> <<100, 100>>, P1 |-> <<95, 90>>, P2 |-> <<85, 80>>, P3 |-> <<70, 0>>]
evaluate_priority_threshold(coverage, priority) ==
  LET bounds == PriorityThresholds[priority]
  IN  IF coverage >= bounds[1] THEN "PASS"
      ELSE IF coverage >= bounds[2] THEN "CONCERNS" ELSE "FAIL"

\* Every required category must have been collected; collected maps the
\* categories that reported to their collection status.
gate_eligible(collected, required) ==
  \A c \in required : c \in DOMAIN collected /\ collected[c] = "COLLECTED"

\* A waiver is refused unless it is in force, short-lived, for exactly the
\* failing categories, unaltered and for this profile (validate_waiver_for_gate).
ValidWaiver(waiver, failing, hash, now, maxTtl) ==
  /\ now < waiver.expires
  /\ waiver.issued <= waiver.expires /\ waiver.expires <= waiver.issued + maxTtl
  /\ waiver.categories = failing
  /\ waiver.signed
  /\ hash # "" /\ waiver.hash = hash

-----------------------------------------------------------------------------
(* Requirements.                                                           *)

Bundles(records) == UNION {[1..n -> records] : n \in 0..2}

\* "A clean record from tool A must never mask a violating record from tool B"
\* (category_rules.py:117-124): a further record never improves a verdict,
\* unless it brings a metric no other record carries; and the order in which
\* the tools reported does not matter.
NothingIsMasked(category, records, profile, required) ==
  \A evidence \in Bundles(records), record \in records :
    LET Of(e) == apply_category_rule(category, e, profile, required)
        known == UNION {DOMAIN evidence[i].metrics : i \in DOMAIN evidence}
    IN  /\ evidence # <<>> /\ DOMAIN record.metrics \subseteq known =>
             Rank[Of(Append(evidence, record))] >= Rank[Of(evidence)]
        /\ Of(Append(evidence, record)) = Of(<<record>> \o evidence)

\* "Fail-closed: never silent PASS" (gate_rules.py:29): a category without
\* evidence, or with a collector that crashed or timed out, fails, and one that
\* passes has clean records only.
FailsClosedOn(category, evidence, profile, required) ==
  LET verdict == apply_category_rule(category, evidence, profile, required)
  IN  /\ evidence = <<>> \/ (\E i \in DOMAIN evidence : evidence[i].status \in {"error", "timeout"})
           => verdict = "FAIL"
      /\ verdict = "PASS" => \A i \in DOMAIN evidence : evidence[i].status = "ok"
FailsClosed(category, records, profile, required) ==
  \A evidence \in Bundles(records) : FailsClosedOn(category, evidence, profile, required)

\* The categories no run of the registry's collectors can pass, however clean:
\* their rules wait for a metric that nothing reports.
NeverPasses(categories, metrics, profile, required) ==
  {c \in categories : \A m \in metrics[c] :
     DOMAIN m \subseteq Reportable(c) =>
       apply_category_rule(c, <<[status |-> "ok", metrics |-> m]>>, profile, required) # "PASS"}

\* The verdict of a bundle is that of its worst record, for records that carry
\* the same metrics and limits of zero: what Verdict.RuleVerdict takes a record
\* for.  Scenarios are the exception, their total is the largest and those that
\* passed the fewest, so two clean tools with unlike totals fail together.
WorstRecordDecides(category, records, profile, required) ==
  \A first, second \in records :
    LET Of(e) == apply_category_rule(category, e, profile, required)
        worst == Max({Rank[Of(<<first>>)], Rank[Of(<<second>>)]})
    IN  DOMAIN first.metrics = DOMAIN second.metrics
          => /\ Rank[Of(<<first, second>>)] >= worst
             /\ category # "resilience" => Rank[Of(<<first, second>>)] = worst

\* The two coverage rules of the code do not agree on a P1 story between 80 and
\* 90 per cent, but neither passes what the other fails on the same target.
CoverageRulesAgree ==
  \A coverage \in 0..100, priority \in DOMAIN PriorityThresholds :
    LET target == PriorityThresholds[priority][1]
    IN  (coverage_verdict(coverage, target, priority) = "PASS")
          <=> (evaluate_priority_threshold(coverage, priority) = "PASS")

=============================================================================
