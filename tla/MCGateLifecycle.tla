-------------------------- MODULE MCGateLifecycle --------------------------
(***************************************************************************)
(* Instances of GateLifecycle for TLC.                                     *)
(***************************************************************************)
EXTENDS GateLifecycle, TLC

CONSTANTS g1, cA, cB, k1, sec

OneCategory == [k \in Collectors |-> sec]

Full == [active |-> {sec}, na |-> {}, disabled |-> {}]

Run(c, profile, fc) ==
  [op |-> "run", gate |-> g1, commit |-> c, profile |-> profile,
   risk9 |-> FALSE, waiver |-> {}, fail_closed |-> fc]
Recover == [Run(cA, Full, FALSE) EXCEPT !.op = "recover"]

\* One gate run again on another commit, and operators running recovery.
TwoCommits == {Run(cA, Full, TRUE), Run(cB, Full, FALSE), Recover}
\* The smallest mix of a run and a recovery; the run carries a waiver for the
\* only category and asks for the fail_closed override.
OneCommit == {[Run(cA, Full, TRUE) EXCEPT !.waiver = {sec}], Recover}
AllFaults == FaultKinds

\* The rules of the categories, whose verdicts Verdict takes a record's status
\* for, over the values a metric may take on either side of its limit.
C == INSTANCE CategoryRules
Measured ==
  [correctness |-> [coverage_pct |-> {70, 85, 90}, regressions |-> 0..1],
   security |-> [sast_high_count |-> 0..1, deps_critical_count |-> 0..1],
   license |-> [forbidden_count |-> 0..1, boundary_violations |-> 0..1],
   test_quality |-> [flaky_count |-> 0..1, test_review_score |-> {69, 70}],
   mutation |-> [mutation_score |-> {59, 60}],
   reliability |-> [rto_seconds |-> {300, 301}, rpo_seconds |-> {60, 61}],
   resilience |-> [scenarios_total |-> 1..2, scenarios_passed |-> 0..2],
   blast_radius |-> [slo_breached |-> BOOLEAN],
   durable_hitl |-> [signal_survived |-> BOOLEAN],
   cost_to_serve |-> [pod_cost_per_tenant |-> 1..2],
   progressive_delivery |-> [rollout_completed |-> BOOLEAN],
   cert_cadence |-> C!NoMetrics,
   static |-> C!NoMetrics]
MetricsOf(c) ==
  UNION {{m \in [names -> UNION {Measured[c][n] : n \in names}] : \A n \in names : m[n] \in Measured[c][n]}
           : names \in SUBSET DOMAIN Measured[c]}
EvidenceOf(c) == [status : C!EvidenceStatuses, metrics : MetricsOf(c)]
Tiers == {{}, {[sku |-> "", max_pod_cost |-> 1]}, {[sku |-> "basic", max_pod_cost |-> 1]}}
RuleProfiles == [rules : {C!NoMetrics}, tiers : Tiers, forbidden : {{}, {"DG-2"}}]
Holds(Requirement(_, _, _, _)) ==
  \A c \in DOMAIN Measured, p \in RuleProfiles :
    (c # "cost_to_serve" => p = [rules |-> C!NoMetrics, tiers |-> {}, forbidden |-> {}])
      => Requirement(c, EvidenceOf(c), p, [coverage_pct |-> 90, priority |-> "P1"])
ASSUME Masking == Holds(C!NothingIsMasked)
ASSUME FailsClosed == Holds(C!FailsClosed)
ASSUME WorstRecord == Holds(C!WorstRecordDecides)
ASSUME CoverageRules == C!CoverageRulesAgree
ASSUME Unpassable ==
  C!NeverPasses(DOMAIN Measured, [c \in DOMAIN Measured |-> MetricsOf(c)],
                [rules |-> C!NoMetrics, tiers |-> {[sku |-> "basic", max_pod_cost |-> 1]}, forbidden |-> {}],
                [coverage_pct |-> 90, priority |-> "P1"])
    = {"resilience", "durable_hitl", "progressive_delivery"}

Symmetry == Permutations(Procs) \cup Permutations(Dirs) \cup Permutations(Collectors)
=============================================================================
