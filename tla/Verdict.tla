------------------------------ MODULE Verdict ------------------------------
(***************************************************************************)
(* The pure part of the production gate: which collectors a profile asks   *)
(* for, what verdict a bundle of evidence earns, and when a waiver or the   *)
(* fail-closed override changes it (verdict_engine.py, gate_rules.py,       *)
(* collector_registry.py, category_rules.py).                               *)
(*                                                                         *)
(* An evidence bundle maps every collector to the record of it on disk, or *)
(* to NoRecord: a record's file name is its category, collector and tool,   *)
(* so a collector has at most one record per gate.  A record's content is   *)
(* kept as far as the verdict tells contents apart: the commit it was       *)
(* collected at and the class of its status.                                *)
(***************************************************************************)
EXTENDS Naturals, FiniteSets

CONSTANTS
  Collectors,    \* collectors of the registry, one per (category, id, tool)
  Categories,    \* quality categories of a profile
  CategoryOf,    \* the category each collector reports to
  Commits,       \* commits a gate is evaluated at
  Statuses,      \* classes of evidence that occur
  NoRecord       \* "no evidence file for this collector"

ASSUME CategoryAssumption == CategoryOf \in [Collectors -> Categories]
\* What the category rules make of one record: clean, inside the CONCERNS
\* band, a violation, or a collector that crashed or timed out.
ASSUME StatusesAssumption == Statuses \subseteq {"ok", "concern", "violation", "error"}
ASSUME NoRecordAssumption == NoRecord \notin [commit : Commits, status : Statuses]

-----------------------------------------------------------------------------
(* Evidence.                                                               *)

Records == [commit : Commits, status : Statuses]
Bundles == [Collectors -> Records \cup {NoRecord}]
EmptyBundle == [k \in Collectors |-> NoRecord]

Present(bundle) == {k \in Collectors : bundle[k] # NoRecord}

\* The collectors whose record carries status "error" or "timeout".
ErrorLabels(bundle) == {k \in Present(bundle) : bundle[k].status = "error"}

-----------------------------------------------------------------------------
(* Profiles.                                                               *)

Profiles == [active   : SUBSET Categories,   \* listed in some tier
             na       : SUBSET Categories,   \* declared not applicable
             disabled : SUBSET Collectors]   \* kill-switched tools

\* CollectorRegistry.applicable: active, not N/A, not kill-switched.
Applicable(profile) ==
  {k \in Collectors : /\ CategoryOf[k] \in profile.active \ profile.na
                      /\ k \notin profile.disabled}

-----------------------------------------------------------------------------
(* Verdicts.                                                               *)

CategoryVerdicts == {"PASS", "CONCERNS", "FAIL", "NA"}
Overalls == {"PASS", "CONCERNS", "FAIL", "WAIVED"}

StatusesIn(bundle, c) ==
  {bundle[k].status : k \in {j \in Present(bundle) : CategoryOf[j] = c}}

\* Worst of the category's records; the evidence is all that counts, whether
\* or not the profile still asks for the collector that left it.
RuleVerdict(statuses) ==
  CASE statuses \cap {"violation", "error"} # {} -> "FAIL"
    [] statuses = {} -> "FAIL"
    [] statuses = {"ok"} -> "PASS"
    [] OTHER -> "CONCERNS"

JudgedCategories(bundle, profile) ==
  profile.active \cup profile.na \cup {CategoryOf[k] : k \in Present(bundle)}

compute_all_verdicts(bundle, profile) ==
  [c \in JudgedCategories(bundle, profile) |->
     IF c \in profile.na THEN "NA" ELSE RuleVerdict(StatusesIn(bundle, c))]

aggregate_verdicts(verdicts, risk9) ==
  LET active == {verdicts[c] : c \in DOMAIN verdicts} \ {"NA"}
  IN  CASE risk9 \/ active = {} \/ "FAIL" \in active -> "FAIL"
        [] active = {"PASS"} -> "PASS"
        [] OTHER -> "CONCERNS"

Failing(verdicts) == {c \in DOMAIN verdicts : verdicts[c] = "FAIL"}

\* A waiver is the set of categories it was signed for ({}: no waiver; the
\* schema refuses an empty list).  It turns a FAIL into WAIVED only when it
\* names exactly the failing categories.
apply_waivers(overall, verdicts, waiver) ==
  IF overall = "FAIL" /\ waiver # {} /\ waiver = Failing(verdicts)
  THEN "WAIVED" ELSE overall

\* The overall verdict evaluate_gate persists.
adjudicate(bundle, profile, risk9, waiver) ==
  LET verdicts == compute_all_verdicts(bundle, profile)
  IN  apply_waivers(aggregate_verdicts(verdicts, risk9), verdicts, waiver)

\* The fail_closed override on what the caller is told: any error evidence
\* sinks the gate, whatever the verdict engine decided.
FailClosed(enabled, bundle, overall) ==
  IF enabled /\ ErrorLabels(bundle) # {} THEN "FAIL" ELSE overall

=============================================================================
