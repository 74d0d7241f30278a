----------------------------- MODULE RunPolicy -----------------------------
(***************************************************************************)
(* core/runtime_policy.py: the effective policy (bundled, project override,  *)
(* environment), the snapshot a run is pinned to, and which of them a        *)
(* command is driven by.  A policy is a function from its settings to values: *)
(* merging objects key by key overrides the leaves.                         *)
(***************************************************************************)
EXTENDS Naturals, TLC

Bundled == [review |-> 5, crash |-> 2, test |-> 1]
Unset == [x \in {} |-> 0]

\* WrongType stands for a value that is not an integer, "stray" for a key that
\* is not in VALID_TOP_LEVEL_KEYS.
WrongType == 0
Layers == {Unset, [review |-> 1, test |-> 2], [review |-> WrongType], [stray |-> 1]}
Environments == {Unset, [review |-> 3]}

\* _validate_policy_shape
Valid(p) == DOMAIN p \subseteq DOMAIN Bundled /\ \A k \in DOMAIN p : p[k] # WrongType

\* _deep_merge and _apply_legacy_env
Merged(override, environment) == environment @@ (override @@ Bundled)

\* A policy as a run sees it: its settings and the template it prompts with.
\* Error is a PolicyError.
Error == [settings |-> Unset, template |-> 0]

Effective(disk) ==
  LET p == Merged(disk.override, disk.environment) IN
  IF Valid(p) /\ disk.template # 0 THEN [settings |-> p, template |-> disk.template] ELSE Error

\* load_policy_unresolved, of which test-counts reads the test block: the policy on
\* disk, without its templates.
TestOf(p) == [settings |-> [test |-> p.test], template |-> 0]
LiveTest(disk) ==
  LET p == Merged(disk.override, disk.environment) IN IF Valid(p) THEN TestOf(p) ELSE Error

\* The state document: pinned to a snapshot, written before there were
\* snapshots, or with half of its metadata.
NoDoc == [mode |-> "none", policy |-> Error, file |-> "ok"]
LegacyDoc == [NoDoc EXCEPT !.mode = "legacy"]
Pinned(p) == [mode |-> "pinned", policy |-> p, file |-> "ok"]

\* Mutant: the hashes are not compared.
LoadSnapshotUnverified(d, disk) ==
  IF d.file = "missing" \/ disk.template = 0 THEN Error
  ELSE [settings |-> IF d.file = "ok" THEN d.policy.settings ELSE Unset, template |-> disk.template]

\* load_policy_snapshot: the file must be there and hash to what the document
\* says; _set_or_verify_hash: so must the template.
LoadSnapshot(d, disk) ==
  IF d.file = "ok" /\ d.policy.template = disk.template THEN d.policy ELSE Error

\* load_policy_for_state
LoadForState(d, disk) ==
  CASE d.mode = "pinned" -> LoadSnapshot(d, disk)
    [] d.mode = "legacy" -> Effective([disk EXCEPT !.override = Unset, !.environment = Unset])
    [] OTHER -> Error
=============================================================================
