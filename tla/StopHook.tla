------------------------------ MODULE StopHook ------------------------------
(***************************************************************************)
(* The files a run leaves in the project for its stop hook: the settings that *)
(* make the agent call the hook (core/stop_hooks.py), and the active-run    *)
(* marker the hook judges (core/run_liveness.py, commands/basic.py).        *)
(***************************************************************************)
EXTENDS Naturals

CONSTANTS
  Runs,       \* orchestrator sessions
  NoRun,
  Window,     \* STALE_AFTER_SECONDS, in ticks
  Provider    \* "claude" or "codex": which settings files there are

ASSUME WindowAssumption == Window \in Nat \ {0}
ASSUME NoRunAssumption == NoRun \notin Runs
ASSUME ProviderAssumption == Provider \in {"claude", "codex"}

-----------------------------------------------------------------------------
(* The settings.  "old" is a hook of this program with another command or    *)
(* timeout, "other" anybody else's; "none" is a config.toml without the key. *)

HookFiles == [kind : {"absent", "invalid", "ok"}, hooks : SUBSET {"ours", "old", "other"}]
Features == {"absent", "invalid", "none", "off", "legacy", "both", "on"}

\* _prepare_json_stop_hook: hooks of this program are normalized, else one is added.
WithStopHook(f) == [kind |-> "ok", hooks |-> (f.hooks \ {"old"}) \cup {"ours"}]

\* _prepare_codex_hooks_feature: the key is set, a deprecated one is replaced.
WithHooksEnabled(feature) == "on"

\* What an installation has prepared and not written yet.
Plans == [config : Features, hooks : HookFiles]
NoPlan == [config |-> "absent", hooks |-> [kind |-> "absent", hooks |-> {}]]
Unreadable(feature, f) ==
  f.kind = "invalid" \/ (Provider = "codex" /\ feature = "invalid")
Plan(feature, f) ==
  [config |-> IF Provider = "codex" THEN WithHooksEnabled(feature) ELSE feature,
   hooks  |-> WithStopHook(f)]

\* The agent calls the hook when it is about to stop.
Armed(feature, f) == "ours" \in f.hooks /\ (Provider = "codex" => feature = "on")

-----------------------------------------------------------------------------
(* The marker.  Its stateFile is that of the run it names; stamped says      *)
(* whether the heartbeat can be parsed, and age is how old it is, counted    *)
(* until it is certainly stale.                                            *)

Ages == 0 .. Window + 1
Markers ==
  [kind : {"none", "corrupt", "ok"}, run : Runs \cup {NoRun},
   left : BOOLEAN, stamped : BOOLEAN, age : Ages]
NoMarker == [kind |-> "none", run |-> NoRun, left |-> FALSE, stamped |-> FALSE, age |-> 0]
CorruptMarker == [NoMarker EXCEPT !.kind = "corrupt"]

Aged(m) == [m EXCEPT !.age = IF m.kind = "ok" /\ @ <= Window THEN @ + 1 ELSE @]
Refreshed(m) == [m EXCEPT !.stamped = TRUE, !.age = 0]

AgeIsKnown(m) == m.kind = "ok" /\ m.stamped

RunIsLive(m) == AgeIsKnown(m) /\ m.age <= Window

\* Mutant: the window itself is stale.
RunIsStaleAtWindow(m) == AgeIsKnown(m) /\ m.age >= Window
RunIsStale(m) == AgeIsKnown(m) /\ m.age > Window

\* Mutant: a crashed run's marker is not looked through.
StopAllowedByCount(m) == m.kind # "ok" \/ ~m.left

\* cmd_stop_hook
StopAllowed(m) ==
  \/ m.kind # "ok"
  \/ ~m.left
  \/ RunIsStale(m)
=============================================================================
