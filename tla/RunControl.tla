----------------------------- MODULE RunControl -----------------------------
(***************************************************************************)
(* Orchestrator sessions of one project: each installs the stop hook         *)
(* (ensure-stop-hook), builds its state document and pins a policy snapshot  *)
(* (build-state-doc), takes the project's active-run marker (marker create), *)
(* drives its stories while its monitor refreshes the marker, and removes it. *)
(* A session is the agent itself: it may pause at any time, and only the stop *)
(* hook keeps it going; it may crash and be resumed.  Nothing but the state  *)
(* document's build takes a lock.                                          *)
(***************************************************************************)
EXTENDS StopHook, RunPolicy, FiniteSets

CONSTANTS
  Remaining,     \* the runs created with stories left
  Overlap,       \* marker creates may overlap
  LateMonitors,  \* a refresh may be under way when its session has ended
  Timely,        \* a driving session refreshes within the window
  Stamps,        \* whether --heartbeat can be parsed
  MaxEdits       \* bound on what users change in policy, template and snapshots

ASSUME RemainingAssumption == Remaining \subseteq Runs
ASSUME SwitchesAssumption ==
  Overlap \in BOOLEAN /\ LateMonitors \in BOOLEAN /\ Timely \in BOOLEAN
ASSUME StampsAssumption == Stamps \subseteq BOOLEAN
ASSUME EditsAssumption == MaxEdits \in Nat

VARIABLES
  marker,            \* the active-run marker
  config, settings,  \* [features] of config.toml, and the hooks file
  disk,              \* override file, environment and template
  doc,               \* each run's state document and its snapshot file
  lock,              \* who holds .state-build.lock
  at,                \* where each session is
  plan,              \* what its installation writes
  made,              \* the snapshot it has just made
  copy,              \* the marker its refresh has read
  since,             \* ticks since it created or refreshed its marker
  used,              \* what its last command took from the policy
  moved,             \* history: the runs that had their snapshot when the policy was edited
  edits

hook == <<config, settings, plan>>
pins == <<disk, doc, made, used, moved, edits>>
vars == <<marker, hook, pins, lock, at, copy, since>>

Nothing == NoMarker
Driving == {r \in Runs : at[r] = "driving"}

Init ==
  /\ marker = NoMarker
  /\ config \in {"legacy", "invalid"}
  /\ settings \in {[kind |-> "absent", hooks |-> {}], [kind |-> "ok", hooks |-> {"old", "other"}]}
  /\ disk = [override |-> Unset, environment |-> Unset, template |-> 1]
  /\ doc \in {[r \in Runs |-> NoDoc], [r \in Runs |-> LegacyDoc]}
  /\ lock = NoRun
  /\ at = [r \in Runs |-> "idle"]
  /\ plan = [r \in Runs |-> NoPlan]
  /\ made = [r \in Runs |-> Error]
  /\ copy = [r \in Runs |-> Nothing]
  /\ since = [r \in Runs |-> 0]
  /\ used = [r \in Runs |-> Error]
  /\ moved = {}
  /\ edits = 0

Go(r, place) == at' = [at EXCEPT ![r] = place]

-----------------------------------------------------------------------------
(* ensure-stop-hook, at the start of every session, a resumed one included:  *)
(* both files are prepared, then written one after the other.  A file that   *)
(* does not parse fails the step, and with it the start.                    *)

PrepareHook(r) ==
  /\ at[r] \in {"idle", "stopped"}
  /\ IF Unreadable(config, settings)
     THEN Go(r, "failed") /\ UNCHANGED plan
     ELSE plan' = [plan EXCEPT ![r] = Plan(config, settings)] /\ Go(r, "prepared")
  /\ UNCHANGED <<marker, config, settings, pins, lock, copy, since>>

WriteConfig(r) ==
  /\ at[r] = "prepared"
  /\ config' = plan[r].config
  /\ Go(r, "configured")
  /\ UNCHANGED <<marker, settings, plan, pins, lock, copy, since>>

WriteHooks(r) ==
  /\ at[r] = "configured"
  /\ settings' = plan[r].hooks
  /\ plan' = [plan EXCEPT ![r] = NoPlan]
  /\ Go(r, "armed")
  /\ UNCHANGED <<marker, config, pins, lock, copy, since>>

-----------------------------------------------------------------------------
(* build-state-doc, for a run that has no document to resume from.          *)

\* snapshot_effective_policy
Snapshot(r) ==
  /\ at[r] = "armed" /\ doc[r] = NoDoc
  /\ made' = [made EXCEPT ![r] = Effective(disk)] /\ moved' = moved \ {r}
  /\ Go(r, IF Effective(disk) = Error THEN "failed" ELSE "snapped")
  /\ UNCHANGED <<marker, hook, disk, doc, used, edits, lock, copy, since>>

\* acquire_run_lock with timeout 0; run_lock_busy sends the caller back.
TakeBuildLock(r) ==
  /\ at[r] = "snapped"
  /\ IF lock = NoRun THEN lock' = r /\ Go(r, "building")
                     ELSE Go(r, "armed") /\ UNCHANGED lock
  /\ UNCHANGED <<marker, hook, pins, copy, since>>

WriteDoc(r) ==
  /\ at[r] = "building"
  /\ doc' = [doc EXCEPT ![r] = Pinned(made[r])]
  /\ made' = [made EXCEPT ![r] = Error]
  /\ lock' = NoRun
  /\ Go(r, "armed")
  /\ UNCHANGED <<marker, hook, disk, used, moved, edits, copy, since>>

-----------------------------------------------------------------------------
(* The marker                                                              *)

\* Mutant: only a marker with the caller's own document is refused.
CheckOwnMarker(r) ==
  /\ at[r] = "armed" /\ doc[r] # NoDoc
  /\ Overlap \/ \A s \in Runs : at[s] # "creating"
  /\ ~(marker.run = r /\ RunIsLive(marker))
  /\ Go(r, "creating")
  /\ UNCHANGED <<marker, hook, pins, lock, copy, since>>

\* marker create: run_already_active, or go on to write.
CheckMarker(r) ==
  /\ at[r] = "armed" /\ doc[r] # NoDoc
  /\ Overlap \/ \A s \in Runs : at[s] # "creating"
  /\ ~RunIsLive(marker)
  /\ Go(r, "creating")
  /\ UNCHANGED <<marker, hook, pins, lock, copy, since>>

WriteMarker(r) ==
  /\ at[r] = "creating"
  /\ \E stamped \in Stamps :
       marker' = [kind |-> "ok", run |-> r, left |-> r \in Remaining, stamped |-> stamped, age |-> 0]
  /\ since' = [since EXCEPT ![r] = 0]
  /\ Go(r, "driving")
  /\ UNCHANGED <<hook, pins, lock, copy>>

\* marker heartbeat, and the monitor's refresh: read, stamp, write back.  A
\* marker that is gone or corrupt is left alone.
ReadMarker(r) ==
  /\ at[r] = "driving" /\ copy[r] = Nothing
  /\ IF marker.kind = "ok" THEN copy' = [copy EXCEPT ![r] = marker] /\ UNCHANGED since
                           ELSE since' = [since EXCEPT ![r] = 0] /\ UNCHANGED copy
  /\ UNCHANGED <<marker, hook, pins, lock, at>>

WriteBeat(r) ==
  /\ copy[r] # Nothing
  /\ marker' = Refreshed(copy[r])
  /\ copy' = [copy EXCEPT ![r] = Nothing]
  /\ since' = [since EXCEPT ![r] = 0]
  /\ UNCHANGED <<hook, pins, lock, at>>

\* The session is in its refresh, or has left one behind.
Refresh(r) == LateMonitors \/ copy[r] = Nothing

\* marker remove, whoever's it is.
RemoveMarker(r) ==
  /\ at[r] = "driving" /\ Refresh(r)
  /\ marker' = NoMarker
  /\ Go(r, "over")
  /\ UNCHANGED <<hook, pins, lock, copy, since>>

-----------------------------------------------------------------------------
(* A driving session: its commands load a policy, it pauses, it crashes.     *)

\* load_runtime_policy: from the document that is named, else from the one the
\* marker names, else what is on disk.
LoadPolicy(r) ==
  /\ at[r] = "driving"
  /\ \E explicit \in BOOLEAN :
       used' = [used EXCEPT ![r] =
         IF explicit THEN LoadForState(doc[r], disk)
         ELSE CASE marker.kind = "ok" -> LoadForState(doc[marker.run], disk)
                [] marker.kind = "corrupt" -> Error
                [] marker.kind = "none" -> Effective(disk)]
  /\ UNCHANGED <<marker, hook, disk, doc, made, moved, edits, lock, at, copy, since>>

\* test-counts, the one command of a run that reads neither document nor snapshot.
TestCounts(r) ==
  /\ at[r] = "driving"
  /\ used' = [used EXCEPT ![r] = LiveTest(disk)]
  /\ UNCHANGED <<marker, hook, disk, doc, made, moved, edits, lock, at, copy, since>>

Pause(r) ==
  /\ at[r] = "driving" /\ Refresh(r)
  /\ Armed(config, settings) => StopAllowed(marker)
  /\ Go(r, "stopped")
  /\ UNCHANGED <<marker, hook, pins, lock, copy, since>>

\* The lock goes with its holder.
Crash(r) ==
  /\ at[r] \notin {"idle", "over", "failed", "stopped"}
  /\ Go(r, "idle")
  /\ lock' = IF lock = r THEN NoRun ELSE lock
  /\ copy' = IF LateMonitors THEN copy ELSE [copy EXCEPT ![r] = Nothing]
  /\ plan' = [plan EXCEPT ![r] = NoPlan]
  /\ made' = [made EXCEPT ![r] = Error]
  /\ UNCHANGED <<marker, config, settings, disk, doc, used, moved, edits, since>>

-----------------------------------------------------------------------------
(* Time and users                                                          *)

Tick ==
  /\ Timely => \A r \in Driving : since[r] < Window
  /\ marker' = Aged(marker)
  /\ since' = [r \in Runs |-> IF since[r] <= Window THEN since[r] + 1 ELSE since[r]]
  /\ marker' # marker \/ since' # since
  /\ UNCHANGED <<hook, pins, lock, at, copy>>

\* The runs that have their snapshot.
Bound == {r \in Runs : at[r] \in {"snapped", "building"} \/ doc[r].mode = "pinned"}
\* The override, the environment of the next command, a template, a snapshot.
Edit ==
  /\ edits < MaxEdits /\ edits' = edits + 1
  /\ \/ /\ \/ \E layer \in Layers : disk' = [disk EXCEPT !.override = layer] /\ moved' = Bound
           \/ \E env \in Environments : disk' = [disk EXCEPT !.environment = env] /\ moved' = Bound
           \/ \E version \in {0, 2} : disk' = [disk EXCEPT !.template = version] /\ UNCHANGED moved
        /\ UNCHANGED doc
     \/ /\ \E r \in Runs, f \in {"edited", "missing"} :
             doc[r].mode = "pinned" /\ doc' = [doc EXCEPT ![r].file = f]
        /\ UNCHANGED <<disk, moved>>
  /\ UNCHANGED <<marker, hook, made, used, lock, at, copy, since>>

Session(r) ==
  \/ PrepareHook(r) \/ WriteConfig(r) \/ WriteHooks(r)
  \/ Snapshot(r) \/ TakeBuildLock(r) \/ WriteDoc(r)
  \/ CheckMarker(r) \/ WriteMarker(r) \/ ReadMarker(r) \/ RemoveMarker(r)
  \/ LoadPolicy(r) \/ TestCounts(r) \/ Pause(r) \/ Crash(r)

Next ==
  \/ Tick \/ Edit
  \/ \E r \in Runs : Session(r) \/ WriteBeat(r)

Spec == Init /\ [][Next]_vars

\* The clock runs, and a refresh under way is completed or dies.
FairSpec == Spec /\ WF_vars(Tick) /\ \A r \in Runs : WF_vars(WriteBeat(r))

-----------------------------------------------------------------------------
(* Properties                                                              *)

Places ==
  {"idle", "prepared", "configured", "armed", "snapped", "building",
   "creating", "driving", "over", "failed", "stopped"}

\* Every variable keeps its type.
TypeOK ==
  /\ marker \in Markers /\ copy \in [Runs -> Markers]
  /\ config \in Features /\ settings \in HookFiles /\ plan \in [Runs -> Plans]
  /\ lock \in Runs \cup {NoRun} /\ at \in [Runs -> Places]
  /\ since \in [Runs -> Ages] /\ edits \in 0 .. MaxEdits /\ moved \subseteq Runs
  /\ \A r \in Runs :
       /\ doc[r].mode \in {"none", "pinned", "legacy"} /\ doc[r].file \in {"ok", "edited", "missing"}
       /\ at[r] \in {"creating", "driving", "stopped", "over"} => doc[r].mode # "none"
       /\ at[r] = "building" <=> lock = r

\* Two sessions never drive the project at the same time: the marker of a
\* session that lives stays fresh, and one that is fresh is not overwritten.
OneDriver == Cardinality(Driving) <= 1

\* A session with stories left does not stop: the hook is armed from its start
\* to its end, and the marker it reads is the session's own and not stale.
NoEarlyStop == \A r \in Remaining : at[r] # "stopped"

\* Whatever is edited while it runs or between a crash and its resumption, a command of
\* a run that loads through its document (every one but test-counts) is driven by the
\* policy and template the run started with, or fails.  test-counts goes by what is on
\* disk: it departs from the run's own test settings once the policy was edited there,
\* and only then.
PinnedPolicy ==
  \A r \in Runs : doc[r].mode = "pinned" =>
    \/ used[r] \in {Error, doc[r].policy, TestOf(doc[r].policy.settings)}
    \/ r \in moved /\ DOMAIN used[r].settings = {"test"}

\* Once no session drives, the marker that was left, or written back by a late
\* refresh, neither holds the agent nor keeps a new run out for ever.
Released ==
  (Driving = {}) ~> (Driving # {} \/ (StopAllowed(marker) /\ ~RunIsLive(marker)))
=============================================================================
