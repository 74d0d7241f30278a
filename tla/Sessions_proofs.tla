--------------------------- MODULE Sessions_proofs ---------------------------
(***************************************************************************)
(* Proofs about the two kinds of session.  RunControl, for any number of    *)
(* orchestrator sessions and either provider, under the conditions the      *)
(* README names: marker creates do not overlap, a driving session refreshes *)
(* in time, and no refresh outlives its session.  TmuxSession, for any      *)
(* number of pollers and faults, with polls that begin before the spawn has *)
(* returned or without.                                                    *)
(***************************************************************************)
EXTENDS RunControl, TmuxSession, FiniteSetTheorems, TLAPS

(* ---- the types ---- *)

Shapes ==
  /\ disk = [override |-> disk.override, environment |-> disk.environment, template |-> disk.template]
  /\ doc = [r \in Runs |-> doc[r]] /\ used = [r \in Runs |-> used[r]] /\ made = [r \in Runs |-> made[r]]
  /\ \A r \in Runs :
       doc[r] = [mode |-> doc[r].mode, policy |-> doc[r].policy, file |-> doc[r].file]
  /\ \A r \in Runs : at[r] \in {"snapped", "building"} \/ doc[r].mode = "none" => doc[r] = NoDoc

TInv == TypeOK /\ Shapes

LEMMA PlansAreTyped ==
  ASSUME NEW feature \in Features, NEW f \in HookFiles PROVE Plan(feature, f) \in Plans
BY DEF Plan, Plans, WithHooksEnabled, WithStopHook, Features, HookFiles

LEMMA MarkersAreTyped ==
  ASSUME NEW m \in Markers PROVE Aged(m) \in Markers /\ Refreshed(m) \in Markers
<1>1. m.age \in Ages /\ 0 \in Ages
  BY WindowAssumption DEF Markers, Ages
<1>2. (IF m.kind = "ok" /\ m.age <= Window THEN m.age + 1 ELSE m.age) \in Ages
  BY <1>1, WindowAssumption DEF Ages
<1> QED BY <1>1, <1>2 DEF Markers, Aged, Refreshed

LEMMA NoMarkerIsTyped == NoMarker \in Markers
BY WindowAssumption DEF NoMarker, Markers, Ages

LEMMA InitTyped == Init => TInv
<1> SUFFICES ASSUME Init PROVE TInv
  OBVIOUS
<1>1. marker \in Markers /\ copy \in [Runs -> Markers]
  BY NoMarkerIsTyped DEF Init, Nothing
<1>2. config \in Features /\ settings \in HookFiles /\ plan \in [Runs -> Plans]
  BY DEF Init, Features, HookFiles, Plans, NoPlan
<1>3. lock \in Runs \cup {NoRun} /\ at \in [Runs -> Places]
  BY DEF Init, Places
<1>4. since \in [Runs -> Ages] /\ edits \in 0 .. MaxEdits
  BY WindowAssumption, EditsAssumption DEF Init, Ages
<1>5. \A r \in Runs : doc[r] = NoDoc \/ doc[r] = LegacyDoc
  BY DEF Init
<1>6. \A r \in Runs :
        /\ doc[r].mode \in {"none", "pinned", "legacy"} /\ doc[r].file \in {"ok", "edited", "missing"}
        /\ at[r] = "idle" /\ lock # r
  <2>1. NoDoc.mode = "none" /\ NoDoc.file = "ok" /\ LegacyDoc.mode = "legacy" /\ LegacyDoc.file = "ok"
    BY DEF NoDoc, LegacyDoc
  <2> QED BY <1>5, <2>1, NoRunAssumption DEF Init
<1>7. Shapes
  <2>1. /\ doc = [r \in Runs |-> doc[r]] /\ used = [r \in Runs |-> used[r]] /\ made = [r \in Runs |-> made[r]]
        /\ disk = [override |-> disk.override, environment |-> disk.environment, template |-> disk.template]
    BY DEF Init
  <2> QED BY <1>5, <1>6, <2>1 DEF Shapes, NoDoc, LegacyDoc
<1>8. moved \subseteq Runs
  BY DEF Init
<1> QED BY <1>1, <1>2, <1>3, <1>4, <1>6, <1>7, <1>8 DEF TInv, TypeOK

LEMMA StepTyped == TInv /\ [Next]_vars => TInv'
<1> SUFFICES ASSUME TInv, [Next]_vars PROVE TInv'
  OBVIOUS
<1> USE NoRunAssumption DEF Places
<1>1. CASE UNCHANGED vars
  BY <1>1 DEF vars, hook, pins, TInv, TypeOK, Shapes
<1>2. CASE Tick
  <2>1. marker' \in Markers
    BY <1>2, MarkersAreTyped DEF Tick, TInv, TypeOK
  <2>2. since' \in [Runs -> Ages]
    BY <1>2, WindowAssumption DEF Tick, TInv, TypeOK, Ages
  <2> QED BY <1>2, <2>1, <2>2 DEF Tick, hook, pins, TInv, TypeOK, Shapes
<1>3. CASE Edit
  <2>1. edits' \in 0 .. MaxEdits
    BY <1>3, EditsAssumption DEF Edit, TInv, TypeOK
  <2>0. /\ moved' \subseteq Runs
        /\ disk' = [override |-> disk'.override, environment |-> disk'.environment, template |-> disk'.template]
    BY <1>3 DEF Edit, Bound, TInv, TypeOK, Shapes
  <2>2. CASE doc' = doc
    BY <1>3, <2>0, <2>1, <2>2 DEF Edit, hook, TInv, TypeOK, Shapes
  <2>3. CASE \E r \in Runs, f \in {"edited", "missing"} :
               doc[r].mode = "pinned" /\ doc' = [doc EXCEPT ![r].file = f]
    <3> PICK r \in Runs, f \in {"edited", "missing"} :
               doc[r].mode = "pinned" /\ doc' = [doc EXCEPT ![r].file = f]
      BY <2>3
    <3>1. /\ doc' = [s \in Runs |-> doc'[s]]
          /\ doc'[r] = [mode |-> doc[r].mode, policy |-> doc[r].policy, file |-> f]
          /\ \A s \in Runs \ {r} : doc'[s] = doc[s]
      BY DEF TInv, Shapes
    <3>2. at[r] \notin {"snapped", "building"}
      BY DEF TInv, Shapes, NoDoc
    <3> QED BY <1>3, <2>0, <2>1, <3>1, <3>2 DEF Edit, hook, TInv, TypeOK, Shapes
  <2> QED BY <1>3, <2>2, <2>3 DEF Edit
<1>4. ASSUME NEW r \in Runs, WriteBeat(r) PROVE TInv'
  <2>1. marker' \in Markers
    BY <1>4, MarkersAreTyped DEF WriteBeat, TInv, TypeOK
  <2>2. copy' \in [Runs -> Markers] /\ since' \in [Runs -> Ages]
    BY <1>4, NoMarkerIsTyped, WindowAssumption DEF WriteBeat, Nothing, TInv, TypeOK, Ages
  <2> QED BY <1>4, <2>1, <2>2 DEF WriteBeat, hook, pins, TInv, TypeOK, Shapes
<1>5. ASSUME NEW r \in Runs, PrepareHook(r) PROVE TInv'
  <2>1. plan' \in [Runs -> Plans]
    BY <1>5, PlansAreTyped DEF PrepareHook, TInv, TypeOK
  <2>2. at[r] \in {"idle", "stopped"} /\ \E place \in {"failed", "prepared"} : at' = [at EXCEPT ![r] = place]
    BY <1>5 DEF PrepareHook, Go
  <2>3. UNCHANGED <<marker, config, settings, pins, lock, copy, since>>
    BY <1>5 DEF PrepareHook
  <2> QED BY <2>1, <2>2, <2>3 DEF pins, TInv, TypeOK, Shapes
<1>6. ASSUME NEW r \in Runs, WriteConfig(r) PROVE TInv'
  <2>1. config' \in Features
    BY <1>6 DEF WriteConfig, TInv, TypeOK, Plans
  <2> QED BY <1>6, <2>1 DEF WriteConfig, Go, pins, TInv, TypeOK, Shapes
<1>7. ASSUME NEW r \in Runs, WriteHooks(r) PROVE TInv'
  <2>1. settings' \in HookFiles /\ plan' \in [Runs -> Plans]
    BY <1>7 DEF WriteHooks, TInv, TypeOK, Plans, NoPlan, Features, HookFiles
  <2> QED BY <1>7, <2>1 DEF WriteHooks, Go, pins, TInv, TypeOK, Shapes
<1>8. ASSUME NEW r \in Runs, Snapshot(r) PROVE TInv'
  BY <1>8 DEF Snapshot, Go, hook, TInv, TypeOK, Shapes
<1>9. ASSUME NEW r \in Runs, TakeBuildLock(r) PROVE TInv'
  <2>1. at[r] = "snapped" /\ UNCHANGED <<marker, hook, pins, copy, since>>
    BY <1>9 DEF TakeBuildLock
  <2>2. CASE lock = NoRun /\ lock' = r /\ at' = [at EXCEPT ![r] = "building"]
    BY <2>1, <2>2 DEF hook, pins, TInv, TypeOK, Shapes
  <2>3. CASE lock' = lock /\ at' = [at EXCEPT ![r] = "armed"]
    BY <2>1, <2>3 DEF hook, pins, TInv, TypeOK, Shapes
  <2> QED BY <1>9, <2>2, <2>3 DEF TakeBuildLock, Go
<1>10. ASSUME NEW r \in Runs, WriteDoc(r) PROVE TInv'
  <2>1. /\ doc' = [s \in Runs |-> doc'[s]]
        /\ doc'[r] = Pinned(made[r]) /\ \A s \in Runs \ {r} : doc'[s] = doc[s]
    BY <1>10 DEF WriteDoc, TInv, Shapes
  <2>2. \A s \in Runs \ {r} : at[s] # "building"
    BY <1>10 DEF WriteDoc, TInv, TypeOK
  <2> QED BY <1>10, <2>1, <2>2 DEF WriteDoc, Pinned, Go, hook, TInv, TypeOK, Shapes
<1>11. ASSUME NEW r \in Runs, CheckMarker(r) PROVE TInv'
  <2>1. doc[r].mode # "none"
    BY <1>11 DEF CheckMarker, TInv, Shapes
  <2> QED BY <1>11, <2>1 DEF CheckMarker, Go, hook, pins, TInv, TypeOK, Shapes
<1>12. ASSUME NEW r \in Runs, WriteMarker(r) PROVE TInv'
  <2>1. marker' \in Markers
    BY <1>12, StampsAssumption, WindowAssumption DEF WriteMarker, Markers, Ages
  <2>2. since' \in [Runs -> Ages]
    BY <1>12, WindowAssumption DEF WriteMarker, TInv, TypeOK, Ages
  <2> QED BY <1>12, <2>1, <2>2 DEF WriteMarker, Go, hook, pins, TInv, TypeOK, Shapes
<1>13. ASSUME NEW r \in Runs, ReadMarker(r) PROVE TInv'
  <2>1. copy' \in [Runs -> Markers] /\ since' \in [Runs -> Ages]
    BY <1>13, WindowAssumption DEF ReadMarker, TInv, TypeOK, Ages
  <2> QED BY <1>13, <2>1 DEF ReadMarker, hook, pins, TInv, TypeOK, Shapes
<1>14. ASSUME NEW r \in Runs, RemoveMarker(r) PROVE TInv'
  BY <1>14, NoMarkerIsTyped DEF RemoveMarker, Go, hook, pins, TInv, TypeOK, Shapes
<1>15. ASSUME NEW r \in Runs, LoadPolicy(r) \/ TestCounts(r) PROVE TInv'
  <2>1. used' = [s \in Runs |-> used'[s]]
    BY <1>15 DEF LoadPolicy, TestCounts, TInv, Shapes
  <2> QED BY <1>15, <2>1 DEF LoadPolicy, TestCounts, hook, TInv, TypeOK, Shapes
<1>16. ASSUME NEW r \in Runs, Pause(r) PROVE TInv'
  BY <1>16 DEF Pause, Go, hook, pins, TInv, TypeOK, Shapes
<1>17. ASSUME NEW r \in Runs, Crash(r) PROVE TInv'
  <2>1. copy' \in [Runs -> Markers] /\ plan' \in [Runs -> Plans]
    BY <1>17, NoMarkerIsTyped DEF Crash, Nothing, NoPlan, Plans, Features, HookFiles, TInv, TypeOK
  <2> QED BY <1>17, <2>1 DEF Crash, Go, TInv, TypeOK, Shapes
<1> QED
  BY <1>1, <1>2, <1>3, <1>4, <1>5, <1>6, <1>7, <1>8, <1>9, <1>10, <1>11, <1>12, <1>13,
     <1>14, <1>15, <1>16, <1>17 DEF Next, Session

\* Every variable keeps its type; the build lock is held exactly while a document
\* is built, and no session drives without a document.
THEOREM TypeCorrect == Spec => []TypeOK
<1>1. TInv => TypeOK
  BY DEF TInv
<1> QED BY <1>1, InitTyped, StepTyped, PTL DEF Spec

(* ---- one driver, no early stop, one policy ---- *)

\* Marker creates do not overlap, a driving session refreshes in time, its refreshes
\* end with it and its heartbeats can be parsed.
OneAtATime == ~Overlap /\ ~LateMonitors /\ Timely /\ Stamps = {TRUE}

\* The hook is armed from the start of a session on, whoever else installs it.
HookFits ==
  \A r \in Runs :
    /\ at[r] \in {"prepared", "configured"} =>
         /\ "ours" \in plan[r].hooks.hooks
         /\ Provider = "codex" => plan[r].config = "on"
    /\ at[r] \in {"configured", "armed", "snapped", "building", "creating", "driving"} =>
         (Provider = "codex" => config = "on")
    /\ at[r] \in {"armed", "snapped", "building", "creating", "driving"} => "ours" \in settings.hooks

\* The marker is that of the session that drives, as old as its last refresh.
MarkerFits ==
  \A r \in Runs : at[r] = "driving" =>
    /\ marker.kind = "ok" /\ marker.run = r /\ marker.stamped
    /\ marker.left = (r \in Remaining)
    /\ marker.age = since[r] /\ since[r] <= Window

CopyFits ==
  \A r \in Runs : copy[r] # Nothing =>
    /\ at[r] = "driving" /\ copy[r].kind = "ok" /\ copy[r].run = r
    /\ copy[r].left = (r \in Remaining)

\* At most one session creates its marker or drives.
AloneFits ==
  \A r, s \in Runs :
    at[r] \in {"creating", "driving"} /\ at[s] \in {"creating", "driving"} => r = s

\* While nothing was edited since its snapshot, what is on disk is what a run pins.
PolicyFits ==
  /\ PinnedPolicy
  /\ \A r \in Runs : doc[r].mode = "none" => used[r] = Error
SettingsOf(d) == Merged(d.override, d.environment)
SnapshotFits ==
  \A r \in Runs \ moved :
    /\ at[r] \in {"snapped", "building"} => made[r].settings = SettingsOf(disk)
    /\ doc[r].mode = "pinned" => doc[r].policy.settings = SettingsOf(disk)

RInv == HookFits /\ MarkerFits /\ CopyFits /\ AloneFits /\ NoEarlyStop /\ PolicyFits

LEMMA InitRuns == Init => RInv
<1> SUFFICES ASSUME Init PROVE RInv
  OBVIOUS
<1>1. HookFits /\ MarkerFits /\ CopyFits /\ AloneFits
  BY DEF Init, HookFits, MarkerFits, CopyFits, AloneFits, Nothing
<1>2. NoEarlyStop
  BY RemainingAssumption DEF Init, NoEarlyStop
<1>3. PolicyFits
  BY DEF Init, PolicyFits, PinnedPolicy
<1> QED BY <1>1, <1>2, <1>3 DEF RInv

\* The installation writes hooks that call the program, whatever was there.
LEMMA PlansArm ==
  ASSUME NEW feature, NEW f
  PROVE  /\ "ours" \in Plan(feature, f).hooks.hooks
         /\ Provider = "codex" => Plan(feature, f).config = "on"
BY DEF Plan, WithStopHook, WithHooksEnabled

\* A refreshed or older marker keeps its owner.
LEMMA MarkersKeep ==
  ASSUME NEW m \in Markers
  PROVE  /\ Refreshed(m).kind = m.kind /\ Refreshed(m).run = m.run /\ Refreshed(m).left = m.left
         /\ Refreshed(m).stamped /\ Refreshed(m).age = 0
         /\ Aged(m).kind = m.kind /\ Aged(m).run = m.run /\ Aged(m).left = m.left
         /\ Aged(m).stamped = m.stamped
         /\ Aged(m).age = IF m.kind = "ok" /\ m.age <= Window THEN m.age + 1 ELSE m.age
BY DEF Markers, Refreshed, Aged

LEMMA PinnedLoads ==
  ASSUME NEW d, d.mode = "pinned" PROVE LoadForState(d, disk) \in {Error, d.policy}
BY DEF LoadForState, LoadSnapshot

\* A step that moves session r to another place and leaves everything else alone.
LEMMA MoveRuns ==
  ASSUME TInv, RInv, NEW r \in Runs, NEW place, at' = [at EXCEPT ![r] = place],
         place \notin {"creating", "driving", "stopped", "prepared", "configured"},
         place \in {"armed", "snapped", "building"} =>
           /\ at[r] \in {"configured", "armed", "snapped", "building"}
           /\ "ours" \in settings'.hooks,
         config' = config \/ config' = "on" \/ Provider # "codex",
         "ours" \in settings.hooks => "ours" \in settings'.hooks,
         \A s \in Runs \ {r} : plan'[s] = plan[s],
         UNCHANGED <<copy, marker, since>>, copy[r] = Nothing, PolicyFits'
  PROVE  RInv'
<1>1. at'[r] = place /\ \A s \in Runs \ {r} : at'[s] = at[s]
  BY DEF TInv, TypeOK
<1>2. HookFits'
  BY <1>1 DEF RInv, HookFits
<1>3. MarkerFits' /\ CopyFits' /\ AloneFits'
  BY <1>1 DEF RInv, MarkerFits, CopyFits, AloneFits
<1>4. NoEarlyStop'
  BY <1>1, RemainingAssumption DEF RInv, NoEarlyStop
<1> QED BY <1>2, <1>3, <1>4 DEF RInv

LEMMA StepRuns == OneAtATime /\ TInv /\ RInv /\ SnapshotFits /\ [Next]_vars => RInv'
<1> SUFFICES ASSUME OneAtATime, TInv, RInv, SnapshotFits, [Next]_vars PROVE RInv'
  OBVIOUS
<1>0. \A r \in Runs : at[r] \notin {"driving"} => copy[r] = Nothing
  BY DEF RInv, CopyFits
<1>p. ASSUME UNCHANGED <<doc, used>>, moved \subseteq moved' PROVE PolicyFits'
  BY <1>p DEF RInv, PolicyFits, PinnedPolicy
<1>1. CASE UNCHANGED vars
  BY <1>1 DEF vars, hook, pins, RInv, HookFits, MarkerFits, CopyFits, AloneFits, NoEarlyStop, PolicyFits,
              PinnedPolicy
<1>2. CASE Tick
  <2>1. marker' = Aged(marker) /\ UNCHANGED <<config, settings, plan, doc, used, moved, at, copy>>
    BY <1>2 DEF Tick, hook, pins
  <2>2. \A r \in Runs : at[r] = "driving" => since[r] < Window /\ since'[r] = since[r] + 1
    BY <1>2, WindowAssumption DEF Tick, OneAtATime, Driving, TInv, TypeOK, Ages
  <2>3. MarkerFits'
    BY <2>1, <2>2, MarkersKeep, WindowAssumption DEF RInv, MarkerFits, TInv, TypeOK, Ages
  <2>4. HookFits' /\ CopyFits' /\ AloneFits' /\ NoEarlyStop'
    BY <2>1 DEF RInv, HookFits, CopyFits, AloneFits, NoEarlyStop
  <2> QED BY <1>p, <2>1, <2>3, <2>4 DEF RInv
<1>3. CASE Edit
  <2>1. UNCHANGED <<marker, config, settings, plan, used, at, copy, since>>
    BY <1>3 DEF Edit, hook
  <2>2. \A r \in Runs : doc'[r].mode = doc[r].mode /\ doc'[r].policy = doc[r].policy
    BY <1>3 DEF Edit, TInv, Shapes
  <2>5. \A r \in moved : doc[r].mode = "pinned" => r \in moved'
    BY <1>3 DEF Edit, Bound, TInv, TypeOK
  <2>3. PolicyFits'
    BY <2>1, <2>2, <2>5 DEF RInv, PolicyFits, PinnedPolicy
  <2>4. HookFits' /\ MarkerFits' /\ CopyFits' /\ AloneFits' /\ NoEarlyStop'
    BY <2>1 DEF RInv, HookFits, MarkerFits, CopyFits, AloneFits, NoEarlyStop
  <2> QED BY <2>3, <2>4 DEF RInv
<1>4. ASSUME NEW r \in Runs, WriteBeat(r) PROVE RInv'
  <2>1. /\ copy[r] # Nothing /\ marker' = Refreshed(copy[r])
        /\ UNCHANGED <<config, settings, plan, doc, used, moved, at>>
    BY <1>4 DEF WriteBeat, hook, pins
  <2>2. at[r] = "driving" /\ copy[r] \in Markers
    BY <2>1 DEF RInv, CopyFits, TInv, TypeOK
  <2>3. since'[r] = 0 /\ copy'[r] = Nothing /\ \A s \in Runs \ {r} : copy'[s] = copy[s]
    BY <1>4 DEF WriteBeat, TInv, TypeOK
  <2>4. \A s \in Runs : at[s] = "driving" => s = r
    BY <2>2 DEF RInv, AloneFits
  <2>5. MarkerFits'
    BY <2>1, <2>2, <2>3, <2>4, MarkersKeep, WindowAssumption DEF RInv, CopyFits, MarkerFits
  <2>6. HookFits' /\ CopyFits' /\ AloneFits' /\ NoEarlyStop'
    BY <2>1, <2>3 DEF RInv, HookFits, CopyFits, AloneFits, NoEarlyStop
  <2> QED BY <1>p, <2>1, <2>5, <2>6 DEF RInv
<1>5. ASSUME NEW r \in Runs, PrepareHook(r) PROVE RInv'
  <2>1. CASE Unreadable(config, settings)
    BY <1>0, <1>5, <1>p, <2>1, MoveRuns DEF PrepareHook, Go, pins
  <2>2. CASE ~Unreadable(config, settings)
    <3>1. /\ plan'[r] = Plan(config, settings) /\ at'[r] = "prepared" /\ at[r] \in {"idle", "stopped"}
          /\ \A s \in Runs \ {r} : plan'[s] = plan[s] /\ at'[s] = at[s]
          /\ UNCHANGED <<marker, config, settings, doc, used, moved, copy, since>>
      BY <1>5, <2>2 DEF PrepareHook, Go, pins, TInv, TypeOK
    <3>2. HookFits'
      BY <3>1, PlansArm DEF RInv, HookFits
    <3>3. MarkerFits' /\ CopyFits' /\ AloneFits' /\ NoEarlyStop'
      BY <3>1, RemainingAssumption DEF RInv, MarkerFits, CopyFits, AloneFits, NoEarlyStop
    <3> QED BY <1>p, <3>1, <3>2, <3>3 DEF RInv
  <2> QED BY <2>1, <2>2
<1>6. ASSUME NEW r \in Runs, WriteConfig(r) PROVE RInv'
  <2>1. /\ at[r] = "prepared" /\ at'[r] = "configured" /\ config' = plan[r].config
        /\ \A s \in Runs \ {r} : at'[s] = at[s]
        /\ UNCHANGED <<marker, settings, plan, doc, used, moved, copy, since>>
    BY <1>6 DEF WriteConfig, Go, pins, TInv, TypeOK
  <2>2. Provider = "codex" => config' = "on"
    BY <2>1 DEF RInv, HookFits
  <2>3. HookFits'
    BY <2>1, <2>2 DEF RInv, HookFits
  <2>4. MarkerFits' /\ CopyFits' /\ AloneFits' /\ NoEarlyStop'
    BY <2>1, RemainingAssumption DEF RInv, MarkerFits, CopyFits, AloneFits, NoEarlyStop
  <2> QED BY <1>p, <2>1, <2>3, <2>4 DEF RInv
<1>7. ASSUME NEW r \in Runs, WriteHooks(r) PROVE RInv'
  <2>1. at[r] = "configured" /\ "ours" \in settings'.hooks
    BY <1>7 DEF WriteHooks, RInv, HookFits
  <2>2. \A s \in Runs \ {r} : plan'[s] = plan[s]
    BY <1>7 DEF WriteHooks, TInv, TypeOK
  <2> QED BY <1>0, <1>7, <1>p, <2>1, <2>2, MoveRuns DEF WriteHooks, Go, pins
<1>8. ASSUME NEW r \in Runs, Snapshot(r) PROVE RInv'
  <2>1. at[r] = "armed" /\ "ours" \in settings.hooks
    BY <1>8 DEF Snapshot, RInv, HookFits
  <2>2. PolicyFits'
    BY <1>8 DEF Snapshot, NoDoc, RInv, PolicyFits, PinnedPolicy
  <2> QED BY <1>0, <1>8, <2>1, <2>2, MoveRuns DEF Snapshot, Go, hook
<1>9. ASSUME NEW r \in Runs, TakeBuildLock(r) PROVE RInv'
  <2>1. at[r] = "snapped" /\ "ours" \in settings.hooks
    BY <1>9 DEF TakeBuildLock, RInv, HookFits
  <2> QED BY <1>0, <1>9, <1>p, <2>1, MoveRuns DEF TakeBuildLock, Go, hook, pins
<1>10. ASSUME NEW r \in Runs, WriteDoc(r) PROVE RInv'
  <2>1. at[r] = "building" /\ "ours" \in settings.hooks /\ doc[r] = NoDoc
    BY <1>10 DEF WriteDoc, RInv, HookFits, TInv, Shapes
  <2>2. used' = used /\ used[r] = Error /\ moved' = moved
    BY <1>10, <2>1 DEF WriteDoc, RInv, PolicyFits, NoDoc
  <2>3. doc'[r] = Pinned(made[r]) /\ \A s \in Runs \ {r} : doc'[s] = doc[s]
    BY <1>10 DEF WriteDoc, TInv, Shapes
  <2>4. PolicyFits'
    BY <2>2, <2>3 DEF RInv, PolicyFits, PinnedPolicy, Pinned
  <2> QED BY <1>0, <1>10, <2>1, <2>4, MoveRuns DEF WriteDoc, Go, hook
<1>11. ASSUME NEW r \in Runs, CheckMarker(r) PROVE RInv'
  <2>1. /\ at[r] = "armed" /\ ~RunIsLive(marker) /\ \A s \in Runs : at[s] # "creating"
        /\ at' = [at EXCEPT ![r] = "creating"]
        /\ UNCHANGED <<marker, config, settings, plan, doc, used, moved, copy, since>>
    BY <1>11 DEF CheckMarker, OneAtATime, Go, hook, pins
  <2>2. \A s \in Runs : at[s] # "driving"
    BY <2>1, WindowAssumption DEF RInv, MarkerFits, RunIsLive, AgeIsKnown
  <2>3. at'[r] = "creating" /\ \A s \in Runs \ {r} : at'[s] = at[s]
    BY <2>1 DEF TInv, TypeOK
  <2>4. HookFits' /\ NoEarlyStop'
    BY <2>1, <2>3, RemainingAssumption DEF RInv, HookFits, NoEarlyStop
  <2>5. MarkerFits' /\ CopyFits' /\ AloneFits'
    BY <2>1, <2>2, <2>3 DEF RInv, MarkerFits, CopyFits, AloneFits
  <2> QED BY <1>p, <2>1, <2>4, <2>5 DEF RInv
<1>12. ASSUME NEW r \in Runs, WriteMarker(r) PROVE RInv'
  <2>1. /\ at[r] = "creating" /\ at' = [at EXCEPT ![r] = "driving"]
        /\ marker' = [kind |-> "ok", run |-> r, left |-> r \in Remaining, stamped |-> TRUE, age |-> 0]
        /\ UNCHANGED <<config, settings, plan, doc, used, moved, copy>>
    BY <1>12 DEF WriteMarker, OneAtATime, Go, hook, pins
  <2>2. at'[r] = "driving" /\ since'[r] = 0 /\ \A s \in Runs \ {r} : at'[s] = at[s]
    BY <1>12, <2>1 DEF WriteMarker, TInv, TypeOK
  <2>3. \A s \in Runs \ {r} : at[s] \notin {"creating", "driving"}
    BY <2>1 DEF RInv, AloneFits
  <2>4. MarkerFits'
    BY <2>1, <2>2, <2>3, WindowAssumption DEF MarkerFits
  <2>5. HookFits' /\ NoEarlyStop'
    BY <2>1, <2>2, RemainingAssumption DEF RInv, HookFits, NoEarlyStop
  <2>6. CopyFits' /\ AloneFits'
    BY <2>1, <2>2, <2>3 DEF RInv, CopyFits, AloneFits
  <2> QED BY <1>p, <2>1, <2>4, <2>5, <2>6 DEF RInv
<1>13. ASSUME NEW r \in Runs, ReadMarker(r) PROVE RInv'
  <2>1. /\ at[r] = "driving" /\ marker.kind = "ok" /\ marker.run = r /\ marker.left = (r \in Remaining)
        /\ copy' = [copy EXCEPT ![r] = marker] /\ since' = since
        /\ UNCHANGED <<marker, config, settings, plan, doc, used, moved, at>>
    BY <1>13 DEF ReadMarker, hook, pins, RInv, MarkerFits
  <2>2. CopyFits'
    BY <2>1 DEF RInv, CopyFits, TInv, TypeOK
  <2>3. HookFits' /\ MarkerFits' /\ AloneFits' /\ NoEarlyStop'
    BY <2>1 DEF RInv, HookFits, MarkerFits, AloneFits, NoEarlyStop
  <2> QED BY <1>p, <2>1, <2>2, <2>3 DEF RInv
<1>14. ASSUME NEW r \in Runs, RemoveMarker(r) PROVE RInv'
  <2>1. /\ at[r] = "driving" /\ at' = [at EXCEPT ![r] = "over"]
        /\ UNCHANGED <<config, settings, plan, doc, used, moved, copy, since>>
    BY <1>14 DEF RemoveMarker, Go, hook, pins
  <2>2. at'[r] = "over" /\ \A s \in Runs \ {r} : at'[s] = at[s] /\ at[s] # "driving"
    BY <2>1 DEF RInv, AloneFits, TInv, TypeOK
  <2>3. copy[r] = Nothing
    BY <1>14 DEF RemoveMarker, Refresh, OneAtATime
  <2>4. HookFits' /\ CopyFits' /\ NoEarlyStop'
    BY <2>1, <2>2, <2>3, RemainingAssumption DEF RInv, HookFits, CopyFits, NoEarlyStop
  <2>5. MarkerFits' /\ AloneFits'
    BY <2>2 DEF RInv, MarkerFits, AloneFits
  <2> QED BY <1>p, <2>1, <2>4, <2>5 DEF RInv
<1>15. ASSUME NEW r \in Runs, LoadPolicy(r) \/ TestCounts(r) PROVE RInv'
  <2>1. /\ at[r] = "driving" /\ marker.kind = "ok" /\ marker.run = r
        /\ UNCHANGED <<marker, config, settings, plan, doc, moved, at, copy, since>>
    BY <1>15 DEF LoadPolicy, TestCounts, hook, RInv, MarkerFits
  <2>2. used'[r] \in {LoadForState(doc[r], disk), LiveTest(disk)} /\ \A s \in Runs \ {r} : used'[s] = used[s]
    <3>1. \E value \in {LoadForState(doc[r], disk), LiveTest(disk)} : used' = [used EXCEPT ![r] = value]
      <4>1. CASE LoadPolicy(r)
        BY <2>1, <4>1 DEF LoadPolicy
      <4>2. CASE TestCounts(r)
        BY <4>2 DEF TestCounts
      <4> QED BY <1>15, <4>1, <4>2
    <3> QED BY <3>1 DEF TInv, Shapes
  <2>3. doc[r].mode # "none"
    BY <2>1 DEF TInv, TypeOK
  <2>4. doc[r].mode = "pinned" =>
          (used'[r] \in {Error, doc[r].policy, TestOf(doc[r].policy.settings)}
             \/ (r \in moved /\ DOMAIN used'[r].settings = {"test"}))
    <3>1. CASE used'[r] = LoadForState(doc[r], disk)
      BY <3>1, PinnedLoads
    <3>2. CASE used'[r] = LiveTest(disk)
      <4>1. used'[r] \in {Error, TestOf(SettingsOf(disk))}
        BY <3>2 DEF LiveTest, SettingsOf
      <4>2. DOMAIN TestOf(SettingsOf(disk)).settings = {"test"}
        BY DEF TestOf
      <4>3. doc[r].mode = "pinned" /\ r \notin moved => doc[r].policy.settings = SettingsOf(disk)
        BY DEF SnapshotFits
      <4> QED BY <4>1, <4>2, <4>3
    <3> QED BY <2>2, <3>1, <3>2
  <2>5. PolicyFits'
    BY <2>1, <2>2, <2>3, <2>4 DEF RInv, PolicyFits, PinnedPolicy
  <2>6. HookFits' /\ MarkerFits' /\ CopyFits' /\ AloneFits' /\ NoEarlyStop'
    BY <2>1 DEF RInv, HookFits, MarkerFits, CopyFits, AloneFits, NoEarlyStop
  <2> QED BY <2>5, <2>6 DEF RInv
<1>16. ASSUME NEW r \in Runs, Pause(r) PROVE RInv'
  <2>1. /\ at[r] = "driving" /\ at' = [at EXCEPT ![r] = "stopped"] /\ copy[r] = Nothing
        /\ UNCHANGED <<marker, config, settings, plan, doc, used, moved, copy, since>>
    BY <1>16 DEF Pause, Go, Refresh, OneAtATime, hook, pins
  <2>2. at'[r] = "stopped" /\ \A s \in Runs \ {r} : at'[s] = at[s]
    BY <2>1 DEF TInv, TypeOK
  <2>3. StopAllowed(marker)
    BY <1>16, <2>1 DEF Pause, Armed, RInv, HookFits
  <2>4. r \notin Remaining
    <3>1. ~RunIsStale(marker)
      <4>1. marker.age = since[r] /\ since[r] <= Window /\ since[r] \in Nat /\ Window \in Nat
        BY <2>1, WindowAssumption DEF RInv, MarkerFits, TInv, TypeOK, Ages
      <4> QED BY <4>1 DEF RunIsStale
    <3>2. marker.kind = "ok" /\ (r \in Remaining => marker.left)
      BY <2>1, Zenon DEF RInv, MarkerFits
    <3> QED BY <2>3, <3>1, <3>2 DEF StopAllowed
  <2>5. NoEarlyStop'
    BY <2>2, <2>4, RemainingAssumption DEF RInv, NoEarlyStop
  <2>6. HookFits' /\ MarkerFits' /\ CopyFits' /\ AloneFits'
    BY <2>1, <2>2 DEF RInv, HookFits, MarkerFits, CopyFits, AloneFits
  <2> QED BY <1>p, <2>1, <2>5, <2>6 DEF RInv
<1>17. ASSUME NEW r \in Runs, Crash(r) PROVE RInv'
  <2>1. /\ at'[r] = "idle" /\ copy'[r] = Nothing /\ UNCHANGED <<marker, config, settings, doc, used, moved, since>>
        /\ \A s \in Runs \ {r} : at'[s] = at[s] /\ copy'[s] = copy[s] /\ plan'[s] = plan[s]
    BY <1>17 DEF Crash, Go, OneAtATime, TInv, TypeOK
  <2>2. HookFits' /\ NoEarlyStop'
    BY <2>1, RemainingAssumption DEF RInv, HookFits, NoEarlyStop
  <2>3. MarkerFits' /\ CopyFits' /\ AloneFits'
    BY <2>1 DEF RInv, MarkerFits, CopyFits, AloneFits
  <2> QED BY <1>p, <2>1, <2>2, <2>3 DEF RInv
<1> QED
  BY <1>1, <1>2, <1>3, <1>4, <1>5, <1>6, <1>7, <1>8, <1>9, <1>10, <1>11, <1>12, <1>13,
     <1>14, <1>15, <1>16, <1>17 DEF Next, Session

\* The edits that come after a snapshot are told by moved.
LEMMA StepSnapshots == TInv /\ SnapshotFits /\ [Next]_vars => SnapshotFits'
<1> SUFFICES ASSUME TInv, SnapshotFits, [Next]_vars PROVE SnapshotFits'
  OBVIOUS
<1>0. at \in [Runs -> Places]
  BY DEF TInv, TypeOK
<1>1. CASE Edit
  <2>1. UNCHANGED <<made, at>>
    BY <1>1 DEF Edit
  <2>2. CASE moved' = Bound
    <3>1. \A r \in Runs : doc'[r].mode = "pinned" => doc[r].mode = "pinned"
      BY <1>1 DEF Edit, TInv, Shapes
    <3> QED BY <2>1, <2>2, <3>1 DEF SnapshotFits, Bound
  <2>3. CASE SettingsOf(disk') = SettingsOf(disk) /\ moved' = moved
    <3>1. \A r \in Runs : doc'[r].mode = doc[r].mode /\ doc'[r].policy = doc[r].policy
      BY <1>1 DEF Edit, TInv, Shapes
    <3> QED BY <2>1, <2>3, <3>1 DEF SnapshotFits
  <2> QED BY <1>1, <2>2, <2>3 DEF Edit, SettingsOf, TInv, Shapes
<1>2. ASSUME NEW r \in Runs, Snapshot(r) PROVE SnapshotFits'
  <2>1. /\ UNCHANGED <<disk, doc>> /\ doc[r] = NoDoc /\ moved' = moved \ {r}
        /\ made' = [made EXCEPT ![r] = Effective(disk)]
        /\ at' = [at EXCEPT ![r] = IF Effective(disk) = Error THEN "failed" ELSE "snapped"]
    BY <1>2 DEF Snapshot, Go
  <2>2. Effective(disk) # Error => Effective(disk).settings = SettingsOf(disk)
    BY DEF Effective, SettingsOf
  <2>3. \A s \in Runs \ {r} : made'[s] = made[s] /\ at'[s] = at[s]
    BY <1>0, <2>1 DEF TInv, Shapes
  <2>4. at'[r] = "snapped" => made'[r].settings = SettingsOf(disk)
    BY <1>0, <2>1, <2>2 DEF TInv, Shapes
  <2>5. at'[r] # "building"
    BY <1>0, <2>1
  <2> QED BY <2>1, <2>3, <2>4, <2>5 DEF SnapshotFits, NoDoc
<1>3. ASSUME NEW r \in Runs, TakeBuildLock(r) PROVE SnapshotFits'
  BY <1>0, <1>3 DEF TakeBuildLock, Go, pins, SnapshotFits
<1>4. ASSUME NEW r \in Runs, WriteDoc(r) PROVE SnapshotFits'
  <2>1. /\ at[r] = "building" /\ at'[r] = "armed" /\ doc'[r] = Pinned(made[r]) /\ UNCHANGED <<disk, moved>>
        /\ \A s \in Runs \ {r} : doc'[s] = doc[s] /\ made'[s] = made[s] /\ at'[s] = at[s]
    BY <1>0, <1>4 DEF WriteDoc, Go, TInv, Shapes
  <2> QED BY <2>1 DEF SnapshotFits, Pinned
<1>5. ASSUME NEW r \in Runs, Crash(r) PROVE SnapshotFits'
  <2>1. /\ at'[r] = "idle" /\ UNCHANGED <<disk, doc, moved>>
        /\ \A s \in Runs \ {r} : made'[s] = made[s] /\ at'[s] = at[s]
    BY <1>0, <1>5 DEF Crash, Go, TInv, Shapes
  <2> QED BY <2>1 DEF SnapshotFits
<1>6. ASSUME UNCHANGED <<disk, doc, made, moved>>,
             \A r \in Runs : at'[r] \in {"snapped", "building"} => at[r] \in {"snapped", "building"}
      PROVE  SnapshotFits'
  BY <1>6 DEF SnapshotFits
<1>7. ASSUME NEW r \in Runs,
             \/ PrepareHook(r) \/ WriteConfig(r) \/ WriteHooks(r) \/ CheckMarker(r) \/ WriteMarker(r)
             \/ RemoveMarker(r) \/ Pause(r)
      PROVE  SnapshotFits'
  <2>1. UNCHANGED <<disk, doc, made, moved>>
    BY <1>7 DEF PrepareHook, WriteConfig, WriteHooks, CheckMarker, WriteMarker, RemoveMarker, Pause, pins
  <2>2. \E place \in Places \ {"snapped", "building"} : at' = [at EXCEPT ![r] = place]
    BY <1>7 DEF PrepareHook, WriteConfig, WriteHooks, CheckMarker, WriteMarker, RemoveMarker, Pause, Go, Places
  <2> QED BY <1>0, <1>6, <2>1, <2>2
<1>8. ASSUME NEW r \in Runs, ReadMarker(r) \/ WriteBeat(r) \/ LoadPolicy(r) \/ TestCounts(r) PROVE SnapshotFits'
  BY <1>6, <1>8 DEF ReadMarker, WriteBeat, LoadPolicy, TestCounts, pins
<1>9. CASE Tick
  BY <1>6, <1>9 DEF Tick, pins
<1>10. CASE UNCHANGED vars
  BY <1>6, <1>10 DEF vars, pins
<1> QED BY <1>1, <1>2, <1>3, <1>4, <1>5, <1>7, <1>8, <1>9, <1>10 DEF Next, Session

LEMMA RunsFit == ASSUME OneAtATime PROVE Spec => [](TInv /\ RInv)
<1>1. Init => TInv /\ RInv /\ SnapshotFits
  BY InitTyped, InitRuns DEF Init, SnapshotFits, NoDoc, LegacyDoc
<1>2. TInv /\ RInv /\ SnapshotFits /\ [Next]_vars => TInv' /\ RInv' /\ SnapshotFits'
  BY StepTyped, StepRuns, StepSnapshots
<1> QED BY <1>1, <1>2, PTL DEF Spec

\* A session with stories left never stops before it is over, for any number of
\* sessions that install the hook, crash and resume at any time.
THEOREM NeverStopsEarly == ASSUME OneAtATime PROVE Spec => []NoEarlyStop
<1>1. RInv => NoEarlyStop
  BY DEF RInv
<1> QED BY <1>1, RunsFit, PTL

\* Whatever is edited and however often, a command of a run is driven by the policy the
\* run was pinned to, or fails; test-counts alone may go by other test settings, and only
\* after the policy on disk was edited (load_runtime_policy and load_policy_unresolved).
THEOREM PolicyIsPinned == ASSUME OneAtATime PROVE Spec => []PinnedPolicy
<1>1. RInv => PinnedPolicy
  BY DEF RInv, PolicyFits
<1> QED BY <1>1, RunsFit, PTL

\* Two sessions never drive the project at the same time.
THEOREM AtMostOneDrives == ASSUME OneAtATime PROVE Spec => []OneDriver
<1>1. ASSUME RInv PROVE OneDriver
  <2>1. \A r, s \in Driving : r = s
    BY <1>1 DEF RInv, AloneFits, Driving
  <2>2. CASE Driving = {}
    BY <2>2, FS_EmptySet DEF OneDriver
  <2>3. CASE Driving # {}
    <3>1. PICK r : Driving = {r}
      BY <2>1, <2>3
    <3> QED BY <3>1, FS_Singleton, SMTT(30) DEF OneDriver
  <2> QED BY <2>2, <2>3
<1> QED BY <1>1, RunsFit, PTL

(* ---- TmuxSession ---- *)

Panes == {"none", "placeholder", "runner", "shell"} \cup Ended

PollStates ==
  [at : {"idle", "over", "beat", "mark", "marking", "read", "look", "wait", "reconcile",
         "reread", "capture", "succeed", "succeeded", "screen", "judge"},
   op : {"status", "full", "heartbeat"}, copy : Files, seen : Panes,
   up : BOOLEAN, told : BOOLEAN, polls : Nat]

SessionTypes ==
  /\ state \in Files /\ spawnCopy \in Files /\ runCopy \in Files
  /\ pane \in Panes
  /\ agent \in {"none", "running", "killed"} \cup ExitCodes
  /\ done \in BOOLEAN
  /\ poll \in [Pollers -> PollStates]

\* Where spawner, runner and agent are fits together: there is one launch, the
\* runner lives in its pane, and a dead pane has no agent.
StagesFit ==
  /\ spawner = "idle" => pane = "none"
  /\ spawner \in {"idle", "create", "respawn"} => runner = "none" /\ agent = "none"
  /\ runner \in {"launch", "launching", "command", "missing", "missed"} => agent = "none"
  /\ runner \in {"run", "running", "wait", "final"} => agent # "none"
  /\ runner = "final" => agent \in ExitCodes
  /\ runner \notin {"none", "gone"} => pane = "runner"
  /\ pane \in Ended => agent # "running" /\ runner = "gone" /\ (pane = "ok" => agent = "ok")
  /\ agent = "running" => pane \in {"runner", "shell"}
  /\ runner = "gone" => agent # "running"

\* No agent of the session runs, and none will.
NoMore ==
  /\ agent # "running"
  /\ \/ agent # "none"
     \/ runner \in {"missing", "missed", "gone"}
     \/ pane = "none" /\ spawner # "idle"

\* What a copy of the state file says is so, however old it is.
Honest(s) ==
  /\ s.life = "running" => s.child /\ agent # "none"
  /\ s.life = "finished" /\ s.result = "success" => done \/ agent = "ok"
  /\ s.life = "finished" /\ s.result # "success" => NoMore

\* What a poll has seen of the pane, and concluded, is still so.
SeenFits(r) ==
  /\ r.at # "idle" \/ r.polls > 0 => spawner # "idle"
  /\ r.seen \in Ended => NoMore /\ (r.seen = "ok" => agent = "ok")
  /\ r.at \in {"wait", "reconcile"} /\ r.seen = "none" => NoMore
  /\ r.at \in {"succeed", "succeeded"} => done

AnswerFits == answer \in {"crashed", "not_found"} => NoMore \/ done

SInv ==
  /\ SessionTypes /\ StagesFit
  /\ Honest(state) /\ Honest(spawnCopy) /\ Honest(runCopy)
  /\ \A p \in Pollers : Honest(poll[p].copy) /\ SeenFits(poll[p])
  /\ AnswerFits

LEMMA AbsentIsFile == Absent \in Files /\ Absent.life = "none" /\ Absent.kind = "none"
BY DEF Absent, Files

LEMMA NotStartedIsPoll ==
  /\ NotStarted \in PollStates
  /\ NotStarted = [at |-> "idle", op |-> "status", copy |-> Absent, seen |-> "none",
                   up |-> FALSE, told |-> FALSE, polls |-> 0]
BY AbsentIsFile DEF NotStarted, PollStates, Panes

LEMMA LoadedIs ==
  ASSUME state \in Files PROVE Loaded \in Files /\ (Loaded = state \/ Loaded = Absent)
BY AbsentIsFile DEF Loaded

LEMMA ResultIs ==
  ASSUME NEW code \in Ended
  PROVE  /\ Result(code) \in {"success", "spawn_error", "interrupted", "failure", "unknown"}
         /\ Result(code) = "success" <=> code = "ok"
BY KindsAssumption DEF Result, Ended

LEMMA FinishedIs ==
  ASSUME NEW s \in Files, NEW result \in {"success", "spawn_error", "interrupted", "failure",
                                          "unknown", "never_launched"}
  PROVE  /\ Finished(s, result) \in Files /\ Finished(s, result).life = "finished"
         /\ Finished(s, result).result = result
<1> DEFINE f == Finished(s, result)
<1>1. f = [s EXCEPT !.kind = "runner", !.life = "finished", !.result = result]
  BY DEF Finished
<1> HIDE DEF f
<1>2. f.life = "finished" /\ f.result = result
  BY <1>1 DEF Files
<1>3. f \in Files
  BY <1>1 DEF Files
<1> QED BY <1>2, <1>3 DEF f

LEMMA InitS == SessionInit => SInv
<1> SUFFICES ASSUME SessionInit PROVE SInv
  OBVIOUS
<1>1. SessionTypes
  BY AbsentIsFile, NotStartedIsPoll DEF SessionInit, SessionTypes, Panes
<1>2. StagesFit /\ AnswerFits
  BY KindsAssumption DEF SessionInit, StagesFit, Ended, AnswerFits
<1>3. Honest(state) /\ Honest(spawnCopy) /\ Honest(runCopy)
  BY AbsentIsFile DEF SessionInit, Honest
<1>4. ASSUME NEW p \in Pollers PROVE Honest(poll[p].copy) /\ SeenFits(poll[p])
  <2>1. poll[p] = NotStarted
    BY DEF SessionInit
  <2>2. "none" \notin Ended
    BY KindsAssumption DEF Ended
  <2>3. /\ poll[p].at = "idle" /\ poll[p].polls = 0 /\ poll[p].seen = "none"
        /\ poll[p].copy = Absent
    BY <2>1, NotStartedIsPoll
  <2> QED BY <2>2, <2>3, AbsentIsFile DEF Honest, SeenFits
<1> QED BY <1>1, <1>2, <1>3, <1>4 DEF SInv

\* A poll takes its next step: it leaves the processes alone, and what it keeps and
\* writes is so.
LEMMA PollStep ==
  ASSUME SInv, NEW p \in Pollers, NEW r \in PollStates, Put(p, r), UNCHANGED procs,
         Honest(r.copy), SeenFits(r), state' \in Files, Honest(state'),
         answer' \in {"crashed", "not_found"} => NoMore \/ done
  PROVE  SInv'
<1>1. /\ poll' \in [Pollers -> PollStates]
      /\ \A q \in Pollers : poll'[q] = IF q = p THEN r ELSE poll[q]
  BY DEF SInv, SessionTypes, Put
<1>2. SessionTypes' /\ StagesFit'
  BY <1>1 DEF SInv, SessionTypes, StagesFit, procs
<1>3. NoMore' <=> NoMore
  BY DEF NoMore, procs
<1>4. Honest(state)' /\ Honest(spawnCopy)' /\ Honest(runCopy)'
  BY <1>3 DEF SInv, Honest, procs
<1>5. ASSUME NEW q \in Pollers PROVE (Honest(poll[q].copy) /\ SeenFits(poll[q]))'
  <2>1. Honest(poll'[q].copy) /\ SeenFits(poll'[q])
    BY <1>1 DEF SInv
  <2> QED BY <1>3, <2>1 DEF Honest, SeenFits, procs
<1>6. AnswerFits'
  BY <1>3 DEF AnswerFits, procs
<1> QED BY <1>2, <1>4, <1>5, <1>6 DEF SInv

\* What the caller is told: the death of a session only when it is over.
LEMMA ReplyStep ==
  ASSUME SInv, NEW p \in Pollers, NEW s, NEW c, Reply(p, s, c), UNCHANGED procs,
         poll[p].at # "idle", s \in {"crashed", "not_found"} => NoMore \/ done,
         state' \in Files, Honest(state')
  PROVE  SInv'
<1>1. /\ poll[p] \in PollStates /\ spawner # "idle"
      /\ AnswerFits
  BY DEF SInv, SessionTypes, SeenFits
<1>2. PICK r : /\ Put(p, r) /\ r \in PollStates /\ r.copy = Absent /\ r.seen = "none"
               /\ r.at \in {"idle", "over", "mark", "read"}
  <2>1. CASE Put(p, [NotStarted EXCEPT !.at = "over"])
    <3> DEFINE r == [NotStarted EXCEPT !.at = "over"]
    <3>1. /\ r \in PollStates /\ r.copy = Absent /\ r.seen = "none"
          /\ r.at \in {"idle", "over", "mark", "read"}
      BY NotStartedIsPoll DEF PollStates
    <3> QED BY <2>1, <3>1
  <2>2. CASE Put(p, [NotStarted EXCEPT !.at = "mark", !.op = "heartbeat"])
    <3> DEFINE r == [NotStarted EXCEPT !.at = "mark", !.op = "heartbeat"]
    <3>1. /\ r \in PollStates /\ r.copy = Absent /\ r.seen = "none"
          /\ r.at \in {"idle", "over", "mark", "read"}
      BY NotStartedIsPoll DEF PollStates
    <3> QED BY <2>2, <3>1
  <2>3. CASE Put(p, [NotStarted EXCEPT !.at = "read", !.op = "full"])
    <3> DEFINE r == [NotStarted EXCEPT !.at = "read", !.op = "full"]
    <3>1. /\ r \in PollStates /\ r.copy = Absent /\ r.seen = "none"
          /\ r.at \in {"idle", "over", "mark", "read"}
      BY NotStartedIsPoll DEF PollStates
    <3> QED BY <2>3, <3>1
  <2>4. CASE Put(p, NotStarted)
    <3> DEFINE r == NotStarted
    <3>1. /\ r \in PollStates /\ r.copy = Absent /\ r.seen = "none"
          /\ r.at \in {"idle", "over", "mark", "read"}
      BY NotStartedIsPoll DEF PollStates
    <3> QED BY <2>4, <3>1
  <2>5. CASE Put(p, [NotStarted EXCEPT !.polls = poll[p].polls])
    <3> DEFINE r == [NotStarted EXCEPT !.polls = poll[p].polls]
    <3>1. /\ r \in PollStates /\ r.copy = Absent /\ r.seen = "none"
          /\ r.at \in {"idle", "over", "mark", "read"}
      BY <1>1, NotStartedIsPoll DEF PollStates
    <3> QED BY <2>5, <3>1
  <2> QED BY <2>1, <2>2, <2>3, <2>4, <2>5, Zenon DEF Reply
<1>3. answer' \in {"crashed", "not_found"} => NoMore \/ done
  BY <1>1 DEF Reply, AnswerFits
<1>4. Honest(r.copy) /\ SeenFits(r)
  BY <1>1, <1>2, AbsentIsFile, KindsAssumption DEF Honest, SeenFits, Ended
<1> QED BY <1>2, <1>3, <1>4, PollStep

\* What only grows: an end stays an end, a completion and an exit stay.
Steady ==
  /\ NoMore => NoMore'
  /\ done => done'
  /\ agent = "ok" => agent' = "ok"
  /\ agent # "none" => agent' # "none"
  /\ spawner # "idle" => spawner' # "idle"

LEMMA StillHonest ==
  ASSUME Steady, NEW s, Honest(s)
  PROVE  Honest(s)'
BY DEF Steady, Honest

\* The spawner, the runner, the agent or the environment takes a step.
LEMMA ProcStep ==
  ASSUME SInv, Steady, UNCHANGED <<poll, answer>>, SessionTypes', StagesFit',
         Honest(state)', Honest(spawnCopy)', Honest(runCopy)'
  PROVE  SInv'
<1>1. ASSUME NEW p \in Pollers PROVE (Honest(poll[p].copy) /\ SeenFits(poll[p]))'
  <2>1. Honest(poll[p].copy) /\ SeenFits(poll[p])
    BY DEF SInv
  <2> QED BY <2>1 DEF Steady, Honest, SeenFits
<1>2. AnswerFits'
  BY DEF SInv, Steady, AnswerFits
<1> QED BY <1>1, <1>2 DEF SInv

LEMMA AbsentIsHonest == Honest(Absent) /\ Honest(Absent)'
BY AbsentIsFile DEF Honest

\* The step of an actor that neither starts nor ends an agent, a runner or a pane.
LEMMA QuietStep ==
  ASSUME SInv, UNCHANGED <<pane, runner, agent, done, runCopy, poll, answer>>,
         spawner # "idle" => spawner' # "idle",
         spawner' \in {"idle", "create", "respawn"} => spawner \in {"idle", "create", "respawn"},
         state' \in Files, spawnCopy' \in Files, Honest(state'), Honest(spawnCopy')
  PROVE  SInv'
<1>1. Steady
  BY DEF Steady, NoMore
<1>2. SessionTypes' /\ StagesFit'
  BY DEF SInv, SessionTypes, StagesFit
<1>3. Honest(state)' /\ Honest(spawnCopy)' /\ Honest(runCopy)'
  BY <1>1 DEF SInv, Steady, Honest
<1> QED BY <1>1, <1>2, <1>3, ProcStep

LEMMA HangupStep ==
  ASSUME SInv, Hangup, UNCHANGED <<state, spawnCopy, done, poll, answer>>, spawner # "idle",
         spawner' # "idle",
         spawner' \in {"create", "respawn"} => spawner' = spawner
  PROVE  SInv'
<1>1. Steady
  BY DEF Steady, NoMore, Hangup
<1>2. SessionTypes' /\ StagesFit'
  <2>1. "none" \notin Ended /\ "running" \notin ExitCodes
    BY KindsAssumption DEF Ended
  <2> QED BY <2>1, AbsentIsFile DEF SInv, SessionTypes, StagesFit, Hangup, Panes
<1>3. Honest(state)' /\ Honest(spawnCopy)' /\ Honest(runCopy)'
  <2>1. Honest(runCopy)'
    BY AbsentIsFile DEF Hangup, Honest
  <2> QED BY <1>1, <2>1 DEF SInv, Steady, Honest
<1> QED BY <1>1, <1>2, <1>3, ProcStep

LEMMA SpawnerKeeps == ASSUME SInv, Spawner PROVE SInv'
<1>0. "none" \notin Ended /\ "placeholder" \notin Ended /\ "runner" \notin Ended
      /\ "shell" \notin Ended
  BY KindsAssumption DEF Ended
<1>1. CASE SpawnRunner
  <2>1. /\ spawner = "idle" /\ pane = "none" /\ runner = "none" /\ agent = "none"
        /\ spawner' \in {"create", "failed"} /\ pane' \in {"placeholder", "none"}
        /\ state' = Absent /\ UNCHANGED <<spawnCopy, runner, runCopy, agent, done, poll, answer>>
    BY <1>1 DEF SpawnRunner, SInv, StagesFit, HasSession
  <2>2. Steady
    BY <2>1 DEF Steady, NoMore
  <2>3. SessionTypes' /\ StagesFit'
    BY <1>0, <2>1, AbsentIsFile DEF SInv, SessionTypes, StagesFit, Panes
  <2>4. Honest(state)' /\ Honest(spawnCopy)' /\ Honest(runCopy)'
    BY <2>1, <2>2, AbsentIsFile DEF SInv, Steady, Honest
  <2> QED BY <2>1, <2>2, <2>3, <2>4, ProcStep
<1>2. CASE SaveCreated
  <2>1. /\ UNCHANGED <<pane, runner, agent, done, runCopy, spawnCopy, poll, answer>>
        /\ spawner = "create" /\ spawner' \in {"respawn", "abort"}
        /\ \/ UNCHANGED state
           \/ state' = [Absent EXCEPT !.kind = "runner", !.life = "created", !.agent = TRUE]
    BY <1>2 DEF SaveCreated
  <2>2. state' \in Files /\ Honest(state')
    <3>1. CASE UNCHANGED state
      BY <3>1 DEF SInv, SessionTypes
    <3>2. CASE state' = [Absent EXCEPT !.kind = "runner", !.life = "created", !.agent = TRUE]
      BY <3>2 DEF Absent, Files, Honest
    <3> QED BY <2>1, <3>1, <3>2
  <2> QED BY <2>1, <2>2, QuietStep DEF SInv, SessionTypes
<1>3. CASE RespawnPane
  <2>1. CASE UNCHANGED <<pane, runner>>
    <3>1. /\ spawner = "respawn" /\ spawner' \in {"update", "abort"}
          /\ UNCHANGED <<state, pane, runner, spawnCopy, runCopy, agent, done, poll, answer>>
      BY <1>3, <2>1 DEF RespawnPane, files
    <3> QED BY <3>1, QuietStep DEF SInv, SessionTypes
  <2>2. CASE pane # "none" /\ pane' = "runner" /\ runner' = "launch" /\ spawner' = "update"
    <3>1. /\ spawner = "respawn" /\ runner = "none" /\ agent = "none"
          /\ UNCHANGED <<state, spawnCopy, runCopy, agent, done, poll, answer>>
      BY <1>3, <2>2 DEF RespawnPane, files, SInv, StagesFit
    <3>2. Steady
      BY <2>2, <3>1 DEF Steady, NoMore
    <3>3. SessionTypes' /\ StagesFit'
      BY <1>0, <2>2, <3>1 DEF SInv, SessionTypes, StagesFit, Panes
    <3>4. Honest(state)' /\ Honest(spawnCopy)' /\ Honest(runCopy)'
      BY <3>1, <3>2 DEF SInv, Steady, Honest
    <3> QED BY <3>1, <3>2, <3>3, <3>4, ProcStep
  <2> QED BY <1>3, <2>1, <2>2 DEF RespawnPane, HasSession
<1>4. CASE NoPanePid
  <2>1. /\ spawner = "update" /\ spawner' = "abort"
        /\ UNCHANGED <<state, pane, runner, spawnCopy, runCopy, agent, done, poll, answer>>
    BY <1>4 DEF NoPanePid, files
  <2> QED BY <2>1, QuietStep DEF SInv, SessionTypes
<1>5. CASE SpawnerReads
  <2>1. /\ spawner = "update" /\ spawner' \in {"failed", "save"}
        /\ UNCHANGED <<pane, runner, runCopy, agent, done, poll, answer>>
        /\ spawnCopy' = Loaded /\ state' = Loaded
    BY <1>5 DEF SpawnerReads, Load
  <2>2. Loaded \in Files /\ Honest(Loaded)
    BY LoadedIs, AbsentIsHonest DEF SInv, SessionTypes
  <2> QED BY <2>1, <2>2, QuietStep
<1>6. CASE SpawnerSaves
  <2>1. /\ spawner = "save" /\ spawner' = "ready" /\ spawnCopy' = Absent
        /\ UNCHANGED <<pane, runner, runCopy, agent, done, poll, answer>>
        /\ state' = spawnCopy \/ state' = [Absent EXCEPT !.kind = "legacy"]
    BY <1>6 DEF SpawnerSaves
  <2>2. state' \in Files /\ Honest(state')
    <3>1. CASE state' = spawnCopy
      BY <3>1 DEF SInv, SessionTypes
    <3>2. CASE state' = [Absent EXCEPT !.kind = "legacy"]
      BY <3>2 DEF Absent, Files, Honest
    <3> QED BY <2>1, <3>1, <3>2
  <2> QED BY <2>1, <2>2, AbsentIsFile, AbsentIsHonest, QuietStep
<1>7. CASE SpawnLegacy
  <2>1. /\ spawner = "idle" /\ pane = "none" /\ runner = "none" /\ agent = "none"
        /\ state' = Absent /\ UNCHANGED <<spawnCopy, runner, runCopy, done, poll, answer>>
        /\ \/ pane' = "shell" /\ agent' = "running" /\ spawner' = "ready"
           \/ spawner' = "failed" /\ UNCHANGED <<pane, agent>>
    BY <1>7 DEF SpawnLegacy, SInv, StagesFit, HasSession
  <2>2. Steady
    BY <2>1 DEF Steady, NoMore
  <2>3. SessionTypes' /\ StagesFit'
    BY <1>0, <2>1, AbsentIsFile DEF SInv, SessionTypes, StagesFit, Panes
  <2>4. Honest(state)' /\ Honest(spawnCopy)' /\ Honest(runCopy)'
    BY <2>1, <2>2, AbsentIsFile DEF SInv, Steady, Honest
  <2> QED BY <2>1, <2>2, <2>3, <2>4, ProcStep
<1>8. CASE KillSession
  <2>1. /\ Hangup /\ UNCHANGED <<state, spawnCopy, done, poll, answer>>
        /\ spawner \in {"abort", "ready"} /\ spawner' \in {"aborting", "killing"}
    BY <1>8 DEF KillSession, files
  <2> QED BY <2>1, HangupStep
<1>9. CASE KillUnlinks
  <2>1. /\ spawner \in {"aborting", "killing"} /\ spawner' \in {"killed", "failed"}
        /\ UNCHANGED <<pane, runner, spawnCopy, runCopy, agent, done, poll, answer>>
        /\ state' = Absent
    BY <1>9 DEF KillUnlinks, Unlink
  <2> QED BY <2>1, AbsentIsFile, AbsentIsHonest, QuietStep DEF SInv, SessionTypes
<1> QED BY <1>1, <1>2, <1>3, <1>4, <1>5, <1>6, <1>7, <1>8, <1>9 DEF Spawner

\* The runner reads the file, and later writes what it makes of its copy.
LEMMA RunnerReadStep ==
  ASSUME SInv, NEW from, NEW to, RunnerReads(from, to), Steady, StagesFit'
  PROVE  SInv'
<1>1. /\ UNCHANGED <<state, pane, spawnCopy, agent, done, poll, answer>> /\ runCopy' = Loaded
  BY DEF RunnerReads, files
<1>2. Loaded \in Files /\ Honest(Loaded)
  BY LoadedIs, AbsentIsHonest DEF SInv, SessionTypes
<1>3. SessionTypes'
  BY <1>1, <1>2 DEF SInv, SessionTypes
<1>4. Honest(state)' /\ Honest(spawnCopy)' /\ Honest(runCopy)'
  BY <1>1, <1>2 DEF SInv, Steady, Honest
<1> QED BY <1>1, <1>3, <1>4, ProcStep

LEMMA RunnerWriteStep ==
  ASSUME SInv, NEW from, NEW to, NEW life \in {"launching", "running", "finished"},
         NEW result \in {"none", "success", "spawn_error", "interrupted", "failure", "unknown"},
         NEW child \in BOOLEAN, RunnerWrites(from, to, life, result, child),
         UNCHANGED agent, pane' \in Panes, Steady, StagesFit',
         life = "running" => child /\ agent # "none",
         life = "finished" /\ result = "success" => agent = "ok",
         life = "finished" /\ result # "success" => NoMore'
  PROVE  SInv'
<1>1. /\ UNCHANGED <<spawnCopy, agent, done, poll, answer>> /\ runCopy' = Absent
      /\ state' = [runCopy EXCEPT !.kind = "runner", !.life = life, !.result = result,
                                  !.runner = TRUE, !.child = @ \/ child]
  BY DEF RunnerWrites
<1>2. /\ state' \in Files /\ state'.life = life /\ state'.result = result
      /\ child => state'.child
  <2> DEFINE c == runCopy.child \/ child
  <2>2. /\ state' = [runCopy EXCEPT !.kind = "runner", !.life = life, !.result = result,
                                    !.runner = TRUE, !.child = c]
        /\ c \in BOOLEAN /\ (child => c)
    BY <1>1
  <2> HIDE DEF c
  <2>3. runCopy \in Files
    BY DEF SInv, SessionTypes
  <2>4. state'.child = c /\ state'.life = life /\ state'.result = result
    BY <2>2, <2>3 DEF Files
  <2>5. state' \in Files
    BY <2>2, <2>3 DEF Files
  <2> QED BY <2>2, <2>4, <2>5
<1>3. SessionTypes'
  BY <1>1, <1>2, AbsentIsFile DEF SInv, SessionTypes
<1>4. Honest(state)'
  BY <1>1, <1>2 DEF Honest
<1>5. Honest(spawnCopy)' /\ Honest(runCopy)'
  BY <1>1, AbsentIsFile DEF SInv, Steady, Honest
<1> QED BY <1>1, <1>3, <1>4, <1>5, ProcStep

LEMMA RunnerKeeps == ASSUME SInv, Runner PROVE SInv'
<1>0. /\ {"none", "placeholder", "runner", "shell", "running"} \cap Ended = {}
      /\ ExitCodes \subseteq Ended /\ Ended \subseteq Panes /\ {"noexec", "killed"} \subseteq Ended
  BY KindsAssumption DEF Ended, Panes
<1>1. CASE WriteLaunching
  <2>1. CASE RunnerReads("launch", "launching")
    <3>1. Steady /\ StagesFit'
      BY <2>1 DEF RunnerReads, Steady, NoMore, SInv, StagesFit
    <3> QED BY <2>1, <3>1, RunnerReadStep
  <2>2. CASE RunnerWrites("launching", "command", "launching", "none", FALSE)
              /\ UNCHANGED <<pane, agent>>
    <3>1. Steady /\ StagesFit'
      BY <2>2 DEF RunnerWrites, Steady, NoMore, SInv, StagesFit
    <3> QED BY <2>2, <3>1, RunnerWriteStep DEF SInv, SessionTypes
  <2> QED BY <1>1, <2>1, <2>2 DEF WriteLaunching
<1>2. CASE StartAgent
  <2>1. /\ runner = "command" /\ agent = "none" /\ pane = "runner"
        /\ UNCHANGED <<state, pane, spawner, spawnCopy, runCopy, done, poll, answer>>
        /\ \/ agent' = "running" /\ runner' = "run"
           \/ runner' = "missing" /\ UNCHANGED agent
    BY <1>2 DEF StartAgent, files, SInv, StagesFit
  <2>2. Steady
    BY <2>1 DEF Steady, NoMore
  <2>3. SessionTypes' /\ StagesFit'
    BY <1>0, <2>1 DEF SInv, SessionTypes, StagesFit
  <2>4. Honest(state)' /\ Honest(spawnCopy)' /\ Honest(runCopy)'
    BY <2>1, <2>2 DEF SInv, Steady, Honest
  <2> QED BY <2>1, <2>2, <2>3, <2>4, ProcStep
<1>3. CASE WriteMissing
  <2>1. CASE RunnerReads("missing", "missed")
    <3>1. Steady /\ StagesFit'
      BY <2>1 DEF RunnerReads, Steady, NoMore, SInv, StagesFit
    <3> QED BY <2>1, <3>1, RunnerReadStep
  <2>2. CASE /\ RunnerWrites("missed", "gone", "finished", "spawn_error", FALSE)
             /\ pane' = "noexec" /\ UNCHANGED agent
    <3>1. runner = "missed" /\ runner' = "gone" /\ agent = "none" /\ pane = "runner"
          /\ UNCHANGED <<spawner, done>>
      BY <2>2 DEF RunnerWrites, SInv, StagesFit
    <3>2. Steady /\ NoMore' /\ StagesFit'
      BY <1>0, <2>2, <3>1 DEF Steady, NoMore, SInv, StagesFit
    <3>3. pane' \in Panes
      BY <1>0, <2>2
    <3> QED BY <2>2, <3>2, <3>3, RunnerWriteStep
  <2> QED BY <1>3, <2>1, <2>2 DEF WriteMissing
<1>4. CASE WriteRunning
  <2>1. CASE RunnerReads("run", "running")
    <3>1. Steady /\ StagesFit'
      BY <2>1 DEF RunnerReads, Steady, NoMore, SInv, StagesFit
    <3> QED BY <2>1, <3>1, RunnerReadStep
  <2>2. CASE RunnerWrites("running", "wait", "running", "none", TRUE) /\ UNCHANGED <<pane, agent>>
    <3>1. Steady /\ StagesFit' /\ agent # "none"
      BY <2>2 DEF RunnerWrites, Steady, NoMore, SInv, StagesFit
    <3> QED BY <2>2, <3>1, RunnerWriteStep DEF SInv, SessionTypes
  <2> QED BY <1>4, <2>1, <2>2 DEF WriteRunning
<1>5. CASE FinishRead
  <2>1. RunnerReads("wait", "final") /\ agent \in ExitCodes
    BY <1>5 DEF FinishRead
  <2>2. Steady /\ StagesFit'
    BY <2>1 DEF RunnerReads, Steady, NoMore, SInv, StagesFit
  <2> QED BY <2>1, <2>2, RunnerReadStep
<1>6. CASE FinishWrite
  <2>1. /\ RunnerWrites("final", "gone", "finished", Result(agent), TRUE)
        /\ pane' = agent /\ UNCHANGED <<agent, spawner, done>> /\ runner = "final" /\ runner' = "gone"
    BY <1>6 DEF FinishWrite, RunnerWrites
  <2>2. agent \in Ended /\ agent # "running" /\ agent # "none" /\ pane' \in Panes
    BY <1>0, <2>1 DEF SInv, StagesFit
  <2>3. Steady /\ NoMore' /\ StagesFit'
    BY <1>0, <2>1, <2>2 DEF Steady, NoMore, SInv, StagesFit
  <2> QED BY <2>1, <2>2, <2>3, ResultIs, RunnerWriteStep
<1> QED BY <1>1, <1>2, <1>3, <1>4, <1>5, <1>6 DEF Runner

LEMMA EnvironmentKeeps == ASSUME SInv, Environment PROVE SInv'
<1>0. /\ {"none", "placeholder", "runner", "shell", "running"} \cap Ended = {}
      /\ ExitCodes \subseteq Ended /\ Ended \subseteq Panes /\ {"noexec", "killed"} \subseteq Ended
  BY KindsAssumption DEF Ended, Panes
<1>1. CASE ShowDone
  <2>1. /\ done' = TRUE
        /\ UNCHANGED <<state, pane, spawner, spawnCopy, runner, runCopy, agent, poll, answer>>
    BY <1>1 DEF ShowDone, files
  <2>2. Steady
    BY <2>1 DEF Steady, NoMore
  <2>3. SessionTypes' /\ StagesFit'
    BY <2>1 DEF SInv, SessionTypes, StagesFit
  <2>4. Honest(state)' /\ Honest(spawnCopy)' /\ Honest(runCopy)'
    BY <2>1, <2>2 DEF SInv, Steady, Honest
  <2> QED BY <2>1, <2>2, <2>3, <2>4, ProcStep
<1>2. CASE Exit
  <2>1. /\ agent = "running" /\ agent' \in ExitCodes /\ agent' # "running" /\ agent' # "none"
        /\ UNCHANGED <<state, pane, spawner, spawnCopy, runner, runCopy, done, poll, answer>>
    BY <1>0, <1>2 DEF Exit, files
  <2>2. Steady
    BY <2>1 DEF Steady, NoMore
  <2>3. SessionTypes' /\ StagesFit'
    BY <1>0, <2>1 DEF SInv, SessionTypes, StagesFit
  <2>4. Honest(state)' /\ Honest(spawnCopy)' /\ Honest(runCopy)'
    BY <2>1, <2>2 DEF SInv, Steady, Honest
  <2> QED BY <2>1, <2>2, <2>3, <2>4, ProcStep
<1>3. CASE RunnerDies
  <2>1. /\ runner \notin {"none", "gone"} /\ runner' = "gone" /\ pane' = "killed"
        /\ runCopy' = Absent /\ agent' = IF agent = "running" THEN "killed" ELSE agent
        /\ UNCHANGED <<state, spawner, spawnCopy, done, poll, answer>>
    BY <1>3 DEF RunnerDies, files
  <2>2. Steady
    BY <2>1 DEF Steady, NoMore
  <2>3. SessionTypes' /\ StagesFit'
    BY <1>0, <2>1, AbsentIsFile DEF SInv, SessionTypes, StagesFit
  <2>4. Honest(state)' /\ Honest(spawnCopy)' /\ Honest(runCopy)'
    BY <2>1, <2>2, AbsentIsFile DEF SInv, Steady, Honest
  <2> QED BY <2>1, <2>2, <2>3, <2>4, ProcStep
<1>4. CASE TmuxDies
  <2>1. /\ Hangup /\ UNCHANGED <<state, spawner, spawnCopy, done, poll, answer>>
        /\ pane # "none"
    BY <1>4 DEF TmuxDies, files, HasSession
  <2>2. spawner # "idle"
    BY <2>1 DEF SInv, StagesFit
  <2> QED BY <2>1, <2>2, HangupStep
<1>5. CASE Corrupt
  <2>1. /\ UNCHANGED <<pane, runner, agent, done, runCopy, spawner, spawnCopy, poll, answer>>
        /\ state' = [Absent EXCEPT !.kind = "corrupt"]
    BY <1>5 DEF Corrupt, procs
  <2>2. state' \in Files /\ Honest(state')
    BY <2>1 DEF Absent, Files, Honest
  <2> QED BY <2>1, <2>2, QuietStep DEF SInv, SessionTypes
<1> QED BY <1>1, <1>2, <1>3, <1>4, <1>5 DEF Environment

LEMMA VerdictIs ==
  ASSUME NEW s \in Files, Honest(s), Terminal(s), Verdict(s) \in {"crashed", "not_found"}
  PROVE  NoMore
BY DEF Verdict, Terminal, Honest

\* A poll goes to its next place with the copy it has, or with a newer one.
LEMMA MoveStep ==
  ASSUME SInv, NEW p \in Pollers, NEW place \in {"mark", "marking", "read", "wait", "reconcile",
         "reread", "capture", "succeed", "succeeded", "screen", "judge", "look"},
         NEW c \in Files, Honest(c), poll[p].at # "idle",
         StepWith(p, place, c) \/ (Step(p, place) /\ c = poll[p].copy),
         UNCHANGED <<procs, answer>>, state' \in Files, Honest(state'),
         place \in {"wait", "reconcile"} /\ poll[p].seen = "none" => NoMore,
         place \in {"succeed", "succeeded"} => done
  PROVE  SInv'
<1> DEFINE r == [poll[p] EXCEPT !.at = place, !.copy = c]
<1>1. poll[p] \in PollStates /\ SeenFits(poll[p]) /\ AnswerFits
  BY DEF SInv, SessionTypes
<1>2. /\ r \in PollStates /\ r.at = place /\ r.copy = c
      /\ r.seen = poll[p].seen /\ r.polls = poll[p].polls
      /\ c = poll[p].copy => r = [poll[p] EXCEPT !.at = place]
  BY <1>1 DEF PollStates
<1>3. Put(p, r)
  BY <1>2 DEF Step, StepWith
<1> HIDE DEF r
<1>4. Honest(r.copy) /\ SeenFits(r)
  BY <1>1, <1>2 DEF SeenFits
<1> QED BY <1>1, <1>2, <1>3, <1>4, PollStep DEF AnswerFits

\* The poll is over without an answer.
LEMMA DropStep ==
  ASSUME SInv, NEW p \in Pollers, Put(p, NotStarted), UNCHANGED <<procs, answer>>,
         state' \in Files, Honest(state')
  PROVE  SInv'
<1>1. /\ NotStarted \in PollStates /\ NotStarted.copy = Absent /\ NotStarted.at = "idle"
      /\ NotStarted.polls = 0 /\ NotStarted.seen = "none" /\ "none" \notin Ended
  BY NotStartedIsPoll, KindsAssumption DEF Ended
<1>2. Honest(NotStarted.copy) /\ SeenFits(NotStarted)
  BY <1>1, AbsentIsHonest DEF SeenFits
<1> QED BY <1>1, <1>2, PollStep DEF SInv, AnswerFits

LEMMA TimedOutKeeps == ASSUME SInv, TimedOut PROVE SInv'
<1> DEFINE r == [NotStarted EXCEPT !.at = "read", !.op = "full"]
<1>1. /\ Put(Monitor, r) /\ answer' = "timeout" /\ UNCHANGED <<state, procs>>
      /\ Monitor \in Pollers /\ poll[Monitor].polls > 0
  BY DEF TimedOut, files, Pollers
<1>2. spawner # "idle" /\ "none" \notin Ended
  BY <1>1, KindsAssumption DEF SInv, SeenFits, Ended
<1>3. r \in PollStates /\ r.copy = Absent /\ r.at = "read" /\ r.seen = "none"
  BY NotStartedIsPoll DEF PollStates
<1>4. Honest(r.copy) /\ SeenFits(r)
  BY <1>2, <1>3, AbsentIsHonest DEF SeenFits
<1> HIDE DEF r
<1> QED BY <1>1, <1>3, <1>4, PollStep DEF SInv, SessionTypes

LEMMA StartPollKeeps == ASSUME SInv, NEW p \in Pollers, StartPoll(p) PROVE SInv'
<1>1. /\ poll[p] \in PollStates /\ SeenFits(poll[p]) /\ Honest(poll[p].copy)
      /\ poll[p].at = "idle" /\ spawner # "idle" /\ UNCHANGED <<state, procs, answer>>
  BY DEF StartPoll, Known, files, SInv, SessionTypes
<1>2. ASSUME NEW r \in PollStates, Put(p, r), r.copy = poll[p].copy, r.seen = poll[p].seen,
             r.at \in {"read", "beat"}
      PROVE  SInv'
  <2>1. Honest(r.copy) /\ SeenFits(r)
    BY <1>1, <1>2 DEF SeenFits
  <2> QED BY <1>1, <1>2, <2>1, PollStep DEF SInv, SessionTypes, AnswerFits
<1>3. CASE Put(p, [poll[p] EXCEPT !.at = "read", !.polls = @ + 1])
  <2> DEFINE n == poll[p].polls + 1
             r == [poll[p] EXCEPT !.at = "read", !.polls = n]
  <2>1. n \in Nat
    BY <1>1 DEF PollStates
  <2>2. Put(p, r)
    BY <1>3
  <2> HIDE DEF n
  <2>3. r \in PollStates /\ r.copy = poll[p].copy /\ r.seen = poll[p].seen /\ r.at = "read"
    BY <1>1, <2>1 DEF PollStates
  <2> QED BY <1>2, <2>2, <2>3
<1>4. CASE Put(p, [poll[p] EXCEPT !.at = "beat", !.op = "heartbeat"])
  <2> DEFINE r == [poll[p] EXCEPT !.at = "beat", !.op = "heartbeat"]
  <2>1. r \in PollStates /\ r.copy = poll[p].copy /\ r.seen = poll[p].seen /\ r.at = "beat"
    BY <1>1 DEF PollStates
  <2> QED BY <1>2, <1>4, <2>1
<1> QED BY <1>3, <1>4 DEF StartPoll

LEMMA PollKeeps == ASSUME SInv, NEW p \in Pollers, Poll(p) PROVE SInv'
<1> DEFINE r == poll[p]
<1>0. /\ r \in PollStates /\ r.copy \in Files /\ Honest(r.copy) /\ SeenFits(r)
      /\ state \in Files /\ Honest(state)
      /\ Loaded \in Files /\ Honest(Loaded) /\ (Loaded = state \/ Loaded = Absent)
  BY LoadedIs, AbsentIsHonest DEF SInv, SessionTypes, PollStates
<1>1. ASSUME NEW s \in Files, Honest(s), Terminal(s), Reply(p, Verdict(s), s), r.at # "idle",
             UNCHANGED procs, state' \in Files, Honest(state')
      PROVE  SInv'
  BY <1>1, VerdictIs, ReplyStep
<1> HIDE DEF r
<1> USE DEF files
<1>2. CASE StartPoll(p)
  BY <1>2, StartPollKeeps
<1>3. CASE Beat(p)
  <2>1. state' = Loaded /\ UNCHANGED <<procs, answer>> /\ poll[p].at = "beat"
    BY <1>3 DEF Beat
  <2>2. CASE Put(p, NotStarted)
    BY <1>0, <2>1, <2>2, DropStep
  <2>3. CASE Step(p, "mark")
    BY <1>0, <2>1, <2>3, MoveStep DEF r
  <2>4. CASE Put(p, [poll[p] EXCEPT !.at = "read", !.told = Loaded.told])
    <3> DEFINE s == [poll[p] EXCEPT !.at = "read", !.told = Loaded.told]
    <3>1. Loaded.told \in BOOLEAN
      BY <1>0 DEF Files
    <3>2. s \in PollStates /\ s.copy = r.copy /\ s.at = "read" /\ s.seen = r.seen
      BY <1>0, <3>1 DEF PollStates, r
    <3>3. SeenFits(s)
      BY <1>0, <2>1, <3>2 DEF SeenFits, r
    <3> HIDE DEF s
    <3> QED BY <1>0, <2>1, <2>4, <3>2, <3>3, PollStep DEF SInv, AnswerFits, s
  <2> QED BY <1>3, <2>2, <2>3, <2>4 DEF Beat
<1>4. CASE MarkReads(p)
  <2>1. state' = Loaded /\ UNCHANGED <<procs, answer>> /\ poll[p].at = "mark"
    BY <1>4 DEF MarkReads
  <2>2. CASE Put(p, NotStarted)
    BY <1>0, <2>1, <2>2, DropStep
  <2>3. CASE StepWith(p, "marking", state)
    BY <1>0, <2>1, <2>3, MoveStep
  <2> QED BY <1>4, <2>2, <2>3 DEF MarkReads
<1>5. CASE MarkWrites(p)
  <2>1. /\ UNCHANGED <<procs, answer>> /\ Put(p, NotStarted)
        /\ state' = [r.copy EXCEPT !.told = TRUE, !.kind = IF @ = "none" THEN "legacy" ELSE @]
    BY <1>5 DEF MarkWrites, r
  <2>2. /\ state' \in Files /\ state'.life = r.copy.life /\ state'.child = r.copy.child
        /\ state'.result = r.copy.result
    BY <1>0, <2>1 DEF Files
  <2>3. Honest(state')
    BY <1>0, <2>2 DEF Honest
  <2> QED BY <2>1, <2>2, <2>3, DropStep
<1>6. CASE ReadState(p)
  <2>1. state' = Loaded /\ UNCHANGED procs /\ poll[p].at = "read"
    BY <1>6 DEF ReadState
  <2>2. CASE Step(p, "screen") /\ UNCHANGED answer
    BY <1>0, <2>1, <2>2, MoveStep DEF r
  <2>3. CASE Terminal(Loaded) /\ Reply(p, Verdict(Loaded), Loaded)
    BY <1>0, <1>1, <2>1, <2>3 DEF r
  <2>4. CASE StepWith(p, "look", Loaded) /\ UNCHANGED answer
    BY <1>0, <2>1, <2>4, MoveStep
  <2> QED BY <1>6, <2>2, <2>3, <2>4 DEF ReadState
<1>7. CASE Look(p)
  <2> DEFINE up   == ChildAlive(poll[p].copy)
             wait == poll[p].copy.life = "running" /\ ~up
             s    == [poll[p] EXCEPT !.at = IF wait THEN "wait" ELSE "reconcile", !.seen = pane, !.up = up]
  <2>1. /\ UNCHANGED <<state, procs, answer>> /\ r.at = "look" /\ Put(p, s)
    BY <1>7 DEF Look, r
  <2>2. up \in BOOLEAN /\ pane \in Panes
    BY <1>0 DEF ChildAlive, Files, SInv, SessionTypes, r
  <2>3. s \in PollStates /\ s.copy = r.copy /\ s.at \in {"wait", "reconcile"} /\ s.seen = pane
    <3> HIDE DEF up, wait
    <3> QED BY <1>0, <2>2 DEF PollStates, r
  <2> HIDE DEF s
  <2>4. SeenFits(s)
    <3>1. spawner # "idle"
      BY <1>0, <2>1 DEF SeenFits
    <3>2. pane \in Ended \/ pane = "none" => NoMore
      BY <3>1, KindsAssumption DEF SInv, StagesFit, NoMore, Ended
    <3> QED BY <2>3, <3>1, <3>2, KindsAssumption DEF SeenFits, SInv, StagesFit, Ended
  <2> QED BY <1>0, <2>1, <2>3, <2>4, PollStep DEF SInv, AnswerFits
<1>8. CASE Wait(p)
  <2>1. state' = Loaded /\ UNCHANGED procs /\ r.at = "wait"
    BY <1>8 DEF Wait, r
  <2>2. CASE Terminal(Loaded) /\ Reply(p, Verdict(Loaded), Loaded)
    BY <1>0, <1>1, <2>1, <2>2
  <2>3. CASE StepWith(p, "reconcile", IF Loaded = Absent THEN poll[p].copy ELSE Loaded) /\ UNCHANGED answer
    <3>1. r.seen = "none" => NoMore
      BY <1>0, <2>1 DEF SeenFits
    <3>2. PICK c \in Files : Honest(c) /\ StepWith(p, "reconcile", c)
      BY <1>0, <2>3 DEF r
    <3> QED BY <1>0, <2>1, <2>3, <3>1, <3>2, MoveStep DEF r
  <2> QED BY <1>8, <2>2, <2>3 DEF Wait
<1>9. CASE Reconcile(p)
  <2>1. UNCHANGED <<procs, answer>> /\ r.at = "reconcile"
    BY <1>9 DEF Reconcile, r
  <2>2. PICK old \in BOOLEAN :
          \/ Step(p, "capture") /\ UNCHANGED state
          \/ Step(p, "reread") /\ state' = Reconciled(r.copy, r.seen, old)
    BY <1>9 DEF Reconcile, r
  <2>3. Reconciled(r.copy, r.seen, old) \in Files /\ Honest(Reconciled(r.copy, r.seen, old))
    <3>1. CASE r.seen \in Ended
      <4>1. NoMore /\ (r.seen = "ok" => agent = "ok")
        BY <1>0, <3>1 DEF SeenFits
      <4> QED BY <1>0, <3>1, <4>1, ResultIs, FinishedIs DEF Reconciled, Honest
    <3>2. CASE r.seen \notin Ended /\ r.copy.life = "running" /\ ~ChildAlive(r.copy) /\ ~RunnerAlive(r.copy)
      <4>1. NoMore
        BY <1>0, <3>2 DEF Honest, ChildAlive, NoMore
      <4> QED BY <1>0, <3>2, <4>1, FinishedIs DEF Reconciled, Honest
    <3>3. CASE r.seen = "none"
      <4>1. NoMore
        BY <1>0, <2>1, <3>3 DEF SeenFits
      <4> QED BY <1>0, <3>1, <3>2, <3>3, <4>1, FinishedIs DEF Reconciled, Honest
    <3>4. CASE r.seen \notin Ended /\ r.seen # "none"
                 /\ ~(r.copy.life = "running" /\ ~ChildAlive(r.copy) /\ ~RunnerAlive(r.copy))
      BY <1>0, <3>4 DEF Reconciled
    <3> QED BY <3>1, <3>2, <3>3, <3>4
  <2> QED BY <1>0, <2>1, <2>2, <2>3, MoveStep DEF r
<1>10. CASE Reread(p)
  <2>1. state' = Loaded /\ UNCHANGED procs /\ r.at = "reread"
    BY <1>10 DEF Reread, r
  <2>2. CASE Terminal(Loaded) /\ Reply(p, Verdict(Loaded), Loaded)
    BY <1>0, <1>1, <2>1, <2>2
  <2>3. CASE StepWith(p, "capture", Loaded) /\ UNCHANGED answer
    BY <1>0, <2>1, <2>3, MoveStep DEF r
  <2> QED BY <1>10, <2>2, <2>3 DEF Reread
<1>11. CASE Capture(p)
  <2>1. UNCHANGED <<state, procs>> /\ r.at = "capture"
    BY <1>11 DEF Capture, r
  <2>2. CASE done /\ Step(p, "succeed") /\ UNCHANGED answer
    BY <1>0, <2>1, <2>2, MoveStep DEF r
  <2>3. CASE \E s \in {"in_progress", "just_started", "stuck"}, c \in {r.copy} : Reply(p, s, c)
    BY <1>0, <2>1, <2>3, ReplyStep DEF r
  <2> QED BY <1>11, <2>2, <2>3 DEF Capture, r
<1>12. CASE Succeed(p)
  <2>1. /\ UNCHANGED <<procs, answer>> /\ r.at = "succeed" /\ Step(p, "succeeded")
        /\ state' = Finished(r.copy, "success")
    BY <1>12 DEF Succeed, r
  <2>2. done
    BY <1>0, <2>1 DEF SeenFits
  <2>3. state' \in Files /\ Honest(state')
    BY <1>0, <2>1, <2>2, FinishedIs DEF Honest
  <2> QED BY <1>0, <2>1, <2>2, <2>3, MoveStep DEF r
<1>13. CASE Succeeded(p)
  <2>1. state' = Loaded /\ UNCHANGED procs /\ r.at = "succeeded" /\ Reply(p, Verdict(Loaded), Loaded)
    BY <1>13 DEF Succeeded, r
  <2>2. done
    BY <1>0, <2>1 DEF SeenFits
  <2> QED BY <1>0, <2>1, <2>2, ReplyStep DEF r
<1>14. CASE ReadScreen(p)
  <2>1. UNCHANGED procs /\ r.at = "screen" /\ spawner # "idle"
    BY <1>0, <1>14 DEF ReadScreen, SeenFits, r
  <2>2. CASE ~HasSession \/ (PaneDead /\ pane # "ok")
    <3>1. state' = Absent /\ \E s \in {"crashed", "not_found"} : Reply(p, s, Absent)
      BY <1>14, <2>2 DEF ReadScreen
    <3>2. NoMore
      BY <2>1, <2>2 DEF HasSession, PaneDead, SInv, StagesFit, NoMore
    <3> QED BY <2>1, <3>1, <3>2, AbsentIsFile, AbsentIsHonest, ReplyStep DEF r
  <2>3. CASE ~(~HasSession \/ (PaneDead /\ pane # "ok"))
    <3>1. /\ state' = Loaded /\ UNCHANGED answer
          /\ StepWith(p, "judge", IF Loaded.kind = "legacy" THEN Loaded ELSE Absent)
      BY <1>14, <2>3 DEF ReadScreen
    <3> QED BY <1>0, <2>1, <3>1, AbsentIsFile, AbsentIsHonest, MoveStep DEF r
  <2> QED BY <2>2, <2>3
<1>15. CASE JudgeScreen(p)
  <2>1. PICK s \in {"completed", "in_progress", "just_started", "stuck"} :
          /\ Reply(p, s, Absent)
          /\ state' = [Absent EXCEPT !.kind = "legacy",
                                     !.active = poll[p].copy.active \/ s = "in_progress" \/ done]
    BY <1>15 DEF JudgeScreen
  <2>2. UNCHANGED procs /\ r.at = "judge"
    BY <1>15 DEF JudgeScreen, r
  <2>3. state' \in Files /\ Honest(state')
    <3> DEFINE b == poll[p].copy.active \/ s = "in_progress" \/ done
    <3>1. b \in BOOLEAN /\ state' = [Absent EXCEPT !.kind = "legacy", !.active = b]
      BY <2>1
    <3> HIDE DEF b
    <3> QED BY <3>1 DEF Absent, Files, Honest
  <2> QED BY <2>1, <2>2, <2>3, ReplyStep DEF r
<1> QED BY <1>2, <1>3, <1>4, <1>5, <1>6, <1>7, <1>8, <1>9, <1>10, <1>11, <1>12, <1>13, <1>14,
           <1>15 DEF Poll

LEMMA SInvHolds == SessionSpec => []SInv
<1>1. SInv /\ [SessionNext]_sessionVars => SInv'
  <2> SUFFICES ASSUME SInv, [SessionNext]_sessionVars PROVE SInv'
    OBVIOUS
  <2>1. CASE UNCHANGED sessionVars
    BY <2>1 DEF sessionVars, files, procs, SInv, SessionTypes, StagesFit, Honest, SeenFits,
                AnswerFits, NoMore
  <2> QED BY <2>1, SpawnerKeeps, RunnerKeeps, EnvironmentKeeps, TimedOutKeeps, PollKeeps
          DEF SessionNext
<1> QED BY <1>1, InitS, PTL DEF SessionSpec

\* The state file is never ahead of what happened: "success" only for an agent that
\* exited with 0 or shows that it is done, any other end only when no agent runs,
\* although every writer replaces the whole file from a copy that may be old
\* (save_session_state, write_state in the runner, _reconcile_runner_state).
THEOREM ResultsAreReal == SessionSpec => []ResultIsReal
<1>1. SInv => ResultIsReal
  BY DEF SInv, Honest, NoMore, ResultIsReal, Terminal
<1> QED BY <1>1, SInvHolds, PTL

\* monitor-session says "crashed" or "not_found" only of a session whose agent does
\* not run any more or is done (_runner_session_status, cmd_monitor_session).
THEOREM DeathIsReal == SessionSpec => []DeadBeforeReported
<1>1. SInv => DeadBeforeReported
  BY DEF SInv, AnswerFits, NoMore, DeadBeforeReported
<1> QED BY <1>1, SInvHolds, PTL
=============================================================================
