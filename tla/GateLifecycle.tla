--------------------------- MODULE GateLifecycle ---------------------------
(***************************************************************************)
(* The life of a production gate (gate_orchestrator.py, evidence_io.py,     *)
(* evidence_io_cleanup.py): several orchestrator processes of one project   *)
(* call run_production_gate and recover_from_crash over the same            *)
(* _bmad/gate/ directory.                                                   *)
(*                                                                         *)
(*   janitor   run_cleanup_janitor, before the gate lock is taken           *)
(*   lock      waiting for _bmad/gate/.gate.lock                            *)
(*   recover .. unmark   _recover_from_crash_locked                         *)
(*   reuse     check_gate_reuse and the early return of a cached verdict    *)
(*   mark      lie detector, write_gate_marker                              *)
(*   collect   the collectors persist evidence; evaluate_gate               *)
(*   clear     the finally that removes the marker                          *)
(*   release   the lock is given back                                       *)
(*   drain     _rmtree_quarantined_dirs, outside the lock                   *)
(*   report    Merkle root and fail_closed, outside the lock                *)
(*                                                                         *)
(* A process may die at every step, and the operating-system calls named in *)
(* Faults may fail; MaxFaults bounds how often.                             *)
(***************************************************************************)
EXTENDS Verdict

CONSTANTS
  Procs,      \* orchestrator processes
  Gates,      \* gate ids
  Dirs,       \* names of directories under _bmad/gate/cleanup/ (uuid4)
  Requests,   \* the calls processes make
  Faults,     \* what may go wrong
  MaxFaults,  \* bound on the number of crashes and failed calls
  None,       \* no process, no marker, no verdict, no gate id, no value
  Gone        \* the owner recorded in a marker runs no more

FaultKinds == {"crash", "corrupt", "raise", "audit", "persist", "rename",
               "unlink", "rmtree", "probe_error", "probe_denied"}

\* What a caller passes: recover_from_crash takes no parameter, the gate
\* fields of such a request are not used.
Calls == [op : {"run", "recover"}, gate : Gates, commit : Commits,
          profile : Profiles, risk9 : BOOLEAN, waiver : SUBSET Categories,
          fail_closed : BOOLEAN]

ASSUME RequestsAssumption == Requests \subseteq Calls
ASSUME FaultsAssumption == Faults \subseteq FaultKinds /\ MaxFaults \in Nat

VARIABLES
  lock,      \* holder of the gate lock
  marker,    \* gate-in-progress.json
  evidence,  \* evidence/<gate_id>/
  verdict,   \* verdicts/<gate_id>.json
  cleanup,   \* directories under cleanup/
  pc,        \* where each process is
  job,       \* the call it serves
  todo,      \* collectors it has still to run
  outcomes,  \* records its collector_outcomes say were persisted
  doomed,    \* directories it is about to delete
  desc,      \* its recovery descriptor
  reply,     \* what it returns
  cache,     \* its evidence cache, per gate
  faults     \* faults so far

shared == <<lock, marker, evidence, verdict, cleanup>>
local  == <<pc, job, todo, outcomes, doomed, desc, reply, cache>>
vars   == <<shared, local, faults>>

-----------------------------------------------------------------------------
(* Values.                                                                 *)

\* A readable marker names its owner and its gate; of a damaged one at most the
\* gate id can be salvaged.
Markers == [kind : {"good"}, owner : Procs \cup {Gone}, gate : Gates]
             \cup [kind : {"corrupt"}, owner : {Gone}, gate : Gates \cup {None}]

GateFiles == [commit : Commits, profile : Profiles, overall : Overalls,
              hash : Bundles]

Descriptors == [kind : {"none", "live", "corrupt", "quarantined", "recovered"},
                gate : Gates \cup {None}, had_verdict : BOOLEAN, failed : BOOLEAN]

Replies == [kind : {"none", "timeout", "raised", "drift", "fresh", "reused", "recovered"},
            overall : Overalls \cup {None}, hash : Bundles \cup {None},
            root : Bundles \cup {None}]

ASSUME ValuesAssumption ==
  /\ None \notin Procs \cup Gates \cup Dirs \cup Calls \cup Bundles \cup Overalls
                    \cup Markers \cup GateFiles
  /\ Gone \notin Procs /\ Gone # None

NoDesc  == [kind |-> "none", gate |-> None, had_verdict |-> FALSE, failed |-> FALSE]
NoReply == [kind |-> "none", overall |-> None, hash |-> None, root |-> None]
ReplyKindOnly(k) == [kind |-> k]   \* mutant: an early return without the other fields
Reply(k) == [NoReply EXCEPT !.kind = k]

Before   == {"janitor", "lock"}
InRecovery == {"recover", "quarantine", "salvage", "orphan", "unmark"}
InFlight == {"collect", "clear"}
Holding  == InRecovery \cup {"reuse", "mark", "release"} \cup InFlight
After    == {"drain", "report"}
Running  == Before \cup Holding \cup After
Steps    == Running \cup {"idle", "done"}

-----------------------------------------------------------------------------
(* Helpers.                                                                *)

CanFail(f) == f \in Faults /\ faults < MaxFaults
Fail(f) == CanFail(f) /\ faults' = faults + 1
Fine == faults' = faults

Goto(p, step) == pc' = [pc EXCEPT ![p] = step]

\* uuid4: a name no directory has and no process still refers to.
FreshDirs == Dirs \ (cleanup \cup UNION {doomed[p] : p \in Procs})

\* Where a process goes once the marker has been dealt with.
AfterRecovery(p) == IF job[p].op = "run" THEN "reuse" ELSE "release"

\* cached_load_evidence_bundle, by a process that runs one call at a time.
BundleOnDisk(p, g) == evidence[g]   \* mutant: the evidence is read again
Bundle(p, g) == IF cache[p][g] # None THEN cache[p][g] ELSE evidence[g]
Cached(p, g) == cache' = [cache EXCEPT ![p][g] = Bundle(p, g)]
Uncached(p, g) == cache' = [cache EXCEPT ![p][g] = None]

\* The liveness check of a readable marker: pid, hostname and start time must
\* all match a running process.  psutil may fail to answer (taken as alive) or
\* refuse to show a process of another user or host (taken as dead).
ProbeAnswers(m) ==
  {m.owner # Gone}
    \cup (IF "probe_error" \in Faults THEN {TRUE} ELSE {})
    \cup (IF "probe_denied" \in Faults THEN {FALSE} ELSE {})

\* can_reuse_gate_file: commit, profile hash (and factory version) agree.
Matches(file, r) == file.commit = r.commit /\ file.profile = r.profile

Init ==
  /\ lock = None
  /\ marker = None
  /\ evidence = [g \in Gates |-> EmptyBundle]
  /\ verdict = [g \in Gates |-> None]
  /\ cleanup = {}
  /\ pc = [p \in Procs |-> "idle"]
  /\ job = [p \in Procs |-> None]
  /\ todo = [p \in Procs |-> {}]
  /\ outcomes = [p \in Procs |-> EmptyBundle]
  /\ doomed = [p \in Procs |-> {}]
  /\ desc = [p \in Procs |-> NoDesc]
  /\ reply = [p \in Procs |-> NoReply]
  /\ cache = [p \in Procs |-> [g \in Gates |-> None]]
  /\ faults = 0

-----------------------------------------------------------------------------
(* The call begins.                                                        *)

\* A run sweeps what it lists under cleanup/ first; recover_from_crash goes
\* straight to the lock.  The opt-in check before it (verify_pre_gate, off unless
\* asked for) returns before anything here has happened.
Start(p, r) ==
  /\ pc[p] = "idle"
  /\ job' = [job EXCEPT ![p] = r]
  /\ doomed' = [doomed EXCEPT ![p] = IF r.op = "run" THEN cleanup ELSE {}]
  /\ Goto(p, IF r.op = "run" THEN "janitor" ELSE "lock")
  /\ UNCHANGED <<shared, todo, outcomes, desc, reply, cache, faults>>

\* rmtree of one listed directory; a failure (the directory is already gone,
\* or cannot be deleted) is recorded and ignored.
JanitorRemove(p, d) ==
  /\ pc[p] = "janitor" /\ d \in doomed[p]
  /\ doomed' = [doomed EXCEPT ![p] = @ \ {d}]
  /\ \/ cleanup' = cleanup \ {d} /\ Fine
     \/ Fail("rmtree") /\ UNCHANGED cleanup
  /\ UNCHANGED <<lock, marker, evidence, verdict, pc, job, todo, outcomes,
                 desc, reply, cache>>

JanitorDone(p) ==
  /\ pc[p] = "janitor" /\ doomed[p] = {}
  /\ Goto(p, "lock")
  /\ UNCHANGED <<shared, job, todo, outcomes, doomed, desc, reply, cache, faults>>

\* Mutant: the lock is not waited for.
AcquireLockAnyway(p) ==
  /\ pc[p] = "lock"
  /\ lock' = p
  /\ Goto(p, "recover")
  /\ UNCHANGED <<marker, evidence, verdict, cleanup, job, todo, outcomes,
                 doomed, desc, reply, cache, faults>>

AcquireLock(p) ==
  /\ pc[p] = "lock" /\ lock = None
  /\ lock' = p
  /\ Goto(p, "recover")
  /\ UNCHANGED <<marker, evidence, verdict, cleanup, job, todo, outcomes,
                 doomed, desc, reply, cache, faults>>

\* Mutant: the lock has no timeout.
WaitForLock(p) == pc[p] = "lock" /\ lock # None /\ UNCHANGED vars

\* filelock gives up after its timeout: GateLockTimeoutError.
LockTimeout(p) ==
  /\ pc[p] = "lock" /\ lock # None
  /\ reply' = [reply EXCEPT ![p] = Reply("timeout")]
  /\ Goto(p, "done")
  /\ UNCHANGED <<shared, job, todo, outcomes, doomed, desc, cache, faults>>

-----------------------------------------------------------------------------
(* Recovery, under the lock.                                               *)

ReadMarker(p) ==
  /\ pc[p] = "recover"
  /\ \/ /\ marker = None
        /\ Goto(p, AfterRecovery(p))
        /\ UNCHANGED desc
     \/ /\ marker # None /\ marker.kind = "corrupt"
        /\ Goto(p, "quarantine")
        /\ UNCHANGED desc
     \/ /\ marker # None /\ marker.kind = "good"
        /\ \E alive \in ProbeAnswers(marker) :
             IF alive
             THEN /\ desc' = [desc EXCEPT ![p] =
                               [NoDesc EXCEPT !.kind = "live", !.gate = marker.gate]]
                  /\ Goto(p, AfterRecovery(p))
             ELSE /\ desc' = [desc EXCEPT ![p] =
                               [NoDesc EXCEPT !.kind = "recovered", !.gate = marker.gate]]
                  /\ Goto(p, "orphan")
  /\ UNCHANGED <<shared, job, todo, outcomes, doomed, reply, cache, faults>>

\* _quarantine_corrupted_marker, first half: the marker file is moved away.
\* When even that fails it stays where it is and the call goes on.
QuarantineMarker(p) ==
  /\ pc[p] = "quarantine"
  /\ \/ /\ marker' = None /\ Fine
        /\ desc' = [desc EXCEPT ![p] =
                     [NoDesc EXCEPT !.kind = "quarantined", !.gate = marker.gate]]
        /\ Goto(p, IF marker.gate = None THEN AfterRecovery(p) ELSE "salvage")
     \/ /\ Fail("rename") /\ UNCHANGED marker
        /\ desc' = [desc EXCEPT ![p] =
                     [NoDesc EXCEPT !.kind = "corrupt", !.failed = TRUE]]
        /\ Goto(p, AfterRecovery(p))
  /\ UNCHANGED <<lock, evidence, verdict, cleanup, job, todo, outcomes, doomed,
                 reply, cache>>

\* Second half: only the evidence of the gate id salvaged from the marker's
\* bytes is moved, whether or not that gate has a verdict.
QuarantineEvidence(p) ==
  /\ pc[p] = "salvage"
  /\ LET g == desc[p].gate
     IN  \/ /\ Present(evidence[g]) = {} /\ Fine
            /\ UNCHANGED <<evidence, desc, cache>>
         \/ /\ Present(evidence[g]) # {} /\ Fine
            /\ evidence' = [evidence EXCEPT ![g] = EmptyBundle]
            /\ Uncached(p, g)
            /\ UNCHANGED desc
         \/ /\ Present(evidence[g]) # {} /\ Fail("rename")
            /\ desc' = [desc EXCEPT ![p].failed = TRUE]
            /\ UNCHANGED <<evidence, cache>>
  /\ Goto(p, AfterRecovery(p))
  /\ UNCHANGED <<lock, marker, verdict, cleanup, job, todo, outcomes, doomed, reply>>

\* Mutant: the orphan is moved whether or not a verdict vouches for it.
MoveAnyOrphan(p) ==
  /\ pc[p] = "orphan"
  /\ evidence' = [evidence EXCEPT ![desc[p].gate] = EmptyBundle]
  /\ Uncached(p, desc[p].gate)
  /\ Goto(p, "unmark")
  /\ UNCHANGED <<lock, marker, verdict, cleanup, job, todo, outcomes, doomed,
                 desc, reply, faults>>

\* The marker's owner is dead: evidence with no verdict is renamed into
\* cleanup/ and queued for deletion, evidence with a verdict is kept.
MoveOrphan(p) ==
  /\ pc[p] = "orphan"
  /\ LET g == desc[p].gate
         had == verdict[g] # None
         Described(failed) ==
           desc' = [desc EXCEPT ![p].had_verdict = had, ![p].failed = failed]
     IN \/ /\ had \/ Present(evidence[g]) = {}
           /\ Described(FALSE) /\ Fine
           /\ UNCHANGED <<evidence, cleanup, doomed, cache>>
        \/ /\ ~had /\ Present(evidence[g]) # {} /\ Fine
           /\ \E d \in FreshDirs :
                /\ cleanup' = cleanup \cup {d}
                /\ doomed' = [doomed EXCEPT ![p] = @ \cup {d}]
           /\ evidence' = [evidence EXCEPT ![g] = EmptyBundle]
           /\ Uncached(p, g)
           /\ Described(FALSE)
        \/ /\ ~had /\ Present(evidence[g]) # {} /\ Fail("rename")
           /\ Described(TRUE)
           /\ UNCHANGED <<evidence, cleanup, doomed, cache>>
  /\ Goto(p, "unmark")
  /\ UNCHANGED <<lock, marker, verdict, job, todo, outcomes, reply>>

\* Mutant: a failure to remove the marker is swallowed.
ClearDeadMarkerSilently(p) ==
  /\ pc[p] = "unmark"
  /\ \/ marker' = None /\ Fine
     \/ Fail("unlink") /\ UNCHANGED marker
  /\ Goto(p, AfterRecovery(p))
  /\ UNCHANGED <<lock, evidence, verdict, cleanup, job, todo, outcomes, doomed,
                 desc, reply, cache>>

ClearDeadMarker(p) ==
  /\ pc[p] = "unmark"
  /\ \/ marker' = None /\ Fine /\ UNCHANGED desc
     \/ /\ Fail("unlink")
        /\ desc' = [desc EXCEPT ![p].failed = TRUE]
        /\ UNCHANGED marker
  /\ Goto(p, AfterRecovery(p))
  /\ UNCHANGED <<lock, evidence, verdict, cleanup, job, todo, outcomes, doomed,
                 reply, cache>>

-----------------------------------------------------------------------------
(* The run itself, under the lock.                                         *)

\* A verdict for the same commit, profile and factory version is returned as
\* it is; its Merkle root and the fail_closed override are derived from the
\* evidence of the gate id as this process sees it now.
ReuseVerdict(p) ==
  /\ pc[p] = "reuse"
  /\ LET r == job[p]
         file == verdict[r.gate]
         bundle == Bundle(p, r.gate)
     IN /\ file # None /\ Matches(file, r)
        /\ reply' = [reply EXCEPT ![p] =
             [kind |-> "reused", hash |-> file.hash, root |-> bundle,
              overall |-> FailClosed(r.fail_closed, bundle, file.overall)]]
        /\ Cached(p, r.gate)
  /\ Goto(p, "release")
  /\ UNCHANGED <<shared, job, todo, outcomes, doomed, desc, faults>>

\* No verdict, another commit or profile, or a waiver that has expired since.
ReevaluateGate(p) ==
  /\ pc[p] = "reuse"
  /\ LET file == verdict[job[p].gate]
     IN  file # None /\ Matches(file, job[p]) => file.overall = "WAIVED"
  /\ Goto(p, "mark")
  /\ UNCHANGED <<shared, job, todo, outcomes, doomed, desc, reply, cache, faults>>

\* The lie detector, when the caller asks for it, finds HEAD elsewhere.
BaselineDrift(p) ==
  /\ pc[p] = "mark"
  /\ reply' = [reply EXCEPT ![p] = Reply("drift")]
  /\ Goto(p, "release")
  /\ UNCHANGED <<shared, job, todo, outcomes, doomed, desc, cache, faults>>

\* Recovery, the reuse check, an audit emission or the marker write raises.
RaiseBeforeMarker(p) ==
  /\ pc[p] \in {"reuse", "mark"} /\ Fail("raise")
  /\ reply' = [reply EXCEPT ![p] = Reply("raised")]
  /\ Goto(p, "release")
  /\ UNCHANGED <<shared, job, todo, outcomes, doomed, desc, cache>>

WriteMarker(p) ==
  /\ pc[p] = "mark"
  /\ marker' = [kind |-> "good", owner |-> p, gate |-> job[p].gate]
  /\ todo' = [todo EXCEPT ![p] = Applicable(job[p].profile)]
  /\ Goto(p, "collect")
  /\ UNCHANGED <<lock, evidence, verdict, cleanup, job, outcomes, doomed, desc,
                 reply, cache, faults>>

\* One collector's record is written and the cached bundle dropped.  A crash
\* of the collector, a timeout, or an audit emission that fails after the
\* write all end in one record of status "error" under the same file name.
Collect(p, k, s) ==
  /\ pc[p] = "collect" /\ k \in todo[p]
  /\ LET g == job[p].gate
         record == [commit |-> job[p].commit, status |-> s]
     IN /\ evidence' = [evidence EXCEPT ![g][k] = record]
        /\ outcomes' = [outcomes EXCEPT ![p][k] = record]
        /\ Uncached(p, g)
  /\ todo' = [todo EXCEPT ![p] = @ \ {k}]
  /\ UNCHANGED <<lock, marker, verdict, cleanup, pc, job, doomed, desc, reply, faults>>

\* The error record that stands in for a failed collector cannot be written: the
\* outcome carries no path and the run goes on.  What is on disk is what was
\* there before, or the record that was written before its audit failed.
CollectUnpersisted(p, k) ==
  /\ pc[p] = "collect" /\ k \in todo[p] /\ Fail("persist")
  /\ \/ UNCHANGED <<evidence, cache>>
     \/ /\ \E s \in Statuses :
             evidence' = [evidence EXCEPT ![job[p].gate][k] =
                           [commit |-> job[p].commit, status |-> s]]
        /\ Uncached(p, job[p].gate)
  /\ todo' = [todo EXCEPT ![p] = @ \ {k}]
  /\ UNCHANGED <<lock, marker, verdict, cleanup, pc, job, outcomes, doomed, desc, reply>>

\* Mutant: an exception skips the finally.
RaisePastMarker(p) ==
  /\ pc[p] = "collect" /\ Fail("raise")
  /\ reply' = [reply EXCEPT ![p] = Reply("raised")]
  /\ Goto(p, "release")
  /\ UNCHANGED <<shared, job, todo, outcomes, doomed, desc, cache>>

\* A KeyboardInterrupt, a failed checkout: the finally still clears the marker.
RaiseInFlight(p) ==
  /\ pc[p] = "collect" /\ Fail("raise")
  /\ reply' = [reply EXCEPT ![p] = Reply("raised")]
  /\ Goto(p, "clear")
  /\ UNCHANGED <<shared, job, todo, outcomes, doomed, desc, cache>>

\* evaluate_gate: the verdict is persisted, then audited; the audit may raise.
Evaluate(p) ==
  /\ pc[p] = "collect" /\ todo[p] = {}
  /\ LET r == job[p]
         bundle == Bundle(p, r.gate)
         overall == adjudicate(bundle, r.profile, r.risk9, r.waiver)
     IN /\ verdict' = [verdict EXCEPT ![r.gate] =
             [commit |-> r.commit, profile |-> r.profile,
              overall |-> overall, hash |-> bundle]]
        /\ Cached(p, r.gate)
        /\ \/ /\ reply' = [reply EXCEPT ![p] =
                  [kind |-> "fresh", overall |-> overall, hash |-> bundle, root |-> None]]
              /\ Fine
           \/ /\ Fail("audit")
              /\ reply' = [reply EXCEPT ![p] = Reply("raised")]
  /\ Goto(p, "clear")
  /\ UNCHANGED <<lock, marker, evidence, cleanup, job, todo, outcomes, doomed, desc>>

\* The inner finally; an OSError of the unlink is swallowed.
ClearMarker(p) ==
  /\ pc[p] = "clear"
  /\ \/ marker' = None /\ Fine
     \/ Fail("unlink") /\ UNCHANGED marker
  /\ Goto(p, "release")
  /\ UNCHANGED <<lock, evidence, verdict, cleanup, job, todo, outcomes, doomed,
                 desc, reply, cache>>

-----------------------------------------------------------------------------
(* The call ends, outside the lock.                                        *)

ReleaseLock(p) ==
  /\ pc[p] = "release"
  /\ lock' = None
  /\ Goto(p, "drain")
  /\ reply' = IF job[p].op = "run" THEN reply
              ELSE [reply EXCEPT ![p] = Reply("recovered")]
  /\ UNCHANGED <<marker, evidence, verdict, cleanup, job, todo, outcomes,
                 doomed, desc, cache, faults>>

\* rmtree of a directory this call renamed.  It fails when the directory is
\* gone; only recover_from_crash reports the failure.
DrainDir(p, d) ==
  /\ pc[p] = "drain" /\ d \in doomed[p]
  /\ doomed' = [doomed EXCEPT ![p] = @ \ {d}]
  /\ \/ /\ d \in cleanup /\ Fine
        /\ cleanup' = cleanup \ {d}
        /\ UNCHANGED desc
     \/ /\ \/ d \notin cleanup /\ Fine
           \/ Fail("rmtree")
        /\ desc' = IF job[p].op = "recover"
                   THEN [desc EXCEPT ![p].failed = TRUE] ELSE desc
        /\ UNCHANGED cleanup
  /\ UNCHANGED <<lock, marker, evidence, verdict, pc, job, todo, outcomes, reply, cache>>

DrainDone(p) ==
  /\ pc[p] = "drain" /\ doomed[p] = {}
  /\ Goto(p, IF reply[p].kind = "fresh" THEN "report" ELSE "done")
  /\ UNCHANGED <<shared, job, todo, outcomes, doomed, desc, reply, cache, faults>>

\* The Merkle root and the fail_closed override of a fresh run are computed
\* after the lock is gone.
Report(p) ==
  /\ pc[p] = "report"
  /\ LET r == job[p]
         bundle == Bundle(p, r.gate)
     IN /\ reply' = [reply EXCEPT ![p].root = bundle,
                       ![p].overall = FailClosed(r.fail_closed, bundle, @)]
        /\ Cached(p, r.gate)
  /\ Goto(p, "done")
  /\ UNCHANGED <<shared, job, todo, outcomes, doomed, desc, faults>>

\* The frame of the call is gone.
Forget(p) ==
  /\ job' = [job EXCEPT ![p] = None]
  /\ todo' = [todo EXCEPT ![p] = {}]
  /\ outcomes' = [outcomes EXCEPT ![p] = EmptyBundle]
  /\ doomed' = [doomed EXCEPT ![p] = {}]
  /\ desc' = [desc EXCEPT ![p] = NoDesc]
  /\ reply' = [reply EXCEPT ![p] = NoReply]
  /\ Goto(p, "idle")

Return(p) ==
  /\ pc[p] = "done"
  /\ Forget(p)
  /\ UNCHANGED <<shared, cache, faults>>

-----------------------------------------------------------------------------
(* The environment.                                                        *)

\* The process is gone: the kernel drops its lock, its cache is lost, and a
\* marker it wrote names a process that runs no more.  The next call in its
\* place is another process, possibly under the same pid.
Vanish(p) ==
  /\ lock' = IF lock = p THEN None ELSE lock
  /\ marker' = IF marker # None /\ marker.owner = p
               THEN [marker EXCEPT !.owner = Gone] ELSE marker
  /\ cache' = [cache EXCEPT ![p] = [g \in Gates |-> None]]
  /\ UNCHANGED <<evidence, verdict, cleanup>>

\* Killed in the middle of a call.
Crash(p) ==
  /\ pc[p] \in Running /\ Fail("crash")
  /\ Vanish(p) /\ Forget(p)

\* Ends normally between two calls.
Exit(p) ==
  /\ pc[p] = "idle"
  /\ Vanish(p)
  /\ UNCHANGED <<pc, job, todo, outcomes, doomed, desc, reply, faults>>

\* invalidate_gates_for_target: the operator renames a verdict, without the lock.
Invalidate(g) ==
  /\ verdict[g] # None
  /\ verdict' = [verdict EXCEPT ![g] = None]
  /\ UNCHANGED <<lock, marker, evidence, cleanup, local, faults>>

\* The marker's bytes are damaged; its gate id may still be legible.
CorruptMarker ==
  /\ marker # None /\ marker.kind = "good" /\ Fail("corrupt")
  /\ \E g \in {marker.gate, None} :
       marker' = [kind |-> "corrupt", owner |-> Gone, gate |-> g]
  /\ UNCHANGED <<lock, evidence, verdict, cleanup, local>>

-----------------------------------------------------------------------------

\* The steps of a call under way.
Step(p) ==
  \/ \E d \in doomed[p] : JanitorRemove(p, d) \/ DrainDir(p, d)
  \/ JanitorDone(p) \/ AcquireLock(p) \/ LockTimeout(p)
  \/ ReadMarker(p) \/ QuarantineMarker(p) \/ QuarantineEvidence(p)
  \/ MoveOrphan(p) \/ ClearDeadMarker(p)
  \/ ReuseVerdict(p) \/ ReevaluateGate(p) \/ BaselineDrift(p)
  \/ RaiseBeforeMarker(p) \/ WriteMarker(p)
  \/ \E k \in todo[p] : CollectUnpersisted(p, k) \/ \E s \in Statuses : Collect(p, k, s)
  \/ RaiseInFlight(p) \/ Evaluate(p) \/ ClearMarker(p)
  \/ ReleaseLock(p) \/ DrainDone(p) \/ Report(p) \/ Return(p)

Next ==
  \/ \E p \in Procs : \/ Step(p) \/ Crash(p) \/ Exit(p)
                      \/ \E r \in Requests : Start(p, r)
  \/ \E g \in Gates : Invalidate(g)
  \/ CorruptMarker

Spec == Init /\ [][Next]_vars

\* A call that has begun keeps running; nothing makes anyone start a call.
Fairness == \A p \in Procs : WF_vars(Step(p))
FairSpec == Spec /\ Fairness

-----------------------------------------------------------------------------
(* Properties.                                                             *)

\* Every variable holds a value of its kind.
TypeOK ==
  /\ lock \in Procs \cup {None}
  /\ marker \in Markers \cup {None}
  /\ evidence \in [Gates -> Bundles]
  /\ verdict \in [Gates -> GateFiles \cup {None}]
  /\ cleanup \subseteq Dirs
  /\ pc \in [Procs -> Steps]
  /\ job \in [Procs -> Requests \cup {None}]
  /\ todo \in [Procs -> SUBSET Collectors]
  /\ outcomes \in [Procs -> Bundles]
  /\ doomed \in [Procs -> SUBSET Dirs]
  /\ desc \in [Procs -> Descriptors]
  /\ reply \in [Procs -> Replies]
  /\ cache \in [Procs -> [Gates -> Bundles \cup {None}]]
  /\ faults \in 0..MaxFaults

\* Bug L1, the reason for the lock and the liveness check: while a run is in
\* flight nobody moves, deletes or overwrites what its collectors have
\* persisted, and the marker on disk stays its own (or is damaged).
InFlightIntact ==
  \A p \in Procs : pc[p] \in InFlight =>
    /\ marker # None
    /\ marker.kind = "good" => marker.owner = p /\ marker.gate = job[p].gate
    /\ \A k \in Present(outcomes[p]) :
         evidence[job[p].gate][k] = outcomes[p][k]

\* "marker MUST be cleared on every exit path after it is written": unless the
\* unlink itself failed, a marker that names a living process is the marker of
\* a run that process has in flight.
LiveMarkerIsInFlight ==
  "unlink" \notin Faults =>
    (marker # None /\ marker.owner # Gone => pc[marker.owner] \in InFlight)

\* The evidence hash the verdict was persisted with and the Merkle root the
\* caller of the same run is given are of one bundle, although the root is
\* computed after the lock is released and others may be collecting again.
FreshRootMatchesVerdict ==
  \A p \in Procs : pc[p] = "done" /\ reply[p].kind = "fresh" =>
    reply[p].root = reply[p].hash

\* A caller that asked for fail_closed is told FAIL whenever a collector of its
\* own run left an error record, even when a waiver had turned the FAIL away and
\* the evidence has been replaced since the lock was released.
FailClosedSinks ==
  \A p \in Procs :
    /\ pc[p] = "done" /\ reply[p].kind = "fresh" /\ job[p].fail_closed
    /\ ErrorLabels(outcomes[p]) # {}
    => reply[p].overall = "FAIL"

\* "Loud, not silent": when recover_from_crash is over, either nothing is left
\* of the dead run (no marker, no evidence unless a verdict vouched for it), or
\* the marker belongs to a live process, or the descriptor reports a failure.
RecoveryIsLoud ==
  \A p \in Procs : pc[p] = "release" /\ job[p].op = "recover" /\ ~desc[p].failed =>
    /\ desc[p].kind # "live" => marker = None
    /\ desc[p].kind \in {"quarantined", "recovered"} /\ desc[p].gate # None =>
         desc[p].had_verdict \/ Present(evidence[desc[p].gate]) = {}

\* Bug L2: evidence of a gate with a verdict leaves the evidence tree only
\* when a damaged marker names that gate; otherwise records are replaced, never
\* lost.
VerdictKeepsEvidence ==
  [][\A g \in Gates :
       verdict[g] # None /\ (\E k \in Collectors :
         evidence[g][k] # NoRecord /\ evidence'[g][k] = NoRecord)
       => \E p \in Procs : pc[p] = "salvage" /\ desc[p].gate = g]_vars

\* Every call comes back: to its caller, or by the death of its process.
CallsEnd == \A p \in Procs : pc[p] \in Running ~> pc[p] \notin Running

=============================================================================
