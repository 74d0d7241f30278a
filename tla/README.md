# A verification project for bmad-automator

`bmad-automator` drives AI coding agents through the stories of a project and
lets a story pass only when a *production gate* has judged the evidence its
collectors produced.  This directory holds TLA+ models of the parts of the
program in which processes, threads, agents, crashes and interrupts meet shared
files, TLC configurations that check them on small instances, and proofs of the
main theorems for every value of the constants.  `PROJECT.json` lists the
components, the runs, the source lines of every definition, the hazards, the
divergences and the theorems.

Paths below are relative to `skills/bmad-story-automator/src/story_automator/`;
`steps-c/` and `data/` are beside that `src/`.

## 1. Inventory

| Component | State | Operations | Hard behaviour | What makes it correct |
|---|---|---|---|---|
| **Gate lifecycle** `core/gate_orchestrator.py`, `evidence_io*.py`, `gate_lock_observability.py`, `gate_status.py` | files under `_bmad/gate/`: lock, marker, `evidence/`, `verdicts/`, `cleanup/` | `run_production_gate`, `recover_from_crash`, janitor, `invalidate_gate(s)` | several processes; a crash at any step; recovery of another process's leftovers; work before and after the lock | evidence in flight is left alone, a verdict keeps its evidence, recovery is loud, the reply fits the verdict |
| **Verdict engine** `core/verdict_engine.py`, `gate_rules.py`, `category_rules.py`, `metric_parsers.py` | none | `compute_all_verdicts`, the category rules, `apply_waivers` | masking of a bad record by a good one | worst evidence decides, no error passes, a waiver covers exactly the failing categories |
| **Evidence store, cache, tree** `core/evidence_io.py`, `evidence_cache.py`, `innovation/ledger.py` | a file per record; per process `_CACHE`, `_GEN` | persist, `cached_load_evidence_bundle`, `invalidate_*`, Merkle proofs | loads without the lock race with writers | no stale bundle survives in the cache; a proof verifies for its record only |
| **Collector pool** `core/collector_isolation*.py`, `collector_runner.py`, `collector_checkout.py` | futures, worktrees, outcomes | `run_collectors_per_unit` | threads, retry, failures at every step, Ctrl-C | 1:1 outcomes, persisted before the call is over, no worktree left but one that could not be removed |
| **Audit log** `core/audit.py`, `gate_audit.py` | JSONL file; per instance the last seq, tag, size | `append`, `verify` | several processes, size cache, power loss | append-only, the chain verifies |
| **tmux sessions** `core/tmux_runtime.py`, `commands/tmux.py` | state file of the runner, pane, processes | spawn, the runner script, status, reconcile, heartbeat-check, monitor, kill | every writer replaces the file from an older copy, without a lock | no invented result, no live session reported dead, every end recorded |
| **CLI dispatcher** `core/cli_dispatcher*.py`, `lie_detector.py`, `verify_outcome.py` | none | poll a session to its end, classify it | answers that raise, time out or contradict git | no orphan session, failures classified, good means committed |
| **Stop hook, marker, policy** `core/stop_hooks.py`, `run_liveness.py`, `runtime_policy.py`, `commands/orchestrator.py`, `basic.py`, `state.py` | settings files, one JSON marker, state documents, policy snapshots | ensure-stop-hook, build-state-doc, marker create, heartbeat and remove, the hook's decision, policy load | read-modify-write without a lock, edits by users, crash and resume | one driver, no early stop, a dead run lets go, a run's commands keep to its policy |
| **Story lifecycle** `commands/orchestrator*.py`, `basic.py`, `core/success_verifiers.py`, `steps-c/step-0{1b,3*}.md` | state document, sprint rows, story files, the repository | create, develop, automate, review, commit, verify, escalate, resume | a crash between any two steps; sessions that outlive it; failing git commands; what an agent does is not the program's | what is committed was reviewed, a completed story is committed, the loops end |
| **Dual status store** `core/integration/*unified_state*.py`, `sprint_phase_map.py` | `sprint-status.yaml`, `phase-store.yaml` | read, write, migrate, repair | lock-free readers, repair by file times, three spellings of a key | a finished write sticks, an answer is real |
| **Gate routing** `gate_orchestrator.route_gate_verdict`, `system_gate.py`, `gate_remediation.py`, `gate_status.py` | parked, debt and task records | route, park, record debt | order of the records | remediation ends |
| **Spec compliance** `core/gap_validator.py`, `spec_compliance.py`, `feature_tester.py`, `commands/trust_verify.py` | `result.json` | three layers, one decision | malformed answers, a result of an earlier story | a pass is earned |
| **Budget** `core/budget_ceilings.py`, `innovation/phase_budget.py`, `commands/ceiling_check.py` | ledger files (read) | sums over windows, bands | boundaries, malformed ceilings | more spending never relaxes a decision |
| **Readiness, profiles, triage** `core/readiness_gate.py`, `risk_profile.py`, `product_profile.py`, `profile_composer.py`, `failure_triage.py`, `escalation_emit.py` | files written once | validate, merge, classify | precedence | an override sticks, a risk only raises, a classification carries what it implies |
| **Threshold proposals** `core/innovation/threshold_*.py`, `commands/calibration_cmd.py` | proposals, backups, records, decisions, the rewritten module | propose, supersede, apply, reject | a crash between four writes; operators and proposers interleave | the source can be restored, the ledger is honest, slugs stick |
| **Lineage** `core/innovation/lineage_*.py`, `commands/lineage_cmd.py` | a file per entry, an index | make, persist, load, judge | entry and index are two writes; a root read before the lock; Ctrl-C in the rollback | the index is backed, the commands agree |
| **Deferred work, cost reports, spec drift, telemetry, worktree recovery, plugins, review and drafting, installer** | files, mostly append or render | one-shot commands | see `PROJECT.json` | not modelled, section 8 |

How they interact: the driver is an agent that follows `steps-c/*.md` and calls the
helper commands.  It installs the stop hook, builds a state document (which pins a
policy snapshot), takes the project's active-run marker, and for each story spawns
sessions with `tmux-wrapper`, waits with `monitor-session` (which refreshes the
marker), asks `verify-step`, `ceiling-check`, `trust-verify` and the review
verifier, commits, and updates the sprint status.  The gate's review verifier calls
`run_production_gate` and routes its reply.  A gate sweeps `cleanup/`, takes the gate
lock, recovers what a dead run left, answers from a cached verdict if one matches,
else writes its marker, runs the collectors (one after another or through the
pool), which persist records (each write drops the process's cached bundle) and
append audit events, evaluates, persists the verdict, removes the marker, releases
the lock, deletes what it quarantined and computes the Merkle root from the cache.
Verdict files are what the threshold proposer reads.  Operators invalidate
verdicts, apply proposals and edit files at any time.

## 2. Modules

| Module | Models | State and actions ↔ code |
|---|---|---|
| `Verdict`, `CategoryRules` | the pure verdict | operators carry the names of the functions; `Verdict` takes a record as its commit and its class, `CategoryRules` says what the rule of each category makes of metrics and statuses |
| `GateLifecycle` (EXTENDS `Verdict`) | processes calling `run_production_gate` and `recover_from_crash` | `lock`, `marker`, `evidence`, `verdict`, `cleanup` are the files; `pc`, `job`, `todo`, `outcomes`, `doomed`, `desc`, `reply`, `cache` the frame and the memory of each process; one action per step between two file operations; `Crash`, `Exit`, `Invalidate`, `CorruptMarker` are the environment |
| `EvidenceCache` | threads of one process over one gate's bundle | `disk` counts the versions of each file; `Write` then `Invalidate` is `persist_evidence_record`; `Hit`, `Miss`, `ListFiles`, `ReadFile`, `Store` is `cached_load_evidence_bundle` |
| `AppendOnly`, `AuditLog` | the promise of a trail; instances of several processes over one file | `Acquire`, four ways to chain, `Write`, `WritePart`, `Synced`, `Stop`; `AuditLog` implements `AppendOnly` with `VerifiedEvents` as refinement mapping |
| `Collection`, `CollectorPool` | the promise of collecting; the main thread and the workers of `run_collectors_per_unit` | `main` is where the main thread is, `fut`, `at` a future and its worker; `CollectorPool` implements `Collection` |
| `TmuxSession` | one session: spawner, generated runner script, agent, pollers | `state` is the file, `copy`-carrying places of each actor are the reads it will write back; an action per read or write of the file |
| `StopHook`, `RunPolicy`, `RunControl` | settings files and marker; policies; sessions that use both | pure parts in the first two; in `RunControl` `at`, `plan`, `copy`, `doc`, `used` belong to each session, an action per command or half command (`LoadPolicy` for those that read the document, `TestCounts` for the one that does not), `Tick`, edits, `Crash` and `Resume` are the environment |
| `StoryRules`, `Budget`, `GateRouting`, `SpecCompliance`, `StoryLoop` | the helper commands' answers; one driver over its stories | `doc`, `progress`, `sprint`, `file`, `fileList`, `dirty`, `committed` are files and git, `pc` and `count` the driver's, `left` and `strays` the sessions a dead driver left and their edits; an action per step of `steps-c`; `Crash`, `Resume`, `LeftSession`; the operator's `SkipStory`, `RetryCommit`, `SkipCommit`; `unreviewed`, `warned`, `returned`, `waived` are history the properties speak of |
| `PhaseMap`, `DualStore` | statuses, phases and key spellings; readers and writers of the two files | the writer's two writes, the reader's three steps, `Resolve`, `Migrate`, edits by hand, a kill between the writes |
| `ThresholdRules`, `ThresholdTuning` | the proposed value; proposers, operators, gates and editors | the apply step's reads and four writes are actions of their own, each may fail or be its process's last |
| `LineageChain`, `Lineage` | entries, chains and the commands that judge them; processes that persist | `MakeEntry`, `WriteEntry`, `WriteIndex`, the failures of either write (`IndexFails`), a Ctrl-C behind the second (`IndexInterrupted`), death between them; `inherited` and `cut` are history |
| `MerkleTree`, `Profile`, `Dispatch`, `FailureTriage`, `Readiness` | pure algorithms | operators named after the functions, each with the requirement it is checked against |
| `*_proofs` | theorems about the modules they EXTEND | section 6; a proof module may extend two components, which is why the definitions of `EvidenceCache` and `TmuxSession` begin with `Cache` and `Session` |
| `MC*` | constants, symmetry and bounded inputs for TLC | an `ASSUME` of an MC module checks a pure module over the inputs it names |

A definition whose comment begins with *Mutant* is a deliberately wrong variant
of the one after it; no specification uses it.  `PROJECT.json` says which run
shows each one to be wrong.

Some definitions of `StoryLoop`, `StoryRules`, `Budget` and `SpecCompliance` are
translated from `steps-c/*.md`.  These files are the program that runs: the agent
executes their shell blocks and branches, and no Python function holds the loop.

Abstractions.  A record is the commit it was collected at and its class; a Merkle
root, an evidence hash and a lineage root are what was hashed (an ideal hash), an
HMAC the sequence of what it authenticates.  Times are ticks.  The lock timeouts may
strike whenever the lock is taken; subprocesses end (they carry timeouts).
`os.replace` and rename are one step; a bundle is read in one step under the gate
lock and file by file in `EvidenceCache`.  In `TmuxSession` what a pane shows is a
choice, and so is whether a process id answers.  In `RunControl` the settings a hook
installation writes take effect at once (the program asks for a restart of the
agent), and `storiesRemaining` is what it was at create, for nothing updates it.  A
policy is a function of two settings; asset files are checked for existence only, as
the code does, for they are not hashed.  In `ThresholdRules` a threshold is an integer
percentage.  In `StoryLoop` an edit is a model value that belongs to a
story; a session makes one or none, sets the row, the Status and the File List as it
likes, and its cost is recorded or not (the steps record none themselves).  A session
that runs when the driver dies may outlive it and then works for ever beside the
resumed run, for the resume counts such sessions and ends none.  The story's file and
the state document are not edits: a commit may succeed with no edit at all, and fail
at any time.  The operator gives an escalated story up, or has a failed commit tried
again or passed over.  The ledger window `per_run` sums everything ever spent, as in the
code; floats are naturals.

## 3. Runs

| Run | Instance | Shows |
|---|---|---|
| `gate_safety` | 2 processes, 1 gate, 2 commits, 1 collector, every fault, up to two | `InFlightIntact`, `FreshRootMatchesVerdict`, `RecoveryIsLoud`, `VerdictKeepsEvidence` |
| `gate_calls` | 2 processes, run (waiver and `fail_closed`) and recover, error records, one fault | `CallsEnd` under fairness, `LiveMarkerIsInFlight`, `FailClosedSinks`; both gate runs check `CategoryRules` |
| `evidence_cache` | 3 threads, 2 files, generation up to 2 | `CacheIsCurrent`, `LoadsSeePersisted` |
| `audit_log` | 3 instances, 2 events, 5 writes, 3 interruptions | `OnlyTailIsTorn`, `AckedVerify`, the refinement `IsALedger` |
| `collector_pool` | 3 collectors on 2 workers, every kind of fault (also a worktree that cannot be removed, a checkout git times out on, an exception that escapes it), up to two, one Ctrl-C | `NothingLeftBehind` (no worktree but those whose own removal failed or whose checkout timed out), the refinement `KeepsPromise`, `CallEnds`; checks `Profile` |
| `tmux_session` | spawner in both modes, runner, agent, monitor and a heartbeat poller, one of every fault | `ResultIsReal`, `DeadBeforeReported`, `EndIsRecorded`, `MonitorAnswers`; checks `Dispatch` and `FailureTriage` |
| `run_control` | 2 sessions, one with stories left, a window of 2 ticks, Codex settings, one edit; creates that do not overlap, no refresh that outlives its session | `OneDriver`, `NoEarlyStop`, `PinnedPolicy` (with what `test-counts`, which is not pinned, may differ in), `Released` |
| `threshold_tuning` | 2 users, 1 priority, 1 gate, 2 decisions, 2 ticks, one mishap, hand edits | `Restorable`, `LedgerIsHonest`, `SlugsStick`; checks that the proposed step is clamped |
| `dual_store` | 2 processes, 3 stories (one without a row), readers spell the id, writers the full key, one kill or edit | `WritesStick`, `AnswersAreReal` |
| `dual_crash` | 2 writers of two stories, one kill | the violation of `CrashKeepsPhase`, section 5 |
| `lineage` | 2 processes, 3 keys, 2 contents, 4 entries, ledgers with and without positions, one fault (a failed write, a death, or a Ctrl-C behind the index write) | `IndexIsBacked`, `SurfacesAgree` (`show` too, but on inherited ledgers), `BreaksOnlyBySpoiling`; checks the Merkle proofs of up to 7 records |
| `story_loop` | 2 stories, 2 attempts, 2 cycles, one edit of either story, a ceiling one recorded session reaches, with and without the gate verifier, one crash with or without a session left | `CommitsAreReviewed`, `CompletedIsCommitted`, `StoriesSettle`; checks `Budget`, `Readiness`, `GateRouting`, `SpecCompliance` and `StoryRules` |

`TypeOK` is checked where it is cheap; in `RunControl`, `TmuxSession`, `ThresholdTuning` and
`Lineage` it is proved instead, as the first part of the inductive invariants.

Bounds and why they are enough.  Two processes already give a run in flight and
a stranger that sweeps, recovers, times out or invalidates; a third would wait
for the same lock.  Two commits make evidence of one run distinguishable from
that of another; two directory names allow one under deletion and one new.  Two
faults allow the crash and the failure during its recovery.  Three threads are a
writer and two loaders of one generation.  Three log instances are one with a stale
cache, one that dies and one that appends; five writes are a chain longer than any
cached prefix.  Three collectors on two workers leave one queued.  Two sessions of
a project are the owner of a marker and its rival, a window of two ticks has an age
inside it, at it and beyond it.  A tmux session has one of each actor, and the two
pollers are enough for a copy that is stale twice over.  Two threshold users are an
operator and a proposer, or two of either; two decisions are enough to supersede a
decided proposal and two ticks to expire one.  Three stories in the dual store are
the one that is read, one whose write touches the file times and one that is
missing from a file.  Four lineage entries allow two good ones, one on a stale root
and one that overwrites.  Two stories are one to come back to after a crash and
one that must not be touched; two attempts and two cycles contain a first, a last
and a change between them.  One edit is enough because `CommitsAreReviewed` and
`CompletedIsCommitted` each speak of one edit at a time and the others change no guard;
a recorded cost stops the run before either story or a retry, and an unrecorded one lets
it go on.  With two crashes, without the gate verifier, the same properties hold over
863,585 states; the proofs have no bound.
`MaxFaults`, `MaxInterrupts`, `MaxGen`, `MaxWrites`, `MaxPolls`, `MaxEdits`, `MaxGates`,
`MaxClock`, `MaxMishaps`, `MaxDecisions`, `MaxTime`, `MaxAttempts` (dual store),
`MaxPersists` and `MaxCrashes` bound counters or the environment; each stands in the guard of the action that
counts.  `MaxAttempts`, `Plateau`, `MaxAuto` and `MaxCycles` of the story loop are the
program's own limits, made smaller.

Deadlock is checked except where a system really ends: the pool, a session, a
project whose runs are over, and the bounded clocks and counters of
`threshold_tuning`, `dual_store` and `lineage`.  Symmetry is used in runs that check safety
only, over what the specifications treat alike.

## 4. Fairness

`GateLifecycle` assumes weak fairness of each process's own steps (the operating
system schedules it; a collector ends by its timeout; a waiter is given the lock or
its timeout), none of starting a call, and none of the environment.
`CollectorPool` assumes it of the main thread and of each worker, none of Ctrl-C.
`TmuxSession` assumes it of the spawner, the runner script, each poll loop and the
monitor's own time limit; the agent and the faults are owed nothing.  `RunControl`
assumes that time passes and that a refresh under way is completed or dies, so
`Released` owes nothing to sessions or users.  `StoryLoop` assumes it of the driver's
steps: the stop hook keeps the agent going (that is `NoEarlyStop`), its sessions end by
the monitor's time limit, and a driver that died is resumed; the operator, the crash and
what a left session does are not assumed.  No
module assumes that a lock is ever granted to a particular waiter.

## 5. Where the code does not do what is said of it

`PROJECT.json` quotes the line each of these contradicts.

As a run: `dual_crash`.  The repair of the dual store compares the times of whole
files.  If a writer dies between its two writes and a write to *another* story
follows, the sprint file is the newer one and the phase of the first story is
undone, where the module's docstring promises that the phase side wins.

Found while modelling, kept in the models as the code has it:

* marker create is not atomic: two overlapping ones both succeed.  `RunControl`
  has `Overlap`; `OneDriver` is checked and proved without it.  `LateMonitors` (a refresh
  that outlives its session and writes the marker back), `Timely` and `Stamps` (a
  `--heartbeat` nobody can parse) name the other conditions.
* a session whose processes vanished is reported crashed with exit code 1.  The
  spawner's late `update_session_state` can undo a terminal state, and a heartbeat after the kill
  leaves a stub state file; `DeadBeforeReported` holds all the same.
* apply does not read the decisions: a rejected or superseded proposal can be
  accepted.  A crash between splice and accept leaves a changed threshold with a
  backup and no decision, which is what `Restorable` is for.  Verdict files that were
  invalidated are still evidence for a proposal.
* `test-counts`, which every story runs before its commit, loads the policy on disk and
  not the run's snapshot.  `PinnedPolicy` says of it only that it differs from the pinned
  one in nothing but the test settings, and after an edit.
* the loop of the last step is not bounded: a story whose review passes and whose status
  check does not (a `Done` in another spelling, or a gate that passed) is sent back to the
  first cycle of review as often as that happens.  `StoriesSettle` excepts this loop and
  shows that every other one ends.
* unreviewed edits are committed.  `git add -A` takes along those of a story that was
  deferred or given up, and those of a session that outlived its driver; and a story the
  status check sent back is resumed at its commit, not at its review, if the driver dies.
  `CommitsAreReviewed` names the three and shows there is no fourth.
* a reconciliation that fails is logged, and the story is committed with the File List
  its agents wrote.  `CompletedIsCommitted` excepts such a list.
* the gate verifier's remediation cycle and its gate id are static: one gate file judges
  every story, and how often a story has failed does not decide when it is parked.
* a marker whose removal failed stays as long as its process lives; `LiveMarkerIsInFlight`
  holds where no unlink fails.
* `lineage show` may refuse a sound ledger that `verify` and `stats` accept, when an older
  version wrote its first rows.  `SurfacesAgree` excepts `show` there and nowhere else.
* a Ctrl-C behind the index write of `persist` removes an entry the index lists;
  `IndexIsBacked` excepts the keys it happened to, and it is one of the four reasons of
  `BreaksOnlyBySpoiling`.
* readers of the dual store spell a story in one way and writers in another; a
  migrating reader may combine an old status with a new phase.
* a category without a metric-reporting collector (resilience, durable_hitl,
  progressive_delivery) can never pass: `Unpassable` in `MCGateLifecycle`.  Two clean
  resilience tools with different totals fail, because one metric is reduced by `min` and
  the other by `max`.
* the dispatcher reports as good a session that never began, one that crashed
  and one that committed nothing: `Misjudgements` in `MCTmuxSession`.
* Layer 1 of spec compliance can never warn (`Citation` in `MCStoryLoop`), and a failing
  Layer 2 leaves the result of an earlier story in place.
* a gate's evidence directory is never emptied, a reused verdict reports the root
  of evidence a dead run left, the janitor may delete what recovery is about to
  delete, two loaders of one generation may read different snapshots (harmless:
  `CacheIsCurrent`), a record whose newline was lost is glued to the next one
  (`IsALedger` assumes no such loss), and a second Ctrl-C lets the pool's call raise
  with workers running (`KeepsPromise` has one).
* an unmitigated risk of 9 is reported but does not block readiness; an
  epic's unknown verdict reopens no story; a phase's overspend by a persona is told once.
* smaller ones, about documents and unused code: `PROJECT.json`, `findings`.

## 6. Proofs

All by TLAPS, for every value of the constants that satisfies the named
assumptions of the modules.

`GateLifecycle_proofs`
* `TypeCorrect`.  A step uses the marker it found, or the gate its descriptor
  names, several steps after it found them; hence `TInv = TypeOK /\ ControlOK`,
  which says who holds the lock where and what each program point knows.
* `EvidenceInFlightIsIntact`.  `TInv` gives mutual exclusion; `NothingYet` says that
  nothing counts as persisted before the first collector has run.
* `FreshRoot`, `FailClosedOverrides`.  `FreshInv` carries the bundle of the verdict
  in the process's own cache from `Evaluate` to `Report`; `CacheCold` is needed
  because a bundle loaded *before* the collectors ran would also be returned:
  persisting drops it and nothing loads it again before the verdict.
* `MarkerIsCleared`, when no unlink fails.
* `RecoveryTells` (`RecoveryIsLoud`).  `Told` follows the descriptor through the recovery:
  empty before the marker is read, and from then on the marker is gone or the flag
  is set, and the same for the evidence.  The other processes cannot undo it: the
  lock is held until the descriptor is final.
* `VerdictEvidenceStays` (`VerdictKeepsEvidence`), from `TInv` alone.
* `NoSilentPass`, on `CategoryRules`, for any number of records: the worst status of a
  bundle exists (`WorstExists`), and no rule passes unless it is "ok".

`Evidence_proofs` on `EvidenceCache`: `CacheTypeCorrect`, `CacheStaysCurrent`, `LoadsAreFresh`.
`GenerationTells` says what the counter tells a loader (an unchanged generation:
nothing has been persisted since it began), `ReadSoFar` that files already read
are new enough; neither property is inductive without both.

`AuditLog_proofs`, under `NoLostNewline`: `TypeCorrect`, `ChainHolds`,
`AckedRecordsVerify` and the refinement `LogIsALedger`.  `AInv` says what the lock,
the file, the size cache and the chosen record have to do with each other;
`VerifyStops` computes how far `verify()` gets, which turns an append into a step
of `AppendOnly` and everything else into a stutter.

`Evidence_proofs` on `CollectorPool`, under `OneInterrupt`: `TypeCorrect`, `NothingIsLeftBehind` and
the refinement `PoolKeepsPromise`.  `PInv` ties a worker's place to its future, a
finished worker to its outcome and its record, and the main thread's place to
what it has taken; a worktree that remains belongs to a running worker or is `stuck`, and
an exception that escapes a checkout is reified by the main thread (`thrown`).

`Sessions_proofs` on `RunControl`: `TypeCorrect`; under `OneAtATime` (the four switches above)
`NeverStopsEarly`, `PolicyIsPinned`, `AtMostOneDrives`.  The three go together in one
inductive invariant: `HookFits` (from installation on the settings hold the hook,
whoever installs again), `MarkerFits` (while somebody drives, the marker is the driver's
and not older than the window), `CopyFits` (a refresh under way carries that marker),
`AloneFits` (who creates has seen nobody drive) and `PolicyFits`;
`SnapshotFits` adds, for `test-counts`, that what a run pinned is still on disk unless the policy
there was edited.

`ThresholdTuning_proofs`: `TypeCorrect`, `SourceIsRestorable`, `LedgerStaysHonest`,
`SlugsAreKept`.  `JobsFit` says what each place of an apply knows of the disk;
`RestInv` adds that a backup of a proposal holds the value the proposal replaces, and
that what an apply has read under the lock is accounted for like the source itself;
`LedgerInv` that the proposals a proposer still has to supersede are open.
`ProposedStepIsClamped`, on `ThresholdRules`, for windows of any length: the mean of
percentages, rounded either way, is a percentage (`SumsBounded`, `QuotientBounds`).

`StoryLoop_proofs`: `TypeCorrect`, and when no story occurs twice in the range
(`DistinctStories`: a story that is gone through again is edited again)
`UnreviewedCommitsAreExcused` and `CompletedStoriesAreCommitted`, for any number of
crashes, left sessions and edits. For the first, `RInv`: an edit that waits for its
commit without a review is one of the exceptions, or its story is not completed and,
once the document is at the last step, not the current one (`EditsFit`); this is
inductive because the step in the document is never ahead of the driver's place but
after a return (`StepFits`), so that a resume at the last step has a review behind it,
and because the stories behind the current one are completed or were given up
(`PlaceFits`). For the second, `CInv`: from the commit on the current story, and for
ever a completed one, has no edit in the tree (`NoneDirty`), nothing listed that is
neither in the tree nor committed (`ListKept`), and is done; a left session may undo
each of these, so it is said of the other stories only, and a failed reconciliation
`ListKept`.
On the pure modules below it, for inputs of any size:
* `RemediationEnds` (`GateRouting`), when `None` is no reason to park.  After `n` rounds the
  cycle is `n` and every failed category's task stands `n` times in the file (`OneMoreRound`).
* `CeilingsAreMerged` (`Budget`).  A first ceiling with the most severe decision exists
  (`WorstOne`), and `Evaluated` says the answer is its decision.
* `CitationsAreNeverLow` (`SpecCompliance`): each citation counts for 80 at least.
* `PassesAreEarned` (`SpecCompliance`).  `Planned` says what a run leaves on the disk after
  its first verdicts, whether or not it raised; from there on the next run creates
  nothing (`PlansSettle`).

Sums, rounds and plans are recursive functions: that one exists, and what it computes, is
proved with the least number for which the claim would fail (`Least`), which needs no
induction schema.

`Sessions_proofs` on `TmuxSession`: `ResultsAreReal`, `DeathIsReal`, for any set of heartbeat
pollers, both spawn modes, pollers that start early or not, and any faults and bounds.  Every
actor writes the state file from an older copy of it, so neither property is inductive.
`SInv` says of every copy somebody will write back what must hold of the file (`Honest`):
what it says of the agent is still so, however old it is.  `StagesFit` relates the places of
spawner, runner, pane and agent; `NoMore` (no agent runs, and none will) is what makes a
recorded end stay true; `SeenFits` and `AnswerFits` say the same of what a poll has seen of the
pane and of what it told its caller.

`DualStore_proofs`: `TypeCorrect`, `WritesStickAlways`, `AnswersAreRealAlways`, for any stories,
processes, kills, edits, attempts and time.  All three suppose a `Tidy` project, which
`MCDualStore` has TLC evaluate on the instance: a story has one row in the sprint file, the
two files agree when the run starts, and a reader spells a story the way its phase is
stored or its row has that spelling.  Each part is needed: with two rows a reader and a
writer may find different ones, files that disagree disagree before anybody has written,
and a reader with another spelling finds no phase.  `DInv` has three parts.  `FilesFit`: the
files hold known statuses and phases, and rows neither come nor go.  `StoryFits`: what a
story's row, its entries and the phases it may be in have to do with each other, before and
after its first phase is stored.  `JobsFit`: what a reader carries between its lock-free
reads is true of the moment it was read and stays true *until a phase is stored*
(`RowOk`), and a writer between its two writes holds the lock and has left one entry.

`Lineage_proofs`: `IndexStaysBacked`, `OnlySpoilingBreaks`, `SurfacesAgreeAlways`, for indexes
of any finite size.  They suppose what the model values of the runs are: `None` is no entry
(`NoneIsNoEntry`), no row (`NoneIsNoRow`) and no chain (`NoneIsNoList`).
* `IndexStaysBacked`.  A process that is about to write the index has its file on disk, and
  only the holder of the lock removes one; what an interrupted write removed is in `cut`.
* `OnlySpoilingBreaks`.  `LInv` adds that an entry written and not yet indexed extends the
  last root, unless the history says otherwise (`Extends`).  The lemmas before it say that
  a set of rows has exactly one order (`SortedExists`, `SortedIsUnique`), that a new row is
  its last (`NextSeqIsLast`, `AppendedKeys`), and that a chain grows by an entry whose
  parent is its root (`ChainGrows`).
* `SurfacesAgreeAlways`.  The walk from the genesis is *greedy* (`WalkIsGreedy`): each of its
  steps is the first entry to claim the root of those before.  A greedy walk visits no entry
  twice, for the roots of its prefixes differ, so it misses none exactly when it is as
  long as the list (`WholeWalk`).  Then no root is claimed twice (`NoForks`) and the
  topological order is the walk (`ReorderedIs`), which is a chain (`GreedyIsChain`); and a
  list in order is its own walk (`ChainIsWalked`).  On a ledger that only this version wrote
  `show` accepts what `verify` accepts: every entry claims the root of the first rows of the
  index (`Placed`, kept by `OrderInv`), so the walk meets the rows in order (`WalkInOrder`).

Only model-checked: the liveness properties `CallsEnd`, `CallEnds`, `MonitorAnswers`,
`EndIsRecorded`, `Released`, `StoriesSettle` (liveness under fairness and ENABLED are out of
the prover's reach), and what no theorem above says of the pure modules, whose requirements
are checked over bounded inputs by the `ASSUME`s of the MC modules.  Every safety invariant, action
property and refinement a passing run checks is also proved.

## 7. What the pure checks say

* `CategoryRules`: a good record never masks a bad one unless it brings a metric no
  other carries; an error, a timeout or no record at all never passes; two ways to
  state the coverage rule agree.
* `Profile`: a layer's value survives every lower layer; the summary names where a
  value came from; a diff is exact; merging valid layers is valid; a snapshot reads
  back.
* `Dispatch`: no session is left behind, a failure has a class, and good means
  committed but for the misjudgements above.
* `FailureTriage`: a classification comes with what it implies, a policy violation is
  not masked by another word, an escalation file reads back.
* `Budget`: spending more never relaxes a decision; phases and personas add up.
  `StoryRules`: the commands that ask whether a story is done agree but for a spelling; agent
  settings are inherited field by field.
* `Readiness`: more risk never lowers a priority, an epic is as ready as its
  stories.  `GateRouting`: every verdict leads to one action, and remediation ends.
  `SpecCompliance`: a pass is earned by all three layers.
* `ThresholdRules`: a step is at most the allowed delta, towards the measured mean
  and not past it.  `MerkleTree`: a proof verifies for its record and no other.

## 8. Not modelled, and why

* `is_stale` and `HeartbeatThread` of `core/atomic_io.py`, `write_phase` of
  `sprint_phase_map.py`: nothing calls them outside the tests.
* The opt-in hooks of the gate (drift watcher, session usage): they swallow
  their own errors and change neither evidence nor verdict.  The opt-in check before a
  gate (`verify_pre_gate`) returns before anything else is done.
* Stories in parallel (`maxParallel` above one), `list_parked`: the loop of the steps does
  not consult them for what it decides.  A retrospective is its cost only; a session of
  its own that edits the tree is not modelled, nor is the operator who marks an ambiguous
  session a success, starts over or changes the overrides on resume.
* A compliance test of the name a skeleton would get that cites other requirements
  only: `plan_feature_tests` overwrites it, `SpecCompliance` has no such file.
* `run_system_gate`: it repeats the gate's steps on an epic.
* Deferred work and the age-based worktree sweep: their races are of wall-clock
  ages.  Two operators who resume one parked story, and two state-updates of one
  document: named as hazards, the models have one driver.
* The parsing of session output and panes, prompts, reports, telemetry, key
  derivation, canonical JSON, drafting and review rendering, collectors' command
  lines, plugins, installer, scripts: data, best-effort files, or no state the
  properties are about.
