--------------------------- MODULE CollectorPool ---------------------------
(***************************************************************************)
(* Per-unit collection (collector_isolation.py, collector_isolation_        *)
(* outcomes.py): the collectors of one gate run in a thread pool, each in a *)
(* worktree of its own, while the main thread takes their results as they   *)
(* complete.  Ctrl-C reaches the main thread at any moment, more than once. *)
(*                                                                         *)
(* main thread    submit    pool.submit in a loop                           *)
(*                wait      as_completed                                    *)
(*                drain     the KeyboardInterrupt handler: shutdown(True),   *)
(*                          then the futures not taken yet                  *)
(*                close     the finally: shutdown(wait=pending is None)      *)
(* worker thread  checkout, first, second, reify, cleanup (_run_isolated)   *)
(***************************************************************************)
EXTENDS Naturals, FiniteSets

CONSTANTS
  Collectors,     \* the collectors to run
  MaxWorkers,     \* max_workers asked for
  Cpus, RamSlots, \* os.cpu_count(), free memory in units of a worker's need
  Faults,         \* what may go wrong in a worker
  MaxFaults,      \* bound on how often
  MaxInterrupts,  \* bound on the number of Ctrl-C
  None            \* no record, no outcome

FaultKinds == {"checkout", "timeout", "escape", "audit", "raise", "fatal", "persist", "cleanup"}

ASSUME FaultsAssumption == Faults \subseteq FaultKinds /\ MaxFaults \in Nat
ASSUME InterruptsAssumption == MaxInterrupts \in Nat
ASSUME WorkersAssumption == MaxWorkers \in Nat /\ Cpus \in Nat /\ RamSlots \in Nat
ASSUME NoneAssumption == None \notin {"ok", "error"} \cup [status : {"ok", "error"}, persisted : BOOLEAN]

Statuses == {"ok", "error"}
Outcomes == [status : Statuses, persisted : BOOLEAN]

VARIABLES
  main,       \* where the main thread is
  pending,    \* pending_baseexc is set
  escaping,   \* an exception is on its way out past the handler
  taken,      \* collected_futures
  outcome,    \* the outcome of each collector
  fut,        \* each collector's future
  at,         \* where its worker is
  thrown,     \* the futures that hold an exception instead of an outcome
  fatal,      \* those whose exception is fatal
  trees,      \* the worktrees on disk or in git's register
  evidence,   \* its record on disk
  faults, interrupts,
  stuck       \* history: the worktrees whose removal failed or never came

mains   == <<main, pending, escaping, taken, interrupts>>
ends    == <<thrown, fatal>>
workers == <<fut, at, ends, trees, stuck>>
vars    == <<mains, workers, outcome, evidence, faults>>

-----------------------------------------------------------------------------

Least(a, b) == IF a < b THEN a ELSE b
Greatest(a, b) == IF a > b THEN a ELSE b

\* _clamp_max_workers.
Ceiling == 16
Workers ==
  LET cpus == Least(Ceiling, Greatest(1, IF Cpus > 2 THEN Cpus - 2 ELSE 0))
      ram  == Greatest(1, RamSlots)
  IN  Greatest(1, Least(MaxWorkers, Least(cpus, ram)))

Busy == {k \in Collectors : fut[k] = "running"}

\* Mutant: futures that were never submitted are waited for.
AllDone == \A k \in Collectors : fut[k] = "done"

\* What shutdown(wait=True) waits for; nothing is cancelled, so queued work runs.
Settled == \A k \in Collectors : fut[k] \in {"new", "done"}

Fine == faults' = faults
Fail(f) == f \in Faults /\ faults < MaxFaults /\ faults' = faults + 1

At(k, step) == at' = [at EXCEPT ![k] = step]
\* Mutant: whether the record was persisted is not noted.
ReportStatus(k, s, p) == outcome' = [outcome EXCEPT ![k] = [status |-> s]]
Report(k, s, p) == outcome' = [outcome EXCEPT ![k] = [status |-> s, persisted |-> p]]
OnDisk(k, s) == evidence' = [evidence EXCEPT ![k] = s]

Init ==
  /\ main = "submit" /\ pending = FALSE /\ escaping = FALSE /\ taken = {}
  /\ outcome = [k \in Collectors |-> None]
  /\ fut = [k \in Collectors |-> "new"]
  /\ at = [k \in Collectors |-> "none"]
  /\ thrown = {} /\ fatal = {} /\ trees = {} /\ stuck = {}
  /\ evidence = [k \in Collectors |-> None]
  /\ faults = 0 /\ interrupts = 0

-----------------------------------------------------------------------------
(* Workers: _run_isolated.                                                 *)

StartWorker(k) ==
  /\ fut[k] = "queued" /\ Cardinality(Busy) < Workers
  /\ fut' = [fut EXCEPT ![k] = "running"]
  /\ At(k, "checkout")
  /\ UNCHANGED <<mains, ends, trees, stuck, outcome, evidence, faults>>

\* A worktree of its own at the gate's commit, or an error outcome; a git that times
\* out may have registered the worktree before, of which only the directory is then
\* removed.  An exception that is no CollectorCheckoutError is left in the future.
Checkout(k) ==
  /\ at[k] = "checkout"
  /\ \/ Fine /\ At(k, "first") /\ trees' = trees \cup {k} /\ UNCHANGED <<stuck, thrown>>
     \/ Fail("checkout") /\ At(k, "reify") /\ UNCHANGED <<trees, stuck, thrown>>
     \/ /\ Fail("timeout") /\ At(k, "reify") /\ UNCHANGED thrown
        /\ trees' = trees \cup {k} /\ stuck' = stuck \cup {k}
     \/ /\ Fail("escape") /\ At(k, "cleanup") /\ UNCHANGED <<trees, stuck>>
        /\ thrown' = thrown \cup {k}
  /\ UNCHANGED <<mains, fut, fatal, outcome, evidence>>

\* run_single_collector persists a record and then audits it.
Attempt(k, s) ==
  /\ at[k] \in {"first", "second"} /\ Fine
  /\ OnDisk(k, s) /\ Report(k, s, TRUE)
  /\ At(k, "cleanup")
  /\ UNCHANGED <<mains, fut, ends, trees, stuck>>

\* The audit lock is busy: one more attempt, then an error outcome.
AuditTimeout(k, s) ==
  /\ at[k] \in {"first", "second"} /\ Fail("audit")
  /\ OnDisk(k, s)
  /\ At(k, IF at[k] = "first" THEN "second" ELSE "reify")
  /\ UNCHANGED <<mains, fut, ends, trees, stuck, outcome>>

\* Any other exception, before or after the record is written.
AttemptRaises(k) ==
  /\ at[k] \in {"first", "second"} /\ Fail("raise")
  /\ UNCHANGED evidence \/ \E s \in Statuses : OnDisk(k, s)
  /\ At(k, "reify")
  /\ UNCHANGED <<mains, fut, ends, trees, stuck, outcome>>

\* MemoryError and its like leave the worker as they are.
AttemptFatal(k) ==
  /\ at[k] \in {"first", "second"} /\ Fail("fatal")
  /\ UNCHANGED evidence \/ \E s \in Statuses : OnDisk(k, s)
  /\ fatal' = fatal \cup {k} /\ thrown' = thrown \cup {k}
  /\ At(k, "cleanup")
  /\ UNCHANGED <<mains, fut, trees, stuck, outcome>>

\* make_error_outcome: the error record is persisted if it can be.
ErrorOutcome(k) ==
  \/ Fine /\ OnDisk(k, "error") /\ Report(k, "error", TRUE)
  \/ Fail("persist") /\ UNCHANGED evidence /\ Report(k, "error", FALSE)

Reify(k) ==
  /\ at[k] = "reify"
  /\ ErrorOutcome(k)
  /\ At(k, "cleanup")
  /\ UNCHANGED <<mains, fut, ends, trees, stuck>>

\* Mutant: a fatal exception leaves without the finally.
CleanupUnlessFatal(k) ==
  /\ at[k] = "cleanup"
  /\ \/ Fine /\ trees' = trees \ ({k} \ (stuck \cup fatal)) /\ UNCHANGED stuck
     \/ k \in trees \ stuck /\ Fail("cleanup") /\ stuck' = stuck \cup {k} /\ UNCHANGED trees
  /\ fut' = [fut EXCEPT ![k] = "done"]
  /\ At(k, "none")
  /\ UNCHANGED <<mains, ends, outcome, evidence>>

\* The finally: best-effort removal of the worktree the checkout returned; the future
\* is done.
Cleanup(k) ==
  /\ at[k] = "cleanup"
  /\ \/ Fine /\ trees' = trees \ ({k} \ stuck) /\ UNCHANGED stuck
     \/ k \in trees \ stuck /\ Fail("cleanup") /\ stuck' = stuck \cup {k} /\ UNCHANGED trees
  /\ fut' = [fut EXCEPT ![k] = "done"]
  /\ At(k, "none")
  /\ UNCHANGED <<mains, ends, outcome, evidence>>

Work(k) ==
  \/ StartWorker(k) \/ Checkout(k) \/ Reify(k) \/ Cleanup(k)
  \/ AttemptRaises(k) \/ AttemptFatal(k)
  \/ \E s \in Statuses : Attempt(k, s) \/ AuditTimeout(k, s)

-----------------------------------------------------------------------------
(* The main thread: run_collectors_per_unit.                               *)

Submit(k) ==
  /\ main = "submit" /\ fut[k] = "new"
  /\ fut' = [fut EXCEPT ![k] = "queued"]
  /\ UNCHANGED <<mains, at, ends, trees, stuck, outcome, evidence, faults>>

Submitted ==
  /\ main = "submit" /\ \A k \in Collectors : fut[k] # "new"
  /\ main' = "wait"
  /\ UNCHANGED <<pending, escaping, taken, interrupts, workers, outcome, evidence, faults>>

\* Mutant: the outcome of a fatal future is noted as persisted only.
TakeUnpersisted(k) ==
  /\ main \in {"wait", "drain"} /\ fut[k] = "done" /\ k \notin taken
  /\ main = "drain" => Settled
  /\ taken' = taken \cup {k}
  /\ Fine /\ UNCHANGED <<evidence, pending>>
  /\ IF k \in thrown THEN Report(k, "error", TRUE) ELSE UNCHANGED outcome
  /\ UNCHANGED <<main, escaping, interrupts, workers>>

\* A done future is taken, by as_completed or, once shutdown(wait=True) is over,
\* by the handler.  Main reifies what an exception left unreported, and remembers a
\* fatal one, which the handler replaces by the interrupt.
Take(k) ==
  /\ main \in {"wait", "drain"} /\ fut[k] = "done" /\ k \notin taken
  /\ main = "drain" => Settled
  /\ taken' = taken \cup {k}
  /\ IF k \in thrown THEN ErrorOutcome(k) ELSE Fine /\ UNCHANGED <<outcome, evidence>>
  /\ pending' = (pending \/ (main = "wait" /\ k \in fatal))
  /\ UNCHANGED <<main, escaping, interrupts, workers>>

AllTaken ==
  /\ main = "wait" /\ taken = Collectors
  /\ main' = "close"
  /\ UNCHANGED <<pending, escaping, taken, interrupts, workers, outcome, evidence, faults>>

Drained ==
  /\ main = "drain" /\ Settled /\ \A k \in Collectors : fut[k] = "done" => k \in taken
  /\ main' = "close" /\ pending' = TRUE
  /\ UNCHANGED <<escaping, taken, interrupts, workers, outcome, evidence, faults>>

\* Mutant: the pool is never waited for.
CloseAtOnce ==
  /\ main = "close"
  /\ main' = IF pending \/ escaping THEN "raised" ELSE "returned"
  /\ UNCHANGED <<pending, escaping, taken, interrupts, workers, outcome, evidence, faults>>

\* shutdown(wait=(pending_baseexc is None)).
Close ==
  /\ main = "close" /\ (pending \/ Settled)
  /\ main' = IF pending \/ escaping THEN "raised" ELSE "returned"
  /\ UNCHANGED <<pending, escaping, taken, interrupts, workers, outcome, evidence, faults>>

\* Ctrl-C.  The handler covers the wait only; in the handler and in the finally
\* "except Exception" does not stop it.
Interrupt ==
  /\ main \in {"submit", "wait", "drain", "close"} /\ interrupts < MaxInterrupts
  /\ interrupts' = interrupts + 1
  /\ main' = CASE main = "wait"  -> "drain"
               [] main = "close" -> "raised"
               [] OTHER -> "close"
  /\ escaping' = (escaping \/ main # "wait")
  /\ UNCHANGED <<pending, taken, workers, outcome, evidence, faults>>

\* Ctrl-C while a result is being read is taken for the worker's own exception:
\* the collector's record is replaced by an error record, and main goes on.
InterruptedTake(k) ==
  /\ main \in {"wait", "drain"} /\ fut[k] = "done" /\ k \notin taken
  /\ main = "drain" => Settled
  /\ interrupts < MaxInterrupts /\ interrupts' = interrupts + 1
  /\ taken' = taken \cup {k}
  /\ ErrorOutcome(k)
  /\ pending' = (pending \/ main = "wait")
  /\ UNCHANGED <<main, escaping, workers>>

Main ==
  \/ \E k \in Collectors : Submit(k) \/ Take(k)
  \/ Submitted \/ AllTaken \/ Drained \/ Close

Next == Main \/ Interrupt \/ \E k \in Collectors : Work(k) \/ InterruptedTake(k)

Spec == Init /\ [][Next]_vars

\* Subprocesses have timeouts, threads are scheduled; nobody has to press Ctrl-C.
FairSpec == Spec /\ WF_vars(Main) /\ \A k \in Collectors : WF_vars(Work(k))

-----------------------------------------------------------------------------
(* Properties.                                                             *)

Over == main \in {"returned", "raised"}

\* Every variable holds a value of its kind.
TypeOK ==
  /\ main \in {"submit", "wait", "drain", "close", "returned", "raised"}
  /\ pending \in BOOLEAN /\ escaping \in BOOLEAN
  /\ taken \subseteq Collectors /\ fatal \subseteq thrown /\ thrown \subseteq Collectors
  /\ stuck \subseteq trees /\ trees \subseteq Collectors
  /\ outcome \in [Collectors -> Outcomes \cup {None}]
  /\ evidence \in [Collectors -> Statuses \cup {None}]
  /\ fut \in [Collectors -> {"new", "queued", "running", "done"}]
  /\ at \in [Collectors -> {"none", "checkout", "first", "second", "reify", "cleanup"}]
  /\ faults \in 0..MaxFaults /\ interrupts \in 0..MaxInterrupts

\* Nothing of the call is left behind when it is over: no collector runs or is about
\* to, and no worktree remains but one whose own removal failed or whose checkout git
\* timed out on, however the others ended and wherever Ctrl-C caught the main thread.
NothingLeftBehind == Over => Settled /\ trees \subseteq stuck

\* With at most one Ctrl-C the pool keeps the promise of Collection.
Promise == INSTANCE Collection WITH
  NoRecord <- None, NoReport <- None,
  report <- IF main = "returned" THEN outcome ELSE None,
  phase <- IF Over THEN main ELSE "running"
KeepsPromise == Promise!Spec

\* Every call ends, interrupted or not.
CallEnds == <>Over

=============================================================================
