--------------------------- MODULE ThresholdTuning ---------------------------
(***************************************************************************)
(* Threshold proposals of one project: gates write verdict files, proposers  *)
(* read them and write proposals, operators apply or reject proposals, and   *)
(* people edit the source the thresholds stand in.  Proposal writes, ledger  *)
(* appends and applies hold .calibration.lock; reads take no lock.  A process *)
(* may die, or fail, at any step of them.                                  *)
(***************************************************************************)
EXTENDS ThresholdRules

CONSTANTS
  Users,         \* processes that run a calibration command or a gate's proposer
  NoUser,
  Original,      \* the thresholds as shipped
  Coverages,     \* what gates measure
  Edits,         \* what people write into the source by hand, None for no literal
  MaxGates, MaxClock, MaxMishaps, MaxDecisions   \* bounds

ASSUME UsersAssumption == NoUser \notin Users
ASSUME SourceAssumption ==
  Original \in [Priorities -> Percent] /\ Edits \subseteq Percent \cup {None}
ASSUME CoveragesAssumption == Coverages \subseteq Percent \cup {None}
ASSUME BoundsAssumption ==
  MaxGates \in Nat /\ MaxClock \in Nat /\ MaxMishaps \in Nat /\ MaxDecisions \in Nat

VARIABLES
  gates,         \* the verdict files in the order of their names
  source,        \* the threshold of each priority in gate_rules.py
  clock,
  proposals,     \* proposal id -> [created, slug]
  decisions,     \* decisions.jsonl
  backups,       \* proposal id -> the source saved in <id>.applied
  records,       \* proposals with an <id>.applied/record.json
  lock,          \* who holds .calibration.lock
  at, job,       \* where each user is, and what it is about
  mishaps        \* failures and hand edits so far

disk == <<proposals, decisions, backups, records>>
vars == <<gates, source, clock, disk, lock, at, job, mishaps>>

About(id, slug) == [id |-> id, slug |-> slug, raw |-> Original, todo |-> {}]
NoJob == About(NoProposal, 0)
Held == {"superseding", "backup", "splice", "record", "accept"}
Waiting == {"proposing", "confirming", "rejecting"}

Init ==
  /\ gates = <<>> /\ source = Original /\ clock = 0
  /\ proposals = <<>> /\ decisions = <<>> /\ backups = <<>> /\ records = {}
  /\ lock = NoUser
  /\ at = [u \in Users |-> "idle"] /\ job = [u \in Users |-> NoJob]
  /\ mishaps = 0

With(f, x, v) == [y \in DOMAIN f \cup {x} |-> IF y = x THEN v ELSE f[y]]
Go(u, place) == at' = [at EXCEPT ![u] = place]
Free == lock = NoUser
Done(u) ==
  /\ lock' = NoUser /\ Go(u, "idle")
  /\ job' = [job EXCEPT ![u] = NoJob]
Append1(id, action) == decisions' = Append(decisions, [id |-> id, action |-> action])

-----------------------------------------------------------------------------
(* Gates and people. *)

\* A gate's verdict file goes where its name sorts, not at the end.
PersistGate ==
  /\ Len(gates) < MaxGates
  /\ \E i \in 1..(Len(gates) + 1), p \in Priorities, c \in Coverages :
       gates' = InsertAt(gates, i, [n |-> Len(gates), priority |-> p, coverage |-> c,
                                    invalidated |-> FALSE])
  /\ UNCHANGED <<source, clock, disk, lock, at, job, mishaps>>

\* invalidate_gate renames the file to another *.json name, and the proposer
\* lists it under that one.
InvalidateGate ==
  /\ \E i \in DOMAIN gates :
       ~gates[i].invalidated /\ gates' = [gates EXCEPT ![i].invalidated = TRUE]
  /\ UNCHANGED <<source, clock, disk, lock, at, job, mishaps>>

EditSource ==
  /\ mishaps < MaxMishaps /\ mishaps' = mishaps + 1
  /\ \E p \in Priorities, v \in Edits : source' = [source EXCEPT ![p] = v]
  /\ UNCHANGED <<gates, clock, disk, lock, at, job>>

Tick ==
  /\ clock < MaxClock /\ clock' = clock + 1
  /\ UNCHANGED <<gates, source, disk, lock, at, job, mishaps>>

-----------------------------------------------------------------------------
(* observe_gate: the window and the source are read before the lock.        *)

Observe(u) ==
  /\ at[u] = "idle"
  /\ \E i \in DOMAIN gates :
       LET p == gates[i].priority
           id == Observed(gates, p, source[p])
       IN  id # NoProposal /\ job' = [job EXCEPT ![u].id = id]
  /\ Go(u, "proposing")
  /\ UNCHANGED <<gates, source, clock, disk, lock, mishaps>>

\* Mutant: the proposal is written again, with a new slug.
ProposeAfresh(u) ==
  /\ at[u] = "proposing" /\ Free
  /\ LET id == job[u].id
     IN  /\ proposals' = With(proposals, id, [created |-> clock,
                                              slug |-> Cardinality(DOMAIN proposals) + clock + 1])
         /\ job' = [job EXCEPT ![u].todo = Pending(proposals, decisions, id)]
         /\ lock' = u /\ Go(u, "superseding")
  /\ UNCHANGED <<gates, source, clock, decisions, backups, records, mishaps>>
\* One that is there already is returned as it is; a new one gets its slug here.
Propose(u) ==
  /\ at[u] = "proposing" /\ Free
  /\ LET id == job[u].id
     IN  IF id \in DOMAIN proposals
         THEN Done(u) /\ UNCHANGED proposals
         ELSE /\ proposals' = With(proposals, id, [created |-> clock,
                                                   slug |-> Cardinality(DOMAIN proposals) + 1])
              /\ job' = [job EXCEPT ![u].todo = Pending(proposals, decisions, id)]
              /\ lock' = u /\ Go(u, "superseding")
  /\ UNCHANGED <<gates, source, clock, decisions, backups, records, mishaps>>

\* _maybe_auto_supersede, one append at a time; an append that fails leaves a
\* line in a sidecar nothing reads.
Supersede(u) ==
  /\ at[u] = "superseding"
  /\ \/ /\ job[u].todo = {} /\ Done(u)
        /\ UNCHANGED <<decisions, mishaps>>
     \/ \E id \in job[u].todo :
          /\ job' = [job EXCEPT ![u].todo = @ \ {id}]
          /\ \/ Append1(id, "superseded") /\ UNCHANGED mishaps
             \/ /\ mishaps < MaxMishaps /\ mishaps' = mishaps + 1
                /\ UNCHANGED decisions
          /\ UNCHANGED <<lock, at>>
  /\ UNCHANGED <<gates, source, clock, proposals, backups, records>>

-----------------------------------------------------------------------------
(* apply: an operator types the slug that was printed for a proposal.        *)

Confirm(u) ==
  /\ at[u] = "idle" /\ Len(decisions) < MaxDecisions
  /\ \/ \E id \in Listed(proposals, decisions) :
          job' = [job EXCEPT ![u] = About(id, proposals[id].slug)]
     \/ \E id \in DOMAIN proposals : job' = [job EXCEPT ![u] = About(id, 0)]
  /\ Go(u, "confirming")
  /\ UNCHANGED <<gates, source, clock, disk, lock, mishaps>>

\* The checks, under the lock; the whole file is read here, once.
Validate(u) ==
  /\ at[u] = "confirming" /\ Free
  /\ LET why == Refusal(proposals, job[u].id, job[u].slug, clock, source)
     IN  IF why = "none"
         THEN /\ job' = [job EXCEPT ![u].raw = source]
              /\ lock' = u /\ Go(u, "backup") /\ UNCHANGED decisions
         ELSE /\ IF why = "CONFIRM_MISMATCH" THEN Append1(job[u].id, "confirm_failed")
                                             ELSE UNCHANGED decisions
              /\ Done(u)
  /\ UNCHANGED <<gates, source, clock, proposals, backups, records, mishaps>>

\* Mutant: the target is spliced first.
BackupAfterSplice(u) ==
  /\ at[u] = "backup"
  /\ source' = [job[u].raw EXCEPT ![job[u].id.priority] = job[u].id.proposed]
  /\ Go(u, "splice")
  /\ UNCHANGED <<gates, clock, disk, lock, job, mishaps>>
Backup(u) ==
  /\ at[u] = "backup"
  /\ backups' = With(backups, job[u].id, job[u].raw)
  /\ Go(u, "splice")
  /\ UNCHANGED <<gates, source, clock, proposals, decisions, records, lock, job, mishaps>>

\* The bytes that were read, with one literal replaced, over the file as it is.
Splice(u) ==
  /\ at[u] = "splice"
  /\ source' = [job[u].raw EXCEPT ![job[u].id.priority] = job[u].id.proposed]
  /\ Go(u, "record")
  /\ UNCHANGED <<gates, clock, disk, lock, job, mishaps>>

WriteRecord(u) ==
  /\ at[u] = "record"
  /\ records' = records \cup {job[u].id}
  /\ Go(u, "accept")
  /\ UNCHANGED <<gates, source, clock, proposals, decisions, backups, lock, job, mishaps>>

Accept(u) ==
  /\ at[u] = "accept"
  /\ Append1(job[u].id, "accept")
  /\ Done(u)
  /\ UNCHANGED <<gates, source, clock, proposals, backups, records, mishaps>>

-----------------------------------------------------------------------------
(* reject_proposal: the proposal is looked up before the lock.              *)

Reject(u) ==
  /\ at[u] = "idle" /\ Len(decisions) < MaxDecisions
  /\ \E id \in DOMAIN proposals : job' = [job EXCEPT ![u].id = id]
  /\ Go(u, "rejecting")
  /\ UNCHANGED <<gates, source, clock, disk, lock, mishaps>>

RecordReject(u) ==
  /\ at[u] = "rejecting" /\ Free
  /\ Append1(job[u].id, "reject")
  /\ Done(u)
  /\ UNCHANGED <<gates, source, clock, proposals, backups, records, mishaps>>

\* A write raises or the process dies: either way its lock is dropped.
Fail(u) ==
  /\ at[u] \in Held
  /\ mishaps < MaxMishaps /\ mishaps' = mishaps + 1
  /\ Done(u)
  /\ UNCHANGED <<gates, source, clock, disk>>

\* The 30 seconds of the lock pass.
GiveUp(u) ==
  /\ at[u] \in Waiting /\ ~Free
  /\ Go(u, "idle") /\ job' = [job EXCEPT ![u] = NoJob]
  /\ UNCHANGED <<gates, source, clock, disk, lock, mishaps>>

-----------------------------------------------------------------------------
Work(u) == Propose(u) \/ Supersede(u) \/ Validate(u) \/ Backup(u) \/ Splice(u)
           \/ WriteRecord(u) \/ Accept(u) \/ RecordReject(u)

Next ==
  \/ PersistGate \/ InvalidateGate \/ EditSource \/ Tick
  \/ \E u \in Users : Observe(u) \/ Confirm(u) \/ Reject(u) \/ Work(u) \/ Fail(u) \/ GiveUp(u)

Spec == Init /\ [][Next]_vars

-----------------------------------------------------------------------------
Ids == DOMAIN proposals

(* What the variables hold, and whose the lock is: it is held exactly while  *)
(* its holder is between acquiring and releasing it, so no command ends with *)
(* the lock taken (the finally and the with of every writer).              *)
TypeOK ==
  /\ gates \in Seq(GateFiles) /\ DOMAIN source = Priorities
  /\ clock \in 0..MaxClock /\ mishaps \in 0..MaxMishaps
  /\ \A id \in Ids : proposals[id] \in [created : 0..MaxClock, slug : Nat \ {0}]
  /\ decisions \in Seq([id : Ids, action : Actions])
  /\ DOMAIN backups \subseteq Ids /\ records \subseteq DOMAIN backups
  /\ at \in [Users -> {"idle"} \cup Waiting \cup Held]
  /\ \A u \in Users : at[u] \in Held <=> lock = u

(* Whatever the source says was shipped, written by hand, or put there by a  *)
(* proposal whose backup is on disk and holds the value it replaced.  The    *)
(* apply step may fail anywhere, also between the splice and the record       *)
(* (threshold_apply.py, steps 13 to 18), and a proposal may be applied again  *)
(* after a hand edit.                                                      *)
Restorable ==
  \A p \in Priorities :
    \/ source[p] = Original[p] \/ source[p] \in Edits
    \/ \E id \in DOMAIN backups :
         id.priority = p /\ id.proposed = source[p] /\ backups[id][p] = id.current

(* The ledger tells the truth: a proposal is never marked superseded when    *)
(* the decision before it accepted or rejected it, although proposers,       *)
(* operators and failures interleave, and an accept has its record on disk.  *)
LedgerIsHonest ==
  /\ \A i \in DOMAIN decisions :
       decisions[i].action = "superseded" =>
         ~LatestIs(SubSeq(decisions, 1, i - 1), decisions[i].id, {"accept", "reject"})
  /\ \A i \in DOMAIN decisions : decisions[i].action = "accept" => decisions[i].id \in records

(* A slug that was printed stays the slug: no later proposer, concurrent or  *)
(* restarted, rewrites a proposal (observe_gate returns the existing one).   *)
SlugsStick == [][\A id \in Ids : id \in DOMAIN proposals' /\ proposals'[id] = proposals[id]]_vars
=============================================================================
