------------------------------ MODULE Lineage ------------------------------
(***************************************************************************)
(* The on-disk lineage ledger (core/innovation/lineage_persistence.py):    *)
(* one file per entry and one index, written entry first under a lock.     *)
(* A caller reads the root before it takes the lock, so what it persists   *)
(* may extend a root that is no longer the last; a write may fail, and a   *)
(* process may die between its two writes.                                 *)
(***************************************************************************)
EXTENDS LineageChain

CONSTANTS
    Procs,          \* processes that persist entries
    Payloads,       \* contents an artifact may have
    Disks,          \* the (files, index) pairs a run may start from
    MaxPersists,    \* bound: entries made
    MaxFaults       \* bound: failed writes and killed processes

ASSUME ProcsHaveNoNone == None \notin Procs
ASSUME BoundsAreNat == MaxPersists \in Nat /\ MaxFaults \in Nat

\* What persist_lineage_entry writes to a file.
IsEntry(e) == e = [key |-> e.key, payload |-> e.payload, parent |-> e.parent] /\ e.key \in Keys

\* A run starts from a ledger whose files are named after their entries, and whose
\* index has rows with or without a position and knows no entry without a file.
ASSUME DisksAreReadable ==
  \A d \in Disks :
    /\ DOMAIN d.files = Keys /\ d.index = [k \in Keys |-> d.index[k]]
    /\ \A k \in Keys : d.files[k] # None => IsEntry(d.files[k]) /\ d.files[k].key = k
    /\ IsFiniteSet(Indexed(d.index))
    /\ \A k \in Indexed(d.index) : d.index[k] \in [seq : Nat \cup {NoSeq}]
    /\ Readable(d.index, d.files)

VARIABLES
    files,     \* entry files
    index,     \* index.json
    holder,    \* owner of the lineage lock
    proc,      \* what each process is doing
    made,      \* entries made so far
    faults,    \* faults so far
    tainted,   \* history: something was written that may break the chain
    inherited, \* history: the run began with a ledger of an older version
    cut        \* history: the entries a Ctrl-C took back that the index lists

vars == <<files, index, holder, proc, made, faults, tainted, inherited, cut>>

Idle == [at |-> "idle"]
At(p, at) == proc[p].at = at
Step(p, r) == proc' = [proc EXCEPT ![p] = r]

\* An entry whose parent is the root of the first rows, in their order.
Placed(e) ==
  /\ DOMAIN e.parent \subseteq 1..Cardinality(Indexed(index))
  /\ \A n \in DOMAIN e.parent : e.parent[n].key = SortedKeys(index)[n]

\* A ledger this version has written alone.
Homegrown ==
  /\ \A k \in Indexed(index) : index[k].seq # NoSeq
  /\ \A k \in Keys : files[k] # None => Placed(files[k])

Init ==
  /\ \E d \in Disks : files = d.files /\ index = d.index
  /\ holder = None
  /\ proc = [p \in Procs |-> Idle]
  /\ made = 0 /\ faults = 0
  /\ tainted = ~ LoadOk(index, files)
  /\ inherited = ~ Homegrown
  /\ cut = {}

\* A caller loads the root, which raises on a broken chain, and makes its
\* entry; or it persists again an entry it loaded.
MakeEntry(p) ==
  /\ At(p, "idle")
  /\ made < MaxPersists
  /\ made' = made + 1
  /\ \E k \in Keys :
       \/ /\ LoadOk(index, files)
          /\ \E c \in Payloads :
               Step(p, [at |-> "lock",
                        entry |-> [key |-> k, payload |-> c, parent |-> LoadRoot(index, files)]])
       \/ files[k] # None /\ Step(p, [at |-> "lock", entry |-> files[k]])
  /\ UNCHANGED <<files, index, holder, faults, tainted, inherited, cut>>

\* The lock, and the index read under it.
Lock(p) ==
  /\ At(p, "lock")
  /\ holder = None
  /\ holder' = p
  /\ Step(p, [proc[p] EXCEPT !.at = "entry"])
  /\ UNCHANGED <<files, index, made, faults, tainted, inherited, cut>>

LockTimeout(p) ==
  /\ At(p, "lock")
  /\ holder # None
  /\ Step(p, Idle)
  /\ UNCHANGED <<files, index, holder, made, faults, tainted, inherited, cut>>

\* History: what this write would spoil.
Spoils(e) ==
  /\ files[e.key] # e \/ index[e.key] = None
  /\ index[e.key] # None \/ ~ LoadOk(index, files) \/ e.parent # LoadRoot(index, files)

WriteEntry(p) ==
  LET e == proc[p].entry IN
  /\ At(p, "entry")
  /\ files' = [files EXCEPT ![e.key] = e]
  /\ tainted' = (tainted \/ Spoils(e))
  /\ Step(p, [proc[p] EXCEPT !.at = "index"])
  /\ UNCHANGED <<index, holder, made, faults, inherited, cut>>

\* Mutant: a repeated persist moves the row to the end.
WriteIndexMoves(p) ==
  LET k == proc[p].entry.key IN
  /\ At(p, "index")
  /\ index' = [index EXCEPT ![k] = [seq |-> NextSeq(index)]]
  /\ holder' = None
  /\ Step(p, Idle)
  /\ UNCHANGED <<files, made, faults, tainted, inherited, cut>>

\* The row keeps its position if it has one.  History: another row is moved to the end.
ReplaceIndex(k) ==
  index' = [index EXCEPT ![k] =
              IF @ # None /\ @.seq # NoSeq THEN @ ELSE [seq |-> NextSeq(index)]]
Moves(k) ==
  index[k] # None /\ index[k].seq = NoSeq /\ Cardinality(Indexed(index)) > 1

WriteIndex(p) ==
  LET k == proc[p].entry.key IN
  /\ At(p, "index")
  /\ ReplaceIndex(k)
  /\ tainted' = (tainted \/ Moves(k))
  /\ holder' = None
  /\ Step(p, Idle)
  /\ UNCHANGED <<files, made, faults, inherited, cut>>

\* The first write raises: the lock is released and nothing has changed.
EntryFails(p) ==
  /\ At(p, "entry")
  /\ faults < MaxFaults
  /\ faults' = faults + 1
  /\ holder' = None
  /\ Step(p, Idle)
  /\ UNCHANGED <<files, index, made, tainted, inherited, cut>>

\* Mutant: the rollback removes the file whether or not the index knows it.
IndexFailsUnlinks(p) ==
  LET k == proc[p].entry.key IN
  /\ At(p, "index")
  /\ faults < MaxFaults
  /\ faults' = faults + 1
  /\ files' = [files EXCEPT ![k] = None]
  /\ holder' = None
  /\ Step(p, Idle)
  /\ UNCHANGED <<index, made, tainted, inherited, cut>>

\* The second write raises: an entry file the index did not know is removed.
IndexFails(p) ==
  LET k == proc[p].entry.key IN
  /\ At(p, "index")
  /\ faults < MaxFaults
  /\ faults' = faults + 1
  /\ files' = IF index[k] = None THEN [files EXCEPT ![k] = None] ELSE files
  /\ holder' = None
  /\ Step(p, Idle)
  /\ UNCHANGED <<index, made, tainted, inherited, cut>>

\* A Ctrl-C between the replaced index and the end of the write: the rollback catches
\* it like a write that failed, and takes back a new entry the index now lists.
IndexInterrupted(p) ==
  LET k == proc[p].entry.key
      new == index[k] = None
  IN
  /\ At(p, "index")
  /\ faults < MaxFaults
  /\ faults' = faults + 1
  /\ ReplaceIndex(k)
  /\ files' = IF new THEN [files EXCEPT ![k] = None] ELSE files
  /\ cut' = IF new THEN cut \cup {k} ELSE cut
  /\ tainted' = (tainted \/ new \/ Moves(k))
  /\ holder' = None
  /\ Step(p, Idle)
  /\ UNCHANGED <<made, inherited>>

Crash(p) ==
  /\ proc[p].at \in {"entry", "index"}
  /\ faults < MaxFaults
  /\ faults' = faults + 1
  /\ holder' = None
  /\ Step(p, Idle)
  /\ UNCHANGED <<files, index, made, tainted, inherited, cut>>

Next == \E p \in Procs :
  \/ MakeEntry(p) \/ Lock(p) \/ LockTimeout(p) \/ WriteEntry(p) \/ WriteIndex(p)
  \/ EntryFails(p) \/ IndexFails(p) \/ IndexInterrupted(p) \/ Crash(p)

Spec == Init /\ [][Next]_vars

(* ---- properties ---- *)

\* The index never advertises an entry whose file is missing, whatever write failed and
\* wherever a process died (entry first, rollback only of new files), unless a Ctrl-C
\* struck when the index had been replaced and the rollback took the entry back.
IndexIsBacked == \A k \in Indexed(index) : files[k] # None \/ k \in cut

\* On every ledger a run can leave behind, in the middle of a persist too, lineage verify
\* and lineage stats agree on whether the chain is intact: two algorithms over the same
\* bytes.  What lineage show takes they take; and show refuses what they take only where
\* rows had no position in the ledger an older version left.
SurfacesAgree ==
  /\ VerifyOk(index, files) <=> StatsOk(index, files)
  /\ ShowOk(index, files) => VerifyOk(index, files)
  /\ VerifyOk(index, files) /\ ~ ShowOk(index, files) => inherited

\* A ledger stops loading only for one of four reasons: an entry was written whose parent
\* was no longer the last root, an entry others build on was replaced, a row without a
\* position was given one, or a Ctrl-C struck after the index was replaced.  No failed
\* write, no killed process, no leftover entry file and no repeated persist breaks it.
BreaksOnlyBySpoiling == tainted \/ LoadOk(index, files)

=============================================================================
