----------------------------- MODULE AuditLog -----------------------------
(***************************************************************************)
(* The audit trail of a project (audit.py): a JSONL file of hash-chained    *)
(* records that every process of the project appends to under a file lock.  *)
(*                                                                         *)
(* The file is a sequence of lines, a line a sequence of the pieces writes  *)
(* have left in it.  A line reads back as a record when it is one whole     *)
(* record; an interrupted write leaves a fragment, or a whole record whose  *)
(* newline is missing.  The tag of a record is an ideal MAC of everything   *)
(* it authenticates: the (seq, event) pairs from the first record on.       *)
(***************************************************************************)
EXTENDS Naturals, Sequences

CONSTANTS
  Logs,       \* AuditLog instances, in any number of processes
  Events,     \* audit events
  Faults,     \* how an append may be interrupted
  MaxFaults,  \* bound on the interruptions
  MaxWrites,  \* bound on the writes to the file: no append begins beyond it
  Cut,        \* a fragment of a record
  None        \* nobody, nothing

FaultKinds == {"stop", "cut", "unterminated"}

ASSUME FaultsAssumption == Faults \subseteq FaultKinds /\ MaxFaults \in Nat
ASSUME MaxWritesAssumption == MaxWrites \in Nat

Tags == Seq(Nat \X Events)
Genesis == <<>>
Records == [seq : Nat, event : Events, tag : Tags]
Caches == [seq : Nat, tag : Tags, size : Nat]

ASSUME NoneAssumption == None \notin Logs \cup Records \cup Caches
ASSUME CutAssumption == Cut \notin Records

VARIABLES
  lines,   \* the file
  ended,   \* its last byte is a newline, or it is empty
  size,    \* its size, in writes that left something
  holder,  \* who holds the file lock
  pc,      \* where each instance's append is
  event,   \* the event it appends
  chosen,  \* the record it is about to write
  cache,   \* _cached_seq, _cached_tag, _cached_size
  acked,   \* history: records whose append has returned
  faults   \* interruptions so far

file == <<lines, ended, size>>
vars == <<file, holder, pc, event, chosen, cache, acked, faults>>

-----------------------------------------------------------------------------
(* Reading the file.                                                       *)

\* A line that parses: exactly one whole record.
Parses(line) == Len(line) = 1 /\ line[1] \in Records

\* _compute_tag.
Tag(prev, seq, ev) == Append(prev, <<seq, ev>>)

\* What verify() accepts at position i, given the lines before it.
Links(i) ==
  /\ Parses(lines[i])
  /\ lines[i][1].seq = i
  /\ lines[i][1].tag =
       Tag(IF i = 1 THEN Genesis ELSE lines[i - 1][1].tag, i, lines[i][1].event)

Good(n) == \A i \in 1..n : Links(i)

\* verify(): is the chain intact, and up to which seq?
VerifiedLength == CHOOSE n \in 0..Len(lines) :
                    Good(n) /\ (n < Len(lines) => ~Links(n + 1))
VerifiedEvents == [i \in 1..VerifiedLength |-> lines[i][1].event]

Fine == faults' = faults
Fail(f) == f \in Faults /\ faults < MaxFaults /\ faults' = faults + 1
Goto(l, step) == pc' = [pc EXCEPT ![l] = step]

Init ==
  /\ lines = <<>> /\ ended = TRUE /\ size = 0
  /\ holder = None
  /\ pc = [l \in Logs |-> "idle"]
  /\ event = [l \in Logs |-> None]
  /\ chosen = [l \in Logs |-> None]
  /\ cache = [l \in Logs |-> None]
  /\ acked = {} /\ faults = 0

-----------------------------------------------------------------------------
(* append.                                                                 *)

\* The frame of the call is gone and the lock with it.
Leave(l) ==
  /\ holder' = None
  /\ event' = [event EXCEPT ![l] = None]
  /\ chosen' = [chosen EXCEPT ![l] = None]
  /\ Goto(l, "idle")

\* AuditLockTimeout changes nothing and is left out.
Acquire(l, e) ==
  /\ pc[l] = "idle" /\ holder = None /\ size < MaxWrites
  /\ holder' = l
  /\ event' = [event EXCEPT ![l] = e]
  /\ Goto(l, "chain")
  /\ UNCHANGED <<file, chosen, cache, acked, faults>>

\* Mutant: the cached state is trusted whatever the file's size.
TrustCache(l) == cache[l] # None

\* What the new record is chained to: the cached state when the file has the size
\* it had then, else the last record in the file.
Untouched(l) == cache[l] # None /\ cache[l].size = size

Choose(l, seq, prev) ==
  /\ chosen' = [chosen EXCEPT ![l] =
       [seq |-> seq, event |-> event[l], tag |-> Tag(prev, seq, event[l])]]
  /\ Goto(l, "write")
  /\ UNCHANGED <<file, holder, event, cache, acked, faults>>

ChainToCache(l) ==
  /\ pc[l] = "chain" /\ Untouched(l)
  /\ Choose(l, cache[l].seq + 1, cache[l].tag)

StartChain(l) ==
  /\ pc[l] = "chain" /\ ~Untouched(l) /\ lines = <<>>
  /\ Choose(l, 1, Genesis)

\* Mutant: an unreadable tail is skipped.
ChainPastTail(l) ==
  /\ pc[l] = "chain" /\ ~Untouched(l) /\ lines # <<>>
  /\ IF Parses(lines[Len(lines)])
     THEN LET last == lines[Len(lines)][1] IN Choose(l, last.seq + 1, last.tag)
     ELSE Choose(l, Len(lines) + 1, Genesis)

ChainToTail(l) ==
  /\ pc[l] = "chain" /\ ~Untouched(l) /\ lines # <<>>
  /\ Parses(lines[Len(lines)])
  /\ LET last == lines[Len(lines)][1] IN Choose(l, last.seq + 1, last.tag)

\* A trailing line that does not parse: the append raises and writes nothing.
RefuseTail(l) ==
  /\ pc[l] = "chain" /\ ~Untouched(l) /\ lines # <<>>
  /\ ~Parses(lines[Len(lines)])
  /\ Leave(l)
  /\ UNCHANGED <<file, cache, acked, faults>>

\* Mutant: the file is opened for writing, not for appending.
InsteadOf(piece) == <<<<piece>>>>

\* open("ab"): the bytes go behind the last one, whatever it is.
Behind(piece) ==
  IF ended THEN Append(lines, <<piece>>)
  ELSE [lines EXCEPT ![Len(lines)] = Append(@, piece)]

Write(l) ==
  /\ pc[l] = "write"
  /\ lines' = Behind(chosen[l])
  /\ ended' = TRUE /\ size' = size + 1
  /\ Goto(l, "sync")
  /\ UNCHANGED <<holder, event, chosen, cache, acked, faults>>

\* A full disk or a power failure: part of the line is in the file, the call is
\* over, and the instance has lost its memory or never updates it.
WritePart(l) ==
  /\ pc[l] = "write"
  /\ \/ Fail("cut") /\ lines' = Behind(Cut)
     \/ Fail("unterminated") /\ lines' = Behind(chosen[l])
  /\ ended' = FALSE /\ size' = size + 1
  /\ \/ UNCHANGED cache
     \/ cache' = [cache EXCEPT ![l] = None]
  /\ Leave(l)
  /\ UNCHANGED acked

\* Mutant: the size is not remembered.
SyncedNoSize(l) ==
  /\ pc[l] = "sync"
  /\ cache' = [cache EXCEPT ![l] = [seq |-> chosen[l].seq, tag |-> chosen[l].tag]]
  /\ acked' = acked \cup {chosen[l]}
  /\ Leave(l)
  /\ UNCHANGED <<file, faults>>

Synced(l) ==
  /\ pc[l] = "sync"
  /\ cache' = [cache EXCEPT ![l] =
       [seq |-> chosen[l].seq, tag |-> chosen[l].tag, size |-> size]]
  /\ acked' = acked \cup {chosen[l]}
  /\ Leave(l)
  /\ UNCHANGED <<file, faults>>

\* The call ends half-way: an exception (fsync raises after the write), or the
\* process dies, its memory with it; either way the lock is free again.
Stop(l) ==
  /\ pc[l] # "idle" /\ Fail("stop")
  /\ Leave(l)
  /\ \/ UNCHANGED cache
     \/ cache' = [cache EXCEPT ![l] = None]
  /\ UNCHANGED <<file, acked>>

\* audit_for_policy: a new instance takes the place of an idle one.
Reopen(l) ==
  /\ pc[l] = "idle"
  /\ cache' = [cache EXCEPT ![l] = None]
  /\ UNCHANGED <<file, holder, pc, event, chosen, acked, faults>>

Next ==
  \E l \in Logs :
    \/ \E e \in Events : Acquire(l, e)
    \/ ChainToCache(l) \/ StartChain(l) \/ ChainToTail(l) \/ RefuseTail(l)
    \/ Write(l) \/ WritePart(l) \/ Synced(l) \/ Stop(l)
    \/ Reopen(l)

Spec == Init /\ [][Next]_vars

-----------------------------------------------------------------------------
(* Properties.                                                             *)

\* Every variable holds a value of its kind.
TypeOK ==
  /\ lines \in Seq(Seq(Records \cup {Cut}))
  /\ ended \in BOOLEAN /\ size \in Nat
  /\ holder \in Logs \cup {None}
  /\ pc \in [Logs -> {"idle", "chain", "write", "sync"}]
  /\ event \in [Logs -> Events \cup {None}]
  /\ chosen \in [Logs -> Records \cup {None}]
  /\ cache \in [Logs -> Caches \cup {None}]
  /\ acked \subseteq Records /\ faults \in 0..MaxFaults

\* However appends by several processes, stale caches, deaths and failed syncs
\* interleave, all that verify() can object to is the fragment at the very end.
OnlyTailIsTorn ==
  lines # <<>> =>
    /\ Good(Len(lines) - 1)
    /\ Links(Len(lines)) \/ lines[Len(lines)] = <<Cut>>

\* A record whose append has returned stays where it was put and verifies.
AckedVerify == \A r \in acked : r.seq <= VerifiedLength /\ lines[r.seq] = <<r>>

\* "Append-only": the audit trail, as verify() reads it, is a ledger.
Ledger == INSTANCE AppendOnly WITH entries <- VerifiedEvents, Entries <- Events
IsALedger == Ledger!Spec

=============================================================================
