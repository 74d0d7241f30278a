--------------------------- MODULE EvidenceCache ---------------------------
(***************************************************************************)
(* The in-process cache of a gate's evidence bundle (evidence_cache.py),    *)
(* shared by the threads of one orchestrator process: collector threads     *)
(* persist records while others load the bundle.                           *)
(*                                                                         *)
(* The files of one gate are Keys; a file's content is the number of times  *)
(* it was written or moved away, so a larger number is a later content.     *)
(* A load that misses reads the disk without the lock, file by file, and    *)
(* may store what it read only if the generation has not moved meanwhile.   *)
(***************************************************************************)
EXTENDS Naturals, FiniteSets

CONSTANTS
  Threads,   \* threads of the process
  Keys,      \* evidence files of the gate
  NoBundle,  \* nothing cached, nothing returned
  MaxGen     \* bound on the generation: no write or bulk drop begins beyond it

Bundles == [Keys -> Nat]

ASSUME BoundAssumption == MaxGen \in Nat
ASSUME NoBundleAssumption == NoBundle \notin Bundles

VARIABLES
  disk,     \* version of each file
  present,  \* the files that exist
  cached,   \* _CACHE
  gen,      \* _GEN, 0 while the key has no entry
  pc,       \* where each thread is
  wrote,    \* versions a thread's write has put on disk, not yet invalidated
  seenGen,  \* gen_at_entry of a load that missed
  todo,     \* files a load has still to read
  partial,  \* versions it has read
  got,      \* what the last load returned
  done,     \* history: latest version of a file whose persist has returned
  floor     \* history: done when the load began

cacheVars ==
  <<disk, present, cached, gen, pc, wrote, seenGen, todo, partial, got, done, floor>>

Zero == [k \in Keys |-> 0]
Newer(a, b) == [k \in Keys |-> IF a[k] > b[k] THEN a[k] ELSE b[k]]
AtLeast(a, b) == \A k \in Keys : a[k] >= b[k]

Goto(t, step) == pc' = [pc EXCEPT ![t] = step]

CacheInit ==
  /\ disk = Zero /\ present = {} /\ cached = NoBundle /\ gen = 0
  /\ pc = [t \in Threads |-> "idle"]
  /\ wrote = [t \in Threads |-> Zero]
  /\ seenGen = [t \in Threads |-> 0]
  /\ todo = [t \in Threads |-> {}]
  /\ partial = [t \in Threads |-> Zero]
  /\ got = [t \in Threads |-> NoBundle]
  /\ done = Zero
  /\ floor = [t \in Threads |-> Zero]

-----------------------------------------------------------------------------
(* Writers.                                                                *)

\* persist_evidence_record: write_atomic_text replaces the file ...
Write(t, k) ==
  /\ pc[t] = "idle" /\ gen < MaxGen
  /\ disk' = [disk EXCEPT ![k] = @ + 1]
  /\ present' = present \cup {k}
  /\ wrote' = [wrote EXCEPT ![t][k] = disk'[k]]
  /\ Goto(t, "wrote")
  /\ UNCHANGED <<cached, gen, seenGen, todo, partial, got, done, floor>>

\* Crash recovery renames the whole evidence directory ...
MoveAway(t) ==
  /\ pc[t] = "idle" /\ present # {} /\ gen < MaxGen
  /\ disk' = [k \in Keys |-> IF k \in present THEN disk[k] + 1 ELSE disk[k]]
  /\ wrote' = [wrote EXCEPT ![t] = disk']
  /\ present' = {}
  /\ Goto(t, "wrote")
  /\ UNCHANGED <<cached, gen, seenGen, todo, partial, got, done, floor>>

\* ... and invalidate_evidence_cache follows, under _LOCK; the call returns.
Invalidate(t) ==
  /\ pc[t] = "wrote"
  /\ cached' = NoBundle
  /\ gen' = gen + 1
  /\ done' = Newer(done, wrote[t])
  /\ wrote' = [wrote EXCEPT ![t] = Zero]
  /\ Goto(t, "idle")
  /\ UNCHANGED <<disk, present, seenGen, todo, partial, got, floor>>

\* Mutant: a bulk drop clears the generations.
InvalidateAllClears(t) ==
  /\ pc[t] = "idle"
  /\ cached' = NoBundle
  /\ gen' = 0
  /\ UNCHANGED <<disk, present, pc, wrote, seenGen, todo, partial, got, done, floor>>

\* invalidate_all_evidence_cache: only keys that have a generation are bumped.
InvalidateAll(t) ==
  /\ pc[t] = "idle" /\ gen < MaxGen
  /\ cached' = NoBundle
  /\ gen' = IF gen = 0 THEN 0 ELSE gen + 1
  /\ UNCHANGED <<disk, present, pc, wrote, seenGen, todo, partial, got, done, floor>>

-----------------------------------------------------------------------------
(* cached_load_evidence_bundle.                                            *)

Hit(t) ==
  /\ pc[t] = "idle" /\ cached # NoBundle
  /\ got' = [got EXCEPT ![t] = cached]
  /\ floor' = [floor EXCEPT ![t] = done]
  /\ UNCHANGED <<disk, present, cached, gen, pc, wrote, seenGen, todo, partial, done>>

\* Mutant: a key without a generation is not read as generation 0.
MissNoDefault(t) ==
  /\ pc[t] = "idle" /\ cached = NoBundle
  /\ seenGen' = [seenGen EXCEPT ![t] = IF gen = 0 THEN NoBundle ELSE gen]
  /\ got' = [got EXCEPT ![t] = NoBundle]
  /\ floor' = [floor EXCEPT ![t] = done]
  /\ Goto(t, "missed")
  /\ UNCHANGED <<disk, present, cached, gen, wrote, todo, partial, done>>

\* The generation is noted before the lock is given up.
Miss(t) ==
  /\ pc[t] = "idle" /\ cached = NoBundle
  /\ seenGen' = [seenGen EXCEPT ![t] = gen]
  /\ got' = [got EXCEPT ![t] = NoBundle]
  /\ floor' = [floor EXCEPT ![t] = done]
  /\ Goto(t, "missed")
  /\ UNCHANGED <<disk, present, cached, gen, wrote, todo, partial, done>>

\* load_evidence_bundle lists the directory, then opens one file after another.
ListFiles(t) ==
  /\ pc[t] = "missed"
  /\ todo' = [todo EXCEPT ![t] = present]
  /\ partial' = [partial EXCEPT ![t] = disk]
  /\ Goto(t, "reading")
  /\ UNCHANGED <<disk, present, cached, gen, wrote, seenGen, got, done, floor>>

\* A listed file that is gone by now makes the load raise.
ReadFile(t, k) ==
  /\ pc[t] = "reading" /\ k \in todo[t]
  /\ IF k \in present
     THEN /\ partial' = [partial EXCEPT ![t][k] = disk[k]]
          /\ todo' = [todo EXCEPT ![t] = @ \ {k}]
          /\ UNCHANGED pc
     ELSE /\ todo' = [todo EXCEPT ![t] = {}]
          /\ Goto(t, "idle")
          /\ UNCHANGED partial
  /\ UNCHANGED <<disk, present, cached, gen, wrote, seenGen, got, done, floor>>

\* Mutant: what was read is cached whatever has happened since.
StoreAnyway(t) ==
  /\ pc[t] = "reading" /\ todo[t] = {}
  /\ cached' = partial[t]
  /\ got' = [got EXCEPT ![t] = partial[t]]
  /\ Goto(t, "idle")
  /\ UNCHANGED <<disk, present, gen, wrote, seenGen, todo, partial, done, floor>>

\* Back under the lock: the bundle is cached unless the generation has moved.
Store(t) ==
  /\ pc[t] = "reading" /\ todo[t] = {}
  /\ cached' = IF gen = seenGen[t] THEN partial[t] ELSE cached
  /\ got' = [got EXCEPT ![t] = partial[t]]
  /\ Goto(t, "idle")
  /\ UNCHANGED <<disk, present, gen, wrote, seenGen, todo, partial, done, floor>>

CacheNext ==
  \E t \in Threads :
    \/ \E k \in Keys : Write(t, k) \/ ReadFile(t, k)
    \/ MoveAway(t) \/ Invalidate(t) \/ InvalidateAll(t)
    \/ Hit(t) \/ Miss(t) \/ ListFiles(t) \/ Store(t)

CacheSpec == CacheInit /\ [][CacheNext]_cacheVars

-----------------------------------------------------------------------------
(* Properties.                                                             *)

\* Every variable holds a value of its kind, and a bundle is never half there.
CacheTypeOK ==
  /\ disk \in Bundles /\ done \in Bundles /\ present \subseteq Keys
  /\ cached \in Bundles \cup {NoBundle} /\ gen \in Nat
  /\ pc \in [Threads -> {"idle", "wrote", "missed", "reading"}]
  /\ wrote \in [Threads -> Bundles] /\ floor \in [Threads -> Bundles]
  /\ seenGen \in [Threads -> Nat] /\ todo \in [Threads -> SUBSET Keys]
  /\ partial \in [Threads -> Bundles]
  /\ got \in [Threads -> Bundles \cup {NoBundle}]

\* A cached bundle holds at least every record whose persist has returned:
\* a slow loader never puts a stale bundle back.
CacheIsCurrent == cached # NoBundle => AtLeast(cached, done)

\* A load returns at least every record whose persist had returned when the load
\* began, from the cache or from disk, however it interleaves with writers.
LoadsSeePersisted ==
  \A t \in Threads : got[t] # NoBundle => AtLeast(got[t], floor[t])

=============================================================================
