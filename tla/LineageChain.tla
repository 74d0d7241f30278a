---------------------------- MODULE LineageChain ----------------------------
(***************************************************************************)
(* The chain of core/innovation/lineage_ledger.py: every artifact, from    *)
(* brainstorm to gate, is an entry that carries the root of the entries    *)
(* before it.  The hash is ideal: the root of a sequence is the sequence.  *)
(* A key is a (genre, slug) pair, and keys are numbered in the order in    *)
(* which the index file sorts them.                                        *)
(***************************************************************************)
EXTENDS Integers, Sequences, FiniteSets, SequencesExt

CONSTANTS
    Keys,   \* the artifacts, in alphabetical order
    None,   \* no file, no index row
    NoSeq   \* an index row written before rows had a position

ASSUME KeysAreNat == Keys \subseteq Nat /\ NoSeq \notin Nat

Root(entries) == entries
Genesis == <<>>

ParentOk(chain, n) == chain[n].parent = IF n = 1 THEN Genesis ELSE Root(SubSeq(chain, 1, n - 1))

\* build_lineage_chain: every entry carries the root of those before it.
IsChain(entries) == entries # <<>> /\ \A n \in DOMAIN entries : ParentOk(entries, n)

(* ---- the order of the index ---- *)

Position(row) == IF row.seq = NoSeq THEN -1 ELSE row.seq

\* _index_sort_key: by position, ties by key.
Before(index, a, b) ==
  \/ Position(index[a]) < Position(index[b])
  \/ Position(index[a]) = Position(index[b]) /\ a < b

Indexed(index) == {k \in DOMAIN index : index[k] # None}
SortedKeys(index) ==
  CHOOSE s \in [1..Cardinality(Indexed(index)) -> Indexed(index)] :
    \A m, n \in DOMAIN s : m < n => Before(index, s[m], s[n])

\* The entries the index advertises, in its order (None where one is missing).
Listed(index, files) == [n \in 1..Cardinality(Indexed(index)) |-> files[SortedKeys(index)[n]]]
Readable(index, files) == \A k \in Indexed(index) : files[k] # None

\* The position of a new row: past every position in use.
NextSeq(index) ==
  LET used == {Position(index[k]) : k \in Indexed(index)} \cup {-1}
  IN  1 + CHOOSE m \in used : \A x \in used : x <= m

(* ---- find_orphans and _topological_reorder ---- *)

\* The places of the entries that claim a root, and the first of them.
Claims(entries, root) == {n \in DOMAIN entries : entries[n].parent = root}
First(places) == CHOOSE n \in places : \A m \in places : n <= m

\* The walk from a genesis: at each root, the first entry that claims it.
Walk(entries, first) ==
  LET w[n \in 1..Len(entries)] ==
        IF n = 1 THEN <<first>>
        ELSE LET next == Claims(entries, Root(w[n - 1]))
             IN  IF next = {} THEN w[n - 1] ELSE Append(w[n - 1], entries[First(next)])
  IN  w[Len(entries)]

\* Mutant: a second genesis counts as reached.
FindOrphansOfForks(entries) ==
  LET geneses == Claims(entries, Genesis) IN
  IF geneses = {} THEN ToSet(entries)
  ELSE ToSet(entries) \ (ToSet(Walk(entries, entries[First(geneses)]))
                         \cup {entries[n] : n \in geneses})

\* find_orphans: the entries the walk from the first genesis does not reach.
FindOrphans(entries) ==
  LET geneses == Claims(entries, Genesis) IN
  IF geneses = {} THEN ToSet(entries)
  ELSE ToSet(entries) \ ToSet(Walk(entries, entries[First(geneses)]))

\* _topological_reorder: the walk when it neither forks nor misses an entry.
Reordered(entries) ==
  LET geneses == Claims(entries, Genesis)
      walk    == Walk(entries, entries[First(geneses)])
      forks   == \E n \in DOMAIN walk : Cardinality(Claims(entries, Root(SubSeq(walk, 1, n)))) > 1
  IN  IF Cardinality(geneses) # 1 \/ forks \/ Len(walk) # Len(entries) THEN None ELSE walk

(* ---- the commands that read a ledger ---- *)

\* load_lineage_chain and load_lineage_root: the index's order must be a chain.
LoadOk(index, files) ==
  Readable(index, files) /\ (Indexed(index) = {} \/ IsChain(Listed(index, files)))
LoadRoot(index, files) == IF Indexed(index) = {} THEN Genesis ELSE Root(Listed(index, files))

\* lineage show answers ok when the strict loader does.
ShowOk(index, files) == LoadOk(index, files)

\* lineage verify: the index's order or, failing that, the walk's.
VerifyOk(index, files) ==
  /\ Readable(index, files)
  /\ LET entries == Listed(index, files) IN
     \/ entries = <<>>
     \/ IsChain(entries)
     \/ Reordered(entries) # None /\ IsChain(Reordered(entries))

\* lineage stats: no orphans.
StatsOk(index, files) == Readable(index, files) /\ FindOrphans(Listed(index, files)) = {}
=============================================================================
