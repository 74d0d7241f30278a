----------------------------- MODULE MerkleTree -----------------------------
(***************************************************************************)
(* The Merkle tree of core/innovation/ledger.py over the evidence records  *)
(* of a gate.  Hashes are ideal: a leaf is the record under the leaf tag,  *)
(* an inner node the pair of its children under the node tag, so two       *)
(* hashes are equal only when the same thing was hashed.                   *)
(***************************************************************************)
EXTENDS Naturals, Sequences, FiniteSets, SequencesExt

Leaf(record) == <<"leaf", record>>
Pair(left, right) == <<"node", left, right>>

\* One level up: neighbours are paired, an odd one out is promoted unchanged.
LevelUp(level) ==
  [n \in 1..((Len(level) + 1) \div 2) |->
     IF 2 * n <= Len(level) THEN Pair(level[2 * n - 1], level[2 * n]) ELSE level[2 * n - 1]]

\* The levels over the leaves, the last of them the root alone.  A level is at
\* most half the one below, so there are no more levels than leaves.
Levels(leaves) ==
  LET up[n \in 1..Len(leaves)] == IF n = 1 THEN leaves ELSE LevelUp(up[n - 1])
      last == CHOOSE n \in 1..Len(leaves) :
                Len(up[n]) = 1 /\ \A m \in 1..(n - 1) : Len(up[m]) > 1
  IN  SubSeq(up, 1, last)

\* The records in the order of their category, collector and tool.
Leaves(records) == [n \in DOMAIN records |-> Leaf(records[n])]
MerkleRoot(records) == Last(Levels(Leaves(records)))[1]

\* build_merkle_proof: on every level the sibling of the node the target climbs
\* through, none where it is promoted.
MerkleProof(records, target) ==
  LET levels == Levels(Leaves(records))
      index  == CHOOSE n \in DOMAIN records :
                  records[n] = target /\ \A m \in 1..(n - 1) : records[m] # target
      at[l \in 1..Len(levels)] == IF l = 1 THEN index ELSE (at[l - 1] + 1) \div 2
      Sibling(l) == IF at[l] % 2 = 0
                    THEN <<[position |-> "L", sibling |-> levels[l][at[l] - 1]]>>
                    ELSE IF at[l] < Len(levels[l])
                    THEN <<[position |-> "R", sibling |-> levels[l][at[l] + 1]]>>
                    ELSE <<>>
  IN  FlattenSeq([l \in 1..(Len(levels) - 1) |-> Sibling(l)])

\* verify_merkle_proof for a record: the proof replayed from its leaf.
Replay(hash, step) ==
  IF step.position = "R" THEN Pair(hash, step.sibling) ELSE Pair(step.sibling, hash)
VerifyProof(record, proof, root) == FoldLeft(Replay, Leaf(record), proof) = root

(* ---- checked over bounded inputs ---- *)

\* Over at most n different records: every record has a proof that verifies,
\* no other record passes with it, and records that differ have other roots.
TreesAreSound(n) ==
  \A len \in 1..n :
    LET records == [i \in 1..len |-> i]
        root == MerkleRoot(records)
    IN  /\ \A t, other \in 1..len :
             VerifyProof(other, MerkleProof(records, t), root) <=> other = t
        /\ \A i \in 1..len : MerkleRoot([records EXCEPT ![i] = n + 1]) # root
        /\ \A m \in 1..(len - 1) : MerkleRoot(SubSeq(records, 1, m)) # root
=============================================================================
