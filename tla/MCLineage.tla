----------------------------- MODULE MCLineage -----------------------------
(***************************************************************************)
(* Three artifacts; the run starts with no ledger, or with one whose index *)
(* was written before rows had positions, its chain in or out of the       *)
(* alphabetical order of its keys.  The Merkle tree of the evidence ledger *)
(* beside it is checked over small trees.                                  *)
(***************************************************************************)
EXTENDS Lineage, MerkleTree, TLC

\* The Merkle proofs of up to seven evidence records (core/innovation/ledger.py)
\* verify for the record they were made for and for no other.
ASSUME MerkleProofsAreSound == TreesAreSound(7)

Nothing == [k \in Keys |-> None]
Legacy(a, b) ==
  LET first == [key |-> a, payload |-> "x", parent |-> Genesis] IN
  [files |-> [Nothing EXCEPT ![a] = first,
                             ![b] = [key |-> b, payload |-> "x", parent |-> Root(<<first>>)]],
   index |-> [Nothing EXCEPT ![a] = [seq |-> NoSeq], ![b] = [seq |-> NoSeq]]]
ThreeDisks == {[files |-> Nothing, index |-> Nothing], Legacy(1, 2), Legacy(2, 1)}

Symmetry == Permutations(Procs)
=============================================================================
