-------------------------- MODULE MCEvidenceCache --------------------------
(***************************************************************************)
(* Instances of EvidenceCache for TLC.                                     *)
(***************************************************************************)
EXTENDS EvidenceCache, TLC

Symmetry == Permutations(Threads) \cup Permutations(Keys)
=============================================================================
