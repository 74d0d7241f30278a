---------------------------- MODULE AppendOnly ----------------------------
(***************************************************************************)
(* What an audit trail promises its readers: entries are added one at a     *)
(* time at the end, and nothing that could be read is changed or lost.      *)
(***************************************************************************)
EXTENDS Sequences

CONSTANT Entries
VARIABLE entries

Init == entries = <<>>
Add(e) == entries' = Append(entries, e)
Next == \E e \in Entries : Add(e)

Spec == Init /\ [][Next]_entries
=============================================================================
