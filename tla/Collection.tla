---------------------------- MODULE Collection ----------------------------
(***************************************************************************)
(* What collecting evidence promises the gate that asked for it: records    *)
(* are persisted while the call runs and not after, a call that returns     *)
(* reports on every collector, and what it reports as persisted is on disk. *)
(***************************************************************************)
CONSTANTS Collectors, Statuses, NoRecord, NoReport

Reports == [status : Statuses, persisted : BOOLEAN]

VARIABLES evidence, report, phase
vars == <<evidence, report, phase>>

Init ==
  /\ evidence = [k \in Collectors |-> NoRecord]
  /\ report = NoReport
  /\ phase = "running"

Persist(k, s) ==
  /\ phase = "running"
  /\ evidence' = [evidence EXCEPT ![k] = s]
  /\ UNCHANGED <<report, phase>>

Return ==
  /\ phase = "running" /\ phase' = "returned"
  /\ report' \in [Collectors -> Reports]
  /\ \A k \in Collectors : report'[k].persisted => evidence[k] = report'[k].status
  /\ UNCHANGED evidence

Raise ==
  /\ phase = "running" /\ phase' = "raised"
  /\ UNCHANGED <<evidence, report>>

Next ==
  \/ \E k \in Collectors, s \in Statuses : Persist(k, s)
  \/ Return \/ Raise

Spec == Init /\ [][Next]_vars
=============================================================================
