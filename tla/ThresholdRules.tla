--------------------------- MODULE ThresholdRules ---------------------------
(***************************************************************************)
(* The pure part of the threshold proposer and of its apply step: which      *)
(* verdict files make the evidence window, what value they propose, and what *)
(* decides that a proposal may be applied.  A threshold is an integer        *)
(* percentage, as every live one is.                                       *)
(***************************************************************************)
EXTENDS Integers, Sequences, FiniteSets, SequencesExt

CONSTANTS
  Priorities,    \* the keys of PRIORITY_THRESHOLDS
  Window,        \* min_evidence_window
  Consecutive,   \* consecutive_runs
  MaxDelta,      \* max_delta_pct
  Ttl            \* ttl_hours, in ticks

\* ThresholdProposer.__init__ refuses any other configuration.
ASSUME ProposerAssumption ==
  /\ Window \in Nat \ {0} /\ Consecutive \in Nat \ {0} /\ Consecutive <= Window
  /\ MaxDelta \in Nat \ {0} /\ Ttl \in Nat \ {0}

None == -1        \* no coverage in the file, no literal in the source, no value
Percent == 0..100
Actions == {"accept", "reject", "superseded", "confirm_failed"}

\* A verdict file; one that was invalidated keeps its content under a new name.
GateFiles == [n : Nat, priority : Priorities, coverage : Percent \cup {None},
              invalidated : BOOLEAN]
Name(g) == <<g.n, g.invalidated>>

-----------------------------------------------------------------------------
(* The proposer. *)

\* The files are listed by name, so files is in that order.
CollectWindow(files, p) ==
  SelectSeq(files, LAMBDA g : g.priority = p /\ g.coverage # None)

TailOf(s, k) == SubSeq(s, Len(s) - k + 1, Len(s))

SumOf(s) ==
  LET sum[n \in 0..Len(s)] == IF n = 0 THEN 0 ELSE sum[n - 1] + s[n].coverage
  IN  sum[Len(s)]
MeanFloor(s) == SumOf(s) \div Len(s)
MeanCeil(s) == -((-SumOf(s)) \div Len(s))

\* Only a tail that passes, or fails, throughout moves the threshold, towards
\* the mean and by MaxDelta at most.
ComputeProposedValue(window, current) ==
  LET tail == TailOf(window, Consecutive)
      Clamp(delta) == IF delta > MaxDelta THEN MaxDelta ELSE delta
      up == MeanCeil(window) - current
      down == current - MeanFloor(window)
  IN  CASE (\A i \in DOMAIN tail : tail[i].coverage >= current) /\ up > 0 ->
             current + Clamp(up)
        [] (\A i \in DOMAIN tail : tail[i].coverage < current) /\ down > 0 ->
             current - Clamp(down)
        [] OTHER -> None

\* The step towards the mean is MaxDelta at most, ends at the mean or short of
\* it, and at a percentage again.
StepIsClamped(window, current) ==
  LET v == ComputeProposedValue(window, current)
  IN  v # None =>
        /\ v \in Percent /\ v - current \in (-MaxDelta..MaxDelta) \ {0}
        /\ IF v > current THEN MeanCeil(window) >= v ELSE MeanFloor(window) <= v

\* What a proposal is about is its identity: proposal_id hashes it.
NoProposal == [priority |-> None, current |-> None, proposed |-> None, window |-> <<>>]

\* The proposal for p over these files and this source, NoProposal for none.
Observed(files, p, current) ==
  LET all == CollectWindow(files, p)
      window == TailOf(all, Window)
  IN  IF current = None \/ Len(all) < Window \/ ComputeProposedValue(window, current) = None
      THEN NoProposal
      ELSE [priority |-> p, current |-> current,
            proposed |-> ComputeProposedValue(window, current),
            window |-> [i \in DOMAIN window |-> Name(window[i])]]

SameTarget(a, b) == a.priority = b.priority

-----------------------------------------------------------------------------
(* The decision ledger and the apply step. *)

\* load_decisions, and latest_decision_for: the last decision on a proposal is one
\* of these.
LatestIs(decisions, id, actions) ==
  \E i \in DOMAIN decisions :
    /\ decisions[i].id = id /\ decisions[i].action \in actions
    /\ \A j \in DOMAIN decisions : j > i => decisions[j].id # id

\* Mutant: only an accepted proposal is left alone.
PendingUnlessAccepted(proposals, decisions, new) ==
  {id \in DOMAIN proposals :
     id # new /\ SameTarget(id, new) /\ ~LatestIs(decisions, id, {"accept"})}
\* The proposals that a new one supersedes, by what the ledger says of them.
Pending(proposals, decisions, new) ==
  {id \in DOMAIN proposals :
     id # new /\ SameTarget(id, new) /\ ~LatestIs(decisions, id, {"accept", "reject"})}

\* _has_newer_proposal: strictly newer, by the second.
HasNewer(proposals, id) ==
  \E other \in DOMAIN proposals :
     other # id /\ SameTarget(other, id) /\ proposals[other].created > proposals[id].created

\* list-proposals hides a proposal whose last decision is a failed confirmation.
Listed(proposals, decisions) ==
  {id \in DOMAIN proposals : ~LatestIs(decisions, id, {"confirm_failed"})}

\* The checks of apply_threshold_proposal in their order, up to the backup.
Refusal(proposals, id, slug, now, source) ==
  CASE id \notin DOMAIN proposals -> "PROPOSAL_NOT_FOUND"
    [] now - proposals[id].created > Ttl -> "PROPOSAL_EXPIRED"
    [] slug # proposals[id].slug -> "CONFIRM_MISMATCH"
    [] HasNewer(proposals, id) -> "STALE_PROPOSAL"
    [] source[id.priority] = None -> "NON_LITERAL_TARGET"
    [] source[id.priority] # id.current -> "LIVE_VALUE_DRIFTED"
    [] OTHER -> "none"
=============================================================================
