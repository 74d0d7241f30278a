--------------------------- MODULE SpecCompliance ---------------------------
(***************************************************************************)
(* The three layers of the spec-compliance gate of step-03ab: the gap      *)
(* citations of core/gap_validator.py, the model's verdicts on the         *)
(* requirements of core/spec_compliance.py, the feature tests of           *)
(* core/feature_tester.py, and the decision commands/trust_verify.py       *)
(* draws from them and stores.                                             *)
(*                                                                         *)
(* A citation is [file, line, symbol]: file is "outside" the repository or *)
(* missing, "unread" (too large, or not text) or "read"; line and symbol   *)
(* say whether the text read has them.  Confidence is in hundredths.       *)
(***************************************************************************)
EXTENDS Naturals, Sequences, FiniteSets, SequencesExt
CONSTANT ReqIds          \* the identifiers of the form REQ-<digits>

Citations == [file : {"outside", "unread", "read"}, line : BOOLEAN, symbol : BOOLEAN]
\* parse_gap_list: a payload with one malformed gap is refused as a whole.
ParseGapList(raws) ==
  LET wellFormed == \A i \in DOMAIN raws : raws[i] \in Citations
  IN  [ok |-> wellFormed, gaps |-> IF wellFormed THEN raws ELSE <<>>]

GapStatus(gap) ==
  [path_exists |-> gap.file # "outside",
   line_in_range |-> gap.file = "read" /\ gap.line,
   symbol_present |-> gap.file = "read" /\ gap.symbol]
Confidence(status) ==
  80 + 5 * Cardinality({check \in DOMAIN status : status[check]})
\* validate_gaps: the sum of the confidences, to be compared with a mean times the
\* number of gaps; no gaps are fully trusted.
ConfidenceSum(gaps) ==
  LET sum[n \in 0..Len(gaps)] == IF n = 0 THEN 0 ELSE sum[n - 1] + Confidence(GapStatus(gaps[n]))
  IN  sum[Len(gaps)]
LowConfidence(gaps) == gaps # <<>> /\ ConfidenceSum(gaps) < 60 * Len(gaps)

\* check_compliance: a child that times out, fails or answers with an envelope that
\* is wrong anywhere raises ComplianceError; a verdict is never made up.
CheckCompliance(child) ==
  IF child.exit # 0 \/ \E i \in DOMAIN child.verdicts :
       \/ child.verdicts[i].status \notin {"implemented", "missing", "partial"}
       \/ child.verdicts[i].req = ""
       \/ child.verdicts[i].confidence \notin 0..100
  THEN [ok |-> FALSE, verdicts |-> <<>>]
  ELSE [ok |-> TRUE, verdicts |-> child.verdicts]

\* plan_feature_tests: a skeleton for each implemented requirement no test names.
\* A malformed identifier raises; the skeletons written before it stay.  A file of
\* that name which names only other requirements would be overwritten: here no
\* test names a requirement its file is not called after.
PlanTest(state, v, dryRun) ==
  IF state.raised \/ v.status # "implemented" THEN state
  ELSE IF v.req \notin ReqIds THEN [state EXCEPT !.raised = TRUE]
  ELSE IF v.req \in state.tests THEN [state EXCEPT !.plan = Append(@, "found")]
  ELSE IF dryRun THEN [state EXCEPT !.plan = Append(@, "skipped")]
  ELSE [state EXCEPT !.plan = Append(@, "created"), !.tests = @ \cup {v.req}]
PlanFeatureTests(verdicts, tests, dryRun) ==
  LET after[n \in 0..Len(verdicts)] ==
        IF n = 0 THEN [plan |-> <<>>, tests |-> tests, raised |-> FALSE]
        ELSE PlanTest(after[n - 1], verdicts[n], dryRun)
  IN  after[Len(verdicts)]

\* trust_verify: the layers in order, the first one that raises ending the chain
\* with an error; then the worst of the three decides, and is stored.  The result
\* of an earlier run is left where it is by an error.
Decide(gaps, verdicts, plan) ==
  IF \E i \in DOMAIN verdicts : verdicts[i].status = "missing" THEN "block"
  ELSE IF LowConfidence(gaps) \/ \E i \in DOMAIN plan : plan[i] = "created" THEN "warn"
  ELSE "pass"
TrustVerify(disk, raws, child) ==
  LET layer1 == ParseGapList(raws)
      layer2 == CheckCompliance(child)
      layer3 == PlanFeatureTests(layer2.verdicts, disk.tests, FALSE)
      decision == Decide(layer1.gaps, layer2.verdicts, layer3.plan)
  IN  IF ~layer1.ok \/ ~layer2.ok THEN [answer |-> "error", disk |-> disk]
      ELSE IF layer3.raised
      THEN [answer |-> "error", disk |-> [disk EXCEPT !.tests = layer3.tests]]
      ELSE [answer |-> decision, disk |-> [tests |-> layer3.tests, result |-> decision]]

Requirement(req, status) == [req |-> req, status |-> status, confidence |-> 90]
Children ==
  [exit : {0, 1},
   verdicts : {<<>>} \cup {<<Requirement(r, s), Requirement(q, t)>> :
                 r, q \in ReqIds \cup {"", "7"},
                 s, t \in {"implemented", "missing", "partial", "unsure"}}]
Disks == [tests : SUBSET ReqIds, result : {"none", "pass", "warn", "block"}]
Answers == {TrustVerify(disk, <<>>, child).answer : disk \in Disks, child \in Children}

(* ---- checked over bounded inputs ---- *)

\* A pass means the model answered in the agreed form about every requirement it
\* names and each one it calls implemented already had its test; running the
\* chain again after a warning finds the tests the first run created
\* (feature_tester.py:183), and what is stored is the answer unless there was an
\* error (trust_verify.py:206).
PassIsEarned(children, disks) ==
  \A child \in children, disk \in disks :
    LET first == TrustVerify(disk, <<>>, child)
        again == TrustVerify(first.disk, <<>>, child)
    IN  /\ first.answer = "pass" =>
             /\ child.exit = 0
             /\ \A i \in DOMAIN child.verdicts :
                  /\ child.verdicts[i].status \in {"implemented", "partial"}
                  /\ child.verdicts[i].status = "implemented" => child.verdicts[i].req \in disk.tests
        /\ first.answer = "warn" => again.answer = "pass"
        /\ first.disk.result = IF first.answer = "error" THEN disk.result ELSE first.answer
\* Layer 1 never changes the decision: however wrong the citations are, each counts
\* for 0.8 (gap_validator.py:159), and the warning is given below 0.6.
CitationsNeverWarn(length) ==
  \A n \in 0..length : \A gaps \in [1..n -> Citations] : ~LowConfidence(gaps)
=============================================================================
