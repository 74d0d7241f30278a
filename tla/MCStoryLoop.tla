----------------------------- MODULE MCStoryLoop -----------------------------
(***************************************************************************)
(* Two stories and one edit, which may be of either, under a ceiling that  *)
(* one recorded session reaches; with the ordinary review verifier or with *)
(* the verifier of production gates at its last cycle, before and after a  *)
(* gate has passed.  One crash, with or without a session left behind.     *)
(* The rules the loop rests on are checked beside it over small inputs.    *)
(***************************************************************************)
EXTENDS StoryLoop
R == INSTANCE Readiness

\* The requirements the rules answer to, each over the inputs named here.
ASSUME Ceilings ==
  LET Of(window, limit, gates) == [window |-> window, limit |-> limit, warn |-> 80, gates |-> gates]
  IN  CeilingsAreMonotone({Of("per_run", 3, {"story_start"}), Of("24h", 2, {"story_start", "init"}),
                           Of("7d", 0, {"story_start"}), Of("30d", 1, {"init"}),
                           Of("year", 1, {"story_start"})}, 0..3)
ASSUME Phase == LET who == {"developer", "qa", "total"} IN
  \A limit \in 1..3, total \in 1..4 :
    PhasesAddUp([p \in Phases \X who |-> IF p[2] = "total" THEN total ELSE limit],
                [p \in Phases \X who |-> 0], 0..3)
ASSUME Done == DoneAgrees({"ready-for-dev", "review", "done", "Done"})
ASSUME Fields == FieldsAreInherited({"claude", "codex"})
ASSUME Risks == R!RisksOnlyRaise(1..3)
ASSUME Epics ==
  LET Risk(score, mitigated) == [category |-> "SEC", probability |-> score, impact |-> score,
                                 score |-> score * score, mitigated |-> mitigated]
  IN  R!EpicsAreTheirStories({"s1", "s2"}, {<<>>} \cup
        {<<Risk(p, m)>> : p \in 1..3, m \in BOOLEAN} \cup {<<Risk(1, TRUE), Risk(3, TRUE)>>})
ASSUME Routing ==
  RoutingEnds({[overall |-> v, categories |-> c] : v \in Verdicts \cup {"MAYBE"},
                 c \in [{"security", "quality"} -> Verdicts]}, 2)
ASSUME Compliance == PassIsEarned(Children, Disks)
ASSUME Citation == CitationsNeverWarn(3)

TwoStories == <<"s1", "s2">>
OneRecorded == [window |-> "per_run", limit |-> 1, warn |-> 80, gates |-> {"story_start", "retry_start"}]
BothContracts == {None, [cycle |-> 2, maxCycles |-> 2, risk9 |-> FALSE]}
Gate(verdict) == [overall |-> verdict, categories |-> [c \in {"security"} |-> verdict]]
PassedGate == {Gate("PASS")}
OneDay == [w \in Windows \ {"per_run"} |-> 86400]
=============================================================================
