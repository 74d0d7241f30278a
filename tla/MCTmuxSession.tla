--------------------------- MODULE MCTmuxSession ---------------------------
(***************************************************************************)
(* Instances of TmuxSession for TLC.                                       *)
(***************************************************************************)
EXTENDS TmuxSession

AllModes == {"runner", "legacy"}
AllCodes == {"ok", "error"}
AllFaults == FaultKinds

\* The dispatcher over such sessions, for every answer the world may give to a
\* session of up to three polls; the last poll is past the time-out.
D == INSTANCE Dispatch
Answers == D!Statuses \cup D!SessionStates \cup {"running", "raises", "interrupt"}
Worlds == [spawned : BOOLEAN, polls : [1..2 -> Answers], output : {"marker", "plain", "none"},
           baseline : {"c0"}, head : {D!NoCommit, "c0", "c1"}, later : {D!NoCommit, "c0", "c1", "c2"}]
ASSUME Orphans == D!NoOrphans(Worlds, 2)
ASSUME Failures == \A d \in {"claude", "none"} : D!FailuresAreClassified(Worlds, 2, d)
ASSUME Commits == \A d \in {"claude", "none"} : D!GoodMeansCommitted(Worlds, 2, d)
\* What it documents is not kept: a session that never began, one that crashed
\* and one that committed nothing have all been reported as good.
ASSUME Misjudgements ==
  LET misjudged == D!Misjudged(Worlds, 2, "claude")
  IN  /\ \E w \in misjudged : ~w.spawned
      /\ \E w \in misjudged : w.spawned /\ w.polls[1] = "crashed" /\ w.output = "plain"
      /\ \E w \in misjudged : w.spawned /\ w.head = w.baseline

\* What the failures of such sessions are taken for.
T == INSTANCE FailureTriage
Words == {"timeout", "policy", "test", "json", "refused", "cost", "plateau"}
Events == [type : {"story_failed", "story_deferred", "tmux_session_crashed", "escalation_triggered", "story_started"},
           words : SUBSET Words, attempts : {0}, signal : {"", "SIGHUP"}, prefixed : BOOLEAN,
           severity : {"", "policy"}]
ASSUME Verdicts == T!VerdictsAreImplied(Events) /\ T!PolicyIsNotMasked(Events)
ASSUME Escalations == T!EscalationsRoundTrip({"", "bad", "text"})
=============================================================================
