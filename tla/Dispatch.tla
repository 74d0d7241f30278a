------------------------------ MODULE Dispatch ------------------------------
(***************************************************************************)
(* The command-line dispatcher: it drives one agent session to its end and *)
(* says whether the agent finished and committed (core/cli_dispatcher.py,  *)
(* core/cli_dispatcher_invokers.py, core/lie_detector.py,                  *)
(* core/verify_outcome.py and the flag of commands/tmux.py).  What the     *)
(* world answers during one session is a record:                           *)
(*   spawned   whether tmux started the session                            *)
(*   polls     the answers of session_status, one per tick: a status, a    *)
(*             session state, or "raises" and "interrupt"                  *)
(*   output    "marker", "plain", "none" or "raises"                       *)
(*   baseline, head, later   the commit before, at the end of the session, *)
(*             and when the lie detector looks once more (NoCommit: git    *)
(*             does not answer)                                            *)
(***************************************************************************)
EXTENDS Naturals, Sequences, FiniteSetsExt

NoCommit == ""
Statuses == {"completed", "dead", "missing", "not_found", "error"}
SessionStates == {"completed", "success", "failure", "crashed"}
Ends(poll) == poll \in Statuses \cup SessionStates

-----------------------------------------------------------------------------
(* Outcomes (core/verify_outcome.py).                                      *)

Passed == [ok |-> TRUE, reason |-> "", severity |-> "", fixable |-> FALSE]
Retry(reason, fixable) == [ok |-> FALSE, reason |-> reason, severity |-> "", fixable |-> fixable]
Escalate(reason) == [ok |-> FALSE, reason |-> reason, severity |-> "CRITICAL", fixable |-> FALSE]
Retryable(outcome) == ~outcome.ok /\ outcome.severity = ""

\* Where the branch is, against what the session reported.
detect_baseline_drift(head, expected, baseline) ==
  CASE head = NoCommit -> Escalate("git_unavailable")
    [] head = expected -> Passed
    [] head = baseline -> Retry("baseline_drift", TRUE)
    [] OTHER -> Retry("unexpected_head", FALSE)

-----------------------------------------------------------------------------
(* The invoker for claude-code.                                            *)

\* The index of the poll the loop leaves at: the first terminal answer, the
\* first that raises, or the last one within the timeout; the status is asked
\* before the clock, so a session that ended in time is never timed out.
Left(world, timeout) ==
  LET Stops(i) == Ends(world.polls[i]) \/ world.polls[i] \in {"raises", "interrupt"} \/ i >= timeout
  IN  Min({i \in DOMAIN world.polls : Stops(i)})

\* A reply, or in its place what was raised: "interrupt", "timeout error", any
\* other "exception", "not implemented", or a reply that is "malformed".
Reply(marker, head, timedOut) ==
  [raised |-> "", marker |-> marker, head |-> head, timed_out |-> timedOut]
Raised(what) == [raised |-> what, marker |-> FALSE, head |-> NoCommit, timed_out |-> FALSE]

\* What the runner hands back.  The head is always read from the workspace,
\* whatever became of the session.
claude_code_invoker(world, timeout) ==
  IF ~world.spawned THEN Reply(FALSE, world.head, FALSE)
  ELSE LET last == world.polls[Left(world, timeout)] IN
    CASE last = "interrupt" -> Raised("interrupt")
      [] last = "raises" -> Reply(FALSE, world.head, FALSE)
      [] Ends(last) -> Reply(world.output = "marker", world.head, FALSE)
      [] OTHER -> Reply(FALSE, world.head, TRUE)

\* Whether the invoker has killed the session it started: on the timeout, and on
\* anything that goes wrong while it polls.
Killed(world, timeout) ==
  world.spawned /\ ~Ends(world.polls[Left(world, timeout)])

\* Only claude-code has a runner; every other CLI is refused with an exception.
Runners == {"claude-code"}
default_invoker(cli, world, timeout) ==
  IF cli \in Runners THEN claude_code_invoker(world, timeout) ELSE Raised("not implemented")

\* The tmux session is named after story and phase, each stripped to letters,
\* digits and dashes (sane maps a name to its stripped form), so unlike stories
\* may share a name.
SessionName(story, phase, sane) == <<sane[story], sane[phase]>>

-----------------------------------------------------------------------------
(* Classification.                                                         *)

Result(ok, head, stop, outcome) ==
  [ok |-> ok, head |-> head, stop |-> stop, outcome |-> outcome]

\* A dialect without a marker never sees one.
detect_stop(marker, dialect) == marker /\ dialect \in {"claude", "codex", "gemini"}

TimedOut == Result(FALSE, NoCommit, "timeout", Retry("timeout", FALSE))
InvokerError == Result(FALSE, NoCommit, "error", Escalate("invoker_error"))

\* No marker: the branch decides, and a head that never left the baseline is
\* drift even though it is what the session reported.
FromLieDetector(head, baseline, later) ==
  LET outcome == IF head # NoCommit /\ head = baseline THEN Retry("baseline_drift", TRUE)
                 ELSE detect_baseline_drift(later, head, baseline)
  IN  Result(outcome.ok, head,
             IF outcome.severity = "CRITICAL" THEN "error" ELSE "lie-detector", outcome)

\* A malformed reply (DispatcherError), an unknown CLI (NotImplementedError) and an
\* interrupt are raised on; any other exception of the runner becomes a result.
Propagated(what) == Result(FALSE, NoCommit, what, Passed)
dispatch_session(reply, dialect, baseline, later) ==
  CASE reply.raised = "timeout error" -> TimedOut
    [] reply.raised = "exception" -> InvokerError
    [] reply.raised # "" -> Propagated(reply.raised)
    [] OTHER -> IF reply.timed_out THEN TimedOut
                ELSE IF detect_stop(reply.marker, dialect)
                THEN Result(TRUE, reply.head, "stop-hook", Passed)
                ELSE FromLieDetector(reply.head, baseline, later)

\* The CLI that drives a stage; the stages are a closed set.
Stages == {"dev", "review", "triage"}
adapter_for_stage(policy, stage) ==
  IF stage \notin Stages THEN "refused"
  ELSE IF stage \in DOMAIN policy THEN policy[stage] ELSE "claude-code"

\* With the flag set, spawning waits for the whole session and answers the exit
\* code of its result; an unset, empty or unknown flag leaves the plain spawn.
use_cli_dispatcher(flag) == flag \in {"1", "true", "yes", "on"}
SpawnCode(result) == IF result.ok THEN 0 ELSE 1

-----------------------------------------------------------------------------
(* Requirements.                                                           *)

Dispatched(world, timeout, dialect) ==
  dispatch_session(default_invoker("claude-code", world, timeout), dialect, world.baseline, world.later)

\* Every session the invoker started has ended by itself or was killed, however
\* the invoker returns, an interrupt of the operator included
\* (cli_dispatcher_invokers.py:408-423).
NoOrphans(worlds, timeout) ==
  \A w \in worlds :
    w.spawned => Killed(w, timeout) \/ Ends(w.polls[Left(w, timeout)])

\* A time-out is never a success, an escalation is never retried, and a failure
\* the agent is asked to repair is one where it committed nothing.
FailuresAreClassified(worlds, timeout, dialect) ==
  \A w \in worlds : LET r == Dispatched(w, timeout, dialect) IN
    r.stop # "interrupt" =>
      /\ r.stop = "timeout" => ~r.ok /\ Killed(w, timeout)
      /\ r.stop = "error" <=> r.outcome.severity = "CRITICAL"
      /\ r.ok <=> r.outcome.ok
      /\ r.outcome.fixable => r.head = w.baseline \/ w.later = w.baseline

\* A session reported as good without its marker has moved the branch and left
\* it where it said.
GoodMeansCommitted(worlds, timeout, dialect) ==
  \A w \in worlds : LET r == Dispatched(w, timeout, dialect) IN
    r.ok /\ r.stop = "lie-detector" => r.head # w.baseline /\ w.later = r.head

\* The worlds in which the answer is not what DispatchResult.ok documents
\* (cli_dispatcher.py:147: "finished cleanly and committed work").
Misjudged(worlds, timeout, dialect) ==
  {w \in worlds : LET r == Dispatched(w, timeout, dialect) IN
     /\ r.ok
     /\ \/ r.head = w.baseline
        \/ ~w.spawned
        \/ w.polls[Left(w, timeout)] \in {"raises", "dead", "error", "failure", "crashed"}}

=============================================================================
