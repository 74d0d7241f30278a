---------------------------- MODULE FailureTriage ----------------------------
(***************************************************************************)
(* What a failure event is taken for (core/failure_triage.py behind        *)
(* commands/triage_cmd.py), and the escalation files that are written for  *)
(* an operator (core/escalation_emit.py).  The text of an event is the set *)
(* of the telling words it contains.                                       *)
(***************************************************************************)
EXTENDS Naturals, Sequences, FiniteSetsExt

Classes == {"CRASH", "TIMEOUT", "POLICY_VIOLATION", "REVIEW_REJECTED", "TEST_FAILURE",
            "BUDGET_EXCEEDED", "PARSE_ERROR", "AGENT_REFUSED", "NETWORK_ERROR", "GATE_DEFER",
            "PLATEAU", "REPEATED_RETRY", "UNKNOWN"}

\* The classes that always come with another one.
IMPLIES_GRAPH == [c \in Classes |->
  CASE c = "POLICY_VIOLATION" -> {"REVIEW_REJECTED"}
    [] c = "BUDGET_EXCEEDED" -> {"GATE_DEFER"}
    [] c = "REPEATED_RETRY" -> {"PLATEAU"}
    [] OTHER -> {}]

Verdict(primary, implies, confidence) ==
  [primary |-> primary, implies |-> implies, confidence |-> confidence]

\* The first rule with one of its words in the event's reason or error class.
StoryFailedRules ==
  <<[words |-> {"timeout"},             verdict |-> Verdict("TIMEOUT", {}, "HIGH")],
    [words |-> {"policy", "guardrail"}, verdict |-> Verdict("POLICY_VIOLATION", {"REVIEW_REJECTED"}, "HIGH")],
    [words |-> {"test"},                verdict |-> Verdict("TEST_FAILURE", {}, "HIGH")],
    [words |-> {"parse", "json"},       verdict |-> Verdict("PARSE_ERROR", {}, "MEDIUM")],
    [words |-> {"refused", "refusal"},  verdict |-> Verdict("AGENT_REFUSED", {}, "HIGH")],
    [words |-> {"budget", "cost"},      verdict |-> Verdict("BUDGET_EXCEEDED", {"GATE_DEFER"}, "HIGH")]>>

classify_story_failed(words) ==
  LET matching == {i \in DOMAIN StoryFailedRules : StoryFailedRules[i].words \cap words # {}}
  IN  IF matching = {} THEN Verdict("UNKNOWN", {}, "LOW") ELSE StoryFailedRules[Min(matching)].verdict

\* No event the emitter writes carries an attempt count, so only the word tells.
classify_story_deferred(words, attempts) ==
  IF "plateau" \in words \/ attempts > 3 THEN Verdict("REPEATED_RETRY", {"PLATEAU"}, "HIGH")
  ELSE Verdict("GATE_DEFER", {}, "HIGH")

classify_tmux_crash(signal) ==
  Verdict("CRASH", IF signal \in {"SIGPIPE", "SIGHUP", "network"} THEN {"NETWORK_ERROR"} ELSE {}, "HIGH")

classify_escalation(prefixed, severity) ==
  IF prefixed \/ severity = "policy" THEN Verdict("POLICY_VIOLATION", {"REVIEW_REJECTED"}, "HIGH")
  ELSE Verdict("REVIEW_REJECTED", {}, "MEDIUM")

\* An event is [type, words, attempts, signal, prefixed, severity]; events that
\* report no failure are UNKNOWN.
classify(event) ==
  CASE event.type = "story_failed" -> classify_story_failed(event.words)
    [] event.type = "story_deferred" -> classify_story_deferred(event.words, event.attempts)
    [] event.type = "tmux_session_crashed" -> classify_tmux_crash(event.signal)
    [] event.type = "escalation_triggered" -> classify_escalation(event.prefixed, event.severity)
    [] OTHER -> Verdict("UNKNOWN", {}, "LOW")

classify_stream(events) == [i \in DOMAIN events |-> classify(events[i])]

\* core/telemetry_events.py parse_event: only an object with a string type is an
\* event, an unknown type is kept as such, and a known one must have exactly
\* its fields.
parse_event(raw, registry) ==
  CASE ~raw.object \/ ~raw.typed -> "ValueError"
    [] raw.type \notin DOMAIN registry -> "UnknownEvent"
    [] raw.fields # registry[raw.type] -> "TypeError"
    [] OTHER -> raw.type

\* The triage command: 1 and no class when the line is no event.
TriageExit(raw, registry) ==
  IF raw = {} \/ (\E r \in raw : parse_event(r, registry) \in {"ValueError", "TypeError"}) THEN 1 ELSE 0

-----------------------------------------------------------------------------
(* Escalation files.                                                       *)

Severities == {"CRITICAL", "PREFERENCE"}
RequiredFields == {"api_version", "story_key", "severity", "reason", "originating_phase",
                   "suggested_action", "waiver_ref"}

\* A payload maps fields to values; "" is an empty text and "bad" no text at all.
ValidPayload(payload) ==
  /\ RequiredFields \subseteq DOMAIN payload
  /\ payload["api_version"] = 1
  /\ payload["severity"] \in Severities
  /\ \A f \in {"story_key", "reason", "originating_phase"} : payload[f] \notin {"", "bad"}
  /\ \A f \in {"suggested_action", "waiver_ref"} : payload[f] # "bad"

\* emit_escalation builds a payload from checked arguments ({}: refused), write
\* checks it again, and read refuses what no longer passes.
emit_escalation(story, severity, reason, phase, action, waiver) ==
  IF severity \notin Severities \/ {"", "bad"} \cap {story, reason, phase} # {} \/ "bad" \in {action, waiver}
  THEN {}
  ELSE {[api_version |-> 1, story_key |-> story, severity |-> severity, reason |-> reason,
         originating_phase |-> phase, suggested_action |-> action, waiver_ref |-> waiver]}
write_escalation(payload) == {p \in {payload} : ValidPayload(p)}
read_escalation(file) == {p \in file : ValidPayload(p)}

-----------------------------------------------------------------------------
(* Requirements.                                                           *)

\* A verdict always names the classes its primary implies (the graph and the
\* rules are written separately in the code), and what it cannot tell it says
\* with low confidence.
VerdictsAreImplied(events) ==
  \A e \in events : LET v == classify(e) IN
    /\ v.primary \in Classes /\ v.implies \subseteq Classes \ {v.primary}
    /\ IMPLIES_GRAPH[v.primary] \subseteq v.implies
    /\ v.primary = "UNKNOWN" <=> v.confidence = "LOW"

\* A failure that names a policy is never taken for one a retry may mend, unless
\* it timed out.
PolicyIsNotMasked(events) ==
  \A e \in events :
    e.type = "story_failed" /\ e.words \cap {"policy", "guardrail"} # {} /\ "timeout" \notin e.words
      => "REVIEW_REJECTED" \in classify(e).implies

\* Whatever emit_escalation lets through can be written and read back.
EscalationsRoundTrip(texts) ==
  \A story, reason, phase, action \in texts, severity \in Severities \cup {"LOW"} :
    \A p \in emit_escalation(story, severity, reason, phase, action, "") :
      read_escalation(write_escalation(p)) = {p}

=============================================================================
