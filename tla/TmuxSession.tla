---------------------------- MODULE TmuxSession ----------------------------
(***************************************************************************)
(* One agent session (core/tmux_runtime.py, commands/tmux.py): the spawner   *)
(* creates a tmux session whose pane runs a bash runner, the runner starts   *)
(* the agent and keeps a state file, and pollers (monitor-session, heartbeat-*)
(* check) read that file, reconcile it with the pane and the processes, and  *)
(* write it back.  Every writer replaces the whole file from a copy it read  *)
(* earlier, and none takes a lock.                                         *)
(*                                                                         *)
(* spawner  _spawn_runner, _spawn_legacy; later the kill of the session      *)
(* runner   the generated script (_runner_file_content)                     *)
(* agent    the payload: it runs, may show that it is done, exits           *)
(* poller   session_status, heartbeat_check, cmd_monitor_session            *)
(***************************************************************************)
EXTENDS Naturals

CONSTANTS
  Monitor,      \* the poller that is monitor-session
  Watchers,     \* the pollers that are heartbeat-check
  SpawnModes,   \* subset of {"runner", "legacy"}
  ExitCodes,    \* subset of {"ok", "noexec", "signal", "error"}: 0, 126/127, 130/131/143, others
  EarlyPolls,   \* pollers may start before the spawn has returned
  Faults,       \* what the environment may do
  MaxFaults,    \* bound on how often
  MaxPolls      \* --max-polls

FaultKinds == {"tmux", "respawn", "command", "runner", "corrupt", "kill"}

ASSUME ActorsAssumption == Monitor \notin Watchers
ASSUME KindsAssumption ==
  /\ SpawnModes \subseteq {"runner", "legacy"}
  /\ ExitCodes \subseteq {"ok", "noexec", "signal", "error"}
  /\ EarlyPolls \in BOOLEAN
  /\ Faults \subseteq FaultKinds
ASSUME BoundsAssumption == MaxFaults \in Nat /\ MaxPolls \in Nat

Pollers == Watchers \cup {Monitor}
Ended == ExitCodes \cup {"noexec", "killed"}

\* What the state file says: "legacy" has no schemaVersion, child and runner
\* are whether a pid is recorded, told is telemetryEmitted.
Files ==
  [kind : {"none", "corrupt", "legacy", "runner"},
   life : {"none", "created", "launching", "running", "finished"},
   result : {"none", "success", "spawn_error", "interrupted", "failure", "unknown", "never_launched"},
   agent : BOOLEAN, runner : BOOLEAN, child : BOOLEAN, told : BOOLEAN, active : BOOLEAN]
Absent ==
  [kind |-> "none", life |-> "none", result |-> "none", agent |-> FALSE,
   runner |-> FALSE, child |-> FALSE, told |-> FALSE, active |-> FALSE]

VARIABLES
  state,     \* the state file
  script,    \* the command file exists
  pane,      \* the session's pane
  spawner, spawnCopy,
  runner, runCopy,
  agent,     \* the agent process
  done,      \* its completion marker and a prompt are on the screen
  poll,      \* where each poller is and what it has read
  answer,    \* what monitor-session has answered
  faults

files == <<state, script>>
procs == <<pane, spawner, spawnCopy, runner, runCopy, agent, done>>
sessionVars == <<files, procs, poll, answer, faults>>

-----------------------------------------------------------------------------
(* The state file, the pane and the processes.                             *)

\* load_session_state: a file that cannot be parsed is moved aside.
Loaded == IF state.kind = "corrupt" THEN Absent ELSE state
Load(copy) == copy = Loaded /\ state' = Loaded

Terminal(s) == s.life = "finished"

HasSession == pane # "none"
\* The exit status of a dead pane, if it has one.
PaneDead == pane \in Ended

ChildAlive(s) == s.child /\ agent = "running"
RunnerAlive(s) == s.runner /\ runner \notin {"none", "gone"}

\* _result_from_exit_code, and the same table in the runner.
Result(code) ==
  CASE code = "ok" -> "success"
    [] code = "noexec" -> "spawn_error"
    [] code = "signal" -> "interrupted"
    [] code = "error" -> "failure"
    [] code = "killed" -> "unknown"

Finished(s, result) == [s EXCEPT !.kind = "runner", !.life = "finished", !.result = result]

\* tmux kill-session: the pane's processes are hung up with it.
Hangup ==
  /\ pane' = "none"
  /\ runner' = IF runner = "none" THEN "none" ELSE "gone"
  /\ runCopy' = Absent
  /\ agent' = IF agent = "running" THEN "killed" ELSE agent

\* cleanup_runtime_artifacts
Unlink == state' = Absent /\ script' = FALSE

Fine == faults' = faults
Fail(f) == f \in Faults /\ faults < MaxFaults /\ faults' = faults + 1

NotStarted ==
  [at |-> "idle", op |-> "status", copy |-> Absent, seen |-> "none",
   up |-> FALSE, told |-> FALSE, polls |-> 0]

SessionInit ==
  /\ state = Absent /\ script = FALSE /\ pane = "none"
  /\ spawner = "idle" /\ spawnCopy = Absent
  /\ runner = "none" /\ runCopy = Absent
  /\ agent = "none" /\ done = FALSE
  /\ poll = [p \in Pollers |-> NotStarted]
  /\ answer = "none" /\ faults = 0

-----------------------------------------------------------------------------
(* spawn_session, and the kill that follows the monitor's answer.           *)

\* _spawn_runner up to tmux new-session: old artifacts go, the scripts are
\* written, the pane runs a placeholder.  A tmux that refuses takes them back.
SpawnRunner ==
  /\ spawner = "idle" /\ ~HasSession /\ "runner" \in SpawnModes
  /\ state' = Absent
  /\ \/ Fine /\ script' = TRUE /\ pane' = "placeholder" /\ spawner' = "create"
     \/ Fail("tmux") /\ script' = FALSE /\ spawner' = "failed" /\ UNCHANGED pane
  /\ UNCHANGED <<spawnCopy, runner, runCopy, agent, done, poll, answer>>

\* The first state, once pane id, option and pid are known; else the session
\* is killed again.
SaveCreated ==
  /\ spawner = "create"
  /\ \/ /\ Fine /\ HasSession /\ spawner' = "respawn"
        /\ state' = [Absent EXCEPT !.kind = "runner", !.life = "created", !.agent = TRUE]
     \/ (Fail("tmux") \/ (Fine /\ ~HasSession)) /\ spawner' = "abort" /\ UNCHANGED state
  /\ UNCHANGED <<script, pane, spawnCopy, runner, runCopy, agent, done, poll, answer>>

\* tmux respawn-pane -k: the pane now runs the runner.
RespawnPane ==
  /\ spawner = "respawn"
  /\ \/ Fine /\ HasSession /\ pane' = "runner" /\ runner' = "launch" /\ spawner' = "update"
     \/ (Fail("respawn") \/ (Fine /\ ~HasSession)) /\ spawner' = "abort" /\ UNCHANGED <<pane, runner>>
  /\ UNCHANGED <<files, spawnCopy, runCopy, agent, done, poll, answer>>

\* The respawned pane has no pid: the spawn is undone.
NoPanePid ==
  /\ spawner = "update" /\ (Fail("respawn") \/ (Fine /\ ~HasSession))
  /\ spawner' = "abort"
  /\ UNCHANGED <<files, pane, spawnCopy, runner, runCopy, agent, done, poll, answer>>

\* Else update_session_state(paneId, panePid) reads ...
SpawnerReads ==
  /\ spawner = "update"
  /\ Load(spawnCopy')
  /\ spawner' = IF state.kind = "corrupt" THEN "failed" ELSE "save"
  /\ UNCHANGED <<script, pane, runner, runCopy, agent, done, poll, answer, faults>>

\* ... and writes back what it has read.
SpawnerSaves ==
  /\ spawner = "save"
  /\ state' = IF spawnCopy = Absent THEN [Absent EXCEPT !.kind = "legacy"] ELSE spawnCopy
  /\ spawner' = "ready" /\ spawnCopy' = Absent
  /\ UNCHANGED <<script, pane, runner, runCopy, agent, done, poll, answer, faults>>

\* _spawn_legacy: a shell in the pane, the command typed into it.
SpawnLegacy ==
  /\ spawner = "idle" /\ ~HasSession /\ "legacy" \in SpawnModes
  /\ state' = Absent
  /\ \/ Fine /\ pane' = "shell" /\ agent' = "running" /\ spawner' = "ready"
     \/ Fail("tmux") /\ spawner' = "failed" /\ UNCHANGED <<pane, agent>>
  /\ UNCHANGED <<script, spawnCopy, runner, runCopy, done, poll, answer>>

\* tmux_kill_session: by a spawn that failed half-way, by the orchestrator
\* once it has the monitor's answer, or by an operator.
KillSession ==
  /\ \/ spawner = "abort" /\ spawner' = "aborting" /\ Fine
     \/ spawner = "ready" /\ answer # "none" /\ spawner' = "killing" /\ Fine
     \/ spawner = "ready" /\ spawner' = "killing" /\ Fail("kill")
  /\ Hangup
  /\ UNCHANGED <<files, spawnCopy, done, poll, answer>>

KillUnlinks ==
  /\ spawner \in {"aborting", "killing"}
  /\ Unlink
  /\ spawner' = IF spawner = "killing" THEN "killed" ELSE "failed"
  /\ UNCHANGED <<pane, spawnCopy, runner, runCopy, agent, done, poll, answer, faults>>

Spawner ==
  \/ SpawnRunner \/ SaveCreated \/ RespawnPane \/ NoPanePid \/ SpawnerReads \/ SpawnerSaves
  \/ SpawnLegacy \/ KillSession \/ KillUnlinks

-----------------------------------------------------------------------------
(* The runner script.  write_state reads the file, merges, and replaces it. *)

RunnerReads(from, to) ==
  /\ runner = from /\ runner' = to
  /\ runCopy' = Loaded
  /\ UNCHANGED <<files, pane, spawner, spawnCopy, agent, done, poll, answer, faults>>

RunnerWrites(from, to, life, result, child) ==
  /\ runner = from /\ runner' = to
  /\ state' = [runCopy EXCEPT !.kind = "runner", !.life = life, !.result = result,
                              !.runner = TRUE, !.child = @ \/ child]
  /\ runCopy' = Absent
  /\ UNCHANGED <<script, spawner, spawnCopy, done, poll, answer, faults>>

WriteLaunching ==
  \/ RunnerReads("launch", "launching")
  \/ RunnerWrites("launching", "command", "launching", "none", FALSE) /\ UNCHANGED <<pane, agent>>

\* The payload is started, or its file is missing.
StartAgent ==
  /\ runner = "command"
  /\ \/ Fine /\ script /\ agent' = "running" /\ runner' = "run"
     \/ (Fail("command") \/ (Fine /\ ~script)) /\ runner' = "missing" /\ UNCHANGED agent
  /\ UNCHANGED <<files, pane, spawner, spawnCopy, runCopy, done, poll, answer>>

WriteMissing ==
  \/ RunnerReads("missing", "missed")
  \/ /\ RunnerWrites("missed", "gone", "finished", "spawn_error", FALSE)
     /\ pane' = "noexec" /\ UNCHANGED agent

WriteRunning ==
  \/ RunnerReads("run", "running")
  \/ RunnerWrites("running", "wait", "running", "none", TRUE) /\ UNCHANGED <<pane, agent>>

\* wait "$child_pid", then the final state and exit "$exit_code".
FinishRead == agent \in ExitCodes /\ RunnerReads("wait", "final")
FinishWrite ==
  /\ RunnerWrites("final", "gone", "finished", Result(agent), TRUE)
  /\ pane' = agent /\ UNCHANGED agent

Runner ==
  WriteLaunching \/ StartAgent \/ WriteMissing \/ WriteRunning \/ FinishRead \/ FinishWrite

-----------------------------------------------------------------------------
(* The agent and the environment.                                          *)

\* The agent's work is done, and its prompt is back; a claude stays at it.
ShowDone ==
  /\ agent = "running" /\ ~done /\ done' = TRUE
  /\ UNCHANGED <<files, pane, spawner, spawnCopy, runner, runCopy, agent, poll, answer, faults>>

Exit ==
  /\ agent = "running" /\ agent' \in ExitCodes
  /\ UNCHANGED <<files, pane, spawner, spawnCopy, runner, runCopy, done, poll, answer, faults>>

\* The runner is killed; the kernel hangs up its process group with it.
RunnerDies ==
  /\ runner \notin {"none", "gone"} /\ Fail("runner")
  /\ runner' = "gone" /\ pane' = "killed" /\ runCopy' = Absent
  /\ agent' = IF agent = "running" THEN "killed" ELSE agent
  /\ UNCHANGED <<files, spawner, spawnCopy, done, poll, answer>>

\* The tmux server dies: every session is gone, the state file stays.
TmuxDies ==
  /\ HasSession /\ Fail("tmux") /\ Hangup
  /\ UNCHANGED <<files, spawner, spawnCopy, done, poll, answer>>

Corrupt ==
  /\ state.kind = "runner" /\ Fail("corrupt")
  /\ state' = [Absent EXCEPT !.kind = "corrupt"]
  /\ UNCHANGED <<script, procs, poll, answer>>

Environment == ShowDone \/ Exit \/ RunnerDies \/ TmuxDies \/ Corrupt

-----------------------------------------------------------------------------
(* Pollers.  A status call reads the file, looks at the pane and the         *)
(* processes, and may write back a terminal state: it is built on the copy   *)
(* it read at first.                                                       *)

Put(p, r) == poll' = [poll EXCEPT ![p] = r]
Step(p, at) == Put(p, [poll[p] EXCEPT !.at = at])
StepWith(p, at, copy) == Put(p, [poll[p] EXCEPT !.at = at, !.copy = copy])

\* _terminal_runner_status
Verdict(s) ==
  CASE s.result = "success" -> "completed"
    [] s.result = "never_launched" -> "stuck"
    [] OTHER -> "crashed"

\* What the caller does with a session_state: the monitor ends on the final
\* ones after one more status call for the output ("completed" stands for
\* "incomplete" too, which is for the verifier of the workflow to say);
\* heartbeat_check reports a dead session once.
Reply(p, s, copy) ==
  LET r == poll[p] IN
  CASE r.op = "full" ->
         Put(p, [NotStarted EXCEPT !.at = "over"]) /\ UNCHANGED answer
    [] r.op = "heartbeat" ->
         /\ IF s \in {"completed", "crashed", "stuck", "not_found"} /\ ~r.told
            THEN Put(p, [NotStarted EXCEPT !.at = "mark", !.op = "heartbeat"])
            ELSE Put(p, NotStarted)
         /\ UNCHANGED answer
    [] r.op = "status" /\ s \in {"completed", "crashed", "stuck"} ->
         /\ Put(p, [NotStarted EXCEPT !.at = "read", !.op = "full"])
         /\ answer' = s
    [] r.op = "status" /\ s = "not_found" ->
         Put(p, [NotStarted EXCEPT !.at = "over"]) /\ answer' = s
    [] OTHER ->
         Put(p, [NotStarted EXCEPT !.polls = r.polls]) /\ UNCHANGED answer

Known == spawner \notin {"idle", "failed"} /\ (EarlyPolls \/ spawner \in {"ready", "killing", "killed"})

\* The next tick of cmd_monitor_session, or a heartbeat-check.
StartPoll(p) ==
  /\ poll[p].at = "idle" /\ Known
  /\ IF p = Monitor
     THEN /\ poll[p].polls < MaxPolls
          /\ Put(p, [poll[p] EXCEPT !.at = "read", !.polls = @ + 1])
     ELSE Put(p, [poll[p] EXCEPT !.at = "beat", !.op = "heartbeat"])
  /\ UNCHANGED <<files, procs, answer, faults>>

\* --max-polls or --timeout is exceeded.
TimedOut ==
  /\ poll[Monitor].at = "idle" /\ poll[Monitor].polls > 0
  /\ Put(Monitor, [NotStarted EXCEPT !.at = "read", !.op = "full"])
  /\ answer' = "timeout"
  /\ UNCHANGED <<files, procs, faults>>

\* heartbeat_check: a terminal state is reported unless telemetryEmitted, a
\* dead agent is waited for and then judged by session_status.
Beat(p) ==
  /\ poll[p].at = "beat"
  /\ state' = Loaded
  /\ IF Loaded.kind # "runner" THEN Put(p, NotStarted)
     ELSE IF Terminal(Loaded)
     THEN IF Loaded.told THEN Put(p, NotStarted) ELSE Step(p, "mark")
     ELSE IF ~Loaded.child \/ ChildAlive(Loaded) THEN Put(p, NotStarted)
     ELSE Put(p, [poll[p] EXCEPT !.at = "read", !.told = Loaded.told])
  /\ UNCHANGED <<script, procs, answer, faults>>

\* update_session_state(telemetryEmitted=True): a file that is gone is made anew.
MarkReads(p) ==
  /\ poll[p].at = "mark"
  /\ state' = Loaded
  /\ IF state.kind = "corrupt" THEN Put(p, NotStarted) ELSE StepWith(p, "marking", state)
  /\ UNCHANGED <<script, procs, answer, faults>>

MarkWrites(p) ==
  /\ poll[p].at = "marking"
  /\ state' = [poll[p].copy EXCEPT !.told = TRUE, !.kind = IF @ = "none" THEN "legacy" ELSE @]
  /\ Put(p, NotStarted)
  /\ UNCHANGED <<script, procs, answer, faults>>

\* Mutant: no state file means no session.
ReadStateOnly(p) ==
  /\ poll[p].at = "read"
  /\ state' = Loaded
  /\ IF Loaded.kind # "runner"
     THEN Reply(p, "not_found", Absent)
     ELSE IF Terminal(Loaded) THEN Reply(p, Verdict(Loaded), Loaded)
     ELSE StepWith(p, "look", Loaded) /\ UNCHANGED answer
  /\ UNCHANGED <<script, procs, faults>>

\* _status_mode (auto): a file without schemaVersion is a legacy session.
\* _runner_session_status: gone, terminal, or to be looked at.
ReadState(p) ==
  /\ poll[p].at = "read"
  /\ state' = Loaded
  /\ IF Loaded.kind # "runner"
     THEN Step(p, "screen") /\ UNCHANGED answer
     ELSE IF Terminal(Loaded) THEN Reply(p, Verdict(Loaded), Loaded)
     ELSE StepWith(p, "look", Loaded) /\ UNCHANGED answer
  /\ UNCHANGED <<script, procs, faults>>

\* _pane_snapshot and the two pids.  A running session whose agent is gone:
\* the runner may be about to say so.
Look(p) ==
  /\ poll[p].at = "look"
  /\ LET up == ChildAlive(poll[p].copy)
         wait == poll[p].copy.life = "running" /\ ~up
     IN  Put(p, [poll[p] EXCEPT !.at = IF wait THEN "wait" ELSE "reconcile", !.seen = pane, !.up = up])
  /\ UNCHANGED <<files, procs, answer, faults>>

\* Mutant: the wait for a terminal state has no deadline.
WaitForTerminal(p) ==
  /\ poll[p].at = "wait" /\ Terminal(state)
  /\ Reply(p, Verdict(state), state)
  /\ UNCHANGED <<files, procs, faults>>

\* _wait_for_terminal_state: until it is terminal, or for a second.
Wait(p) ==
  /\ poll[p].at = "wait"
  /\ state' = Loaded
  /\ IF Terminal(Loaded) THEN Reply(p, Verdict(Loaded), Loaded)
     ELSE StepWith(p, "reconcile", IF Loaded = Absent THEN poll[p].copy ELSE Loaded) /\ UNCHANGED answer
  /\ UNCHANGED <<script, procs, faults>>

\* Mutant: only the pane is looked at.
ReconciledByPane(c, seen, old) ==
  IF seen \in Ended THEN Finished(c, Result(seen))
  ELSE IF c.life \in {"created", "launching"} /\ seen = "none" /\ old THEN Finished(c, "never_launched")
  ELSE c

\* Mutant: a session that does not run yet is judged by its pids.
ReconciledEarly(c, seen, old) ==
  IF seen \in Ended THEN Finished(c, Result(seen))
  ELSE IF ~ChildAlive(c) /\ ~RunnerAlive(c) THEN Finished(c, "interrupted")
  ELSE c

\* _reconcile_runner_state: what is written over the file, the copy itself when
\* nothing is; a launch that has not happened is given up after a grace period.
Reconciled(c, seen, old) ==
  IF seen \in Ended THEN Finished(c, Result(seen))
  ELSE IF c.life = "running" /\ ~ChildAlive(c) /\ ~RunnerAlive(c) THEN Finished(c, "interrupted")
  ELSE IF c.life \in {"created", "launching"} /\ seen = "none" /\ old THEN Finished(c, "never_launched")
  ELSE c

Reconcile(p) ==
  /\ poll[p].at = "reconcile"
  /\ \E old \in BOOLEAN :
       LET c == poll[p].copy
           r == Reconciled(c, poll[p].seen, old)
       IN  IF r = c THEN Step(p, "capture") /\ UNCHANGED state
           ELSE Step(p, "reread") /\ state' = r
  /\ UNCHANGED <<script, procs, answer, faults>>

\* What was saved is loaded again, and may have been replaced meanwhile.
Reread(p) ==
  /\ poll[p].at = "reread"
  /\ state' = Loaded
  /\ IF Terminal(Loaded) THEN Reply(p, Verdict(Loaded), Loaded)
     ELSE StepWith(p, "capture", Loaded) /\ UNCHANGED answer
  /\ UNCHANGED <<script, procs, faults>>

\* The screen: a claude whose work is done but which has not exited counts as finished.
Capture(p) ==
  /\ poll[p].at = "capture"
  /\ LET r == poll[p] IN
     IF r.copy.agent /\ r.copy.life = "running" /\ done /\ HasSession
     THEN Step(p, "succeed") /\ UNCHANGED answer
     ELSE Reply(p, IF r.copy.life = "running" /\ r.up THEN "in_progress"
                   ELSE IF \/ r.copy.life \in {"created", "launching"}
                           \/ RunnerAlive(r.copy) \/ r.seen # "none"
                   THEN "just_started" ELSE "stuck", r.copy)
  /\ UNCHANGED <<files, procs, faults>>

\* _runner_claude_prompt_completed saves, its caller loads and judges.
Succeed(p) ==
  /\ poll[p].at = "succeed"
  /\ state' = Finished(poll[p].copy, "success")
  /\ Step(p, "succeeded")
  /\ UNCHANGED <<script, procs, answer, faults>>

Succeeded(p) ==
  /\ poll[p].at = "succeeded"
  /\ state' = Loaded
  /\ Reply(p, Verdict(Loaded), Loaded)
  /\ UNCHANGED <<script, procs, faults>>

\* _legacy_claude_session_status judges by the screen, and keeps its own state
\* in the same file.
ReadScreen(p) ==
  /\ poll[p].at = "screen"
  /\ IF ~HasSession \/ (PaneDead /\ pane # "ok")
     THEN /\ state' = Absent
          /\ Reply(p, IF HasSession THEN "crashed" ELSE "not_found", Absent)
     ELSE /\ state' = Loaded
          /\ StepWith(p, "judge", IF Loaded.kind = "legacy" THEN Loaded ELSE Absent)
          /\ UNCHANGED answer
  /\ UNCHANGED <<script, procs, faults>>

JudgeScreen(p) ==
  /\ poll[p].at = "judge"
  /\ \E s \in {"completed", "in_progress", "just_started", "stuck"} :
       LET busy == s = "in_progress"
           was  == poll[p].copy.active
       IN  /\ done => s = "completed"
           /\ ~done /\ s = "completed" => was
           /\ ~done /\ s \in {"just_started", "stuck"} => ~was
           /\ busy => HasSession
           /\ state' = [Absent EXCEPT !.kind = "legacy", !.active = was \/ busy \/ done]
           /\ Reply(p, s, Absent)
  /\ UNCHANGED <<script, procs, faults>>

Poll(p) ==
  \/ StartPoll(p) \/ Beat(p) \/ MarkReads(p) \/ MarkWrites(p)
  \/ ReadState(p) \/ Look(p) \/ Wait(p) \/ Reconcile(p) \/ Reread(p)
  \/ Capture(p) \/ Succeed(p) \/ Succeeded(p) \/ ReadScreen(p) \/ JudgeScreen(p)

-----------------------------------------------------------------------------

SessionNext ==
  Spawner \/ Runner \/ Environment \/ TimedOut \/ \E p \in Pollers : Poll(p)

SessionSpec == SessionInit /\ [][SessionNext]_sessionVars

\* The spawner, the script and the poll loops run on; an agent and its faults
\* are owed nothing.
SessionFairSpec ==
  /\ SessionSpec
  /\ WF_sessionVars(Spawner) /\ WF_sessionVars(Runner)
  /\ WF_sessionVars(TimedOut) /\ \A p \in Pollers : WF_sessionVars(Poll(p))

-----------------------------------------------------------------------------
(* Properties.                                                             *)

\* The file never says more than happened: success only for an agent that
\* exited with 0 or whose completion is on the screen, any other result only
\* when no agent of the session runs, however stale the copy it was written from.
ResultIsReal ==
  Terminal(state) => IF state.result = "success" THEN done \/ agent = "ok" ELSE agent # "running"

\* A caller that is told its session has crashed or is gone starts another
\* agent on the same tree: the first one must not be at work any more.
DeadBeforeReported == answer \in {"crashed", "not_found"} => agent # "running" \/ done

\* Whatever was lost or overwritten meanwhile, the end of an agent is recorded,
\* by the runner or by the poll that saw that it could not, unless the session
\* was killed by an operator or after a timeout, or its file was replaced.
EndIsRecorded ==
  (spawner = "ready" /\ answer = "none" /\ agent \in Ended /\ state.kind = "runner") ~>
    \/ Terminal(state) \/ state.kind \in {"corrupt", "legacy"}
    \/ spawner # "ready" /\ answer \in {"none", "timeout"}

\* monitor-session comes back with an answer.
MonitorAnswers == (poll[Monitor].at # "idle") ~> (answer # "none")
=============================================================================
