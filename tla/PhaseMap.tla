------------------------------ MODULE PhaseMap ------------------------------
(***************************************************************************)
(* The vocabulary of the two status files of a story and the keys their    *)
(* rows may have.  sprint-status.yaml holds a status string per row,       *)
(* phase-store.yaml a phase per key.  A story is named by its dotted id    *)
(* ("1.2"), its dashed prefix ("1-2") or the full key of its file          *)
(* ("1-2-some-title"), and a row of either file may use any of the three.  *)
(***************************************************************************)
EXTENDS Naturals, FiniteSets

CONSTANTS
    Stories,   \* the stories of the project
    None       \* no row, no entry, an unknown status

TerminalPhases == {"done", "deferred", "escalated"}

Phases == TerminalPhases \cup
          {"pending", "dev-running", "dev-verify", "review-running", "review-verify",
           "committing", "triage-running", "triage-verify"}

\* SPRINT_STATUS_TO_PHASE.
PhaseFor(status) ==
  CASE status \in {"not_started", "not-started", "pending"} -> "pending"
    [] status \in {"in-progress", "dev-running"}            -> "dev-running"
    [] status \in Phases \ {"pending", "dev-running"}       -> status
    [] OTHER                                                -> None

\* PHASE_TO_SPRINT_STATUS: the string the repair writes for a phase.
StatusFor(phase) ==
  CASE phase = "pending"     -> "not_started"
    [] phase = "dev-running" -> "in-progress"
    [] OTHER                 -> phase

Consistent(status, phase) ==
  phase \in Phases /\ (PhaseFor(status) = phase \/ status = StatusFor(phase))

(* ---- keys ---- *)

Spellings == {"id", "prefix", "full"}
Keys == Stories \X Spellings

\* The two files as the program reads them: None where there is no row.
SprintFiles(statuses) == [Keys -> statuses \cup {None}]
PhaseFiles == [Keys -> Phases \cup {None}]

\* The row of a story that answers a lookup: its full key before everything,
\* then the spelling that was asked for, then the prefix, then the id.
RowKey(file, key) ==
  LET Here(sp) == file[<<key[1], sp>>] # None
  IN  IF Here("full") THEN <<key[1], "full">>
      ELSE IF Here(key[2]) THEN key
      ELSE IF Here("prefix") THEN <<key[1], "prefix">>
      ELSE IF Here("id") THEN <<key[1], "id">> ELSE None

\* sprint_status_get: the matched row and its status, None when not found.
SprintGet(file, key) ==
  LET row == RowKey(file, key)
  IN  [row |-> row, status |-> IF row = None THEN None ELSE file[row]]

\* The row a write changes: the spelling it was given when that row exists.
WriteKey(file, key) == IF file[key] # None THEN key ELSE RowKey(file, key)

CanonicalKey(key) == <<key[1], "id">>

\* A phase under the canonical key, the story's other spellings dropped.
RewritePhase(store, key, phase) ==
  [k \in Keys |-> IF k = CanonicalKey(key) THEN phase
                  ELSE IF k[1] = key[1] THEN None ELSE store[k]]

\* The phase a reader finds: under the matched row's key, else under its own.
StoredPhase(store, sprint, key) ==
  IF sprint.row # None /\ store[sprint.row] # None THEN store[sprint.row] ELSE store[key]

\* validate_dual_store: the entries of the phase store that disagree with the
\* sprint row, or have none.
ValidateDualStore(sprint, store) ==
  {k \in Keys : /\ store[k] # None
                /\ LET found == SprintGet(sprint, k)
                   IN  found.row = None \/ ~ Consistent(found.status, store[k])}

\* lww_winner: the newer file, and at equal times the terminal side, else the
\* phase store.
Winner(stime, ptime, status, phase) ==
  CASE ptime > stime -> "phase"
    [] stime > ptime -> "sprint"
    [] OTHER -> IF PhaseFor(status) \in TerminalPhases /\ phase \notin TerminalPhases
                THEN "sprint" ELSE "phase"
=============================================================================
