----------------------------- MODULE DualStore -----------------------------
(***************************************************************************)
(* read_unified_state and write_unified_state (core/integration): the      *)
(* status of a story kept in two files, with one lock for writers, readers *)
(* that take no lock while the files agree, and a repair by file times     *)
(* when they do not.                                                       *)
(*                                                                         *)
(* A writer holds the lock over its two writes and may die between them;   *)
(* a reader's three steps (the file times; the sprint row; the phase entry *)
(* and the file times again) interleave with everything.  Whatever a       *)
(* reader does under the lock changes one file once, so it is one step.    *)
(* People and agents also edit sprint-status.yaml, and take no lock.       *)
(***************************************************************************)
EXTENDS PhaseMap

CONSTANTS
    Procs,            \* processes that read and write
    Writes,           \* the (status, phase) pairs callers write to each story
    Edits,            \* the statuses people write into a row
    ReadSpellings,    \* how readers spell the story
    WriteSpellings,   \* how writers spell it
    InitialSprint,    \* sprint-status.yaml at the start
    InitialPhases,    \* phase-store.yaml at the start
    MaxAttempts,      \* unlocked read attempts (three in the code)
    MaxTime,          \* bound: ticks of the file system's clock
    MaxFaults         \* bound: processes killed, and edits by people, together

ASSUME ProcsHaveNoNone == None \notin Procs
ASSUME BoundsAreNat == MaxAttempts \in Nat \ {0} /\ {MaxTime, MaxFaults} \subseteq Nat
ASSUME SpellingsAssumption == ReadSpellings \cup WriteSpellings \subseteq Spellings

VARIABLES
    sprint, stime,   \* sprint-status.yaml and its mtime
    phases, ptime,   \* phase-store.yaml and its mtime
    now,             \* the coarse clock both times are taken from
    holder,          \* owner of .unified-state.lock
    proc,            \* what each process is doing
    crashes, edits,  \* how many of each there were
    may              \* history: the phases a story may rightly be in

files == <<sprint, stime, phases, ptime>>
vars == <<sprint, stime, phases, ptime, now, holder, proc, crashes, edits, may>>

AllWrites == UNION {Writes[s] : s \in Stories}
Named == {w.status : w \in AllWrites} \cup Edits \cup ({InitialSprint[k] : k \in Keys} \ {None})
Statuses == Named \cup {StatusFor(ph) : ph \in {w.phase : w \in AllWrites}
                                        \cup ({PhaseFor(st) : st \in Named} \ {None})}

\* None is none of the strings in the files, and the files are files.
ASSUME NoneAssumption ==
  None \notin Statuses \cup Phases \cup Keys \cup {"not_started", "not-started", "in-progress"}
ASSUME FilesAssumption == InitialSprint \in SprintFiles(Statuses) /\ InitialPhases \in PhaseFiles

\* A tidy project: a story has one row, the files agree at the start, and a reader
\* asks for a story by the key its phase is stored under, or the row has that key.
Tidy ==
  /\ \A k, m \in Keys : InitialSprint[k] # None /\ InitialSprint[m] # None /\ k[1] = m[1] => k = m
  /\ ValidateDualStore(InitialSprint, InitialPhases) = {}
  /\ \A s \in Stories, sp \in ReadSpellings :
       sp = "id" \/ RowKey(InitialSprint, <<s, sp>>) \in {None, <<s, "id">>}

Idle == [at |-> "idle"]
Found == [row : Keys \cup {None}, status : Statuses \cup {None}]
NotRead == [row |-> None, status |-> None]

\* A read attempt has just taken the times of both files.
Reader(key, observe, n, seen) ==
  [at |-> "sprint", key |-> key, observe |-> observe, attempts |-> n,
   sm |-> stime, pm |-> ptime, row |-> NotRead, seen |-> seen]

WriterStates ==
  [at : {"lock", "phase", "row"}, key : Keys, write : AllWrites]
ReaderStates ==
  [at : {"sprint", "store", "snapshot", "migrate", "resolve"}, key : Keys,
   observe : BOOLEAN, attempts : 1..MaxAttempts, sm : 0..MaxTime, pm : 0..MaxTime,
   row : Found, seen : SUBSET Phases]
Answers ==
  [at : {"answer"}, key : Keys, status : Statuses \cup {None},
   phase : Phases, repair : BOOLEAN, seen : SUBSET Phases]

\* Type invariant: files, clock, lock and every process have their shapes.
TypeOK ==
  /\ sprint \in SprintFiles(Statuses) /\ phases \in PhaseFiles
  /\ {stime, ptime, now} \subseteq 0..MaxTime
  /\ stime <= now /\ ptime <= now
  /\ holder \in Procs \cup {None}
  /\ \A p \in Procs : proc[p] = Idle \/ proc[p] \in WriterStates \cup ReaderStates \cup Answers
  /\ \A p \in Procs : holder = p <=> proc[p].at \in {"phase", "row"}
  /\ {crashes, edits, crashes + edits} \subseteq 0..MaxFaults
  /\ may \in [Stories -> SUBSET Phases]

Init ==
  /\ sprint = InitialSprint /\ phases = InitialPhases
  /\ stime = 0 /\ ptime = 0 /\ now = 0
  /\ holder = None
  /\ proc = [p \in Procs |-> Idle]
  /\ crashes = 0 /\ edits = 0
  /\ may = [s \in Stories |->
             {PhaseFor(SprintGet(InitialSprint, <<s, "id">>).status)} \cap Phases]

At(p, at) == proc[p].at = at
Step(p, r) == proc' = [proc EXCEPT ![p] = r]

\* History: every running read of story s has now also seen the phases ps.
SeenBy(pr, s, ps) ==
  [q \in Procs |-> IF "seen" \in DOMAIN pr[q] /\ pr[q].key[1] = s /\ pr[q].at # "answer"
                   THEN [pr[q] EXCEPT !.seen = @ \cup ps] ELSE pr[q]]

(* ---- write_unified_state ---- *)

StartWrite(p) ==
  /\ At(p, "idle")
  /\ \E s \in Stories, sp \in WriteSpellings : \E w \in Writes[s] :
       /\ Consistent(w.status, w.phase)
       /\ Step(p, [at |-> "lock", key |-> <<s, sp>>, write |-> w])
  /\ UNCHANGED <<files, now, holder, crashes, edits, may>>

\* Mutant: the lock file does not exclude.
LockAnyway(p) ==
  /\ At(p, "lock")
  /\ holder' = p
  /\ Step(p, [proc[p] EXCEPT !.at = "phase"])
  /\ UNCHANGED <<files, now, crashes, edits, may>>

Lock(p) ==
  /\ At(p, "lock")
  /\ holder = None
  /\ holder' = p
  /\ Step(p, [proc[p] EXCEPT !.at = "phase"])
  /\ UNCHANGED <<files, now, crashes, edits, may>>

\* The lock is not free within lock_timeout: an error, nothing written.
LockTimeout(p) ==
  /\ At(p, "lock")
  /\ holder # None
  /\ Step(p, Idle)
  /\ UNCHANGED <<files, now, holder, crashes, edits, may>>

WritePhase(p) ==
  LET w == proc[p] s == w.key[1] IN
  /\ At(p, "phase")
  /\ phases' = RewritePhase(phases, w.key, w.write.phase)
  /\ ptime' = now
  /\ may' = [may EXCEPT ![s] = @ \cup {w.write.phase}]
  /\ proc' = SeenBy([proc EXCEPT ![p].at = "row"], s, {w.write.phase})
  /\ UNCHANGED <<sprint, stime, now, holder, crashes, edits>>

\* The second write and the release.  A missing row, or another row of the
\* story that still answers with the old status, is an error after the phase
\* has been written; the call succeeds otherwise.
WriteRow(p) ==
  LET w    == proc[p]
      s    == w.key[1]
      row  == WriteKey(sprint, w.key)
      next == IF row = None THEN sprint ELSE [sprint EXCEPT ![row] = w.write.status]
      ok   == SprintGet(next, w.key).status = w.write.status
  IN
  /\ At(p, "row")
  /\ sprint' = next
  /\ stime' = IF row = None THEN stime ELSE now
  /\ may' = [may EXCEPT ![s] = IF ok THEN {w.write.phase} ELSE @]
  /\ holder' = None
  /\ Step(p, Idle)
  /\ UNCHANGED <<phases, ptime, now, crashes, edits>>

(* ---- read_unified_state ---- *)

Answer(p, status, phase, repair) ==
  Step(p, [at |-> "answer", key |-> proc[p].key, status |-> status, phase |-> phase,
           repair |-> repair, seen |-> proc[p].seen])

StartRead(p) ==
  /\ At(p, "idle")
  /\ \E s \in Stories, sp \in ReadSpellings, observe \in BOOLEAN :
       Step(p, Reader(<<s, sp>>, observe, 1, may[s]))
  /\ UNCHANGED <<files, now, holder, crashes, edits, may>>

ReadSprint(p) ==
  /\ At(p, "sprint")
  /\ Step(p, [proc[p] EXCEPT !.at = "store", !.row = SprintGet(sprint, proc[p].key)])
  /\ UNCHANGED <<files, now, holder, crashes, edits, may>>

\* What follows a snapshot: the row found and the phase stored for it.
Decide(p, row, stored, base) ==
  CASE row.row = None -> Step(p, Idle)
    [] row.row # None /\ stored # None /\ Consistent(row.status, stored) ->
         Answer(p, row.status, stored, FALSE)
    [] row.row # None /\ stored # None /\ ~ Consistent(row.status, stored) ->
         Step(p, [base EXCEPT !.at = "resolve", !.row = row])
    [] row.row # None /\ stored = None ->
         IF PhaseFor(row.status) = None THEN Answer(p, row.status, "pending", TRUE)
         ELSE IF base.observe THEN Answer(p, row.status, PhaseFor(row.status), TRUE)
         ELSE Step(p, [base EXCEPT !.at = "migrate", !.row = row])

\* The phase store and the file times again: moved times mean another attempt,
\* and the last attempt a snapshot under the lock.
ReadStore(p) ==
  LET r == proc[p] IN
  /\ At(p, "store")
  /\ IF stime = r.sm /\ ptime = r.pm
     THEN Decide(p, r.row, StoredPhase(phases, r.row, r.key), r)
     ELSE IF r.attempts < MaxAttempts
     THEN Step(p, Reader(r.key, r.observe, r.attempts + 1, r.seen))
     ELSE Step(p, [r EXCEPT !.at = "snapshot"])
  /\ UNCHANGED <<files, now, holder, crashes, edits, may>>

Snapshot(p) ==
  LET row == SprintGet(sprint, proc[p].key) IN
  /\ At(p, "snapshot")
  /\ holder = None
  /\ Decide(p, row, StoredPhase(phases, row, proc[p].key), proc[p])
  /\ UNCHANGED <<files, now, holder, crashes, edits, may>>

\* The lock is not free within read_lock_timeout: what was read last, flagged.
SnapshotTimeout(p) ==
  LET r == proc[p] stored == StoredPhase(phases, r.row, r.key) IN
  /\ At(p, "snapshot")
  /\ holder # None
  /\ Answer(p, r.row.status,
            IF r.row.row = None THEN "pending"
            ELSE IF stored # None THEN stored
            ELSE IF PhaseFor(r.row.status) # None THEN PhaseFor(r.row.status)
            ELSE "pending", TRUE)
  /\ UNCHANGED <<files, now, holder, crashes, edits, may>>

\* Mutant: the entry is not looked for again under the lock.
MigrateBlind(p) ==
  LET r == proc[p] derived == PhaseFor(r.row.status) IN
  /\ At(p, "migrate")
  /\ holder = None
  /\ phases' = RewritePhase(phases, r.key, derived)
  /\ ptime' = now
  /\ Answer(p, r.row.status, derived, FALSE)
  /\ UNCHANGED <<sprint, stime, now, holder, crashes, edits, may>>

\* No entry: the phase of the row is stored, unless one appeared meanwhile.
Migrate(p) ==
  LET r == proc[p]
      existing == StoredPhase(phases, r.row, r.key)
      derived  == PhaseFor(r.row.status)
  IN
  /\ At(p, "migrate")
  /\ holder = None
  /\ IF existing # None
     THEN Answer(p, r.row.status, existing, FALSE) /\ UNCHANGED <<phases, ptime>>
     ELSE /\ phases' = RewritePhase(phases, r.key, derived)
          /\ ptime' = now
          /\ Answer(p, r.row.status, derived, FALSE)
  /\ UNCHANGED <<sprint, stime, now, holder, crashes, edits, may>>

MigrateTimeout(p) ==
  /\ At(p, "migrate")
  /\ holder # None
  /\ Answer(p, proc[p].row.status, PhaseFor(proc[p].row.status), TRUE)
  /\ UNCHANGED <<files, now, holder, crashes, edits, may>>

(* ---- resolve_lww_under_lock ---- *)

\* observe_only: which side would win, without the lock and without a write.
Project(p) ==
  LET r == proc[p]
      row == SprintGet(sprint, r.key)
      stored == StoredPhase(phases, row, r.key)
  IN
  /\ At(p, "resolve")
  /\ r.observe
  /\ IF row.row = None \/ stored = None THEN Answer(p, row.status, "pending", TRUE)
     ELSE IF Winner(stime, ptime, row.status, stored) = "phase"
     THEN Answer(p, StatusFor(stored), stored, TRUE)
     ELSE Answer(p, row.status,
                 IF PhaseFor(row.status) = None THEN stored ELSE PhaseFor(row.status), TRUE)
  /\ UNCHANGED <<files, now, holder, crashes, edits, may>>

\* Both files are read again; the newer one wins and the other is rewritten.
\* Mutant of Resolve: it is done without the lock.
ResolveNow(p) ==
  LET r       == proc[p]
      row     == SprintGet(sprint, r.key)
      stored  == StoredPhase(phases, row, r.key)
      derived == PhaseFor(row.status)
      rowKey  == WriteKey(sprint, r.key)
  IN
  /\ At(p, "resolve")
  /\ ~ r.observe
  /\ CASE row.row = None -> Step(p, Idle) /\ UNCHANGED files
       [] row.row # None /\ stored = None ->
            /\ Answer(p, row.status, IF derived = None THEN "pending" ELSE derived, derived = None)
            /\ UNCHANGED files
       [] row.row # None /\ stored # None /\ Consistent(row.status, stored) ->
            Answer(p, row.status, stored, FALSE) /\ UNCHANGED files
       [] OTHER ->
            IF Winner(stime, ptime, row.status, stored) = "phase"
            THEN /\ sprint' = [sprint EXCEPT ![rowKey] = StatusFor(stored)]
                 /\ stime' = now
                 /\ Answer(p, StatusFor(stored), stored, FALSE)
                 /\ UNCHANGED <<phases, ptime>>
            ELSE IF derived = None
            THEN Answer(p, row.status, stored, TRUE) /\ UNCHANGED files
            ELSE /\ phases' = RewritePhase(phases, r.key, derived)
                 /\ ptime' = now
                 /\ Answer(p, row.status, derived, FALSE)
                 /\ UNCHANGED <<sprint, stime>>
  /\ UNCHANGED <<now, holder, crashes, edits, may>>

Resolve(p) == holder = None /\ ResolveNow(p)

\* The lock is not free in time: an error to the caller.
ResolveTimeout(p) ==
  /\ At(p, "resolve")
  /\ ~ proc[p].observe
  /\ holder # None
  /\ Step(p, Idle)
  /\ UNCHANGED <<files, now, holder, crashes, edits, may>>

Return(p) ==
  /\ At(p, "answer")
  /\ Step(p, Idle)
  /\ UNCHANGED <<files, now, holder, crashes, edits, may>>

(* ---- the world ---- *)

\* A process dies; the operating system releases its lock.
Crash(p) ==
  /\ crashes + edits < MaxFaults
  /\ At(p, "row") \/ At(p, "phase")
  /\ crashes' = crashes + 1
  /\ holder' = None
  /\ Step(p, Idle)
  /\ UNCHANGED <<files, now, edits, may>>

\* A person or an agent changes the row of a story, without the lock.
EditRow ==
  /\ crashes + edits < MaxFaults
  /\ edits' = edits + 1
  /\ \E s \in Stories, e \in Edits :
       LET row == RowKey(sprint, <<s, "id">>) IN
       /\ row # None
       /\ sprint' = [sprint EXCEPT ![row] = e]
       /\ may' = [may EXCEPT ![s] = @ \cup ({PhaseFor(e)} \cap Phases)]
       /\ proc' = SeenBy(proc, s, {PhaseFor(e)} \cap Phases)
  /\ stime' = now
  /\ UNCHANGED <<phases, ptime, now, holder, crashes>>

Tick ==
  /\ now < MaxTime
  /\ now' = now + 1
  /\ UNCHANGED <<files, holder, proc, crashes, edits, may>>

Write(p) == StartWrite(p) \/ Lock(p) \/ LockTimeout(p) \/ WritePhase(p) \/ WriteRow(p)
Read(p) ==
  \/ StartRead(p) \/ ReadSprint(p) \/ ReadStore(p)
  \/ Snapshot(p) \/ SnapshotTimeout(p) \/ Migrate(p) \/ MigrateTimeout(p)
  \/ Project(p) \/ Resolve(p) \/ ResolveTimeout(p) \/ Return(p)

Next ==
  \/ \E p \in Procs : Write(p) \/ Read(p) \/ Crash(p)
  \/ EditRow
  \/ Tick

Spec == Init /\ [][Next]_vars

(* ---- properties ---- *)

Writing(s) == \E p \in Procs : At(p, "row") /\ proc[p].key[1] = s

\* A write that returned sticks: until the story is written or edited again,
\* both files keep its phase, whatever the readers repair, whoever dies in
\* the middle of another write and whichever other story is written.  After a
\* write that died, the files hold its phase or the one before, never a third
\* (the lock-free readers, the migration and the last-write-wins repair).  As
\* long as nobody dies or edits, validate_dual_store has nothing to report but
\* a write in progress and the entries of stories without a row.
WritesStick ==
  \A s \in Stories :
    LET row == SprintGet(sprint, <<s, "id">>)
        stored == StoredPhase(phases, row, <<s, "id">>)
    IN  /\ ~ Writing(s) /\ PhaseFor(row.status) # None => PhaseFor(row.status) \in may[s]
        /\ stored # None => stored \in may[s]
        /\ crashes + edits = 0 /\ row.row # None /\ ~ Writing(s) =>
             \A k \in ValidateDualStore(sprint, phases) : k[1] # s

\* An answer that asks for no repair is one the story really had while the
\* read ran: no reader combines halves of two writes into a phase of its own,
\* and none answers with the phase a finished write has replaced before the
\* read began.
AnswersAreReal ==
  \A p \in Procs : At(p, "answer") /\ ~ proc[p].repair => proc[p].phase \in proc[p].seen

\* unified_state.py says of a crash between the two writes that the next
\* reader resolves to the phase side; so the sprint side never wins unless a
\* person edited the file.
CrashKeepsPhase ==
  [][edits = 0 => \A k \in Keys : phases[k] # None /\ phases'[k] # phases[k]
       => \E p \in Procs : At(p, "phase") /\ proc[p].key[1] = k[1]]_vars
=============================================================================
