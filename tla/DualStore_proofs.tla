-------------------------- MODULE DualStore_proofs --------------------------
(***************************************************************************)
(* Proofs about DualStore, for any stories, processes, writes, edits, kills *)
(* and read attempts, in a tidy project.                                    *)
(***************************************************************************)
EXTENDS DualStore, TLAPS

(* ---- the vocabulary ---- *)

LEMMA PhaseForIs == \A st : PhaseFor(st) \in Phases \cup {None}
BY DEF PhaseFor, Phases

LEMMA NoneHasNoPhase == PhaseFor(None) = None
BY NoneAssumption DEF PhaseFor, Phases, TerminalPhases

\* The repair writes a status that stands for the phase.
LEMMA StatusRoundTrip == \A ph \in Phases : PhaseFor(StatusFor(ph)) = ph
<1> SUFFICES ASSUME NEW ph \in Phases PROVE PhaseFor(StatusFor(ph)) = ph
  OBVIOUS
<1>1. CASE ph = "pending"
  BY <1>1 DEF PhaseFor, StatusFor, Phases, TerminalPhases
<1>2. CASE ph = "dev-running"
  BY <1>2 DEF PhaseFor, StatusFor, Phases, TerminalPhases
<1>3. CASE ph \notin {"pending", "dev-running"}
  BY <1>3 DEF PhaseFor, StatusFor, Phases, TerminalPhases
<1> QED BY <1>1, <1>2, <1>3

LEMMA ConsistentIs ==
  \A st, ph : Consistent(st, ph) <=> ph \in Phases /\ PhaseFor(st) = ph
BY StatusRoundTrip DEF Consistent

KnownPhases == Phases \cap ({w.phase : w \in AllWrites} \cup {PhaseFor(st) : st \in Named})
KnownStatuses == Named \cup {StatusFor(ph) : ph \in KnownPhases}

\* What the files can hold is closed under the two maps.
LEMMA KnownIsClosed ==
  /\ KnownPhases \subseteq Phases /\ KnownStatuses \subseteq Statuses
  /\ None \notin KnownPhases /\ None \notin KnownStatuses /\ None \notin Phases
  /\ \A st \in KnownStatuses : PhaseFor(st) \in KnownPhases \cup {None}
  /\ \A ph \in KnownPhases : StatusFor(ph) \in KnownStatuses
  /\ \A w \in AllWrites : Consistent(w.status, w.phase) =>
       w.status \in KnownStatuses /\ w.phase \in KnownPhases
  /\ Edits \subseteq KnownStatuses
  /\ \A k \in Keys : InitialSprint[k] \in KnownStatuses \cup {None}
<1>1. KnownPhases \subseteq Phases /\ None \notin Phases
  BY NoneAssumption DEF KnownPhases
<1>2. KnownStatuses \subseteq Statuses
  <2>1. KnownPhases \subseteq {w.phase : w \in AllWrites} \cup ({PhaseFor(st) : st \in Named} \ {None})
    BY <1>1 DEF KnownPhases
  <2> QED BY <2>1 DEF KnownStatuses, Statuses
<1>3. None \notin KnownStatuses
  BY <1>2, NoneAssumption
<1>4. ASSUME NEW st \in KnownStatuses PROVE PhaseFor(st) \in KnownPhases \cup {None}
  <2>1. CASE st \in Named
    BY <2>1, PhaseForIs DEF KnownPhases
  <2>2. CASE \E ph \in KnownPhases : st = StatusFor(ph)
    BY <1>1, <2>2, StatusRoundTrip
  <2> QED BY <2>1, <2>2 DEF KnownStatuses
<1>5. \A ph \in KnownPhases : StatusFor(ph) \in KnownStatuses
  BY DEF KnownStatuses
<1>6. ASSUME NEW w \in AllWrites, Consistent(w.status, w.phase)
      PROVE  w.status \in KnownStatuses /\ w.phase \in KnownPhases
  BY <1>6, ConsistentIs DEF KnownStatuses, KnownPhases, Named
<1>7. Edits \subseteq KnownStatuses /\ \A k \in Keys : InitialSprint[k] \in KnownStatuses \cup {None}
  BY DEF KnownStatuses, Named
<1> QED BY <1>1, <1>2, <1>3, <1>4, <1>5, <1>6, <1>7

(* ---- the inductive invariant ---- *)

\* The row of a story: rows come and go only with the file.
Row(s) == RowKey(InitialSprint, <<s, "id">>)
Canon(s) == phases[<<s, "id">>]

FilesFit ==
  /\ sprint \in [Keys -> KnownStatuses \cup {None}]
  /\ phases \in [Keys -> KnownPhases \cup {None}]
  /\ \A k \in Keys : sprint[k] = None <=> InitialSprint[k] = None
  /\ now \in 0..MaxTime /\ stime \in 0..now /\ ptime \in 0..now
  /\ crashes \in Nat /\ edits \in Nat /\ crashes + edits <= MaxFaults
  /\ may \in [Stories -> SUBSET Phases]

\* The phases in a story's files are phases it may be in; until it is first written,
\* migrated or edited its files are as they were; and while nobody dies or edits and
\* nobody writes it, its entries are those of its row.
StoryFits(s) ==
  /\ Row(s) # None => PhaseFor(sprint[Row(s)]) \in may[s] \cup {None}
  /\ \A sp \in Spellings : phases[<<s, sp>>] # None => phases[<<s, sp>>] \in may[s]
  /\ edits = 0 /\ Canon(s) = None =>
       /\ \A sp \in Spellings : phases[<<s, sp>>] = InitialPhases[<<s, sp>>]
       /\ Row(s) # None => sprint[Row(s)] = InitialSprint[Row(s)]
  /\ crashes + edits = 0 /\ Row(s) # None /\ ~ Writing(s) =>
       \A sp \in Spellings : phases[<<s, sp>>] \in {None, PhaseFor(sprint[Row(s)])}

\* A writer about to write the row has left one entry of the story.
WriterOk(w, ps) ==
  /\ w \in WriterStates
  /\ Consistent(w.write.status, w.write.phase)
  /\ w.at = "row" => \A sp \in Spellings :
       ps[<<w.key[1], sp>>] = IF sp = "id" THEN w.write.phase ELSE None

Readers ==
  [at : {"sprint", "store", "snapshot", "migrate", "resolve"}, key : Keys,
   observe : BOOLEAN, attempts : 1..MaxAttempts, sm : 0..MaxTime, pm : 0..MaxTime,
   row : [row : Keys \cup {None}, status : KnownStatuses \cup {None}], seen : SUBSET Phases]

\* What was read of the row of story s: a status the story had while the read ran
\* (seen), and may still have unless a phase has been stored since.  The story may be
\* in the phases m, c is stored under its canonical key, and there were e edits.
RowOk(found, s, seen, m, c, e) ==
  /\ found.row = Row(s)
  /\ Row(s) # None =>
       /\ found.status \in KnownStatuses
       /\ PhaseFor(found.status) \in seen \cup {None}
       /\ PhaseFor(found.status) \in m \cup {None} \/ c # None
       /\ e = 0 /\ c = None => found.status = InitialSprint[Row(s)]

ReaderOk(r, m, c, e) ==
  /\ r \in Readers
  /\ r.key[2] \in ReadSpellings
  /\ m \subseteq r.seen
  /\ r.at # "sprint" => RowOk(r.row, r.key[1], r.seen, m, c, e)
  /\ r.at = "migrate" => Row(r.key[1]) # None /\ PhaseFor(r.row.status) # None

AnswerOk(r) == r \in Answers /\ (~ r.repair => r.phase \in r.seen)

JobOk(j, ps, ms, e) ==
  \/ j = Idle
  \/ WriterOk(j, ps)
  \/ ReaderOk(j, ms[j.key[1]], ps[<<j.key[1], "id">>], e)
  \/ AnswerOk(j)

JobsFit ==
  /\ proc = [p \in Procs |-> proc[p]]
  /\ holder \in Procs \cup {None}
  /\ \A p \in Procs : JobOk(proc[p], phases, may, edits)
  /\ \A p \in Procs : holder = p <=> proc[p].at \in {"phase", "row"}

DInv == FilesFit /\ (\A s \in Stories : StoryFits(s)) /\ JobsFit

(* ---- the rows and the entries of a story ---- *)

LEMMA KeyFacts ==
  /\ "id" \in Spellings
  /\ \A k \in Keys : k[1] \in Stories /\ k[2] \in Spellings /\ k = <<k[1], k[2]>>
  /\ \A s \in Stories, sp \in Spellings :
       <<s, sp>> \in Keys /\ <<s, sp>>[1] = s /\ <<s, sp>>[2] = sp
  /\ None \notin Keys
BY NoneAssumption DEF Keys, Spellings

\* With one row per story every spelling finds it, in any file with those rows.
LEMMA RowIs ==
  ASSUME Tidy, NEW file, NEW k \in Keys,
         \A m \in Keys : file[m] = None <=> InitialSprint[m] = None
  PROVE  /\ RowKey(file, k) = Row(k[1]) /\ WriteKey(file, k) = Row(k[1])
         /\ Row(k[1]) = None => \A sp \in Spellings : file[<<k[1], sp>>] = None
         /\ Row(k[1]) # None => Row(k[1]) \in Keys /\ Row(k[1])[1] = k[1] /\ file[Row(k[1])] # None
         /\ SprintGet(file, k) = [row |-> Row(k[1]),
                                  status |-> IF Row(k[1]) = None THEN None ELSE file[Row(k[1])]]
<1> DEFINE s == k[1]
<1>1. s \in Stories /\ k = <<s, k[2]>> /\ k[2] \in Spellings /\ None \notin Keys
  BY KeyFacts
<1>2. \A sp \in Spellings : <<s, sp>> \in Keys /\ <<s, sp>>[1] = s /\ <<s, sp>>[2] = sp
  BY <1>1, KeyFacts
<1>3. \A sp, sq \in Spellings : file[<<s, sp>>] # None /\ file[<<s, sq>>] # None => sp = sq
  BY <1>2 DEF Tidy
<1>4. ASSUME NEW f, NEW m \in Keys, m[1] = s, \A x \in Keys : f[x] = None <=> file[x] = None
      PROVE  /\ \A sp \in Spellings : file[<<s, sp>>] # None => RowKey(f, m) = <<s, sp>>
             /\ (\A sp \in Spellings : file[<<s, sp>>] = None) => RowKey(f, m) = None
  <2>1. m = <<s, m[2]>> /\ m[2] \in Spellings
    BY <1>4, KeyFacts
  <2>2. \A sp \in Spellings : f[<<s, sp>>] = None <=> file[<<s, sp>>] = None
    BY <1>2, <1>4
  <2> QED BY <1>3, <2>1, <2>2, <1>4 DEF RowKey, Spellings
<1>5. <<s, "id">> \in Keys /\ <<s, "id">>[1] = s
  BY <1>2 DEF Spellings
<1>6. /\ \A sp \in Spellings : file[<<s, sp>>] # None => Row(s) = <<s, sp>> /\ RowKey(file, k) = <<s, sp>>
      /\ (\A sp \in Spellings : file[<<s, sp>>] = None) => Row(s) = None /\ RowKey(file, k) = None
  BY <1>4, <1>5 DEF Row
<1>7. RowKey(file, k) = Row(s)
  BY <1>6
<1>8. WriteKey(file, k) = Row(s)
  BY <1>1, <1>6, <1>7 DEF WriteKey
<1>9. /\ Row(s) = None => \A sp \in Spellings : file[<<s, sp>>] = None
      /\ Row(s) # None => Row(s) \in Keys /\ Row(s)[1] = s /\ file[Row(s)] # None
  BY <1>1, <1>2, <1>6
<1> QED BY <1>7, <1>8, <1>9 DEF SprintGet

LEMMA NowRow ==
  ASSUME Tidy, FilesFit, NEW k \in Keys
  PROVE  /\ RowKey(sprint, k) = Row(k[1]) /\ WriteKey(sprint, k) = Row(k[1])
         /\ SprintGet(sprint, k).row = Row(k[1])
         /\ Row(k[1]) = None => SprintGet(sprint, k).status = None
         /\ Row(k[1]) # None =>
              /\ Row(k[1]) \in Keys /\ Row(k[1])[1] = k[1]
              /\ SprintGet(sprint, k).status = sprint[Row(k[1])]
              /\ sprint[Row(k[1])] \in KnownStatuses
         /\ SprintGet(sprint, k) \in [row : Keys \cup {None}, status : KnownStatuses \cup {None}]
<1>1. \A m \in Keys : sprint[m] = None <=> InitialSprint[m] = None
  BY DEF FilesFit
<1>2. /\ RowKey(sprint, k) = Row(k[1]) /\ WriteKey(sprint, k) = Row(k[1])
      /\ Row(k[1]) # None => Row(k[1]) \in Keys /\ Row(k[1])[1] = k[1] /\ sprint[Row(k[1])] # None
      /\ SprintGet(sprint, k) = [row |-> Row(k[1]),
                                 status |-> IF Row(k[1]) = None THEN None ELSE sprint[Row(k[1])]]
  BY <1>1, RowIs
<1>3. Row(k[1]) # None => sprint[Row(k[1])] \in KnownStatuses
  BY <1>2 DEF FilesFit
<1> QED BY <1>2, <1>3

\* The entry a lookup finds is one of the story's, and it finds the canonical one.
LEMMA StoredIs ==
  ASSUME Tidy, FilesFit, NEW k \in Keys, NEW found, found.row = Row(k[1])
  PROVE  LET stored == StoredPhase(phases, found, k) IN
         /\ \E sp \in Spellings : stored = phases[<<k[1], sp>>]
         /\ stored \in KnownPhases \cup {None}
         /\ k[2] \in ReadSpellings \cup {"id"} /\ Row(k[1]) # None /\ stored = None => Canon(k[1]) = None
<1>1. /\ k[1] \in Stories /\ k = <<k[1], k[2]>> /\ k[2] \in Spellings /\ "id" \in Spellings
      /\ <<k[1], "id">> \in Keys
  BY KeyFacts
<1>2. Row(k[1]) # None => Row(k[1]) \in Keys /\ Row(k[1])[1] = k[1]
  BY NowRow
<1>3. Row(k[1]) # None => Row(k[1]) = <<k[1], Row(k[1])[2]>> /\ Row(k[1])[2] \in Spellings
  BY <1>2, KeyFacts
<1>4. \E sp \in Spellings : StoredPhase(phases, found, k) = phases[<<k[1], sp>>]
  BY <1>1, <1>3 DEF StoredPhase
<1>5. StoredPhase(phases, found, k) \in KnownPhases \cup {None}
  BY <1>1, <1>4, KeyFacts DEF FilesFit
<1>6. ASSUME k[2] \in ReadSpellings \cup {"id"}, Row(k[1]) # None,
             StoredPhase(phases, found, k) = None
      PROVE  Canon(k[1]) = None
  <2>1. phases[k] = None /\ phases[Row(k[1])] = None
    BY <1>6 DEF StoredPhase
  <2>2. CASE k[2] = "id"
    BY <1>1, <2>1, <2>2 DEF Canon
  <2>3. CASE k[2] \in ReadSpellings /\ k[2] # "id"
    <3>1. RowKey(InitialSprint, <<k[1], k[2]>>) \in {None, <<k[1], "id">>}
      BY <1>1, <2>3 DEF Tidy
    <3>2. RowKey(InitialSprint, k) = Row(k[1])
      BY RowIs
    <3> QED BY <1>1, <1>6, <2>1, <3>1, <3>2 DEF Canon
  <2> QED BY <1>6, <2>2, <2>3
<1> QED BY <1>4, <1>5, <1>6

LEMMA RewriteIs ==
  ASSUME FilesFit, NEW k \in Keys, NEW ph \in KnownPhases, phases' = RewritePhase(phases, k, ph)
  PROVE  /\ phases' \in [Keys -> KnownPhases \cup {None}]
         /\ phases'[<<k[1], "id">>] = ph
         /\ \A sp \in Spellings : phases'[<<k[1], sp>>] = IF sp = "id" THEN ph ELSE None
         /\ \A m \in Keys : m[1] # k[1] => phases'[m] = phases[m]
         /\ \A m \in Keys : m[1] = k[1] => phases'[m] \in {None, ph}
<1>1. \A m \in Keys : phases'[m] = IF m = <<k[1], "id">> THEN ph
                                   ELSE IF m[1] = k[1] THEN None ELSE phases[m]
  BY DEF RewritePhase, CanonicalKey
<1>2. phases' \in [Keys -> KnownPhases \cup {None}]
  BY DEF RewritePhase, CanonicalKey, FilesFit
<1> QED BY <1>1, <1>2, KeyFacts
(* ---- what a step leaves alone ---- *)

LEMMA StoryStays ==
  ASSUME Tidy, FilesFit, NEW x \in Stories, StoryFits(x),
         \A k \in Keys : k[1] = x => sprint'[k] = sprint[k] /\ phases'[k] = phases[k],
         may'[x] = may[x], edits' = 0 => edits = 0, crashes' + edits' = 0 => crashes + edits = 0,
         crashes' + edits' = 0 /\ Writing(x) => Writing(x)'
  PROVE  StoryFits(x)'
<1>1. /\ \A sp \in Spellings : <<x, sp>> \in Keys /\ <<x, sp>>[1] = x
      /\ "id" \in Spellings
  BY KeyFacts
<1>2. Row(x) # None => Row(x) \in Keys /\ Row(x)[1] = x
  BY <1>1, NowRow
<1>3. /\ Row(x)' = Row(x) /\ Canon(x)' = Canon(x)
      /\ Row(x) # None => sprint'[Row(x)] = sprint[Row(x)]
      /\ \A sp \in Spellings : phases'[<<x, sp>>] = phases[<<x, sp>>]
  BY <1>1, <1>2 DEF Row, Canon
<1> QED BY <1>3 DEF StoryFits

\* A job stays fit when the stories move on: phases are added only with the readers'
\* knowledge, and taken away only once one is stored.
LEMMA JobStays ==
  ASSUME NEW j, NEW ps, NEW ms, NEW e, NEW qs, NEW ns, NEW d, JobOk(j, ps, ms, e),
         \A s \in Stories :
           /\ ns[s] \subseteq ms[s]
           /\ ps[<<s, "id">>] # None => qs[<<s, "id">>] # None
           /\ ms[s] \subseteq ns[s] \/ qs[<<s, "id">>] # None,
         d = 0 => e = 0,
         j.at = "row" => \A sp \in Spellings : qs[<<j.key[1], sp>>] = ps[<<j.key[1], sp>>]
  PROVE  JobOk(j, qs, ns, d)
<1>1. CASE WriterOk(j, ps)
  BY <1>1 DEF WriterOk, JobOk
<1>2. CASE ReaderOk(j, ms[j.key[1]], ps[<<j.key[1], "id">>], e)
  <2>1. j.key[1] \in Stories
    BY <1>2, KeyFacts DEF ReaderOk, Readers
  <2>2. ReaderOk(j, ns[j.key[1]], qs[<<j.key[1], "id">>], d)
    BY <1>2, <2>1 DEF ReaderOk, RowOk
  <2> QED BY <2>2 DEF JobOk
<1> QED BY <1>1, <1>2 DEF JobOk

\* What SeenBy does to one job.
Sees(j, s, ps) ==
  IF "seen" \in DOMAIN j /\ j.key[1] = s /\ j.at # "answer" THEN [j EXCEPT !.seen = @ \cup ps] ELSE j

LEMMA JobSees ==
  ASSUME NEW j, NEW ps, NEW ms, NEW e, NEW qs, NEW ns, NEW d, JobOk(j, ps, ms, e),
         NEW s, NEW new \in SUBSET Phases,
         \A x \in Stories :
           /\ x # s => ns[x] \subseteq ms[x]
           /\ ns[s] \subseteq ms[s] \cup new
           /\ ps[<<x, "id">>] # None => qs[<<x, "id">>] # None
           /\ ms[x] \subseteq ns[x] \/ qs[<<x, "id">>] # None,
         d = 0 => e = 0,
         j.at = "row" => \A sp \in Spellings : qs[<<j.key[1], sp>>] = ps[<<j.key[1], sp>>]
  PROVE  /\ JobOk(Sees(j, s, new), qs, ns, d) /\ Sees(j, s, new).at = j.at
         /\ j.at = "row" => Sees(j, s, new) = j
<1>1. CASE j = Idle
  BY <1>1 DEF JobOk, Sees, Idle
<1>2. CASE WriterOk(j, ps)
  <2>1. Sees(j, s, new) = j
    BY <1>2 DEF WriterOk, WriterStates, Sees
  <2> QED BY <1>2, <2>1 DEF WriterOk, JobOk
<1>3. CASE AnswerOk(j)
  <2>1. Sees(j, s, new) = j /\ j.at = "answer"
    BY <1>3 DEF AnswerOk, Answers, Sees
  <2> QED BY <1>3, <2>1 DEF JobOk
<1>4. CASE ReaderOk(j, ms[j.key[1]], ps[<<j.key[1], "id">>], e)
  <2>1. j \in Readers /\ j.key[1] \in Stories /\ j.at \notin {"row", "answer"} /\ "seen" \in DOMAIN j
    BY <1>4, KeyFacts DEF ReaderOk, Readers
  <2> DEFINE i == Sees(j, s, new)
  <2>2. /\ i \in Readers /\ i.at = j.at /\ i.key = j.key /\ i.row = j.row
        /\ j.seen \subseteq i.seen /\ (j.key[1] = s => i.seen = j.seen \cup new)
    <3>1. CASE j.key[1] = s
      <4>1. i = [j EXCEPT !.seen = j.seen \cup new]
        BY <2>1, <3>1 DEF Sees
      <4> HIDE DEF i
      <4> QED BY <2>1, <4>1 DEF Readers
    <3>2. CASE j.key[1] # s
      BY <2>1, <3>2 DEF Sees
    <3> QED BY <3>1, <3>2
  <2> HIDE DEF i
  <2>3. ns[j.key[1]] \subseteq i.seen
    BY <1>4, <2>1, <2>2 DEF ReaderOk
  <2>4. ReaderOk(i, ns[j.key[1]], qs[<<j.key[1], "id">>], d)
    BY <1>4, <2>1, <2>2, <2>3 DEF ReaderOk, RowOk
  <2> QED BY <2>1, <2>2, <2>4 DEF JobOk, i
<1> QED BY <1>1, <1>2, <1>3, <1>4 DEF JobOk

ReaderPlaces == {"sprint", "store", "snapshot", "migrate", "resolve"}

LEMMA JobKinds ==
  ASSUME DInv, NEW p \in Procs
  PROVE  /\ proc[p].at \in {"lock", "phase", "row"} => WriterOk(proc[p], phases)
         /\ proc[p].at \in ReaderPlaces =>
              ReaderOk(proc[p], may[proc[p].key[1]], Canon(proc[p].key[1]), edits)
         /\ proc[p].at \in {"idle", "lock", "phase", "row", "answer"} \cup ReaderPlaces
<1>1. JobOk(proc[p], phases, may, edits)
  BY DEF DInv, JobsFit
<1>2. Idle.at = "idle"
  BY DEF Idle
<1>3. WriterOk(proc[p], phases) => proc[p].at \in {"lock", "phase", "row"}
  BY DEF WriterOk, WriterStates
<1>4. ReaderOk(proc[p], may[proc[p].key[1]], phases[<<proc[p].key[1], "id">>], edits) =>
        proc[p].at \in ReaderPlaces
  BY DEF ReaderOk, Readers, ReaderPlaces
<1>5. AnswerOk(proc[p]) => proc[p].at = "answer"
  BY DEF AnswerOk, Answers
<1> QED BY <1>1, <1>2, <1>3, <1>4, <1>5 DEF JobOk, Canon, ReaderPlaces

\* One process takes up another job, and the files stay.
LEMMA JobStep ==
  ASSUME Tidy, DInv, NEW p \in Procs, NEW j, Step(p, j), JobOk(j, phases, may, edits),
         UNCHANGED <<files, now, edits, may>>, j.at # "row", proc[p].at # "row" \/ crashes' # 0,
         crashes' \in Nat, crashes' >= crashes, crashes' + edits <= MaxFaults,
         holder' \in Procs \cup {None}, holder' = p <=> j.at = "phase",
         \A q \in Procs \ {p} : holder' = q <=> holder = q
  PROVE  DInv'
<1>1. /\ proc' = [q \in Procs |-> proc'[q]] /\ proc'[p] = j
      /\ \A q \in Procs \ {p} : proc'[q] = proc[q]
  BY DEF Step, DInv, JobsFit
<1>2. UNCHANGED <<sprint, stime, phases, ptime>>
  BY DEF files
<1>3. FilesFit'
  BY <1>2 DEF DInv, FilesFit
<1>4. ASSUME NEW x \in Stories PROVE StoryFits(x)'
  <2>1. crashes' + edits' = 0 => crashes + edits = 0 /\ crashes' = 0
    BY DEF DInv, FilesFit
  <2>2. crashes' + edits' = 0 /\ Writing(x) => Writing(x)'
    BY <1>1, <2>1 DEF Writing, At
  <2> QED BY <1>2, <2>1, <2>2, StoryStays DEF DInv
<1>5. JobsFit'
  <2>1. \A q \in Procs : JobOk(proc'[q], phases, may, edits)
    BY <1>1 DEF DInv, JobsFit
  <2>2. \A q \in Procs : JobOk(proc'[q], phases', may', edits')
    BY <1>2, <2>1
  <2>3. \A q \in Procs : holder' = q <=> proc'[q].at \in {"phase", "row"}
    BY <1>1 DEF DInv, JobsFit
  <2> QED BY <1>1, <2>2, <2>3 DEF JobsFit
<1> QED BY <1>3, <1>4, <1>5 DEF DInv

\* The same for a step that has nothing to do with the lock.
LEMMA FreeStep ==
  ASSUME Tidy, DInv, NEW p \in Procs, NEW j, Step(p, j), JobOk(j, phases, may, edits),
         UNCHANGED <<files, now, holder, crashes, edits, may>>,
         j.at \notin {"phase", "row"}, proc[p].at \notin {"phase", "row"}
  PROVE  DInv'
<1>1. crashes' = crashes /\ crashes \in Nat /\ crashes + edits <= MaxFaults /\ holder' = holder
  BY DEF DInv, FilesFit
<1>2. holder \in Procs \cup {None} /\ holder # p /\ UNCHANGED <<files, now, edits, may>>
  BY DEF DInv, JobsFit
<1> QED BY <1>1, <1>2, JobStep

LEMMA IdleStep ==
  ASSUME Tidy, DInv, NEW p \in Procs, Step(p, Idle), proc[p].at \notin {"phase", "row"},
         UNCHANGED <<files, now, holder, crashes, edits, may>>
  PROVE  DInv'
<1>1. Idle.at = "idle" /\ JobOk(Idle, phases, may, edits)
  BY DEF Idle, JobOk
<1> QED BY <1>1, FreeStep

\* An answer is typed, and one that asks for no repair was seen.
LEMMA AnswerIs ==
  ASSUME Tidy, DInv, NEW p \in Procs, proc[p].at \in ReaderPlaces,
         NEW st \in KnownStatuses \cup {None}, NEW ph \in Phases, NEW rep \in BOOLEAN,
         ~ rep => ph \in proc[p].seen, NEW j,
         j = [at |-> "answer", key |-> proc[p].key, status |-> st, phase |-> ph,
              repair |-> rep, seen |-> proc[p].seen]
  PROVE  AnswerOk(j) /\ j.at = "answer"
<1>1. proc[p] \in Readers
  BY JobKinds DEF ReaderOk
<1>2. proc[p].key \in Keys /\ proc[p].seen \in SUBSET Phases /\ st \in Statuses \cup {None}
  BY <1>1, KnownIsClosed DEF Readers
<1> QED BY <1>2 DEF AnswerOk, Answers

LEMMA AnswerStep ==
  ASSUME Tidy, DInv, NEW p \in Procs, proc[p].at \in ReaderPlaces,
         NEW st \in KnownStatuses \cup {None}, NEW ph \in Phases, NEW rep \in BOOLEAN,
         ~ rep => ph \in proc[p].seen, Answer(p, st, ph, rep),
         UNCHANGED <<files, now, holder, crashes, edits, may>>
  PROVE  DInv'
<1>1. PICK j : /\ j = [at |-> "answer", key |-> proc[p].key, status |-> st, phase |-> ph,
                       repair |-> rep, seen |-> proc[p].seen]
               /\ Step(p, j)
  BY DEF Answer
<1>2. AnswerOk(j) /\ j.at = "answer"
  BY <1>1, AnswerIs
<1>3. JobOk(j, phases, may, edits)
  BY <1>2 DEF JobOk
<1>4. proc[p].at \notin {"phase", "row"}
  BY DEF ReaderPlaces
<1> QED BY <1>1, <1>2, <1>3, <1>4, FreeStep

\* What a reader finds in the file now.
LEMMA FreshRow ==
  ASSUME Tidy, DInv, NEW k \in Keys, NEW seen, may[k[1]] \subseteq seen
  PROVE  /\ RowOk(SprintGet(sprint, k), k[1], seen, may[k[1]], Canon(k[1]), edits)
         /\ SprintGet(sprint, k) \in [row : Keys \cup {None}, status : KnownStatuses \cup {None}]
<1>1. k[1] \in Stories /\ StoryFits(k[1])
  BY KeyFacts DEF DInv
<1> QED BY <1>1, NowRow DEF RowOk, StoryFits, DInv

(* ---- writers ---- *)

\* A process that holds the lock, or finds it free, changes the files of the story it
\* is about, and lets go.
LEMMA WriteStep ==
  ASSUME Tidy, DInv, NEW p \in Procs, NEW j, Step(p, j), holder \in {None, p}, holder' = None,
         j.at \notin {"phase", "row"}, JobOk(j, phases', may', edits),
         NEW s \in Stories, proc[p].key[1] = s, FilesFit', StoryFits(s)',
         \A k \in Keys : k[1] # s => sprint'[k] = sprint[k] /\ phases'[k] = phases[k],
         \A x \in Stories \ {s} : may'[x] = may[x],
         may'[s] \subseteq may[s], Canon(s) # None => Canon(s)' # None,
         may[s] \subseteq may'[s] \/ Canon(s)' # None, UNCHANGED <<crashes, edits>>
  PROVE  DInv'
<1>1. /\ proc' = [q \in Procs |-> proc'[q]] /\ proc'[p] = j
      /\ \A q \in Procs \ {p} : proc'[q] = proc[q] /\ proc[q].at \notin {"phase", "row"}
  BY ProcsHaveNoNone DEF Step, DInv, JobsFit
<1>2. ASSUME NEW x \in Stories PROVE StoryFits(x)'
  <2>1. CASE x # s
    <3>1. Writing(x) => Writing(x)'
      BY <1>1, <2>1 DEF Writing, At
    <3> QED BY <2>1, <3>1, StoryStays DEF DInv
  <2> QED BY <2>1
<1>3. \A x \in Stories : <<x, "id">> \in Keys /\ <<x, "id">>[1] = x
  BY KeyFacts
<1>4. \A x \in Stories :
        /\ may'[x] \subseteq may[x]
        /\ phases[<<x, "id">>] # None => phases'[<<x, "id">>] # None
        /\ may[x] \subseteq may'[x] \/ phases'[<<x, "id">>] # None
  BY <1>3 DEF Canon
<1>5. ASSUME NEW q \in Procs PROVE JobOk(proc'[q], phases', may', edits)
  <2>1. CASE q # p
    <3>1. JobOk(proc[q], phases, may, edits) /\ proc[q].at # "row" /\ proc'[q] = proc[q]
      BY <1>1, <2>1 DEF DInv, JobsFit
    <3> QED BY <1>4, <3>1, JobStays
  <2> QED BY <1>1, <2>1
<1>6. JobsFit'
  BY <1>1, <1>5, ProcsHaveNoNone DEF JobsFit
<1> QED BY <1>2, <1>6 DEF DInv

LEMMA StartWriteKeeps == ASSUME Tidy, DInv, NEW p \in Procs, StartWrite(p) PROVE DInv'
<1>1. PICK s \in Stories, sp \in WriteSpellings : \E w \in Writes[s] :
        /\ Consistent(w.status, w.phase)
        /\ Step(p, [at |-> "lock", key |-> <<s, sp>>, write |-> w])
  BY DEF StartWrite
<1>2. PICK w \in Writes[s] : /\ Consistent(w.status, w.phase)
                             /\ Step(p, [at |-> "lock", key |-> <<s, sp>>, write |-> w])
  BY <1>1
<1>3. PICK j : j = [at |-> "lock", key |-> <<s, sp>>, write |-> w] /\ Step(p, j)
  BY <1>2
<1>4. <<s, sp>> \in Keys /\ w \in AllWrites
  BY SpellingsAssumption, KeyFacts DEF AllWrites
<1>5. JobOk(j, phases, may, edits) /\ j.at = "lock"
  BY <1>2, <1>3, <1>4 DEF JobOk, WriterOk, WriterStates
<1> QED BY <1>3, <1>5, FreeStep DEF StartWrite, At

LEMMA LockKeeps == ASSUME Tidy, DInv, NEW p \in Procs, Lock(p) \/ LockTimeout(p) PROVE DInv'
<1>1. CASE Lock(p)
  <2> DEFINE j == [proc[p] EXCEPT !.at = "phase"]
  <2>1. WriterOk(proc[p], phases)
    BY <1>1, JobKinds DEF Lock, At
  <2>2. JobOk(j, phases, may, edits) /\ j.at = "phase"
    BY <2>1 DEF JobOk, WriterOk, WriterStates
  <2>3. /\ proc[p].at = "lock" /\ Step(p, j) /\ holder = None /\ holder' = p
        /\ UNCHANGED <<files, now, crashes, edits, may>>
    BY <1>1 DEF Lock, At
  <2>4. crashes \in Nat /\ crashes + edits <= MaxFaults
    BY DEF DInv, FilesFit
  <2> HIDE DEF j
  <2> QED BY <2>2, <2>3, <2>4, ProcsHaveNoNone, JobStep
<1>2. CASE LockTimeout(p)
  BY <1>2, IdleStep DEF LockTimeout, At
<1> QED BY <1>1, <1>2

LEMMA CrashKeeps == ASSUME Tidy, DInv, NEW p \in Procs, Crash(p) PROVE DInv'
<1>1. /\ crashes + edits < MaxFaults /\ crashes' = crashes + 1 /\ holder' = None
      /\ proc[p].at \in {"row", "phase"} /\ Step(p, Idle)
      /\ UNCHANGED <<files, now, edits, may>>
  BY DEF Crash, At
<1>2. crashes \in Nat /\ edits \in Nat /\ MaxFaults \in Nat
  BY BoundsAreNat DEF DInv, FilesFit
<1>3. crashes' \in Nat /\ crashes' >= crashes /\ crashes' # 0 /\ crashes' + edits <= MaxFaults
  BY <1>1, <1>2
<1>4. JobOk(Idle, phases, may, edits) /\ Idle.at = "idle"
  BY DEF JobOk, Idle
<1>5. \A q \in Procs \ {p} : holder # q /\ holder' # q
  BY <1>1, ProcsHaveNoNone DEF DInv, JobsFit
<1> QED BY <1>1, <1>3, <1>4, <1>5, ProcsHaveNoNone, JobStep

LEMMA WritePhaseKeeps == ASSUME Tidy, DInv, NEW p \in Procs, WritePhase(p) PROVE DInv'
<1>0. proc[p].at = "phase" /\ WriterOk(proc[p], phases)
  BY JobKinds DEF WritePhase, At
<1>a. PICK w \in WriterStates : w = proc[p]
  BY <1>0 DEF WriterOk
<1>b. PICK s \in Stories : s = w.key[1]
  BY KeyFacts DEF WriterStates
<1>c. PICK ph \in KnownPhases : ph = w.write.phase
  BY <1>0, <1>a, KnownIsClosed DEF WriterOk, WriterStates
<1>d. PICK pr : pr = [proc EXCEPT ![p].at = "row"]
  OBVIOUS
<1>1. w.at = "phase" /\ WriterOk(w, phases) /\ w.key \in Keys /\ ph \in Phases /\ ph # None
  BY <1>0, <1>a, KnownIsClosed DEF WriterStates
<1>2. /\ phases' = RewritePhase(phases, w.key, ph) /\ ptime' = now
      /\ may' = [may EXCEPT ![s] = @ \cup {ph}] /\ proc' = SeenBy(pr, s, {ph})
      /\ UNCHANGED <<sprint, stime, now, holder, crashes, edits>>
  BY <1>a, <1>b, <1>c, <1>d DEF WritePhase
<1>3. /\ phases' \in [Keys -> KnownPhases \cup {None}]
      /\ phases'[<<s, "id">>] = ph
      /\ \A sp \in Spellings : phases'[<<s, sp>>] = IF sp = "id" THEN ph ELSE None
      /\ \A m \in Keys : m[1] # s => phases'[m] = phases[m]
  BY <1>b, <1>1, <1>2, RewriteIs DEF DInv
<1>4. holder = p /\ \A q \in Procs \ {p} : proc[q].at \notin {"phase", "row"}
  BY <1>0 DEF DInv, JobsFit
<1>5. /\ may' \in [Stories -> SUBSET Phases] /\ may'[s] = may[s] \cup {ph}
      /\ \A x \in Stories \ {s} : may'[x] = may[x]
  BY <1>1, <1>2 DEF DInv, FilesFit
<1>6. pr[p] = [w EXCEPT !.at = "row"] /\ \A q \in Procs \ {p} : pr[q] = proc[q]
  BY <1>a, <1>d DEF DInv, JobsFit
<1>7. /\ proc' = [q \in Procs |-> proc'[q]]
      /\ \A q \in Procs : proc'[q] = Sees(pr[q], s, {ph})
  BY <1>2 DEF SeenBy, Sees
<1>8. PICK i \in WriterStates : /\ i = proc'[p] /\ i.at = "row" /\ i.key = w.key
                                /\ i.write = w.write
  <2>1. pr[p] \in WriterStates /\ pr[p].at = "row" /\ pr[p].key = w.key /\ pr[p].write = w.write
    BY <1>6 DEF WriterStates
  <2>2. proc'[p] = pr[p]
    BY <1>7, <2>1 DEF Sees, WriterStates
  <2> QED BY <2>1, <2>2
<1>9. WriterOk(proc'[p], phases')
  BY <1>b, <1>c, <1>1, <1>3, <1>8 DEF WriterOk
<1>10. \A x \in Stories : <<x, "id">> \in Keys /\ <<x, "id">>[1] = x
  BY KeyFacts
<1>11. \A x \in Stories :
         /\ x # s => may'[x] \subseteq may[x]
         /\ may'[s] \subseteq may[s] \cup {ph}
         /\ phases[<<x, "id">>] # None => phases'[<<x, "id">>] # None
         /\ may[x] \subseteq may'[x] \/ phases'[<<x, "id">>] # None
  BY <1>1, <1>3, <1>5, <1>10
<1>12. ASSUME NEW q \in Procs \ {p}
       PROVE  JobOk(proc'[q], phases', may', edits') /\ proc'[q].at = proc[q].at
  <2>1. JobOk(proc[q], phases, may, edits) /\ proc[q].at # "row" /\ proc'[q] = Sees(proc[q], s, {ph})
    BY <1>4, <1>6, <1>7 DEF DInv, JobsFit
  <2>2. (edits' = 0 => edits = 0) /\ {ph} \in SUBSET Phases
    BY <1>1, <1>2
  <2>3. /\ JobOk(Sees(proc[q], s, {ph}), phases', may', edits')
        /\ Sees(proc[q], s, {ph}).at = proc[q].at
    BY <1>11, <2>1, <2>2, JobSees
  <2> QED BY <2>1, <2>3
<1>13. JobsFit'
  BY <1>2, <1>4, <1>7, <1>8, <1>9, <1>12 DEF JobsFit, JobOk, DInv
<1>14. FilesFit'
  BY <1>2, <1>3, <1>5 DEF DInv, FilesFit
<1>15. StoryFits(s)'
  <2>1. Writing(s)'
    BY <1>b, <1>8 DEF Writing, At
  <2>2. Canon(s)' # None
    BY <1>1, <1>3 DEF Canon
  <2>3. Row(s) # None => PhaseFor(sprint[Row(s)]) \in may'[s] \cup {None}
    BY <1>1, <1>5 DEF DInv, StoryFits
  <2>4. \A sp \in Spellings : phases'[<<s, sp>>] # None => phases'[<<s, sp>>] \in may'[s]
    BY <1>3, <1>5
  <2> QED BY <1>2, <2>1, <2>2, <2>3, <2>4 DEF StoryFits, Row
<1>16. ASSUME NEW x \in Stories \ {s} PROVE StoryFits(x)'
  <2>1. ~Writing(x)
    BY <1>a, <1>b, <1>4 DEF Writing, At
  <2> QED BY <1>2, <1>3, <1>5, <2>1, StoryStays DEF DInv
<1> QED BY <1>13, <1>14, <1>15, <1>16 DEF DInv

LEMMA WriteRowKeeps == ASSUME Tidy, DInv, NEW p \in Procs, WriteRow(p) PROVE DInv'
<1>0. proc[p].at = "row" /\ WriterOk(proc[p], phases)
  BY JobKinds DEF WriteRow, At
<1>a. PICK w \in WriterStates : w = proc[p]
  BY <1>0 DEF WriterOk
<1>b. PICK s \in Stories : s = w.key[1]
  BY KeyFacts DEF WriterStates
<1>1. /\ w.key \in Keys /\ w.write.status \in KnownStatuses /\ w.write.phase \in KnownPhases
      /\ PhaseFor(w.write.status) = w.write.phase /\ w.write.phase # None
      /\ w.write.status # None
      /\ \A sp \in Spellings : phases[<<s, sp>>] = IF sp = "id" THEN w.write.phase ELSE None
  BY <1>0, <1>a, <1>b, KnownIsClosed, ConsistentIs DEF WriterOk, WriterStates
<1>2. PICK next : next = IF Row(s) = None THEN sprint ELSE [sprint EXCEPT ![Row(s)] = w.write.status]
  OBVIOUS
<1>3. PICK ok \in BOOLEAN : ok = (SprintGet(next, w.key).status = w.write.status)
  OBVIOUS
<1>4. /\ sprint' = next /\ stime' = IF Row(s) = None THEN stime ELSE now
      /\ may' = [may EXCEPT ![s] = IF ok THEN {w.write.phase} ELSE @]
      /\ holder' = None /\ Step(p, Idle)
      /\ UNCHANGED <<phases, ptime, now, crashes, edits>>
  BY <1>a, <1>b, <1>1, <1>2, <1>3, NowRow DEF WriteRow, DInv
<1>5. /\ Row(s) # None => Row(s) \in Keys /\ Row(s)[1] = s /\ sprint[Row(s)] # None
      /\ \A k \in Keys : k[1] # s => next[k] = sprint[k]
      /\ \A k \in Keys : next[k] = None <=> InitialSprint[k] = None
      /\ next \in [Keys -> KnownStatuses \cup {None}]
      /\ Row(s) # None => next[Row(s)] = w.write.status
  BY <1>b, <1>1, <1>2, NowRow, KnownIsClosed DEF DInv, FilesFit
<1>6. ok <=> Row(s) # None
  <2>1. SprintGet(next, w.key) = [row |-> Row(s), status |-> IF Row(s) = None THEN None ELSE next[Row(s)]]
    BY <1>b, <1>1, <1>5, RowIs
  <2>2. Row(s) = None => SprintGet(next, w.key).status = None
    BY <2>1
  <2>3. Row(s) # None => SprintGet(next, w.key).status = w.write.status
    BY <1>5, <2>1
  <2> QED BY <1>1, <1>3, <2>2, <2>3
<1>7. w.write.phase \in may[s] /\ "id" \in Spellings
  BY <1>1, KeyFacts DEF DInv, StoryFits
<1>8. /\ may' \in [Stories -> SUBSET Phases] /\ \A x \in Stories \ {s} : may'[x] = may[x]
      /\ may'[s] \subseteq may[s] /\ w.write.phase \in may'[s]
      /\ Row(s) # None => may'[s] = {w.write.phase}
  BY <1>1, <1>4, <1>6, <1>7, KnownIsClosed DEF DInv, FilesFit
<1>9. FilesFit'
  BY <1>4, <1>5, <1>8 DEF DInv, FilesFit
<1>10. Canon(s) # None /\ Canon(s)' # None
  BY <1>1, <1>4, <1>7 DEF Canon
<1>11. StoryFits(s)'
  BY <1>1, <1>4, <1>5, <1>8, <1>10 DEF StoryFits, Row
<1>12. JobOk(Idle, phases', may', edits') /\ Idle.at = "idle"
  BY DEF JobOk, Idle
<1>13. holder = p
  BY <1>0 DEF DInv, JobsFit
<1>14. proc[p].key[1] = s /\ \A k \in Keys : k[1] # s => sprint'[k] = sprint[k] /\ phases'[k] = phases[k]
  BY <1>a, <1>b, <1>4, <1>5
<1>15. holder \in {None, p} /\ (may[s] \subseteq may'[s] \/ Canon(s)' # None)
  BY <1>10, <1>13
<1>16. Step(p, Idle) /\ holder' = None /\ UNCHANGED <<crashes, edits>> /\ Idle.at \notin {"phase", "row"}
  BY <1>4, <1>12
<1>17. may'[s] \subseteq may[s] /\ \A x \in Stories \ {s} : may'[x] = may[x]
  BY <1>8
<1> QED BY <1>9, <1>10, <1>11, <1>12, <1>14, <1>15, <1>16, <1>17, WriteStep

(* ---- readers ---- *)

LEMMA ReaderIs ==
  ASSUME Tidy, DInv, NEW p \in Procs, proc[p].at \in ReaderPlaces
  PROVE  /\ proc[p] \in Readers /\ proc[p].key \in Keys /\ proc[p].key[1] \in Stories
         /\ proc[p].key[2] \in ReadSpellings
         /\ StoryFits(proc[p].key[1])
         /\ may[proc[p].key[1]] \subseteq proc[p].seen
         /\ proc[p].at \notin {"idle", "phase", "row", "answer"}
         /\ proc[p].at # "sprint" =>
              /\ RowOk(proc[p].row, proc[p].key[1], proc[p].seen, may[proc[p].key[1]],
                       Canon(proc[p].key[1]), edits)
              /\ proc[p].row \in [row : Keys \cup {None}, status : KnownStatuses \cup {None}]
<1>1. ReaderOk(proc[p], may[proc[p].key[1]], Canon(proc[p].key[1]), edits)
  BY JobKinds
<1>2. proc[p] \in Readers
  BY <1>1 DEF ReaderOk
<1>3. proc[p].key \in Keys /\ proc[p].row \in [row : Keys \cup {None}, status : KnownStatuses \cup {None}]
  BY <1>2 DEF Readers
<1>4. proc[p].key[1] \in Stories /\ StoryFits(proc[p].key[1])
  BY <1>3, KeyFacts DEF DInv
<1>5. proc[p].at \notin {"idle", "phase", "row", "answer"}
  BY DEF ReaderPlaces
<1> QED BY <1>1, <1>2, <1>3, <1>4, <1>5 DEF ReaderOk

\* The phase found under a row is one the story may be in, and one the reader has seen.
LEMMA StoredIsSeen ==
  ASSUME Tidy, DInv, NEW p \in Procs, proc[p].at \in ReaderPlaces,
         NEW found, found.row = Row(proc[p].key[1]),
         NEW stored, stored = StoredPhase(phases, found, proc[p].key), stored # None
  PROVE  /\ stored \in KnownPhases /\ stored \in Phases
         /\ stored \in may[proc[p].key[1]] /\ stored \in proc[p].seen
<1>1. PICK sp \in Spellings : stored = phases[<<proc[p].key[1], sp>>]
  BY ReaderIs, StoredIs DEF DInv
<1>2. stored \in KnownPhases
  BY ReaderIs, StoredIs DEF DInv
<1>3. stored \in may[proc[p].key[1]]
  BY <1>1, ReaderIs DEF StoryFits
<1> QED BY <1>2, <1>3, ReaderIs, KnownIsClosed

LEMMA ReaderStep ==
  ASSUME Tidy, DInv, NEW p \in Procs, proc[p].at \in ReaderPlaces \cup {"idle"},
         NEW j, Step(p, j), j.at \in ReaderPlaces,
         ReaderOk(j, may[j.key[1]], Canon(j.key[1]), edits),
         UNCHANGED <<files, now, holder, crashes, edits, may>>
  PROVE  DInv'
<1>1. JobOk(j, phases, may, edits)
  BY DEF JobOk, Canon
<1>2. j.at \notin {"phase", "row"} /\ proc[p].at \notin {"phase", "row"}
  BY DEF ReaderPlaces
<1> QED BY <1>1, <1>2, FreeStep

LEMMA StartReadKeeps == ASSUME Tidy, DInv, NEW p \in Procs, StartRead(p) PROVE DInv'
<1>1. PICK s \in Stories, sp \in ReadSpellings, observe \in BOOLEAN :
        Step(p, Reader(<<s, sp>>, observe, 1, may[s]))
  BY DEF StartRead
<1>2. PICK j : j = Reader(<<s, sp>>, observe, 1, may[s])
  OBVIOUS
<1>3. <<s, sp>> \in Keys /\ <<s, sp>>[1] = s /\ <<s, sp>>[2] = sp
  BY SpellingsAssumption, KeyFacts
<1>4. stime \in 0..MaxTime /\ ptime \in 0..MaxTime /\ 1 \in 1..MaxAttempts /\ may[s] \in SUBSET Phases
  BY BoundsAreNat DEF DInv, FilesFit
<1>5. j \in Readers /\ j.at = "sprint" /\ j.key = <<s, sp>> /\ j.seen = may[s]
  BY <1>2, <1>3, <1>4 DEF Readers, Reader, NotRead
<1>6. ReaderOk(j, may[j.key[1]], Canon(j.key[1]), edits)
  BY <1>3, <1>5 DEF ReaderOk
<1> QED BY <1>1, <1>2, <1>5, <1>6, ReaderStep DEF StartRead, At, ReaderPlaces

LEMMA ReadSprintKeeps == ASSUME Tidy, DInv, NEW p \in Procs, ReadSprint(p) PROVE DInv'
<1>1. proc[p].at = "sprint" /\ proc[p].at \in ReaderPlaces
  BY DEF ReadSprint, At, ReaderPlaces
<1>2. PICK r \in Readers : r = proc[p]
  BY <1>1, ReaderIs
<1>3. PICK found : found = SprintGet(sprint, r.key)
  OBVIOUS
<1>4. PICK j : j = [r EXCEPT !.at = "store", !.row = found]
  OBVIOUS
<1>5. /\ RowOk(found, r.key[1], r.seen, may[r.key[1]], Canon(r.key[1]), edits)
      /\ found \in [row : Keys \cup {None}, status : KnownStatuses \cup {None}]
  BY <1>1, <1>2, <1>3, ReaderIs, FreshRow
<1>6. j \in Readers /\ j.at = "store" /\ j.row = found /\ j.key = r.key /\ j.seen = r.seen
  BY <1>4, <1>5 DEF Readers
<1>7. ReaderOk(j, may[j.key[1]], Canon(j.key[1]), edits)
  BY <1>1, <1>2, <1>5, <1>6, ReaderIs DEF ReaderOk
<1> QED BY <1>1, <1>2, <1>3, <1>4, <1>6, <1>7, ReaderStep DEF ReadSprint, ReaderPlaces

\* What a reader does with a row and the entry it finds for it.
LEMMA DecideKeeps ==
  ASSUME Tidy, DInv, NEW p \in Procs, proc[p].at \in ReaderPlaces,
         NEW found \in [row : Keys \cup {None}, status : KnownStatuses \cup {None}],
         RowOk(found, proc[p].key[1], proc[p].seen, may[proc[p].key[1]],
               Canon(proc[p].key[1]), edits),
         NEW stored, stored = StoredPhase(phases, found, proc[p].key),
         Decide(p, found, stored, proc[p]),
         UNCHANGED <<files, now, holder, crashes, edits, may>>
  PROVE  DInv'
<1>1. PICK r \in Readers : r = proc[p]
  BY ReaderIs
<1>2. /\ found.row = Row(r.key[1]) /\ found.status \in KnownStatuses \cup {None}
      /\ found.row # None => /\ found.status \in KnownStatuses
                             /\ PhaseFor(found.status) \in r.seen \cup {None}
  BY <1>1 DEF RowOk
<1>3. stored # None => stored \in Phases /\ stored \in r.seen
  BY <1>1, <1>2, StoredIsSeen
<1>4. CASE found.row = None
  <2>1. Step(p, Idle)
    BY <1>4 DEF Decide
  <2> QED BY <2>1, ReaderIs, IdleStep
<1>5. CASE found.row # None /\ stored # None /\ Consistent(found.status, stored)
  <2>1. Answer(p, found.status, stored, FALSE)
    BY <1>5 DEF Decide
  <2> QED BY <1>1, <1>2, <1>3, <1>5, <2>1, AnswerStep
<1>6. ASSUME found.row # None, NEW at \in {"resolve", "migrate"},
             Step(p, [r EXCEPT !.at = at, !.row = found]),
             at = "migrate" => PhaseFor(found.status) # None
      PROVE  DInv'
  <2>1. PICK j : j = [r EXCEPT !.at = at, !.row = found]
    OBVIOUS
  <2>2. j \in Readers /\ j.at = at /\ j.row = found /\ j.key = r.key /\ j.seen = r.seen
    BY <2>1 DEF Readers
  <2>3. ReaderOk(j, may[j.key[1]], Canon(j.key[1]), edits)
    BY <1>1, <1>2, <1>6, <2>2, ReaderIs DEF ReaderOk
  <2>4. j.at \in ReaderPlaces
    BY <2>2 DEF ReaderPlaces
  <2> QED BY <1>6, <2>1, <2>3, <2>4, ReaderStep
<1>7. CASE found.row # None /\ stored # None /\ ~ Consistent(found.status, stored)
  <2>1. Step(p, [r EXCEPT !.at = "resolve", !.row = found])
    BY <1>1, <1>7 DEF Decide
  <2> QED BY <1>6, <1>7, <2>1
<1>8. CASE found.row # None /\ stored = None
  <2>1. IF PhaseFor(found.status) = None THEN Answer(p, found.status, "pending", TRUE)
        ELSE IF r.observe THEN Answer(p, found.status, PhaseFor(found.status), TRUE)
        ELSE Step(p, [r EXCEPT !.at = "migrate", !.row = found])
    BY <1>1, <1>8 DEF Decide
  <2>2. "pending" \in Phases
    BY DEF Phases
  <2>3. CASE PhaseFor(found.status) = None
    <3>1. Answer(p, found.status, "pending", TRUE)
      BY <2>1, <2>3
    <3> QED BY <1>2, <2>2, <3>1, AnswerStep
  <2>4. CASE PhaseFor(found.status) # None /\ r.observe
    <3>1. Answer(p, found.status, PhaseFor(found.status), TRUE) /\ PhaseFor(found.status) \in Phases
      BY <2>1, <2>4, PhaseForIs
    <3> QED BY <1>2, <3>1, AnswerStep
  <2>5. CASE PhaseFor(found.status) # None /\ ~ r.observe
    <3>1. Step(p, [r EXCEPT !.at = "migrate", !.row = found])
      BY <2>1, <2>5
    <3> QED BY <1>6, <1>8, <2>5, <3>1
  <2> QED BY <2>3, <2>4, <2>5
<1> QED BY <1>4, <1>5, <1>7, <1>8

LEMMA ReadStoreKeeps == ASSUME Tidy, DInv, NEW p \in Procs, ReadStore(p) PROVE DInv'
<1>1. /\ proc[p].at = "store" /\ proc[p].at \in ReaderPlaces
      /\ UNCHANGED <<files, now, holder, crashes, edits, may>>
  BY DEF ReadStore, At, ReaderPlaces
<1>2. PICK r \in Readers : r = proc[p]
  BY <1>1, ReaderIs
<1>3. CASE stime = r.sm /\ ptime = r.pm
  <2>1. Decide(p, r.row, StoredPhase(phases, r.row, r.key), r)
    BY <1>2, <1>3 DEF ReadStore
  <2> QED BY <1>1, <1>2, <2>1, ReaderIs, DecideKeeps
<1>4. CASE ~ (stime = r.sm /\ ptime = r.pm) /\ r.attempts < MaxAttempts
  <2>1. PICK j : j = Reader(r.key, r.observe, r.attempts + 1, r.seen)
    OBVIOUS
  <2>2. /\ stime \in 0..MaxTime /\ ptime \in 0..MaxTime
    BY BoundsAreNat DEF DInv, FilesFit
  <2>3. r.attempts + 1 \in 1..MaxAttempts
    BY <1>4, BoundsAreNat DEF Readers
  <2>4. j \in Readers /\ j.at = "sprint" /\ j.key = r.key /\ j.seen = r.seen
    BY <2>1, <2>2, <2>3 DEF Readers, Reader, NotRead
  <2>5. ReaderOk(j, may[j.key[1]], Canon(j.key[1]), edits)
    BY <1>1, <1>2, <2>4, ReaderIs DEF ReaderOk
  <2>6. Step(p, j) /\ j.at \in ReaderPlaces
    BY <1>2, <1>4, <2>1, <2>4 DEF ReadStore, ReaderPlaces
  <2> QED BY <1>1, <2>5, <2>6, ReaderStep
<1>5. CASE ~ (stime = r.sm /\ ptime = r.pm) /\ ~ (r.attempts < MaxAttempts)
  <2>1. PICK j : j = [r EXCEPT !.at = "snapshot"]
    OBVIOUS
  <2>2. j \in Readers /\ j.at = "snapshot" /\ j.key = r.key /\ j.seen = r.seen /\ j.row = r.row
    BY <2>1 DEF Readers
  <2>3. ReaderOk(j, may[j.key[1]], Canon(j.key[1]), edits)
    BY <1>1, <1>2, <2>2, ReaderIs DEF ReaderOk
  <2>4. Step(p, j) /\ j.at \in ReaderPlaces
    BY <1>2, <1>5, <2>1, <2>2 DEF ReadStore, ReaderPlaces
  <2> QED BY <1>1, <2>3, <2>4, ReaderStep
<1> QED BY <1>3, <1>4, <1>5

LEMMA SnapshotKeeps ==
  ASSUME Tidy, DInv, NEW p \in Procs, Snapshot(p) \/ SnapshotTimeout(p) PROVE DInv'
<1>1. /\ proc[p].at = "snapshot" /\ proc[p].at \in ReaderPlaces
      /\ UNCHANGED <<files, now, holder, crashes, edits, may>>
  BY DEF Snapshot, SnapshotTimeout, At, ReaderPlaces
<1>2. CASE Snapshot(p)
  <2>1. PICK found : found = SprintGet(sprint, proc[p].key)
    OBVIOUS
  <2>2. Decide(p, found, StoredPhase(phases, found, proc[p].key), proc[p])
    BY <1>2, <2>1 DEF Snapshot
  <2>3. /\ RowOk(found, proc[p].key[1], proc[p].seen, may[proc[p].key[1]],
                 Canon(proc[p].key[1]), edits)
        /\ found \in [row : Keys \cup {None}, status : KnownStatuses \cup {None}]
    BY <1>1, <2>1, ReaderIs, FreshRow
  <2> QED BY <1>1, <2>2, <2>3, DecideKeeps
<1>3. CASE SnapshotTimeout(p)
  <2>1. PICK stored : stored = StoredPhase(phases, proc[p].row, proc[p].key)
    OBVIOUS
  <2>2. PICK ph : ph = IF proc[p].row.row = None THEN "pending"
                       ELSE IF stored # None THEN stored
                       ELSE IF PhaseFor(proc[p].row.status) # None THEN PhaseFor(proc[p].row.status)
                       ELSE "pending"
    OBVIOUS
  <2>3. Answer(p, proc[p].row.status, ph, TRUE)
    BY <1>3, <2>1, <2>2 DEF SnapshotTimeout
  <2>4. /\ proc[p].row.row = Row(proc[p].key[1])
        /\ proc[p].row.status \in KnownStatuses \cup {None}
    BY <1>1, ReaderIs DEF RowOk
  <2>5. stored # None => stored \in Phases
    BY <1>1, <2>1, <2>4, StoredIsSeen
  <2>6. ph \in Phases
    <3>1. "pending" \in Phases
      BY DEF Phases
    <3> QED BY <2>2, <2>5, <3>1, PhaseForIs
  <2> QED BY <1>1, <2>3, <2>4, <2>6, AnswerStep
<1> QED BY <1>2, <1>3

LEMMA TimeoutsKeep ==
  ASSUME Tidy, DInv, NEW p \in Procs, MigrateTimeout(p) \/ ResolveTimeout(p) \/ Return(p)
  PROVE  DInv'
<1>1. CASE MigrateTimeout(p)
  <2>1. proc[p].at = "migrate" /\ proc[p].at \in ReaderPlaces
    BY <1>1 DEF MigrateTimeout, At, ReaderPlaces
  <2>2. PhaseFor(proc[p].row.status) \in Phases /\ proc[p].row.status \in KnownStatuses \cup {None}
    BY <2>1, JobKinds, ReaderIs, PhaseForIs DEF ReaderOk
  <2> QED BY <1>1, <2>1, <2>2, AnswerStep DEF MigrateTimeout
<1>2. CASE ResolveTimeout(p)
  BY <1>2, IdleStep DEF ResolveTimeout, At
<1>3. CASE Return(p)
  BY <1>3, IdleStep DEF Return, At
<1> QED BY <1>1, <1>2, <1>3

LEMMA ProjectKeeps == ASSUME Tidy, DInv, NEW p \in Procs, Project(p) PROVE DInv'
<1>1. /\ proc[p].at = "resolve" /\ proc[p].at \in ReaderPlaces
      /\ UNCHANGED <<files, now, holder, crashes, edits, may>>
  BY DEF Project, At, ReaderPlaces
<1>2. PICK found : found = SprintGet(sprint, proc[p].key)
  OBVIOUS
<1>3. PICK stored : stored = StoredPhase(phases, found, proc[p].key)
  OBVIOUS
<1>4. found.row = Row(proc[p].key[1]) /\ found.status \in KnownStatuses \cup {None}
  BY <1>1, <1>2, ReaderIs, NowRow DEF DInv
<1>5. stored # None => stored \in KnownPhases /\ stored \in Phases
  BY <1>1, <1>3, <1>4, StoredIsSeen
<1>6. "pending" \in Phases
  BY DEF Phases
<1>7. IF found.row = None \/ stored = None THEN Answer(p, found.status, "pending", TRUE)
      ELSE IF Winner(stime, ptime, found.status, stored) = "phase"
      THEN Answer(p, StatusFor(stored), stored, TRUE)
      ELSE Answer(p, found.status,
                  IF PhaseFor(found.status) = None THEN stored ELSE PhaseFor(found.status), TRUE)
  BY <1>2, <1>3 DEF Project
<1>8. CASE found.row = None \/ stored = None
  <2>1. Answer(p, found.status, "pending", TRUE)
    BY <1>7, <1>8
  <2> QED BY <1>1, <1>4, <1>6, <2>1, AnswerStep
<1>9. CASE ~ (found.row = None \/ stored = None) /\ Winner(stime, ptime, found.status, stored) = "phase"
  <2>1. Answer(p, StatusFor(stored), stored, TRUE) /\ StatusFor(stored) \in KnownStatuses \cup {None}
    BY <1>5, <1>7, <1>9, KnownIsClosed
  <2> QED BY <1>1, <1>5, <1>9, <2>1, AnswerStep
<1>10. CASE ~ (found.row = None \/ stored = None) /\ Winner(stime, ptime, found.status, stored) # "phase"
  <2>1. PICK ph : ph = IF PhaseFor(found.status) = None THEN stored ELSE PhaseFor(found.status)
    OBVIOUS
  <2>2. Answer(p, found.status, ph, TRUE) /\ ph \in Phases
    BY <1>5, <1>7, <1>10, <2>1, PhaseForIs
  <2> QED BY <1>1, <1>4, <2>2, AnswerStep
<1> QED BY <1>8, <1>9, <1>10

(* ---- repairs ---- *)

\* A reader that finds the lock free stores a phase the story may be in, that its row
\* stands for while nobody has died or edited, and answers with it.
LEMMA StorePhase ==
  ASSUME Tidy, DInv, NEW p \in Procs, proc[p].at \in ReaderPlaces, holder = None,
         NEW st \in KnownStatuses \cup {None}, NEW ph \in KnownPhases,
         ph \in may[proc[p].key[1]],
         crashes + edits = 0 /\ Row(proc[p].key[1]) # None => PhaseFor(sprint[Row(proc[p].key[1])]) = ph,
         Answer(p, st, ph, FALSE),
         phases' = RewritePhase(phases, proc[p].key, ph), ptime' = now,
         UNCHANGED <<sprint, stime, now, holder, crashes, edits, may>>
  PROVE  DInv'
<1>1. PICK k \in Keys : k = proc[p].key
  BY ReaderIs
<1>2. PICK s \in Stories : s = k[1]
  BY KeyFacts
<1>3. /\ phases' \in [Keys -> KnownPhases \cup {None}] /\ phases'[<<s, "id">>] = ph
      /\ \A sp \in Spellings : phases'[<<s, sp>>] = IF sp = "id" THEN ph ELSE None
      /\ \A m \in Keys : m[1] # s => phases'[m] = phases[m]
  BY <1>1, <1>2, RewriteIs DEF DInv
<1>4. ph \in Phases /\ ph # None /\ ph \in proc[p].seen
  BY KnownIsClosed, ReaderIs
<1>5. PICK j : /\ j = [at |-> "answer", key |-> proc[p].key, status |-> st, phase |-> ph,
                       repair |-> FALSE, seen |-> proc[p].seen]
               /\ Step(p, j)
  BY DEF Answer
<1>6. AnswerOk(j) /\ j.at = "answer"
  BY <1>4, <1>5, AnswerIs
<1>7. JobOk(j, phases', may', edits') /\ j.at \notin {"phase", "row"}
  BY <1>6 DEF JobOk
<1>8. FilesFit'
  BY <1>3 DEF DInv, FilesFit
<1>9. Canon(s)' # None
  BY <1>3, <1>4 DEF Canon
<1>10. StoryFits(s)'
  BY <1>1, <1>2, <1>3, <1>9 DEF DInv, StoryFits, Row
<1>11. /\ proc[p].key[1] = s /\ may'[s] = may[s] /\ \A x \in Stories \ {s} : may'[x] = may[x]
       /\ \A m \in Keys : m[1] # s => sprint'[m] = sprint[m] /\ phases'[m] = phases[m]
  BY <1>1, <1>2, <1>3
<1> QED BY <1>5, <1>7, <1>8, <1>9, <1>10, <1>11, WriteStep

LEMMA MigrateKeeps == ASSUME Tidy, DInv, NEW p \in Procs, Migrate(p) PROVE DInv'
<1>1. /\ proc[p].at = "migrate" /\ proc[p].at \in ReaderPlaces /\ holder = None
      /\ UNCHANGED <<sprint, stime, now, holder, crashes, edits, may>>
  BY DEF Migrate, At, ReaderPlaces
<1>2. PICK s \in Stories : s = proc[p].key[1]
  BY <1>1, ReaderIs
<1>3. PICK found : found = proc[p].row
  OBVIOUS
<1>4. PICK stored : stored = StoredPhase(phases, found, proc[p].key)
  OBVIOUS
<1>5. /\ found.row = Row(s) /\ Row(s) # None /\ found.status \in KnownStatuses
      /\ PhaseFor(found.status) \in KnownPhases
      /\ PhaseFor(found.status) \in may[s] \/ Canon(s) # None
      /\ edits = 0 /\ Canon(s) = None => found.status = InitialSprint[Row(s)]
  BY <1>1, <1>2, <1>3, JobKinds, ReaderIs, KnownIsClosed DEF ReaderOk, RowOk
<1>6. CASE stored # None
  <2>1. Answer(p, found.status, stored, FALSE) /\ UNCHANGED <<phases, ptime>>
    BY <1>3, <1>4, <1>6 DEF Migrate
  <2>2. stored \in Phases /\ stored \in proc[p].seen
    BY <1>1, <1>2, <1>4, <1>5, <1>6, StoredIsSeen
  <2> QED BY <1>1, <1>5, <2>1, <2>2, AnswerStep DEF files
<1>7. CASE stored = None
  <2>1. /\ phases' = RewritePhase(phases, proc[p].key, PhaseFor(found.status)) /\ ptime' = now
        /\ Answer(p, found.status, PhaseFor(found.status), FALSE)
    BY <1>3, <1>4, <1>7 DEF Migrate
  <2>2. Canon(s) = None
    BY <1>1, <1>2, <1>4, <1>5, <1>7, ReaderIs, StoredIs DEF DInv
  <2>3. edits = 0 => PhaseFor(sprint[Row(s)]) = PhaseFor(found.status)
    BY <1>5, <2>2 DEF DInv, StoryFits
  <2>4. crashes + edits = 0 => edits = 0
    BY DEF DInv, FilesFit
  <2> QED BY <1>1, <1>2, <1>5, <2>1, <2>2, <2>3, <2>4, StorePhase
<1> QED BY <1>6, <1>7

\* In a tidy project the entries of the start stand for their rows.
LEMMA FirstEntries ==
  ASSUME Tidy, NEW s \in Stories, NEW sp \in Spellings, InitialPhases[<<s, sp>>] # None
  PROVE  Row(s) # None /\ Consistent(InitialSprint[Row(s)], InitialPhases[<<s, sp>>])
<1>1. <<s, sp>> \in Keys /\ <<s, sp>>[1] = s
  BY KeyFacts
<1>2. LET found == SprintGet(InitialSprint, <<s, sp>>)
      IN  found.row # None /\ Consistent(found.status, InitialPhases[<<s, sp>>])
  BY <1>1 DEF Tidy, ValidateDualStore
<1>3. SprintGet(InitialSprint, <<s, sp>>) =
        [row |-> Row(s), status |-> IF Row(s) = None THEN None ELSE InitialSprint[Row(s)]]
  BY <1>1, RowIs
<1> QED BY <1>2, <1>3

\* A reader that finds the lock free and the phase side newer rewrites the row.
LEMMA StoreRow ==
  ASSUME Tidy, DInv, NEW p \in Procs, proc[p].at \in ReaderPlaces, holder = None,
         NEW s \in Stories, s = proc[p].key[1], Row(s) # None,
         NEW sp \in Spellings, NEW stored \in KnownPhases, stored = phases[<<s, sp>>],
         stored \in may[s], ~ Consistent(sprint[Row(s)], stored),
         sprint' = [sprint EXCEPT ![Row(s)] = StatusFor(stored)], stime' = now,
         Answer(p, StatusFor(stored), stored, FALSE),
         UNCHANGED <<phases, ptime, now, holder, crashes, edits, may>>
  PROVE  DInv'
<1>1. /\ stored \in Phases /\ stored # None /\ stored \in proc[p].seen
      /\ StatusFor(stored) \in KnownStatuses /\ StatusFor(stored) # None
      /\ PhaseFor(StatusFor(stored)) = stored
  BY KnownIsClosed, ReaderIs, StatusRoundTrip
<1>2. /\ <<s, "id">> \in Keys /\ <<s, "id">>[1] = s
      /\ \A k \in Keys : k[1] # s => k # Row(s)
      /\ Row(s) \in Keys /\ sprint[Row(s)] # None /\ InitialSprint[Row(s)] # None
  <2>1. <<s, "id">> \in Keys /\ <<s, "id">>[1] = s
    BY KeyFacts
  <2>2. Row(s) \in Keys /\ Row(s)[1] = s /\ sprint[Row(s)] \in KnownStatuses
    BY <2>1, NowRow DEF DInv
  <2> QED BY <2>1, <2>2, KnownIsClosed DEF DInv, FilesFit
<1>3. PICK j : /\ j = [at |-> "answer", key |-> proc[p].key, status |-> StatusFor(stored),
                       phase |-> stored, repair |-> FALSE, seen |-> proc[p].seen]
               /\ Step(p, j)
  BY DEF Answer
<1>4. AnswerOk(j) /\ j.at = "answer"
  BY <1>1, <1>3, AnswerIs
<1>5. JobOk(j, phases', may', edits') /\ j.at \notin {"phase", "row"}
  BY <1>4 DEF JobOk
<1>6. sprint'[Row(s)] = StatusFor(stored) /\ \A k \in Keys : k # Row(s) => sprint'[k] = sprint[k]
  BY <1>2 DEF DInv, FilesFit
<1>7. FilesFit'
  BY <1>1, <1>2, <1>6 DEF DInv, FilesFit
<1>8. ~ Writing(s)
  BY ProcsHaveNoNone DEF Writing, At, DInv, JobsFit
<1>9. ~ (edits = 0 /\ Canon(s) = None)
  BY FirstEntries, <1>1 DEF DInv, StoryFits
<1>10. ~ (crashes + edits = 0)
  BY <1>1, <1>8, ConsistentIs DEF DInv, StoryFits
<1>11. StoryFits(s)'
  <2>1. Row(s)' = Row(s) /\ Canon(s)' = Canon(s)
    BY DEF Row, Canon
  <2>2. PhaseFor(sprint'[Row(s)]) \in may[s]
    BY <1>1, <1>6
  <2> QED BY <1>9, <1>10, <2>1, <2>2 DEF DInv, StoryFits
<1>12. /\ may'[s] = may[s] /\ (\A x \in Stories \ {s} : may'[x] = may[x]) /\ Canon(s)' = Canon(s)
       /\ \A m \in Keys : m[1] # s => sprint'[m] = sprint[m] /\ phases'[m] = phases[m]
  BY <1>2, <1>6 DEF Canon
<1> QED BY <1>3, <1>5, <1>7, <1>11, <1>12, WriteStep

LEMMA ResolveKeeps == ASSUME Tidy, DInv, NEW p \in Procs, Resolve(p) PROVE DInv'
<1>1. /\ proc[p].at = "resolve" /\ proc[p].at \in ReaderPlaces /\ holder = None
      /\ UNCHANGED <<now, holder, crashes, edits, may>> /\ ResolveNow(p)
  BY DEF Resolve, ResolveNow, At, ReaderPlaces
<1>2. PICK s \in Stories : s = proc[p].key[1]
  BY <1>1, ReaderIs
<1>3. PICK found : found = SprintGet(sprint, proc[p].key)
  OBVIOUS
<1>4. PICK stored : stored = StoredPhase(phases, found, proc[p].key)
  OBVIOUS
<1>5. PICK derived : derived = PhaseFor(found.status)
  OBVIOUS
<1>6. /\ found.row = Row(s) /\ WriteKey(sprint, proc[p].key) = Row(s)
      /\ found.status \in KnownStatuses \cup {None}
      /\ Row(s) # None => found.status = sprint[Row(s)] /\ found.status \in KnownStatuses
  BY <1>1, <1>2, <1>3, ReaderIs, NowRow DEF DInv
<1>7. /\ stored # None => /\ stored \in KnownPhases /\ stored \in Phases
                          /\ stored \in may[s] /\ stored \in proc[p].seen
      /\ \E sp \in Spellings : stored = phases[<<s, sp>>]
  BY <1>1, <1>2, <1>4, <1>6, StoredIsSeen, ReaderIs, StoredIs DEF DInv
<1>8. /\ Row(s) # None => derived \in KnownPhases \cup {None} /\ derived \in may[s] \cup {None}
      /\ may[s] \subseteq proc[p].seen
  BY <1>1, <1>2, <1>5, <1>6, ReaderIs, KnownIsClosed DEF StoryFits
<1>9. CASE Row(s) = None
  <2>1. Step(p, Idle) /\ UNCHANGED files
    BY <1>1, <1>3, <1>6, <1>9 DEF ResolveNow
  <2> QED BY <1>1, <2>1, IdleStep
<1>10. CASE Row(s) # None /\ stored = None
  <2>1. PICK ph : ph = IF derived = None THEN "pending" ELSE derived
    OBVIOUS
  <2>2. Answer(p, found.status, ph, derived = None) /\ UNCHANGED files
    BY <1>1, <1>3, <1>4, <1>5, <1>6, <1>10, <2>1 DEF ResolveNow
  <2>3. "pending" \in Phases
    BY DEF Phases
  <2>4. ph \in Phases /\ (derived # None => ph \in proc[p].seen) /\ (derived = None) \in BOOLEAN
    BY <1>8, <1>10, <2>1, <2>3, KnownIsClosed
  <2> QED BY <1>1, <1>6, <2>2, <2>4, AnswerStep
<1>11. CASE Row(s) # None /\ stored # None /\ Consistent(found.status, stored)
  <2>1. Answer(p, found.status, stored, FALSE) /\ UNCHANGED files
    BY <1>1, <1>3, <1>4, <1>6, <1>11 DEF ResolveNow
  <2> QED BY <1>1, <1>6, <1>7, <1>11, <2>1, AnswerStep
<1>12. CASE Row(s) # None /\ stored # None /\ ~ Consistent(found.status, stored)
  <2>1. IF Winner(stime, ptime, found.status, stored) = "phase"
        THEN /\ sprint' = [sprint EXCEPT ![Row(s)] = StatusFor(stored)]
             /\ stime' = now
             /\ Answer(p, StatusFor(stored), stored, FALSE)
             /\ UNCHANGED <<phases, ptime>>
        ELSE IF derived = None
        THEN Answer(p, found.status, stored, TRUE) /\ UNCHANGED files
        ELSE /\ phases' = RewritePhase(phases, proc[p].key, derived)
             /\ ptime' = now
             /\ Answer(p, found.status, derived, FALSE)
             /\ UNCHANGED <<sprint, stime>>
    BY <1>1, <1>3, <1>4, <1>5, <1>6, <1>12 DEF ResolveNow
  <2>2. CASE Winner(stime, ptime, found.status, stored) = "phase"
    <3>1. PICK sp \in Spellings : stored = phases[<<s, sp>>]
      BY <1>7
    <3> QED BY <1>1, <1>2, <1>6, <1>7, <1>12, <2>1, <2>2, <3>1, StoreRow
  <2>3. CASE Winner(stime, ptime, found.status, stored) # "phase" /\ derived = None
    <3>1. Answer(p, found.status, stored, TRUE) /\ UNCHANGED files
      BY <2>1, <2>3
    <3> QED BY <1>1, <1>6, <1>7, <1>12, <3>1, AnswerStep
  <2>4. CASE Winner(stime, ptime, found.status, stored) # "phase" /\ derived # None
    <3>1. /\ phases' = RewritePhase(phases, proc[p].key, derived) /\ ptime' = now
          /\ Answer(p, found.status, derived, FALSE) /\ UNCHANGED <<sprint, stime>>
      BY <2>1, <2>4
    <3>2. derived \in KnownPhases /\ derived \in may[s] /\ PhaseFor(sprint[Row(s)]) = derived
      BY <1>5, <1>6, <1>8, <1>12, <2>4
    <3> QED BY <1>1, <1>2, <1>6, <3>1, <3>2, StorePhase
  <2> QED BY <2>2, <2>3, <2>4
<1> QED BY <1>9, <1>10, <1>11, <1>12

(* ---- the world ---- *)

LEMMA EditKeeps == ASSUME Tidy, DInv, EditRow PROVE DInv'
<1>1. PICK s \in Stories, e \in Edits :
        LET row == RowKey(sprint, <<s, "id">>) IN
        /\ row # None
        /\ sprint' = [sprint EXCEPT ![row] = e]
        /\ may' = [may EXCEPT ![s] = @ \cup ({PhaseFor(e)} \cap Phases)]
        /\ proc' = SeenBy(proc, s, {PhaseFor(e)} \cap Phases)
  BY DEF EditRow
<1>2. PICK new : new = {PhaseFor(e)} \cap Phases
  OBVIOUS
<1>3. /\ crashes + edits < MaxFaults /\ edits' = edits + 1 /\ stime' = now
      /\ UNCHANGED <<phases, ptime, now, holder, crashes>>
  BY DEF EditRow
<1>4. <<s, "id">> \in Keys /\ <<s, "id">>[1] = s /\ RowKey(sprint, <<s, "id">>) = Row(s)
  BY KeyFacts, NowRow DEF DInv
<1>5. /\ Row(s) # None /\ Row(s) \in Keys /\ Row(s)[1] = s
      /\ sprint[Row(s)] # None /\ InitialSprint[Row(s)] # None
  BY <1>1, <1>4, NowRow, KnownIsClosed DEF DInv, FilesFit
<1>6. e \in KnownStatuses /\ e # None
  BY KnownIsClosed
<1>7. /\ sprint' \in [Keys -> KnownStatuses \cup {None}] /\ sprint'[Row(s)] = e
      /\ \A k \in Keys : k # Row(s) => sprint'[k] = sprint[k]
  BY <1>1, <1>4, <1>5, <1>6 DEF DInv, FilesFit
<1>8. /\ may' \in [Stories -> SUBSET Phases] /\ may'[s] = may[s] \cup new
      /\ \A x \in Stories \ {s} : may'[x] = may[x]
  BY <1>1, <1>2 DEF DInv, FilesFit
<1>9. /\ crashes \in Nat /\ edits' \in Nat /\ edits' # 0 /\ crashes + edits' <= MaxFaults
      /\ crashes + edits' # 0
  BY <1>3, BoundsAreNat DEF DInv, FilesFit
<1>10. FilesFit'
  BY <1>3, <1>5, <1>6, <1>7, <1>8, <1>9 DEF DInv, FilesFit
<1>11. StoryFits(s)'
  <2>1. Row(s)' = Row(s) /\ \A sp \in Spellings : phases'[<<s, sp>>] = phases[<<s, sp>>]
    BY <1>3 DEF Row
  <2>2. PhaseFor(e) \in may'[s] \cup {None}
    BY <1>2, <1>8, PhaseForIs
  <2>3. crashes' + edits' # 0
    BY <1>3, <1>9
  <2> QED BY <1>7, <1>8, <1>9, <2>1, <2>2, <2>3 DEF DInv, StoryFits
<1>12. ASSUME NEW x \in Stories \ {s} PROVE StoryFits(x)'
  <2>1. /\ \A k \in Keys : k[1] = x => sprint'[k] = sprint[k] /\ phases'[k] = phases[k]
        /\ may'[x] = may[x] /\ edits' # 0 /\ crashes' + edits' # 0
    BY <1>3, <1>5, <1>7, <1>8, <1>9
  <2> QED BY <2>1, StoryStays DEF DInv
<1>13. /\ proc' = [q \in Procs |-> proc'[q]]
       /\ \A q \in Procs : proc'[q] = Sees(proc[q], s, new)
  BY <1>1, <1>2 DEF SeenBy, Sees
<1>14. \A x \in Stories :
         /\ x # s => may'[x] \subseteq may[x]
         /\ may'[s] \subseteq may[s] \cup new
         /\ phases[<<x, "id">>] # None => phases'[<<x, "id">>] # None
         /\ may[x] \subseteq may'[x] \/ phases'[<<x, "id">>] # None
  BY <1>3, <1>8
<1>15. ASSUME NEW q \in Procs PROVE JobOk(proc'[q], phases', may', edits') /\ proc'[q].at = proc[q].at
  <2>1. JobOk(proc[q], phases, may, edits) /\ (edits' = 0 => edits = 0)
    BY <1>9 DEF DInv, JobsFit
  <2>2. JobOk(Sees(proc[q], s, new), phases', may', edits') /\ Sees(proc[q], s, new).at = proc[q].at
    <3>1. new \in SUBSET Phases
      BY <1>2
    <3>2. CASE proc[q].at # "row"
      BY <1>14, <2>1, <3>1, <3>2, JobSees
    <3>3. CASE proc[q].at = "row"
      <4>1. WriterOk(proc[q], phases)
        BY <3>3, JobKinds
      <4>2. Sees(proc[q], s, new) = proc[q]
        BY <4>1 DEF WriterOk, WriterStates, Sees
      <4> QED BY <1>3, <4>1, <4>2 DEF JobOk
    <3> QED BY <3>2, <3>3
  <2> QED BY <1>13, <2>2
<1>16. JobsFit'
  BY <1>3, <1>13, <1>15 DEF DInv, JobsFit
<1> QED BY <1>10, <1>11, <1>12, <1>16 DEF DInv

LEMMA TickKeeps == ASSUME Tidy, DInv, Tick PROVE DInv'
<1>1. /\ now < MaxTime /\ now' = now + 1
      /\ UNCHANGED <<sprint, stime, phases, ptime, holder, proc, crashes, edits, may>>
  BY DEF Tick, files
<1>2. FilesFit'
  BY <1>1, BoundsAreNat DEF DInv, FilesFit
<1>3. JobsFit'
  BY <1>1 DEF DInv, JobsFit
<1>4. ASSUME NEW x \in Stories PROVE StoryFits(x)'
  BY <1>1, StoryStays DEF DInv, Writing, At
<1> QED BY <1>2, <1>3, <1>4 DEF DInv

LEMMA DInvStays == ASSUME Tidy, DInv, UNCHANGED vars PROVE DInv'
<1>1. UNCHANGED <<sprint, stime, phases, ptime, now, holder, proc, crashes, edits, may>>
  BY DEF vars
<1>2. FilesFit' /\ JobsFit'
  BY <1>1 DEF DInv, FilesFit, JobsFit
<1>3. ASSUME NEW x \in Stories PROVE StoryFits(x)'
  BY <1>1, StoryStays DEF DInv, Writing, At
<1> QED BY <1>2, <1>3 DEF DInv

LEMMA DInvStep == ASSUME Tidy, DInv, [Next]_vars PROVE DInv'
<1>1. ASSUME NEW p \in Procs, Write(p) PROVE DInv'
  <2>1. CASE StartWrite(p)
    BY <2>1, StartWriteKeeps
  <2>2. CASE Lock(p) \/ LockTimeout(p)
    BY <2>2, LockKeeps
  <2>3. CASE WritePhase(p)
    BY <2>3, WritePhaseKeeps
  <2>4. CASE WriteRow(p)
    BY <2>4, WriteRowKeeps
  <2> QED BY <1>1, <2>1, <2>2, <2>3, <2>4 DEF Write
<1>2. ASSUME NEW p \in Procs, Read(p) PROVE DInv'
  <2>1. CASE StartRead(p)
    BY <2>1, StartReadKeeps
  <2>2. CASE ReadSprint(p)
    BY <2>2, ReadSprintKeeps
  <2>3. CASE ReadStore(p)
    BY <2>3, ReadStoreKeeps
  <2>4. CASE Snapshot(p) \/ SnapshotTimeout(p)
    BY <2>4, SnapshotKeeps
  <2>5. CASE Migrate(p)
    BY <2>5, MigrateKeeps
  <2>6. CASE Project(p)
    BY <2>6, ProjectKeeps
  <2>7. CASE Resolve(p)
    BY <2>7, ResolveKeeps
  <2>8. CASE MigrateTimeout(p) \/ ResolveTimeout(p) \/ Return(p)
    BY <2>8, TimeoutsKeep
  <2> QED BY <1>2, <2>1, <2>2, <2>3, <2>4, <2>5, <2>6, <2>7, <2>8 DEF Read
<1>3. ASSUME NEW p \in Procs, Crash(p) PROVE DInv'
  BY <1>3, CrashKeeps
<1> QED BY <1>1, <1>2, <1>3, EditKeeps, TickKeeps, DInvStays DEF Next

LEMMA DInvInit == ASSUME Tidy, Init PROVE DInv
<1>1. /\ sprint = InitialSprint /\ phases = InitialPhases
      /\ stime = 0 /\ ptime = 0 /\ now = 0 /\ holder = None
      /\ proc = [p \in Procs |-> Idle] /\ crashes = 0 /\ edits = 0
      /\ may = [s \in Stories |-> {PhaseFor(SprintGet(InitialSprint, <<s, "id">>).status)} \cap Phases]
  BY DEF Init
<1>2. /\ \A s \in Stories, sp \in Spellings : <<s, sp>> \in Keys /\ <<s, sp>>[1] = s
      /\ "id" \in Spellings
  BY KeyFacts
<1>3. ASSUME NEW s \in Stories
      PROVE  /\ Row(s) # None => may[s] = {PhaseFor(InitialSprint[Row(s)])} \cap Phases /\ Row(s) \in Keys
             /\ may[s] \subseteq Phases
  <2>1. /\ SprintGet(InitialSprint, <<s, "id">>) =
             [row |-> Row(s), status |-> IF Row(s) = None THEN None ELSE InitialSprint[Row(s)]]
        /\ Row(s) # None => Row(s) \in Keys
    BY <1>2, RowIs
  <2> QED BY <1>1, <2>1
<1>4. \A s \in Stories, sp \in Spellings :
        InitialPhases[<<s, sp>>] # None =>
          /\ Row(s) # None
          /\ InitialPhases[<<s, sp>>] = PhaseFor(InitialSprint[Row(s)])
          /\ InitialPhases[<<s, sp>>] \in Phases
  BY FirstEntries, ConsistentIs
<1>5. FilesFit
  <2>1. sprint \in [Keys -> KnownStatuses \cup {None}]
    <3>1. /\ sprint = [k \in Keys |-> sprint[k]]
          /\ \A k \in Keys : sprint[k] \in KnownStatuses \cup {None}
      BY <1>1, FilesAssumption, KnownIsClosed DEF SprintFiles
    <3> QED BY <3>1
  <2>2. phases \in [Keys -> KnownPhases \cup {None}]
    <3>1. ASSUME NEW k \in Keys PROVE phases[k] \in KnownPhases \cup {None}
      <4>1. PICK s \in Stories, sp \in Spellings : k = <<s, sp>>
        BY KeyFacts
      <4>2. Row(s) # None => Row(s) \in Keys
        BY <1>3
      <4>3. Row(s) # None => PhaseFor(InitialSprint[Row(s)]) \in KnownPhases \cup {None}
        BY <4>2, KnownIsClosed, NoneHasNoPhase
      <4> QED BY <1>1, <1>4, <4>1, <4>3
    <3>2. phases = [k \in Keys |-> phases[k]]
      BY <1>1, FilesAssumption DEF PhaseFiles
    <3> QED BY <3>1, <3>2
  <2>3. may \in [Stories -> SUBSET Phases]
    BY <1>1
  <2> QED BY <1>1, <2>1, <2>2, <2>3, BoundsAreNat DEF FilesFit
<1>6. ASSUME NEW s \in Stories PROVE StoryFits(s)
  <2>1. Row(s) # None => PhaseFor(sprint[Row(s)]) \in may[s] \cup {None}
    BY <1>1, <1>3, PhaseForIs
  <2>2. \A sp \in Spellings : phases[<<s, sp>>] # None => phases[<<s, sp>>] \in may[s]
    BY <1>1, <1>3, <1>4
  <2>3. Row(s) # None => \A sp \in Spellings : phases[<<s, sp>>] \in {None, PhaseFor(sprint[Row(s)])}
    BY <1>1, <1>4
  <2> QED BY <1>1, <2>1, <2>2, <2>3 DEF StoryFits
<1>7. JobsFit
  <2>1. Idle.at = "idle"
    BY DEF Idle
  <2> QED BY <1>1, <2>1, ProcsHaveNoNone DEF JobsFit, JobOk
<1> QED BY <1>5, <1>6, <1>7 DEF DInv

(* ---- the theorems ---- *)

\* Every file, the clock, the lock and every process keep their shapes: the statuses
\* and phases the two files can hold are closed under the two maps of the code.
THEOREM TypeCorrect == ASSUME Tidy PROVE Spec => []TypeOK
<1>1. Init => DInv
  BY DInvInit
<1>2. DInv /\ [Next]_vars => DInv'
  BY DInvStep
<1>3. DInv => TypeOK
  <2> SUFFICES ASSUME DInv PROVE TypeOK
    OBVIOUS
  <2>1. sprint \in SprintFiles(Statuses) /\ phases \in PhaseFiles
    BY KnownIsClosed DEF DInv, FilesFit, SprintFiles, PhaseFiles
  <2>2. /\ {stime, ptime, now} \subseteq 0..MaxTime /\ stime <= now /\ ptime <= now
        /\ {crashes, edits, crashes + edits} \subseteq 0..MaxFaults
    BY BoundsAreNat DEF DInv, FilesFit
  <2>3. ASSUME NEW p \in Procs
        PROVE  proc[p] = Idle \/ proc[p] \in WriterStates \cup ReaderStates \cup Answers
    <3>1. JobOk(proc[p], phases, may, edits)
      BY DEF DInv, JobsFit
    <3>2. proc[p] \in Readers => proc[p] \in ReaderStates
      BY KnownIsClosed DEF Readers, ReaderStates, Found
    <3> QED BY <3>1, <3>2 DEF JobOk, WriterOk, ReaderOk, AnswerOk
  <2> QED BY <2>1, <2>2, <2>3 DEF TypeOK, DInv, FilesFit, JobsFit
<1> QED BY <1>1, <1>2, <1>3, PTL DEF Spec

\* A write that returned sticks: both files keep a phase the story may be in whatever
\* the readers migrate and repair and whoever dies between the two writes, and while
\* nobody dies or edits validate_dual_store reports nothing of a story with a row.
THEOREM WritesStickAlways == ASSUME Tidy PROVE Spec => []WritesStick
<1>1. Init => DInv
  BY DInvInit
<1>2. DInv /\ [Next]_vars => DInv'
  BY DInvStep
<1>3. DInv => WritesStick
  <2> SUFFICES ASSUME DInv, NEW s \in Stories
      PROVE  LET row == SprintGet(sprint, <<s, "id">>)
                 stored == StoredPhase(phases, row, <<s, "id">>)
             IN  /\ ~ Writing(s) /\ PhaseFor(row.status) # None => PhaseFor(row.status) \in may[s]
                 /\ stored # None => stored \in may[s]
                 /\ crashes + edits = 0 /\ row.row # None /\ ~ Writing(s) =>
                      \A k \in ValidateDualStore(sprint, phases) : k[1] # s
    BY DEF WritesStick
  <2>1. PICK key \in Keys : key = <<s, "id">> /\ key[1] = s
    <3>1. <<s, "id">> \in Keys /\ <<s, "id">>[1] = s
      BY KeyFacts
    <3> QED BY <3>1
  <2>2. PICK row : row = SprintGet(sprint, key)
    OBVIOUS
  <2>3. PICK stored : stored = StoredPhase(phases, row, key)
    OBVIOUS
  <2>4. /\ row.row = Row(s) /\ (Row(s) = None => row.status = None)
        /\ Row(s) # None => row.status = sprint[Row(s)]
    BY <2>1, <2>2, NowRow DEF DInv
  <2>5. StoryFits(s)
    BY DEF DInv
  <2>6. PhaseFor(row.status) # None => PhaseFor(row.status) \in may[s]
    BY <2>4, <2>5, NoneHasNoPhase DEF StoryFits
  <2>7. stored # None => stored \in may[s]
    BY <2>1, <2>3, <2>4, <2>5, StoredIs DEF DInv, StoryFits
  <2>8. ASSUME crashes + edits = 0, row.row # None, ~ Writing(s),
               NEW k \in ValidateDualStore(sprint, phases)
        PROVE  k[1] # s
    <3> SUFFICES ASSUME k[1] = s PROVE FALSE
      OBVIOUS
    <3>1. k \in Keys /\ phases[k] # None /\ k = <<s, k[2]>> /\ k[2] \in Spellings
      BY KeyFacts DEF ValidateDualStore
    <3>2. SprintGet(sprint, k).row = Row(s) /\ SprintGet(sprint, k).status = sprint[Row(s)]
      BY <2>4, <2>8, <3>1, NowRow DEF DInv
    <3>3. phases[k] = PhaseFor(sprint[Row(s)])
      BY <2>4, <2>5, <2>8, <3>1 DEF StoryFits
    <3>4. phases[k] \in Phases
      BY <3>1, KnownIsClosed DEF DInv, FilesFit
    <3>5. Consistent(SprintGet(sprint, k).status, phases[k])
      BY <3>2, <3>3, <3>4, ConsistentIs
    <3> QED BY <2>4, <2>8, <3>2, <3>5 DEF ValidateDualStore
  <2> QED BY <2>1, <2>2, <2>3, <2>6, <2>7, <2>8
<1> QED BY <1>1, <1>2, <1>3, PTL DEF Spec

\* An answer that asks for no repair is a phase the story had while the read ran,
\* however the unlocked reads, the writers, the repairs, kills and edits interleave.
THEOREM AnswersAreRealAlways == ASSUME Tidy PROVE Spec => []AnswersAreReal
<1>1. Init => DInv
  BY DInvInit
<1>2. DInv /\ [Next]_vars => DInv'
  BY DInvStep
<1>3. DInv => AnswersAreReal
  <2> SUFFICES ASSUME DInv, NEW p \in Procs, proc[p].at = "answer", ~ proc[p].repair
      PROVE  proc[p].phase \in proc[p].seen
    BY DEF AnswersAreReal, At
  <2>1. JobOk(proc[p], phases, may, edits)
    BY DEF DInv, JobsFit
  <2>2. AnswerOk(proc[p])
    BY <2>1 DEF JobOk, Idle, WriterOk, WriterStates, ReaderOk, Readers
  <2> QED BY <2>2 DEF AnswerOk
<1> QED BY <1>1, <1>2, <1>3, PTL DEF Spec
=============================================================================
