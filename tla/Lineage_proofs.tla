--------------------------- MODULE Lineage_proofs ---------------------------
(***************************************************************************)
(* Proofs about Lineage, for any number of processes, artifacts, persists   *)
(* and faults.                                                             *)
(***************************************************************************)
EXTENDS Lineage, FiniteSetTheorems, SequenceTheorems, WellFoundedInduction, TLAPS

\* "No file" is no file: in the runs None is a value of its own.
NoneIsNoEntry == \A k, c, r : [key |-> k, payload |-> c, parent |-> r] # None

Writing == {"entry", "index"}

\* What a process is doing.
Job(j) ==
  \/ j = Idle
  \/ /\ j = [at |-> j.at, entry |-> j.entry] /\ j.at \in {"lock"} \cup Writing
     /\ IsEntry(j.entry)

\* Files and jobs have their shapes, one process writes at a time, and one that is
\* about to write the index has written its file.
IInv ==
  /\ DOMAIN files = Keys /\ DOMAIN index = Keys
  /\ \A k \in Keys : files[k] # None => IsEntry(files[k])
  /\ proc = [p \in Procs |-> proc[p]] /\ \A p \in Procs : Job(proc[p])
  /\ \A p \in Procs : proc[p].at \in Writing <=> holder = p
  /\ \A p \in Procs : proc[p].at = "index" => files[proc[p].entry.key] # None
  /\ \A k \in Keys : index[k] # None => files[k] # None \/ k \in cut

LEMMA Backed == IInv => IndexIsBacked
BY DEF IInv, IndexIsBacked, Indexed

THEOREM InitOk == Init => IInv
<1> SUFFICES ASSUME Init PROVE IInv
  OBVIOUS
<1>1. PICK d \in Disks : files = d.files /\ index = d.index
  BY DEF Init
<1>2. /\ DOMAIN files = Keys /\ DOMAIN index = Keys
      /\ \A k \in Keys : files[k] # None => IsEntry(files[k])
      /\ \A k \in Keys : index[k] # None => files[k] # None
  BY <1>1, DisksAreReadable DEF Readable, Indexed
<1>3. \A p \in Procs : proc[p] = Idle /\ proc[p].at = "idle" /\ holder # p
  BY ProcsHaveNoNone DEF Init, Idle
<1> QED BY <1>2, <1>3 DEF IInv, Job, Writing, Init

\* One process takes its job to another place.
LEMMA StepFacts ==
  ASSUME IInv, NEW p \in Procs, NEW j, Step(p, j)
  PROVE  /\ proc' = [q \in Procs |-> proc'[q]] /\ proc'[p] = j
         /\ \A q \in Procs \ {p} : proc'[q] = proc[q]
BY DEF IInv, Step

LEMMA WriterFacts ==
  ASSUME IInv, NEW p \in Procs, proc[p].at \in Writing
  PROVE  /\ holder = p /\ \A q \in Procs \ {p} : proc[q].at \notin Writing
         /\ proc[p] = [at |-> proc[p].at, entry |-> proc[p].entry] /\ IsEntry(proc[p].entry)
BY DEF IInv, Job, Idle, Writing

\* A process stops writing and releases the lock.
LEMMA ReleaseKeeps ==
  ASSUME IInv, NEW p \in Procs, proc[p].at \in Writing, Step(p, Idle), holder' = None,
         DOMAIN files' = Keys, DOMAIN index' = Keys,
         \A k \in Keys : files'[k] # None => IsEntry(files'[k]),
         \A k \in Keys : index'[k] # None => files'[k] # None \/ k \in cut'
  PROVE  IInv'
<1>1. /\ proc' = [q \in Procs |-> proc'[q]] /\ proc'[p] = Idle
      /\ \A q \in Procs \ {p} : proc'[q] = proc[q]
  BY StepFacts
<1>2. \A q \in Procs : Job(proc'[q]) /\ proc'[q].at \notin Writing /\ holder' # q
  BY <1>1, WriterFacts, ProcsHaveNoNone DEF IInv, Job, Idle, Writing
<1> QED BY <1>1, <1>2 DEF IInv, Writing

LEMMA StepOk == ASSUME NoneIsNoEntry, IInv, [Next]_vars PROVE IInv'
<1>1. ASSUME NEW p \in Procs, MakeEntry(p) PROVE IInv'
  <2>1. UNCHANGED <<files, index, holder, cut>> /\ proc[p].at = "idle"
    BY <1>1 DEF MakeEntry, At
  <2>2. PICK e : Step(p, [at |-> "lock", entry |-> e]) /\ IsEntry(e)
    <3>1. PICK k \in Keys :
            \/ \E c \in Payloads :
                 Step(p, [at |-> "lock", entry |-> [key |-> k, payload |-> c,
                                                    parent |-> LoadRoot(index, files)]])
            \/ files[k] # None /\ Step(p, [at |-> "lock", entry |-> files[k]])
      BY <1>1 DEF MakeEntry
    <3>2. \A c, r : IsEntry([key |-> k, payload |-> c, parent |-> r])
      BY DEF IsEntry
    <3>3. files[k] # None => IsEntry(files[k])
      BY DEF IInv
    <3> QED BY <3>1, <3>2, <3>3
  <2>3. /\ proc' = [q \in Procs |-> proc'[q]] /\ proc'[p] = [at |-> "lock", entry |-> e]
        /\ \A q \in Procs \ {p} : proc'[q] = proc[q]
    BY <2>2, StepFacts
  <2> QED BY <2>1, <2>2, <2>3 DEF IInv, Job, Writing
<1>2. ASSUME NEW p \in Procs, Lock(p) PROVE IInv'
  <2>1. UNCHANGED <<files, index, cut>> /\ holder = None /\ holder' = p /\ proc[p].at = "lock"
    BY <1>2 DEF Lock, At
  <2>2. proc[p] = [at |-> "lock", entry |-> proc[p].entry] /\ IsEntry(proc[p].entry)
    BY <2>1 DEF IInv, Job, Idle
  <2>3. [proc[p] EXCEPT !.at = "entry"] = [at |-> "entry", entry |-> proc[p].entry]
    BY <2>2
  <2>4. /\ proc' = [q \in Procs |-> proc'[q]]
        /\ proc'[p] = [at |-> "entry", entry |-> proc[p].entry]
        /\ \A q \in Procs \ {p} : proc'[q] = proc[q]
    BY <1>2, <2>3, StepFacts DEF Lock
  <2>5. \A q \in Procs : proc[q].at \notin Writing
    BY <2>1, ProcsHaveNoNone DEF IInv
  <2> QED BY <2>1, <2>2, <2>4, <2>5 DEF IInv, Job, Writing
<1>3. ASSUME NEW p \in Procs, LockTimeout(p) PROVE IInv'
  <2>1. UNCHANGED <<files, index, holder, cut>> /\ proc[p].at = "lock" /\ Step(p, Idle)
    BY <1>3 DEF LockTimeout, At
  <2>2. /\ proc' = [q \in Procs |-> proc'[q]] /\ proc'[p] = Idle
        /\ \A q \in Procs \ {p} : proc'[q] = proc[q]
    BY <2>1, StepFacts
  <2> QED BY <2>1, <2>2 DEF IInv, Job, Idle, Writing
<1>4. ASSUME NEW p \in Procs, WriteEntry(p) PROVE IInv'
  <2> DEFINE e == proc[p].entry
  <2>1. /\ UNCHANGED <<index, holder, cut>> /\ proc[p].at = "entry"
        /\ files' = [files EXCEPT ![e.key] = e]
        /\ Step(p, [proc[p] EXCEPT !.at = "index"])
    BY <1>4 DEF WriteEntry, At
  <2>2. /\ holder = p /\ IsEntry(e) /\ proc[p] = [at |-> "entry", entry |-> e]
        /\ \A q \in Procs \ {p} : proc[q].at \notin Writing
    BY <2>1, WriterFacts DEF Writing
  <2>3. e # None /\ e.key \in Keys
    BY <2>2, NoneIsNoEntry DEF IsEntry, NoneIsNoEntry
  <2>4. [proc[p] EXCEPT !.at = "index"] = [at |-> "index", entry |-> e]
    BY <2>2
  <2>5. /\ proc' = [q \in Procs |-> proc'[q]] /\ proc'[p] = [at |-> "index", entry |-> e]
        /\ \A q \in Procs \ {p} : proc'[q] = proc[q]
    BY <2>1, <2>4, StepFacts
  <2>6. /\ DOMAIN files' = Keys /\ files'[e.key] = e
        /\ \A k \in Keys \ {e.key} : files'[k] = files[k]
    BY <2>1, <2>3 DEF IInv
  <2> HIDE DEF e
  <2> QED BY <2>1, <2>2, <2>3, <2>5, <2>6 DEF IInv, Job, Writing
<1>5. ASSUME NEW p \in Procs, WriteIndex(p) PROVE IInv'
  <2>1. /\ UNCHANGED <<files, cut>> /\ holder' = None /\ Step(p, Idle) /\ proc[p].at = "index"
        /\ DOMAIN index' = DOMAIN index
        /\ \A k \in Keys : index'[k] # None => index[k] # None \/ k = proc[p].entry.key
    BY <1>5 DEF WriteIndex, ReplaceIndex, At, IInv
  <2> QED BY <2>1, ReleaseKeeps DEF IInv, Writing
<1>6. ASSUME NEW p \in Procs, EntryFails(p) \/ Crash(p) PROVE IInv'
  <2>1. /\ UNCHANGED <<files, index, cut>> /\ holder' = None /\ Step(p, Idle)
        /\ proc[p].at \in Writing
    BY <1>6 DEF EntryFails, Crash, At, Writing
  <2> QED BY <2>1, ReleaseKeeps DEF IInv
<1>7. ASSUME NEW p \in Procs, IndexFails(p) PROVE IInv'
  <2>1. /\ UNCHANGED <<index, cut>> /\ holder' = None /\ Step(p, Idle) /\ proc[p].at \in Writing
        /\ DOMAIN files' = Keys
        /\ \A k \in Keys : files'[k] = files[k] \/ (files'[k] = None /\ index[k] = None)
    BY <1>7 DEF IndexFails, At, Writing, IInv
  <2>2. /\ \A k \in Keys : files'[k] # None => IsEntry(files'[k])
        /\ \A k \in Keys : index'[k] # None => files'[k] # None \/ k \in cut'
    BY <2>1 DEF IInv
  <2> QED BY <2>1, <2>2, ReleaseKeeps DEF IInv
<1>8. ASSUME NEW p \in Procs, IndexInterrupted(p) PROVE IInv'
  <2> DEFINE k == proc[p].entry.key
  <2>1. /\ holder' = None /\ Step(p, Idle) /\ proc[p].at = "index"
        /\ DOMAIN index' = Keys /\ DOMAIN files' = Keys
        /\ \A a \in Keys \ {k} : index'[a] = index[a] /\ files'[a] = files[a]
    BY <1>8 DEF IndexInterrupted, ReplaceIndex, At, IInv
  <2>2. /\ cut \subseteq cut'
        /\ IF index[k] = None THEN k \in cut' /\ files' = [files EXCEPT ![k] = None]
                              ELSE files' = files
    BY <1>8 DEF IndexInterrupted
  <2>3. k \in Keys
    BY <2>1, WriterFacts DEF IsEntry, Writing
  <2>4. files'[k] = None \/ files'[k] = files[k]
    BY <2>2, <2>3 DEF IInv
  <2> HIDE DEF k
  <2>5. /\ \A a \in Keys : files'[a] # None => IsEntry(files'[a])
        /\ \A a \in Keys : index'[a] # None => files'[a] # None \/ a \in cut'
    BY <2>1, <2>2, <2>3, <2>4 DEF IInv
  <2> QED BY <2>1, <2>5, ReleaseKeeps DEF Writing
<1>9. CASE UNCHANGED vars
  BY <1>9 DEF vars, IInv
<1> QED BY <1>1, <1>2, <1>3, <1>4, <1>5, <1>6, <1>7, <1>8, <1>9 DEF Next

\* The index never advertises an entry without a file, whichever write fails and
\* wherever a process dies (persist_lineage_entry writes the entry first and rolls
\* back only a file the index did not know), but for one that a Ctrl-C after the
\* replacement of the index took back.
THEOREM IndexStaysBacked == ASSUME NoneIsNoEntry PROVE Spec => []IndexIsBacked
<1>1. IInv /\ [Next]_vars => IInv'
  BY StepOk, NoneIsNoEntry
<1> QED BY <1>1, InitOk, Backed, PTL DEF Spec

(* ---- the order of the index ---- *)

LEMMA Least == ASSUME NEW S \in SUBSET Nat, S # {} PROVE \E m \in S : \A n \in S : m <= n
<1> DEFINE R == OpToRel(<, Nat)
<1>1. IsWellFoundedOn(R, Nat)
  BY NatLessThanWellFounded
<1>2. \A x, y \in Nat : y < x => <<y, x>> \in R
  BY DEF OpToRel
<1> HIDE DEF R
<1>3. PICK m \in S : \A n \in S : ~ (<<n, m>> \in R)
  BY <1>1, WFMin
<1>4. \A n \in S : m <= n
  <2> SUFFICES ASSUME NEW n \in S, ~ (m <= n) PROVE FALSE
    OBVIOUS
  <2>1. n < m /\ m \in Nat /\ n \in Nat
    OBVIOUS
  <2> QED BY <1>2, <1>3, <2>1
<1> QED BY <1>4

\* What an index file holds: finitely many rows, with or without a position.
IndexFits(ix) ==
  /\ ix = [k \in Keys |-> ix[k]] /\ IsFiniteSet(Indexed(ix))
  /\ \A k \in Indexed(ix) : ix[k] \in [seq : Nat \cup {NoSeq}]

LEMMA BeforeIs ==
  ASSUME NEW ix, IndexFits(ix)
  PROVE  /\ \A a \in Indexed(ix) : Position(ix[a]) \in Int /\ Position(ix[a]) >= -1 /\ a \in Nat
         /\ \A a \in Indexed(ix) : ~ Before(ix, a, a)
         /\ \A a, b \in Indexed(ix) : Before(ix, a, b) => ~ Before(ix, b, a)
         /\ \A a, b \in Indexed(ix) : a = b \/ Before(ix, a, b) \/ Before(ix, b, a)
         /\ \A a, b, c \in Indexed(ix) : Before(ix, a, b) /\ Before(ix, b, c) => Before(ix, a, c)
<1>1. \A a \in Indexed(ix) : Position(ix[a]) \in Int /\ Position(ix[a]) >= -1 /\ a \in Nat
  <2> SUFFICES ASSUME NEW a \in Indexed(ix)
               PROVE  Position(ix[a]) \in Int /\ Position(ix[a]) >= -1 /\ a \in Nat
    OBVIOUS
  <2>1. a \in Nat
    BY KeysAreNat DEF IndexFits, Indexed
  <2>2. ix[a].seq \in Nat \cup {NoSeq}
    BY DEF IndexFits
  <2> QED BY <2>1, <2>2 DEF Position
<1> QED BY <1>1 DEF Before

\* An enumeration of a set of rows in the order of the index.
Sorted(ix, S, s) ==
  /\ s \in [1..Cardinality(S) -> S]
  /\ \A m, n \in 1..Cardinality(S) : m < n => Before(ix, s[m], s[n])

LEMMA SortedCovers ==
  ASSUME NEW ix, IndexFits(ix), NEW S \in SUBSET Indexed(ix), NEW s, Sorted(ix, S, s)
  PROVE  /\ IsFiniteSet(S) /\ Cardinality(S) \in Nat
         /\ \A m, n \in 1..Cardinality(S) : s[m] = s[n] => m = n
         /\ \A x \in S : \E n \in 1..Cardinality(S) : s[n] = x
<1>1. IsFiniteSet(S) /\ Cardinality(S) \in Nat
  BY FS_Subset, FS_CardinalityType DEF IndexFits
<1> DEFINE D == 1..Cardinality(S)
<1>2. IsFiniteSet(D) /\ Cardinality(D) = Cardinality(S)
  BY <1>1, FS_Interval
<1>3. \A m, n \in D : s[m] = s[n] => m = n
  <2> SUFFICES ASSUME NEW m \in D, NEW n \in D, s[m] = s[n], m # n PROVE FALSE
    OBVIOUS
  <2>1. m < n \/ n < m
    BY <1>1
  <2>2. s[m] \in Indexed(ix) /\ s[n] \in Indexed(ix)
    BY DEF Sorted
  <2> QED BY <2>1, <2>2, BeforeIs DEF Sorted
<1>4. s \in Injection(D, S)
  BY <1>3 DEF Sorted, Injection, IsInjective
<1>5. s \in Surjection(D, S)
  <2> HIDE DEF D
  <2> QED BY <1>1, <1>2, <1>4, FS_Injection
<1> QED BY <1>1, <1>3, <1>5 DEF Surjection

LEMMA SortedIsUnique ==
  ASSUME NEW ix, IndexFits(ix), NEW S \in SUBSET Indexed(ix),
         NEW s, Sorted(ix, S, s), NEW t, Sorted(ix, S, t)
  PROVE  s = t
<1> DEFINE N == Cardinality(S)
<1>1. N \in Nat
  BY SortedCovers
<1>2. s \in [1..N -> S] /\ t \in [1..N -> S]
  BY DEF Sorted
<1>3. ASSUME NEW n \in 1..N, s[n] # t[n] PROVE FALSE
  <2> DEFINE D == {m \in 1..N : s[m] # t[m]}
  <2>1. D \in SUBSET Nat /\ D # {}
    BY <1>3
  <2>2. PICK m \in D : \A k \in D : m <= k
    BY <2>1, Least
  <2>3. m \in 1..N /\ s[m] # t[m] /\ \A k \in 1..N : k < m => s[k] = t[k]
    BY <1>1, <2>2
  <2>4. PICK i \in 1..N : t[i] = s[m]
    <3>1. \A x \in S : \E i \in 1..N : t[i] = x
      BY SortedCovers
    <3> QED BY <1>2, <2>3, <3>1
  <2>5. PICK j \in 1..N : s[j] = t[m]
    <3>1. \A x \in S : \E j \in 1..N : s[j] = x
      BY SortedCovers
    <3> QED BY <1>2, <2>3, <3>1
  <2>6. m < i
    BY <1>1, <2>3, <2>4, SortedCovers
  <2>7. m < j
    BY <1>1, <2>3, <2>5, SortedCovers
  <2>8. Before(ix, t[m], s[m]) /\ Before(ix, s[m], t[m])
    BY <2>3, <2>4, <2>5, <2>6, <2>7 DEF Sorted
  <2>9. s[m] \in Indexed(ix) /\ t[m] \in Indexed(ix)
    BY <1>2, <2>3
  <2> QED BY <2>8, <2>9, BeforeIs
<1>4. \A n \in 1..N : s[n] = t[n]
  BY <1>3
<1> HIDE DEF N
<1>5. s = [n \in 1..N |-> s[n]] /\ t = [n \in 1..N |-> t[n]]
  BY <1>2
<1> QED BY <1>4, <1>5

\* One more row finds its place.
LEMMA SortedInsert ==
  ASSUME NEW ix, IndexFits(ix), NEW S \in SUBSET Indexed(ix), NEW x \in Indexed(ix), x \notin S,
         NEW u, Sorted(ix, S, u)
  PROVE  \E s : Sorted(ix, S \cup {x}, s)
<1> DEFINE N == Cardinality(S)
<1>1. N \in Nat /\ Cardinality(S \cup {x}) = N + 1
  BY SortedCovers, FS_AddElement
<1>2. /\ u \in [1..N -> S] /\ \A m, n \in 1..N : m < n => Before(ix, u[m], u[n])
      /\ \A m \in 1..N : u[m] \in Indexed(ix) /\ u[m] # x
  BY DEF Sorted
<1> HIDE DEF N
<1> DEFINE D == {m \in 1..(N + 1) : m = N + 1 \/ Before(ix, x, u[m])}
<1>3. PICK i \in D : \A m \in D : i <= m
  <2>1. D \in SUBSET Nat /\ D # {}
    BY <1>1
  <2> HIDE DEF D
  <2> QED BY <2>1, Least
<1>4. i \in 1..(N + 1) /\ \A m \in 1..N : m < i => Before(ix, u[m], x)
  <2> SUFFICES ASSUME NEW m \in 1..N, m < i PROVE Before(ix, u[m], x)
    BY <1>3
  <2>1. m \notin D
    BY <1>1, <1>3
  <2>2. ~ Before(ix, x, u[m])
    BY <1>1, <2>1
  <2> QED BY <1>2, <2>2, BeforeIs
<1>5. \A m \in 1..N : i <= m => Before(ix, x, u[m])
  <2> SUFFICES ASSUME NEW m \in 1..N, i <= m PROVE Before(ix, x, u[m])
    OBVIOUS
  <2>1. i \in 1..N /\ Before(ix, x, u[i])
    BY <1>1, <1>3
  <2> QED BY <1>1, <1>2, <2>1, BeforeIs
<1> DEFINE s == [n \in 1..(N + 1) |-> IF n < i THEN u[n] ELSE IF n = i THEN x ELSE u[n - 1]]
<1>6. s \in [1..(N + 1) -> S \cup {x}]
  <2>1. \A n \in 1..(N + 1) : n < i => n \in 1..N
    BY <1>1, <1>4
  <2>2. \A n \in 1..(N + 1) : ~ (n < i) /\ n # i => n - 1 \in 1..N
    BY <1>1, <1>4
  <2> QED BY <1>2, <2>1, <2>2
<1>7. ASSUME NEW m \in 1..(N + 1), NEW n \in 1..(N + 1), m < n PROVE Before(ix, s[m], s[n])
  <2>1. CASE n < i
    <3>1. m \in 1..N /\ n \in 1..N /\ s[m] = u[m] /\ s[n] = u[n]
      BY <1>1, <1>4, <1>7, <2>1
    <3> QED BY <1>2, <1>7, <3>1
  <2>2. CASE n = i
    <3>1. m \in 1..N /\ m < i /\ s[m] = u[m] /\ s[n] = x
      BY <1>1, <1>4, <1>7, <2>2
    <3> QED BY <1>4, <3>1
  <2>3. CASE i < n /\ m < i
    <3>1. m \in 1..N /\ n - 1 \in 1..N /\ m < n - 1 /\ s[m] = u[m] /\ s[n] = u[n - 1]
      BY <1>1, <1>4, <1>7, <2>3
    <3> QED BY <1>2, <3>1
  <2>4. CASE i < n /\ m = i
    <3>1. n - 1 \in 1..N /\ i <= n - 1 /\ s[m] = x /\ s[n] = u[n - 1]
      BY <1>1, <1>4, <1>7, <2>4
    <3> QED BY <1>5, <3>1
  <2>5. CASE i < n /\ i < m
    <3>1. m - 1 \in 1..N /\ n - 1 \in 1..N /\ m - 1 < n - 1 /\ s[m] = u[m - 1] /\ s[n] = u[n - 1]
      BY <1>1, <1>4, <1>7, <2>5
    <3> QED BY <1>2, <3>1
  <2> QED BY <1>1, <1>4, <2>1, <2>2, <2>3, <2>4, <2>5
<1> HIDE DEF s
<1>8. Sorted(ix, S \cup {x}, s)
  BY <1>1, <1>6, <1>7 DEF Sorted
<1> QED BY <1>8

LEMMA SortedExists ==
  ASSUME NEW ix, IndexFits(ix), NEW S \in SUBSET Indexed(ix)
  PROVE  \E s : Sorted(ix, S, s)
<1> DEFINE I == Indexed(ix)
           T == {X \in SUBSET I : ~ \E s : Sorted(ix, X, s)}
<1> SUFFICES ASSUME T # {} PROVE FALSE
  OBVIOUS
<1>1. IsFiniteSet(I) /\ FiniteSubsetsOf(I) = SUBSET I
  BY FS_FiniteSubsetsOfFinite DEF IndexFits
<1>2. IsWellFoundedOn(StrictSubsetOrdering(I), SUBSET I)
  BY <1>1, FS_StrictSubsetOrderingWellFounded
<1>3. PICK X \in T : \A Y \in T : ~ (<<Y, X>> \in StrictSubsetOrdering(I))
  <2>1. T \subseteq SUBSET I
    OBVIOUS
  <2> HIDE DEF T, I
  <2> QED BY <1>2, <2>1, WFMin
<1>4. CASE X = {}
  <2>1. Cardinality(X) = 0
    BY <1>4, FS_EmptySet
  <2>2. PICK s : s = [n \in 1..0 |-> 0]
    OBVIOUS
  <2>3. Sorted(ix, X, s)
    BY <1>4, <2>1, <2>2 DEF Sorted
  <2> QED BY <2>3
<1>5. CASE X # {}
  <2>1. PICK x : x \in X
    BY <1>5
  <2> DEFINE Y == X \ {x}
  <2>2. Y \in SUBSET I /\ x \in I /\ x \notin Y /\ X = Y \cup {x} /\ Y # X
    BY <2>1
  <2> HIDE DEF Y
  <2>3. <<Y, X>> \in StrictSubsetOrdering(I)
    BY <2>2 DEF StrictSubsetOrdering
  <2>4. PICK u : Sorted(ix, Y, u)
    BY <1>3, <2>2, <2>3
  <2>5. \E s : Sorted(ix, X, s)
    BY <2>1, <2>2, <2>4, SortedInsert
  <2> QED BY <2>5
<1> QED BY <1>4, <1>5

\* SortedKeys is the enumeration it is meant to be, and there is no other.
LEMMA SortedKeysIs ==
  ASSUME NEW ix, IndexFits(ix)
  PROVE  /\ Sorted(ix, Indexed(ix), SortedKeys(ix))
         /\ \A s : Sorted(ix, Indexed(ix), s) => s = SortedKeys(ix)
<1> DEFINE I == Indexed(ix)
           N == Cardinality(I)
           P(s) == \A m, n \in DOMAIN s : m < n => Before(ix, s[m], s[n])
<1>1. PICK s : Sorted(ix, I, s)
  BY SortedExists
<1>2. \A t \in [1..N -> I] : Sorted(ix, I, t) <=> P(t)
  BY DEF Sorted
<1>3. SortedKeys(ix) = CHOOSE t \in [1..N -> I] : P(t)
  BY DEF SortedKeys
<1>4. s \in [1..N -> I] /\ P(s)
  BY <1>1, <1>2 DEF Sorted
<1> HIDE DEF P, N, I
<1>5. SortedKeys(ix) \in [1..N -> I] /\ P(SortedKeys(ix))
  BY <1>3, <1>4
<1>6. Sorted(ix, I, SortedKeys(ix))
  BY <1>2, <1>5
<1> QED BY <1>6, SortedIsUnique DEF I

(* ---- one more row ---- *)

NoneIsNoRow == \A n : [seq |-> n] # None

\* The ledger with a row for k after all others.
AppendRow(ix, k) == [ix EXCEPT ![k] = [seq |-> NextSeq(ix)]]

LEMMA NextSeqIsLast ==
  ASSUME NEW ix, IndexFits(ix)
  PROVE  NextSeq(ix) \in Nat /\ \A a \in Indexed(ix) : Position(ix[a]) < NextSeq(ix)
<1> DEFINE N == Cardinality(Indexed(ix))
           s == SortedKeys(ix)
           used == {Position(ix[a]) : a \in Indexed(ix)} \cup {-1}
<1>1. /\ N \in Nat /\ s \in [1..N -> Indexed(ix)]
      /\ \A m, n \in 1..N : m < n => Before(ix, s[m], s[n])
      /\ \A a \in Indexed(ix) : \E n \in 1..N : s[n] = a
  <2>1. Sorted(ix, Indexed(ix), s)
    BY SortedKeysIs
  <2>2. /\ N \in Nat
        /\ \A a \in Indexed(ix) : \E n \in 1..N : s[n] = a
    BY <2>1, SortedCovers
  <2> QED BY <2>1, <2>2 DEF Sorted
<1>2. \A a \in Indexed(ix) : Position(ix[a]) \in Int /\ Position(ix[a]) >= -1
  BY BeforeIs
<1>3. \E m \in used : \A x \in used : x <= m
  <2>1. CASE N = 0
    <3>1. \A a \in Indexed(ix) : FALSE
      BY <1>1, <2>1
    <3> QED BY <3>1
  <2>2. CASE N # 0
    <3>1. N \in 1..N /\ s[N] \in Indexed(ix)
      BY <1>1, <2>2
    <3>2. ASSUME NEW a \in Indexed(ix) PROVE Position(ix[a]) <= Position(ix[s[N]])
      <4>1. PICK n \in 1..N : s[n] = a
        BY <1>1
      <4>2. n = N \/ Before(ix, a, s[N])
        BY <1>1, <3>1, <4>1
      <4> QED BY <1>2, <3>1, <4>1, <4>2 DEF Before
    <3>3. -1 <= Position(ix[s[N]])
      BY <1>2, <3>1
    <3> QED BY <3>1, <3>2, <3>3
  <2> QED BY <2>1, <2>2
<1> DEFINE last == CHOOSE m \in used : \A x \in used : x <= m
<1>4. last \in used /\ \A x \in used : x <= last
  BY <1>3
<1>5. NextSeq(ix) = 1 + last
  BY DEF NextSeq
<1> HIDE DEF last
<1>6. last \in Int /\ last >= -1
  BY <1>2, <1>4
<1>7. \A a \in Indexed(ix) : Position(ix[a]) <= last
  BY <1>4
<1> QED BY <1>2, <1>5, <1>6, <1>7

LEMMA AppendedKeys ==
  ASSUME NoneIsNoRow, NEW ix, IndexFits(ix), NEW k \in Keys, ix[k] = None
  PROVE  LET N == Cardinality(Indexed(ix))
             jx == AppendRow(ix, k) IN
         /\ N \in Nat /\ IndexFits(jx) /\ Indexed(jx) = Indexed(ix) \cup {k}
         /\ Cardinality(Indexed(jx)) = N + 1
         /\ SortedKeys(jx) = [n \in 1..(N + 1) |-> IF n = N + 1 THEN k ELSE SortedKeys(ix)[n]]
<1> DEFINE I == Indexed(ix)
           N == Cardinality(I)
           jx == AppendRow(ix, k)
           s == SortedKeys(ix)
           t == [n \in 1..(N + 1) |-> IF n = N + 1 THEN k ELSE s[n]]
<1>1. IsFiniteSet(I) /\ N \in Nat /\ k \notin I
  BY FS_CardinalityType DEF IndexFits, Indexed
<1>2. NextSeq(ix) \in Nat /\ \A a \in I : Position(ix[a]) < NextSeq(ix)
  BY NextSeqIsLast
<1>3. /\ jx = [a \in Keys |-> jx[a]] /\ jx[k] = [seq |-> NextSeq(ix)] /\ jx[k] # None
      /\ \A a \in Keys \ {k} : jx[a] = ix[a]
  BY NoneIsNoRow DEF AppendRow, NoneIsNoRow, IndexFits
<1> HIDE DEF jx
<1>4. Indexed(jx) = I \cup {k}
  BY <1>3 DEF Indexed, IndexFits
<1>5. IsFiniteSet(Indexed(jx)) /\ Cardinality(Indexed(jx)) = N + 1
  BY <1>1, <1>4, FS_AddElement
<1>6. \A a \in Indexed(jx) : jx[a] \in [seq : Nat \cup {NoSeq}]
  <2>1. \A a \in I : a \in Keys \ {k} /\ ix[a] \in [seq : Nat \cup {NoSeq}]
    BY <1>1 DEF IndexFits, Indexed
  <2> QED BY <1>2, <1>3, <1>4, <2>1
<1>7. IndexFits(jx)
  BY <1>3, <1>5, <1>6 DEF IndexFits
<1>8. s \in [1..N -> I] /\ \A m, n \in 1..N : m < n => Before(ix, s[m], s[n])
  BY SortedKeysIs DEF Sorted
<1>9. Position(jx[k]) = NextSeq(ix)
  BY <1>2, <1>3, KeysAreNat DEF Position
<1> HIDE DEF I, N, s
<1>10. t \in [1..(N + 1) -> I \cup {k}]
  <2>1. \A n \in 1..(N + 1) : n # N + 1 => n \in 1..N
    BY <1>1
  <2> QED BY <1>8, <2>1
<1>11. ASSUME NEW m \in 1..(N + 1), NEW n \in 1..(N + 1), m < n PROVE Before(jx, t[m], t[n])
  <2>1. m \in 1..N /\ t[m] = s[m] /\ s[m] \in I
    BY <1>1, <1>8, <1>11
  <2>2. CASE n = N + 1
    <3>1. t[n] = k
      BY <2>2
    <3>2. Position(jx[s[m]]) < NextSeq(ix)
      BY <1>1, <1>2, <1>3, <2>1 DEF I, Indexed, IndexFits
    <3> HIDE DEF t
    <3> QED BY <1>9, <2>1, <3>1, <3>2 DEF Before
  <2>3. CASE n # N + 1
    <3>1. n \in 1..N /\ t[n] = s[n] /\ s[n] \in I
      BY <1>1, <1>8, <2>3
    <3>2. jx[s[m]] = ix[s[m]] /\ jx[s[n]] = ix[s[n]]
      BY <1>1, <1>3, <2>1, <3>1 DEF I, Indexed, IndexFits
    <3> HIDE DEF t
    <3> QED BY <1>8, <1>11, <2>1, <3>1, <3>2 DEF Before
  <2> QED BY <2>2, <2>3
<1> HIDE DEF t
<1>12. Sorted(jx, Indexed(jx), t)
  BY <1>4, <1>5, <1>10, <1>11 DEF Sorted
<1>13. t = SortedKeys(jx)
  BY <1>7, <1>12, SortedKeysIs
<1> QED BY <1>1, <1>4, <1>5, <1>7, <1>13 DEF t, s, N, I, jx

(* ---- what a ledger advertises ---- *)

LEMMA ListedFits ==
  ASSUME NEW ix, IndexFits(ix), NEW fs
  PROVE  LET N == Cardinality(Indexed(ix)) IN
         /\ N \in Nat /\ (N = 0 <=> Indexed(ix) = {})
         /\ Listed(ix, fs) = [n \in 1..N |-> fs[SortedKeys(ix)[n]]]
         /\ \A n \in 1..N : SortedKeys(ix)[n] \in Indexed(ix)
<1>1. IsFiniteSet(Indexed(ix))
  BY DEF IndexFits
<1>2. /\ Cardinality(Indexed(ix)) \in Nat
      /\ Cardinality(Indexed(ix)) = 0 <=> Indexed(ix) = {}
  BY <1>1, FS_CardinalityType, FS_EmptySet
<1>3. \A n \in 1..Cardinality(Indexed(ix)) : SortedKeys(ix)[n] \in Indexed(ix)
  BY SortedKeysIs DEF Sorted
<1> QED BY <1>2, <1>3 DEF Listed

\* Files the index does not know are not looked at.
LEMMA OnlyIndexedFiles ==
  ASSUME NEW ix, IndexFits(ix), NEW fs, NEW gs, \A a \in Indexed(ix) : fs[a] = gs[a]
  PROVE  /\ Listed(ix, fs) = Listed(ix, gs)
         /\ LoadOk(ix, fs) <=> LoadOk(ix, gs)
         /\ LoadRoot(ix, fs) = LoadRoot(ix, gs)
<1>1. Listed(ix, fs) = Listed(ix, gs)
  BY ListedFits
<1>2. Readable(ix, fs) <=> Readable(ix, gs)
  BY DEF Readable
<1> QED BY <1>1, <1>2 DEF LoadOk, LoadRoot

LEMMA Prefix ==
  ASSUME NEW n \in Nat, NEW f
  PROVE  SubSeq(f, 1, n) = [m \in 1..n |-> f[m]]
<1> DEFINE S == {f[m] : m \in 1..n}
<1>1. \A m \in 1..n : f[m] \in S
  OBVIOUS
<1> HIDE DEF S
<1>2. /\ SubSeq(f, 1, n) \in Seq(S) /\ Len(SubSeq(f, 1, n)) = n
      /\ \A m \in 1..n : SubSeq(f, 1, n)[m] = f[m]
  <2>1. /\ SubSeq(f, 1, n) \in Seq(S)
        /\ Len(SubSeq(f, 1, n)) = IF 1 <= n THEN n - 1 + 1 ELSE 0
        /\ \A m \in 1..(n - 1 + 1) : SubSeq(f, 1, n)[m] = f[1 + m - 1]
    BY <1>1, SubSeqProperties
  <2>2. n - 1 + 1 = n /\ (~ (1 <= n) => n = 0) /\ \A m \in 1..n : 1 + m - 1 = m
    OBVIOUS
  <2> QED BY <2>1, <2>2
<1>3. SubSeq(f, 1, n) \in [1..n -> S]
  BY <1>2, LenProperties
<1> QED BY <1>2, <1>3

\* A chain with one more entry, whose parent is the root of the others, is a chain.
LEMMA ChainGrows ==
  ASSUME NEW N \in Nat, NEW f, NEW e, f = [n \in 1..N |-> f[n]],
         N = 0 \/ IsChain(f), e.parent = IF N = 0 THEN Genesis ELSE Root(f)
  PROVE  IsChain([n \in 1..(N + 1) |-> IF n = N + 1 THEN e ELSE f[n]])
<1> DEFINE g == [n \in 1..(N + 1) |-> IF n = N + 1 THEN e ELSE f[n]]
<1>1. DOMAIN g = 1..(N + 1) /\ g[N + 1] = e /\ \A n \in 1..N : g[n] = f[n]
  OBVIOUS
<1> HIDE DEF g
<1>2. \A n \in 1..(N + 1) : SubSeq(g, 1, n - 1) = [m \in 1..(n - 1) |-> f[m]]
  <2> SUFFICES ASSUME NEW n \in 1..(N + 1)
               PROVE  SubSeq(g, 1, n - 1) = [m \in 1..(n - 1) |-> f[m]]
    OBVIOUS
  <2>1. n - 1 \in Nat /\ \A m \in 1..(n - 1) : m \in 1..N
    OBVIOUS
  <2>2. SubSeq(g, 1, n - 1) = [m \in 1..(n - 1) |-> g[m]]
    BY <2>1, Prefix
  <2> QED BY <1>1, <2>1, <2>2
<1>3. ASSUME NEW n \in 1..(N + 1) PROVE ParentOk(g, n)
  <2>1. CASE n = N + 1
    <3>1. SubSeq(g, 1, n - 1) = f
      <4>1. n - 1 = N
        BY <2>1
      <4> QED BY <1>2, <4>1
    <3>2. n = 1 <=> N = 0
      BY <2>1
    <3> QED BY <1>1, <2>1, <3>1, <3>2 DEF ParentOk
  <2>2. CASE n # N + 1
    <3>1. n \in 1..N /\ N # 0 /\ n - 1 \in Nat
      BY <2>2
    <3>2. DOMAIN f = 1..N
      OBVIOUS
    <3>3. ParentOk(f, n)
      BY <3>1, <3>2 DEF IsChain
    <3>4. SubSeq(f, 1, n - 1) = SubSeq(g, 1, n - 1)
      BY <1>2, <3>1, Prefix
    <3> QED BY <1>1, <3>1, <3>3, <3>4 DEF ParentOk
  <2> QED BY <2>1, <2>2
<1>4. g # <<>>
  <2>1. 1 \in DOMAIN g
    BY <1>1
  <2> QED BY <2>1
<1>5. IsChain(g)
  BY <1>1, <1>3, <1>4 DEF IsChain
<1> QED BY <1>5 DEF g

\* The ledger that loads still loads with a row for an entry that extends its root.
LEMMA LoadGrows ==
  ASSUME NoneIsNoRow, NEW ix, IndexFits(ix), NEW fs, NEW k \in Keys, ix[k] = None,
         fs[k] # None, LoadOk(ix, fs), fs[k].parent = LoadRoot(ix, fs)
  PROVE  LoadOk(AppendRow(ix, k), fs)
<1> DEFINE N == Cardinality(Indexed(ix))
           jx == AppendRow(ix, k)
           f == Listed(ix, fs)
           g == [n \in 1..(N + 1) |-> IF n = N + 1 THEN fs[k] ELSE f[n]]
<1>1. /\ N \in Nat /\ IndexFits(jx) /\ Indexed(jx) = Indexed(ix) \cup {k}
      /\ Cardinality(Indexed(jx)) = N + 1
      /\ SortedKeys(jx) = [n \in 1..(N + 1) |-> IF n = N + 1 THEN k ELSE SortedKeys(ix)[n]]
  BY AppendedKeys
<1>2. (N = 0 <=> Indexed(ix) = {}) /\ f = [n \in 1..N |-> fs[SortedKeys(ix)[n]]]
  BY ListedFits
<1> HIDE DEF jx, N, f
<1>3. Listed(jx, fs) = g
  <2>1. \A n \in 1..(N + 1) : n # N + 1 => n \in 1..N
    BY <1>1
  <2>2. \A n \in 1..(N + 1) : fs[SortedKeys(jx)[n]] = IF n = N + 1 THEN fs[k] ELSE f[n]
    BY <1>1, <1>2, <2>1
  <2>3. Listed(jx, fs) = [n \in 1..(N + 1) |-> fs[SortedKeys(jx)[n]]]
    BY <1>1 DEF Listed
  <2> QED BY <2>2, <2>3
<1>4. f = [n \in 1..N |-> f[n]]
  BY <1>2
<1>5. N = 0 \/ IsChain(f)
  BY <1>2 DEF LoadOk, f
<1>6. fs[k].parent = IF N = 0 THEN Genesis ELSE Root(f)
  BY <1>2 DEF LoadRoot, f
<1>7. IsChain(g)
  BY <1>1, <1>4, <1>5, <1>6, ChainGrows
<1>8. Readable(jx, fs)
  BY <1>1 DEF Readable, LoadOk
<1> QED BY <1>3, <1>7, <1>8 DEF LoadOk, jx

\* The only row of a ledger may be given any position.
LEMMA OneRow ==
  ASSUME NEW ix, IndexFits(ix), NEW jx, IndexFits(jx), NEW fs,
         Indexed(jx) = Indexed(ix), Cardinality(Indexed(ix)) <= 1
  PROVE  LoadOk(jx, fs) <=> LoadOk(ix, fs)
<1> DEFINE N == Cardinality(Indexed(ix))
<1>1. /\ N \in Nat /\ N <= 1 /\ SortedKeys(ix) \in [1..N -> Indexed(ix)]
      /\ SortedKeys(jx) \in [1..N -> Indexed(ix)]
  BY ListedFits, SortedKeysIs DEF Sorted
<1>2. Sorted(ix, Indexed(ix), SortedKeys(jx))
  <2> HIDE DEF N
  <2>1. \A m, n \in 1..N : ~ (m < n)
    BY <1>1
  <2> QED BY <1>1, <2>1 DEF Sorted, N
<1>3. SortedKeys(jx) = SortedKeys(ix)
  BY <1>2, SortedKeysIs
<1>4. Listed(jx, fs) = Listed(ix, fs) /\ (Readable(jx, fs) <=> Readable(ix, fs))
  BY <1>3 DEF Listed, Readable
<1> QED BY <1>4 DEF LoadOk

(* ---- what breaks a ledger ---- *)

\* An entry that a process has written and not yet indexed.
Extends(e) == files[e.key] = e /\ (tainted \/ index[e.key] # None \/ e.parent = LoadRoot(index, files))

\* Files are named after their entries, and an unspoilt ledger loads, also with the
\* entry a process is about to index.
LInv ==
  /\ IInv /\ IndexFits(index)
  /\ \A k \in Keys : files[k] # None => files[k].key = k
  /\ BreaksOnlyBySpoiling
  /\ \A p \in Procs : proc[p].at = "index" => Extends(proc[p].entry)

THEOREM LInitOk == Init => LInv
<1> SUFFICES ASSUME Init PROVE LInv
  OBVIOUS
<1>1. PICK d \in Disks : files = d.files /\ index = d.index
  BY DEF Init
<1>2. IndexFits(index) /\ \A k \in Keys : files[k] # None => files[k].key = k
  BY <1>1, DisksAreReadable DEF IndexFits
<1>3. \A p \in Procs : proc[p].at = "idle"
  BY DEF Init, Idle
<1>4. BreaksOnlyBySpoiling
  BY DEF Init, BreaksOnlyBySpoiling
<1> QED BY <1>2, <1>3, <1>4, InitOk DEF LInv

\* A step that touches neither the rows nor the files they name.
LEMMA UnindexedStep ==
  ASSUME LInv, UNCHANGED index, tainted => tainted', DOMAIN files' = Keys,
         \A k \in Indexed(index) : files'[k] = files[k]
  PROVE  /\ IndexFits(index)' /\ BreaksOnlyBySpoiling'
         /\ LoadOk(index, files)' <=> LoadOk(index, files)
         /\ LoadRoot(index, files)' = LoadRoot(index, files)
<1>1. IndexFits(index)' /\ index' = index
  BY DEF LInv
<1>2. /\ LoadOk(index, files) <=> LoadOk(index, files')
      /\ LoadRoot(index, files) = LoadRoot(index, files')
  BY OnlyIndexedFiles DEF LInv
<1> QED BY <1>1, <1>2 DEF LInv, BreaksOnlyBySpoiling

\* A process that releases the lock was the only one writing.
LEMMA NobodyWrites ==
  ASSUME IInv, NEW p \in Procs, proc[p].at \in Writing, Step(p, Idle)
  PROVE  \A q \in Procs : proc'[q].at # "index"
<1>1. proc'[p] = Idle /\ \A q \in Procs \ {p} : proc'[q] = proc[q]
  BY StepFacts
<1>2. \A q \in Procs \ {p} : proc[q].at \notin Writing
  BY WriterFacts
<1> QED BY <1>1, <1>2 DEF Idle, Writing

\* What a replaced index holds.
LEMMA ReplacedIndex ==
  ASSUME NoneIsNoRow, NEW k \in Keys, IndexFits(index), ReplaceIndex(k)
  PROVE  /\ IndexFits(index')
         /\ \/ index' = index
            \/ index[k] = None /\ index' = AppendRow(index, k)
            \/ index[k] # None /\ index[k].seq = NoSeq /\ Indexed(index') = Indexed(index)
<1>1. CASE index[k] = None
  <2>1. index' = AppendRow(index, k)
    BY <1>1 DEF AppendRow, ReplaceIndex, IndexFits
  <2>2. IndexFits(index')
    BY <1>1, <2>1, AppendedKeys
  <2> QED BY <1>1, <2>1, <2>2
<1>2. CASE index[k] # None /\ index[k].seq # NoSeq
  <2>1. index' = index
    BY <1>2 DEF ReplaceIndex, IndexFits
  <2> QED BY <2>1
<1>3. CASE index[k] # None /\ index[k].seq = NoSeq
  <2>1. index' = AppendRow(index, k)
    BY <1>3 DEF AppendRow, ReplaceIndex, IndexFits
  <2>2. NextSeq(index) \in Nat /\ k \in Indexed(index)
    BY <1>3, NextSeqIsLast DEF Indexed, IndexFits
  <2>3. /\ index' = [a \in Keys |-> index'[a]] /\ index'[k] = [seq |-> NextSeq(index)] /\ index'[k] # None
        /\ \A a \in Keys \ {k} : index'[a] = index[a]
    BY <2>1, NoneIsNoRow DEF AppendRow, NoneIsNoRow, IndexFits
  <2>4. Indexed(index') = Indexed(index)
    BY <2>2, <2>3 DEF Indexed, IndexFits
  <2>5. \A a \in Indexed(index) : a \in Keys /\ index[a] \in [seq : Nat \cup {NoSeq}]
    BY DEF IndexFits, Indexed
  <2>6. \A a \in Indexed(index) : index'[a] \in [seq : Nat \cup {NoSeq}]
    BY <2>2, <2>3, <2>5
  <2>7. IsFiniteSet(Indexed(index))
    BY DEF IndexFits
  <2> QED BY <1>3, <2>3, <2>4, <2>6, <2>7 DEF IndexFits
<1> QED BY <1>1, <1>2, <1>3

LEMMA LStepOk == ASSUME NoneIsNoEntry, NoneIsNoRow, LInv, [Next]_vars PROVE LInv'
<1>0. IInv /\ IInv'
  BY StepOk DEF LInv
<1>1. ASSUME NEW p \in Procs, MakeEntry(p) \/ Lock(p) \/ LockTimeout(p) PROVE LInv'
  <2>1. UNCHANGED <<files, index, tainted>>
    BY <1>1 DEF MakeEntry, Lock, LockTimeout
  <2>2. \A q \in Procs : proc'[q].at = "index" => proc'[q] = proc[q]
    <3>1. CASE MakeEntry(p)
      <4>1. PICK e : Step(p, [at |-> "lock", entry |-> e])
        BY <3>1 DEF MakeEntry
      <4>2. /\ proc'[p] = [at |-> "lock", entry |-> e]
            /\ \A q \in Procs \ {p} : proc'[q] = proc[q]
        BY <1>0, <4>1, StepFacts
      <4> QED BY <4>2
    <3>2. CASE Lock(p)
      <4>1. /\ Step(p, [proc[p] EXCEPT !.at = "entry"])
            /\ proc[p] = [at |-> "lock", entry |-> proc[p].entry]
        BY <1>0, <3>2 DEF Lock, At, IInv, Job, Idle
      <4>2. [proc[p] EXCEPT !.at = "entry"].at = "entry"
        BY <4>1
      <4> QED BY <1>0, <4>1, <4>2, StepFacts
    <3>3. CASE LockTimeout(p)
      BY <1>0, <3>3, StepFacts DEF LockTimeout, Idle
    <3> QED BY <1>1, <3>1, <3>2, <3>3
  <2> QED BY <1>0, <2>1, <2>2 DEF LInv, BreaksOnlyBySpoiling, Extends
<1>2. ASSUME NEW p \in Procs, WriteEntry(p) PROVE LInv'
  <2>0. PICK e : e = proc[p].entry
    OBVIOUS
  <2>1. /\ UNCHANGED index /\ proc[p].at = "entry" /\ tainted' = (tainted \/ Spoils(e))
        /\ files' = [files EXCEPT ![e.key] = e]
        /\ Step(p, [proc[p] EXCEPT !.at = "index"])
    BY <1>2, <2>0 DEF WriteEntry, At
  <2>2. /\ proc[p] = [at |-> "entry", entry |-> e] /\ e.key \in Keys
        /\ \A q \in Procs \ {p} : proc[q].at # "index"
    BY <1>0, <2>0, <2>1, WriterFacts DEF Writing, IsEntry
  <2>3. [proc[p] EXCEPT !.at = "index"] = [at |-> "index", entry |-> e]
    BY <2>2
  <2>4. /\ proc'[p] = [at |-> "index", entry |-> e]
        /\ \A q \in Procs \ {p} : proc'[q].at # "index"
    BY <1>0, <2>1, <2>2, <2>3, StepFacts
  <2>5. /\ DOMAIN files' = Keys /\ files'[e.key] = e
        /\ \A k \in Keys \ {e.key} : files'[k] = files[k]
    BY <1>0, <2>1, <2>2 DEF IInv
  <2>6. \A k \in Keys : files'[k] # None => files'[k].key = k
    BY <2>5 DEF LInv
  <2>7. CASE tainted'
    BY <1>0, <2>1, <2>4, <2>5, <2>6, <2>7 DEF LInv, BreaksOnlyBySpoiling, Extends
  <2>8. CASE ~ tainted'
    <3>1. ~ tainted /\ ~ Spoils(e)
      BY <2>1, <2>8
    <3>2. /\ files[e.key] = e \/ index[e.key] = None
          /\ index[e.key] # None \/ e.parent = LoadRoot(index, files)
      BY <3>1 DEF Spoils
    <3>3. \A k \in Indexed(index) : files'[k] = files[k]
      BY <2>5, <3>2 DEF Indexed, LInv, IndexFits
    <3>4. /\ IndexFits(index)' /\ BreaksOnlyBySpoiling'
          /\ LoadRoot(index, files)' = LoadRoot(index, files)
      BY <2>1, <2>5, <3>1, <3>3, UnindexedStep
    <3>5. Extends(e)'
      BY <2>1, <2>5, <3>2, <3>4 DEF Extends
    <3>6. \A q \in Procs : proc'[q].at = "index" => proc'[q].entry = e
      BY <2>4
    <3> QED BY <1>0, <2>6, <3>4, <3>5, <3>6 DEF LInv, Extends
  <2> QED BY <2>7, <2>8
<1>3. ASSUME NEW p \in Procs, WriteIndex(p) PROVE LInv'
  <2> DEFINE e == proc[p].entry
             k == proc[p].entry.key
  <2>1. /\ UNCHANGED files /\ Step(p, Idle) /\ proc[p].at = "index" /\ proc[p].at \in Writing
        /\ ReplaceIndex(k) /\ tainted' = (tainted \/ Moves(k))
    BY <1>3 DEF WriteIndex, At, Writing
  <2>2. \A q \in Procs : proc'[q].at # "index"
    BY <1>0, <2>1, NobodyWrites
  <2>3. IsEntry(e) /\ k \in Keys /\ Extends(e) /\ DOMAIN index = Keys
    BY <1>0, <2>1, WriterFacts DEF LInv, IsEntry, IInv
  <2>4. files[k] = e /\ files[k] # None
    <3>1. e # None
      BY <2>3, NoneIsNoEntry DEF IsEntry, NoneIsNoEntry
    <3> QED BY <2>3, <3>1 DEF Extends
  <2>5. IndexFits(index) /\ \A a \in Keys : files'[a] # None => files'[a].key = a
    BY <2>1 DEF LInv
  <2> HIDE DEF e, k
  <2>6. IndexFits(index') /\ (tainted' \/ LoadOk(index', files))
    <3>0. /\ IndexFits(index')
          /\ \/ index' = index
             \/ index[k] = None /\ index' = AppendRow(index, k)
             \/ index[k] # None /\ index[k].seq = NoSeq /\ Indexed(index') = Indexed(index)
      BY <2>1, <2>3, <2>5, ReplacedIndex
    <3>1. CASE index[k] = None /\ index' = AppendRow(index, k)
      <4>1. tainted' \/ (LoadOk(index, files) /\ files[k].parent = LoadRoot(index, files))
        BY <2>1, <2>3, <2>4, <3>1 DEF Extends, LInv, BreaksOnlyBySpoiling, e, k
      <4> QED BY <2>3, <2>4, <2>5, <3>0, <3>1, <4>1, LoadGrows
    <3>2. CASE index' = index
      BY <2>1, <2>5, <3>2 DEF LInv, BreaksOnlyBySpoiling
    <3>3. CASE index[k] # None /\ index[k].seq = NoSeq /\ Indexed(index') = Indexed(index)
      <4>1. Cardinality(Indexed(index)) \in Nat
        BY <2>5, FS_CardinalityType DEF IndexFits
      <4>2. tainted' \/ ~ (Cardinality(Indexed(index)) > 1)
        BY <2>1, <3>3 DEF Moves
      <4>3. tainted' \/ LoadOk(index, files)
        BY <2>1 DEF LInv, BreaksOnlyBySpoiling
      <4>4. ~ (Cardinality(Indexed(index)) > 1) <=> Cardinality(Indexed(index)) <= 1
        BY <4>1
      <4> QED BY <2>5, <3>0, <3>3, <4>2, <4>3, <4>4, OneRow
    <3> QED BY <3>0, <3>1, <3>2, <3>3
  <2>7. BreaksOnlyBySpoiling'
    BY <2>1, <2>6 DEF BreaksOnlyBySpoiling
  <2> QED BY <1>0, <2>2, <2>5, <2>6, <2>7 DEF LInv
<1>4. ASSUME NEW p \in Procs, EntryFails(p) \/ IndexFails(p) \/ Crash(p) PROVE LInv'
  <2>1. /\ UNCHANGED <<index, tainted>> /\ Step(p, Idle) /\ proc[p].at \in Writing
    BY <1>4 DEF EntryFails, IndexFails, Crash, At, Writing
  <2>2. /\ DOMAIN files' = Keys
        /\ \A k \in Keys : files'[k] = files[k] \/ (files'[k] = None /\ index[k] = None)
    BY <1>0, <1>4 DEF EntryFails, IndexFails, Crash, IInv
  <2>3. \A k \in Indexed(index) : files'[k] = files[k]
    BY <2>2 DEF Indexed, LInv, IndexFits
  <2>4. IndexFits(index)' /\ BreaksOnlyBySpoiling'
    BY <2>1, <2>2, <2>3, UnindexedStep
  <2>5. \A k \in Keys : files'[k] # None => files'[k].key = k
    BY <2>2 DEF LInv
  <2>6. \A q \in Procs : proc'[q].at # "index"
    BY <1>0, <2>1, NobodyWrites
  <2> QED BY <1>0, <2>4, <2>5, <2>6 DEF LInv
<1>5. ASSUME NEW p \in Procs, IndexInterrupted(p) PROVE LInv'
  <2> DEFINE k == proc[p].entry.key
  <2>1. /\ ReplaceIndex(k) /\ tainted' = (tainted \/ index[k] = None \/ Moves(k))
        /\ files' = IF index[k] = None THEN [files EXCEPT ![k] = None] ELSE files
        /\ Step(p, Idle) /\ proc[p].at = "index" /\ proc[p].at \in Writing
    BY <1>5 DEF IndexInterrupted, At, Writing
  <2>2. k \in Keys /\ IndexFits(index) /\ \A q \in Procs : proc'[q].at # "index"
    BY <1>0, <2>1, WriterFacts, NobodyWrites DEF LInv, IsEntry
  <2>3. \A a \in Keys : files'[a] # None => files'[a].key = a
    BY <1>0, <2>1, <2>2 DEF LInv, IInv
  <2> HIDE DEF k
  <2>4. /\ IndexFits(index')
        /\ \/ index' = index
           \/ index[k] = None /\ index' = AppendRow(index, k)
           \/ index[k] # None /\ index[k].seq = NoSeq /\ Indexed(index') = Indexed(index)
    BY <2>1, <2>2, ReplacedIndex
  <2>5. tainted' \/ LoadOk(index', files')
    <3> SUFFICES ASSUME ~ tainted' PROVE LoadOk(index', files')
      OBVIOUS
    <3>1. ~ tainted /\ index[k] # None /\ ~ Moves(k) /\ files' = files /\ LoadOk(index, files)
      BY <2>1 DEF LInv, BreaksOnlyBySpoiling
    <3>2. CASE index' = index
      BY <3>1, <3>2
    <3>3. CASE index[k].seq = NoSeq /\ Indexed(index') = Indexed(index)
      <4>1. Cardinality(Indexed(index)) \in Nat /\ ~ (Cardinality(Indexed(index)) > 1)
        BY <2>2, <3>1, <3>3, FS_CardinalityType DEF IndexFits, Moves
      <4>2. Cardinality(Indexed(index)) <= 1
        BY <4>1
      <4> QED BY <2>2, <2>4, <3>1, <3>3, <4>2, OneRow
    <3> QED BY <2>4, <3>1, <3>2, <3>3
  <2> QED BY <1>0, <2>2, <2>3, <2>4, <2>5 DEF LInv, BreaksOnlyBySpoiling
<1>6. CASE UNCHANGED vars
  <2>1. UNCHANGED <<files, index, proc, tainted>>
    BY <1>6 DEF vars
  <2> QED BY <1>0, <2>1 DEF LInv, BreaksOnlyBySpoiling, Extends
<1> QED BY <1>1, <1>2, <1>3, <1>4, <1>5, <1>6 DEF Next

\* A ledger stops loading only when an entry is written whose parent is no longer the
\* last root, an entry others build on is replaced, one of several rows without a
\* position is given one, or a Ctrl-C strikes after the index was replaced; no failed
\* write, killed process, leftover entry file or repeated persist breaks it
\* (persist_lineage_entry under its lock).
THEOREM OnlySpoilingBreaks ==
  ASSUME NoneIsNoEntry, NoneIsNoRow PROVE Spec => []BreaksOnlyBySpoiling
<1>1. LInv /\ [Next]_vars => LInv'
  BY LStepOk, NoneIsNoEntry, NoneIsNoRow
<1>2. LInv => BreaksOnlyBySpoiling
  BY DEF LInv
<1> QED BY <1>1, <1>2, LInitOk, PTL DEF Spec

(* ---- the walk from the genesis ---- *)

LEMMA FirstIs == ASSUME NEW S \in SUBSET Nat, S # {} PROVE First(S) \in S
BY Least DEF First

LEMMA LenIs ==
  ASSUME NEW n \in Nat, NEW f, f = [m \in 1..n |-> f[m]]
  PROVE  Len(f) = n /\ f \in Seq({f[m] : m \in 1..n})
<1>1. SubSeq(f, 1, n) = f
  BY Prefix
<1>2. \A m \in 1..n : f[m] \in {f[i] : i \in 1..n}
  OBVIOUS
<1>3. /\ SubSeq(f, 1, n) \in Seq({f[m] : m \in 1..n})
      /\ Len(SubSeq(f, 1, n)) = IF 1 <= n THEN n - 1 + 1 ELSE 0
  BY <1>2, SubSeqProperties
<1>4. n - 1 + 1 = n /\ (~ (1 <= n) => n = 0)
  OBVIOUS
<1> QED BY <1>1, <1>3, <1>4

LEMMA AppendIs ==
  ASSUME NEW n \in Nat, NEW f, f = [m \in 1..n |-> f[m]], NEW e
  PROVE  Append(f, e) = [m \in 1..(n + 1) |-> IF m = n + 1 THEN e ELSE f[m]]
<1> DEFINE S == {f[m] : m \in 1..n} \cup {e}
<1>1. Len(f) = n /\ f \in Seq({f[m] : m \in 1..n})
  BY LenIs
<1>2. f \in Seq(S) /\ e \in S
  BY <1>1, SeqMonotonic
<1> HIDE DEF S
<1>3. /\ Append(f, e) \in Seq(S) /\ Len(Append(f, e)) = n + 1
      /\ \A m \in 1..n : Append(f, e)[m] = f[m]
      /\ Append(f, e)[n + 1] = e
  BY <1>1, <1>2, AppendProperties
<1>4. Append(f, e) \in [1..(n + 1) -> S]
  BY <1>3, LenProperties
<1>5. \A m \in 1..(n + 1) : Append(f, e)[m] = IF m = n + 1 THEN e ELSE f[m]
  BY <1>3
<1> QED BY <1>4, <1>5

\* One more step of the walk that has come as far as r.
NextWalk(E, r) == IF Claims(E, r) = {} THEN r ELSE Append(r, E[First(Claims(E, r))])

\* The first n steps of the walk from f.
Steps(E, f, n, w) == w = [m \in 1..n |-> IF m = 1 THEN <<f>> ELSE NextWalk(E, w[m - 1])]

LEMMA StepsExist == ASSUME NEW E, NEW f, NEW N \in Nat PROVE \E w : Steps(E, f, N, w)
<1> DEFINE D == {n \in Nat : ~ \E w : Steps(E, f, n, w)}
<1> SUFFICES ASSUME D # {} PROVE FALSE
  OBVIOUS
<1>1. PICK n \in D : \A m \in D : n <= m
  <2>1. D \in SUBSET Nat
    OBVIOUS
  <2> HIDE DEF D
  <2> QED BY <2>1, Least
<1>2. CASE n = 0
  <2>1. PICK w : w = [m \in 1..0 |-> <<f>>]
    OBVIOUS
  <2>2. Steps(E, f, n, w)
    BY <1>2, <2>1 DEF Steps
  <2> QED BY <1>1, <2>2
<1>3. CASE n # 0
  <2>1. n - 1 \in Nat /\ n - 1 \notin D
    BY <1>1, <1>3
  <2>2. PICK v : Steps(E, f, n - 1, v)
    BY <2>1
  <2>3. PICK w : w = [m \in 1..n |-> IF m # n THEN v[m] ELSE
                                     IF m = 1 THEN <<f>> ELSE NextWalk(E, v[m - 1])]
    OBVIOUS
  <2>4. \A m \in 1..(n - 1) : v[m] = IF m = 1 THEN <<f>> ELSE NextWalk(E, v[m - 1])
    BY <2>2 DEF Steps
  <2>5. ASSUME NEW m \in 1..n
        PROVE  w[m] = IF m = 1 THEN <<f>> ELSE NextWalk(E, w[m - 1])
    <3>1. m # n => m \in 1..(n - 1)
      BY <2>1
    <3>2. m # 1 => m - 1 \in 1..n /\ m - 1 # n
      BY <2>1
    <3>3. m # 1 => w[m - 1] = v[m - 1]
      BY <2>3, <3>2
    <3>4. w[m] = IF m # n THEN v[m] ELSE IF m = 1 THEN <<f>> ELSE NextWalk(E, v[m - 1])
      BY <2>3
    <3> QED BY <2>4, <3>1, <3>3, <3>4
  <2>6. w = [m \in 1..n |-> w[m]]
    BY <2>3
  <2>7. Steps(E, f, n, w)
    BY <2>5, <2>6 DEF Steps
  <2> QED BY <1>1, <2>7
<1> QED BY <1>2, <1>3

LEMMA WalkIs ==
  ASSUME NEW E, NEW f, Len(E) \in Nat
  PROVE  \E w : Steps(E, f, Len(E), w) /\ Walk(E, f) = w[Len(E)]
<1> DEFINE P(w) == w = [n \in 1..Len(E) |->
                          IF n = 1 THEN <<f>>
                          ELSE LET next == Claims(E, Root(w[n - 1]))
                               IN  IF next = {} THEN w[n - 1]
                                   ELSE Append(w[n - 1], E[First(next)])]
           c == CHOOSE w : P(w)
<1>1. \A w : P(w) <=> Steps(E, f, Len(E), w)
  BY DEF Steps, NextWalk, Root
<1>2. Walk(E, f) = c[Len(E)]
  BY DEF Walk
<1> HIDE DEF P
<1>3. P(c)
  BY <1>1, StepsExist
<1> QED BY <1>1, <1>2, <1>3

IsList(E, N) == E = [m \in 1..N |-> E[m]]

\* A sequence of L entries of which each is the first to claim the root of those before.
Greedy(E, u, L) ==
  /\ u = [m \in 1..L |-> u[m]]
  /\ \A i \in 1..L : LET claims == Claims(E, [m \in 1..(i - 1) |-> u[m]])
                     IN  claims # {} /\ u[i] = E[First(claims)]

LEMMA WalkIsGreedy ==
  ASSUME NEW N \in Nat \ {0}, NEW E, IsList(E, N), Claims(E, Genesis) # {},
         NEW u, u = Walk(E, E[First(Claims(E, Genesis))])
  PROVE  \E L \in 1..N : Greedy(E, u, L) /\ (L = N \/ Claims(E, u) = {})
<1> DEFINE f == E[First(Claims(E, Genesis))]
<1>1. Len(E) = N
  BY LenIs DEF IsList
<1>2. PICK w : Steps(E, f, N, w) /\ u = w[N]
  BY <1>1, WalkIs
<1> DEFINE P(n) == \E L \in 1..n : Greedy(E, w[n], L) /\ (L = n \/ Claims(E, w[n]) = {})
           D == {n \in 1..N : ~ P(n)}
<1> HIDE DEF P
<1>3. ASSUME D # {} PROVE FALSE
  <2>1. PICK n \in D : \A m \in D : n <= m
    <3>1. D \in SUBSET Nat
      OBVIOUS
    <3> HIDE DEF D
    <3> QED BY <1>3, <3>1, Least
  <2>2. n \in 1..N /\ w[n] = IF n = 1 THEN <<f>> ELSE NextWalk(E, w[n - 1])
    BY <1>2 DEF Steps
  <2>3. CASE n = 1
    <3>1. w[n] = [m \in 1..1 |-> f] /\ w[n][1] = f
      <4>1. w[n] = <<f>>
        BY <2>2, <2>3
      <4> HIDE DEF f
      <4>2. <<f>> = [m \in 1..1 |-> f]
        OBVIOUS
      <4> QED BY <4>1, <4>2
    <3>2. \A i \in 1..1 : [m \in 1..(i - 1) |-> w[n][m]] = Genesis
      BY DEF Genesis
    <3>3. Greedy(E, w[n], 1)
      BY <3>1, <3>2 DEF Greedy
    <3>4. P(n)
      BY <2>3, <3>3 DEF P
    <3> QED BY <2>1, <3>4
  <2>4. CASE n # 1
    <3>1. n - 1 \in 1..N /\ ~ (n <= n - 1)
      BY <2>2, <2>4
    <3>2. PICK L \in 1..(n - 1) :
            Greedy(E, w[n - 1], L) /\ (L = n - 1 \/ Claims(E, w[n - 1]) = {})
      <4>1. P(n - 1)
        BY <2>1, <3>1
      <4> QED BY <4>1 DEF P
    <3>3. CASE Claims(E, w[n - 1]) = {}
      <4>1. w[n] = w[n - 1]
        BY <2>2, <2>4, <3>3 DEF NextWalk
      <4>2. L \in 1..n
        BY <2>2, <3>2
      <4>3. P(n)
        BY <3>2, <3>3, <4>1, <4>2 DEF P
      <4> QED BY <2>1, <4>3
    <3>4. CASE Claims(E, w[n - 1]) # {}
      <4>1. PICK v : v = w[n - 1]
        OBVIOUS
      <4>2. L = n - 1 /\ L \in Nat /\ n = L + 1 /\ v = [m \in 1..L |-> v[m]]
        <5>1. L = n - 1
          BY <3>2, <3>4
        <5>2. Greedy(E, v, L)
          BY <3>2, <4>1
        <5> QED BY <2>2, <3>2, <5>1, <5>2 DEF Greedy
      <4>3. w[n] = Append(v, E[First(Claims(E, v))])
        BY <2>2, <2>4, <3>4, <4>1 DEF NextWalk
      <4>4. PICK x : x = w[n]
        OBVIOUS
      <4>5. x = [m \in 1..(L + 1) |-> IF m = L + 1 THEN E[First(Claims(E, v))] ELSE v[m]]
        <5>1. PICK e : e = E[First(Claims(E, v))]
          OBVIOUS
        <5>2. Append(v, e) = [m \in 1..(L + 1) |-> IF m = L + 1 THEN e ELSE v[m]]
          <6>1. L \in Nat /\ v = [m \in 1..L |-> v[m]]
            BY <4>2
          <6> QED BY <6>1, AppendIs
        <5> QED BY <4>3, <4>4, <5>1, <5>2
      <4>6. /\ x = [m \in 1..(L + 1) |-> x[m]] /\ x[L + 1] = E[First(Claims(E, v))]
            /\ \A m \in 1..L : x[m] = v[m]
        BY <4>2, <4>5
      <4>7. ASSUME NEW i \in 1..(L + 1)
            PROVE  LET claims == Claims(E, [m \in 1..(i - 1) |-> x[m]])
                   IN  claims # {} /\ x[i] = E[First(claims)]
        <5>1. [m \in 1..(i - 1) |-> x[m]] = [m \in 1..(i - 1) |-> v[m]]
          <6>1. \A m \in 1..(i - 1) : m \in 1..L
            BY <4>2
          <6> QED BY <4>6, <6>1
        <5>2. CASE i = L + 1
          <6>1. i - 1 = L
            BY <4>2, <5>2
          <6>2. [m \in 1..(i - 1) |-> x[m]] = v
            BY <4>2, <5>1, <6>1
          <6> QED BY <3>4, <4>1, <4>6, <5>2, <6>2
        <5>3. CASE i # L + 1
          <6>1. i \in 1..L
            BY <4>2, <5>3
          <6>2. Greedy(E, v, L)
            BY <3>2, <4>1
          <6> QED BY <4>6, <5>1, <6>1, <6>2 DEF Greedy
        <5> QED BY <5>2, <5>3
      <4>8. Greedy(E, x, n)
        BY <4>2, <4>6, <4>7 DEF Greedy
      <4>9. P(n)
        <5>1. n \in 1..n
          BY <2>2
        <5> QED BY <4>4, <4>8, <5>1 DEF P
      <4> QED BY <2>1, <4>9
    <3> QED BY <3>3, <3>4
  <2> QED BY <2>3, <2>4
<1>4. P(N)
  <2>1. N \in 1..N
    OBVIOUS
  <2> QED BY <1>3, <2>1
<1> QED BY <1>2, <1>4 DEF P

(* ---- what the walk says of a list of entries ---- *)

LEMMA PrefixesDiffer ==
  ASSUME NEW a \in Nat, NEW b \in Nat, NEW u, NEW v, [m \in 1..a |-> u[m]] = [m \in 1..b |-> v[m]]
  PROVE  a = b
<1>1. 1..a = 1..b
  <2>1. DOMAIN [m \in 1..a |-> u[m]] = 1..a /\ DOMAIN [m \in 1..b |-> v[m]] = 1..b
    OBVIOUS
  <2> QED BY <2>1
<1>2. ~ (a < b)
  <2> SUFFICES ASSUME a < b PROVE FALSE
    OBVIOUS
  <2>1. b \in 1..b /\ b \notin 1..a
    OBVIOUS
  <2> QED BY <1>1, <2>1
<1>3. ~ (b < a)
  <2> SUFFICES ASSUME b < a PROVE FALSE
    OBVIOUS
  <2>1. a \in 1..a /\ a \notin 1..b
    OBVIOUS
  <2> QED BY <1>1, <2>1
<1> QED BY <1>2, <1>3

\* Every step of the walk is an entry, and no entry is visited twice.
LEMMA GreedyFits ==
  ASSUME NEW N \in Nat, NEW E, IsList(E, N),
         NEW L \in Nat, NEW u, Greedy(E, u, L)
  PROVE  /\ \A i \in 1..L : \E m \in 1..N : u[i] = E[m]
         /\ \A i \in 1..L : u[i].parent = [m \in 1..(i - 1) |-> u[m]]
         /\ \A i, j \in 1..L : u[i] = u[j] => i = j
<1>1. ASSUME NEW i \in 1..L
      PROVE  (\E m \in 1..N : u[i] = E[m]) /\ u[i].parent = [m \in 1..(i - 1) |-> u[m]]
  <2> DEFINE r == [m \in 1..(i - 1) |-> u[m]]
             C == Claims(E, r)
  <2>1. C # {} /\ u[i] = E[First(C)]
    BY DEF Greedy
  <2>2. C \in SUBSET (1..N) /\ C \in SUBSET Nat /\ \A m \in C : E[m].parent = r
    <3> HIDE DEF r
    <3>1. DOMAIN E = 1..N
      BY DEF IsList
    <3>2. C = {n \in 1..N : E[n].parent = r}
      BY <3>1 DEF Claims
    <3> QED BY <3>2
  <2> HIDE DEF C, r
  <2>3. First(C) \in C
    BY <2>1, <2>2, FirstIs
  <2> QED BY <2>1, <2>2, <2>3 DEF r
<1>2. ASSUME NEW i \in 1..L, NEW j \in 1..L, u[i] = u[j] PROVE i = j
  <2>1. [m \in 1..(i - 1) |-> u[m]] = [m \in 1..(j - 1) |-> u[m]]
    BY <1>1, <1>2
  <2>2. i - 1 \in Nat /\ j - 1 \in Nat
    OBVIOUS
  <2>3. i - 1 = j - 1
    BY <2>1, <2>2, PrefixesDiffer
  <2> QED BY <2>3
<1> QED BY <1>1, <1>2

LEMMA GreedyIsChain ==
  ASSUME NEW N \in Nat, NEW E, IsList(E, N),
         NEW L \in Nat \ {0}, NEW u, Greedy(E, u, L)
  PROVE  IsChain(u)
<1>0. L \in Nat /\ \A i \in 1..L : u[i].parent = [m \in 1..(i - 1) |-> u[m]]
  <2>1. L \in Nat
    OBVIOUS
  <2> QED BY <2>1, GreedyFits
<1>1. u = [m \in 1..L |-> u[m]] /\ DOMAIN u = 1..L
  BY DEF Greedy
<1>2. u # <<>>
  <2>1. 1 \in DOMAIN u
    BY <1>1
  <2> QED BY <2>1
<1>3. ASSUME NEW i \in 1..L PROVE ParentOk(u, i)
  <2>1. i - 1 \in Nat /\ u[i].parent = [m \in 1..(i - 1) |-> u[m]]
    BY <1>0
  <2>2. u[i].parent = SubSeq(u, 1, i - 1)
    BY <2>1, Prefix
  <2>3. i = 1 => u[i].parent = <<>>
    BY <2>1
  <2> QED BY <2>2, <2>3 DEF ParentOk, Genesis, Root
<1> QED BY <1>1, <1>2, <1>3 DEF IsChain

\* A walk as long as the list is one that misses no entry.
LEMMA WholeWalk ==
  ASSUME NEW N \in Nat, NEW E, IsList(E, N),
         \A i, j \in 1..N : E[i] = E[j] => i = j,
         NEW L \in Nat, NEW u, Greedy(E, u, L)
  PROVE  L = N <=> \A m \in 1..N : \E i \in 1..L : u[i] = E[m]
<1> DEFINE T == {E[m] : m \in 1..N}
<1>1. E \in Injection(1..N, T) /\ E \in Surjection(1..N, T)
  <2>1. E \in [1..N -> T]
    BY DEF IsList
  <2>2. \A x \in T : \E m \in 1..N : E[m] = x
    OBVIOUS
  <2> HIDE DEF T
  <2> QED BY <2>1, <2>2 DEF Injection, IsInjective, Surjection
<1>2. IsFiniteSet(1..N) /\ Cardinality(1..N) = N /\ IsFiniteSet(1..L) /\ Cardinality(1..L) = L
  <2> SUFFICES ASSUME NEW n \in Nat PROVE IsFiniteSet(1..n) /\ Cardinality(1..n) = n
    OBVIOUS
  <2>1. IsFiniteSet(1..n) /\ Cardinality(1..n) = IF 1 > n THEN 0 ELSE n - 1 + 1
    BY FS_Interval
  <2> QED BY <2>1
<1>3. u \in [1..L -> T] /\ \A i, j \in 1..L : u[i] = u[j] => i = j
  <2>1. \A i \in 1..L : \E m \in 1..N : u[i] = E[m]
    BY GreedyFits
  <2>2. \A i, j \in 1..L : u[i] = u[j] => i = j
    BY GreedyFits
  <2>3. u = [m \in 1..L |-> u[m]]
    BY DEF Greedy
  <2> QED BY <2>1, <2>2, <2>3
<1>4. (\A m \in 1..N : \E i \in 1..L : u[i] = E[m]) <=> \A x \in T : \E i \in 1..L : u[i] = x
  <2>1. \A m \in 1..N : E[m] \in T
    OBVIOUS
  <2>2. \A x \in T : \E m \in 1..N : x = E[m]
    OBVIOUS
  <2> HIDE DEF T
  <2>3. ASSUME \A m \in 1..N : \E i \in 1..L : u[i] = E[m], NEW x \in T
        PROVE  \E i \in 1..L : u[i] = x
    BY <2>2, <2>3
  <2> QED BY <2>1, <2>3
<1> HIDE DEF T
<1>5. IsFiniteSet(T) /\ Cardinality(T) = N
  BY <1>1, <1>2, FS_Surjection
<1>6. u \in Injection(1..L, T)
  BY <1>3 DEF Injection, IsInjective
<1>7. L = N <=> u \in Surjection(1..L, T)
  BY <1>2, <1>5, <1>6, FS_Injection
<1> QED BY <1>3, <1>4, <1>7 DEF Surjection

Upto(u, k) == [m \in 1..k |-> u[m]]

\* Where every entry is reached, no root is claimed twice.
LEMMA NoForks ==
  ASSUME NEW N \in Nat, NEW E, IsList(E, N),
         \A i, j \in 1..N : E[i] = E[j] => i = j,
         NEW u, Greedy(E, u, N), NEW k \in 0..N,
         NEW C, C = Claims(E, Upto(u, k))
  PROVE  Cardinality(C) = IF C = {} THEN 0 ELSE 1
<1>1. \A a \in C : a \in 1..N /\ E[a].parent = [m \in 1..k |-> u[m]]
  <2> DEFINE r == [m \in 1..k |-> u[m]]
  <2> HIDE DEF r
  <2>0. DOMAIN E = 1..N
    BY DEF IsList
  <2>1. C = {n \in 1..N : E[n].parent = r}
    BY <2>0 DEF Claims, Upto, r
  <2> QED BY <2>1 DEF r
<1>0. /\ \A m \in 1..N : \E i \in 1..N : u[i] = E[m]
      /\ \A i \in 1..N : u[i].parent = [m \in 1..(i - 1) |-> u[m]]
  <2>1. \A m \in 1..N : \E i \in 1..N : u[i] = E[m]
    BY WholeWalk
  <2>2. \A i \in 1..N : u[i].parent = [m \in 1..(i - 1) |-> u[m]]
    BY GreedyFits
  <2> QED BY <2>1, <2>2
<1>2. ASSUME NEW a \in C PROVE E[a] = u[k + 1]
  <2>1. PICK i \in 1..N : u[i] = E[a]
    BY <1>0, <1>1
  <2>2. u[i].parent = [m \in 1..(i - 1) |-> u[m]]
    BY <1>0
  <2>3. i - 1 \in Nat /\ k \in Nat
    OBVIOUS
  <2>4. [m \in 1..(i - 1) |-> u[m]] = [m \in 1..k |-> u[m]]
    BY <1>1, <2>1, <2>2
  <2>5. i - 1 = k
    BY <2>3, <2>4, PrefixesDiffer
  <2>6. i = k + 1
    BY <2>5
  <2> QED BY <2>1, <2>6
<1>3. \A a, b \in C : a = b
  BY <1>1, <1>2
<1>4. CASE C = {}
  BY <1>4, FS_EmptySet
<1>5. CASE C # {}
  <2>1. PICK a : a \in C
    BY <1>5
  <2>2. C = {a}
    BY <1>3, <2>1
  <2> QED BY <2>2, FS_Singleton
<1> QED BY <1>4, <1>5

\* The walk of a chain is the chain.
LEMMA ChainIsWalked ==
  ASSUME NEW N \in Nat \ {0}, NEW E, IsList(E, N), IsChain(E),
         NEW L \in 1..N, NEW u, Greedy(E, u, L), L = N \/ Claims(E, u) = {}
  PROVE  L = N
<1>1. ASSUME NEW i \in 1..N PROVE E[i].parent = [m \in 1..(i - 1) |-> E[m]]
  <2>1. DOMAIN E = 1..N /\ i - 1 \in Nat
    BY DEF IsList
  <2>2. ParentOk(E, i)
    BY <2>1 DEF IsChain
  <2>3. SubSeq(E, 1, i - 1) = [m \in 1..(i - 1) |-> E[m]]
    BY <2>1, Prefix
  <2>4. i = 1 => <<>> = [m \in 1..(i - 1) |-> E[m]]
    OBVIOUS
  <2> QED BY <2>2, <2>3, <2>4 DEF ParentOk, Genesis, Root
<1>2. ASSUME NEW i \in 1..N PROVE Claims(E, [m \in 1..(i - 1) |-> E[m]]) = {i}
  <2> DEFINE r == [m \in 1..(i - 1) |-> E[m]]
  <2>1. ASSUME NEW n \in 1..N, E[n].parent = r PROVE n = i
    <3>1. [m \in 1..(n - 1) |-> E[m]] = r
      BY <1>1, <2>1
    <3>2. n - 1 \in Nat /\ i - 1 \in Nat
      OBVIOUS
    <3>3. n - 1 = i - 1
      BY <3>1, <3>2, PrefixesDiffer
    <3> QED BY <3>3
  <2>2. E[i].parent = r
    BY <1>1
  <2> HIDE DEF r
  <2>3. DOMAIN E = 1..N
    BY DEF IsList
  <2>4. Claims(E, r) = {n \in 1..N : E[n].parent = r}
    BY <2>3 DEF Claims
  <2>5. Claims(E, r) = {i}
    BY <2>1, <2>2, <2>4
  <2> QED BY <2>5 DEF r
<1>3. ASSUME NEW i \in 1..L, u[i] # E[i] PROVE FALSE
  <2> DEFINE D == {n \in 1..L : u[n] # E[n]}
  <2>1. PICK n \in D : \A m \in D : n <= m
    <3>1. D \in SUBSET Nat /\ D # {}
      BY <1>3
    <3> HIDE DEF D
    <3> QED BY <3>1, Least
  <2>2. n \in 1..L /\ n \in 1..N /\ u[n] # E[n] /\ \A m \in 1..(n - 1) : u[m] = E[m]
    <3>1. n \in 1..L /\ n \in 1..N /\ u[n] # E[n]
      BY <2>1
    <3>2. ASSUME NEW m \in 1..(n - 1), u[m] # E[m] PROVE FALSE
      <4>1. m \in 1..L /\ ~ (n <= m)
        BY <3>1
      <4> QED BY <2>1, <3>2, <4>1
    <3> QED BY <3>1, <3>2
  <2>3. [m \in 1..(n - 1) |-> u[m]] = [m \in 1..(n - 1) |-> E[m]]
    BY <2>2
  <2>4. u[n] = E[First({n})]
    BY <1>2, <2>2, <2>3 DEF Greedy
  <2>5. First({n}) = n
    <3>1. {n} \in SUBSET Nat /\ {n} # {}
      BY <2>2
    <3>2. First({n}) \in {n}
      BY <3>1, FirstIs
    <3> QED BY <3>2
  <2> QED BY <2>2, <2>4, <2>5
<1>4. ASSUME L # N PROVE FALSE
  <2>1. L + 1 \in 1..N /\ (L + 1) - 1 = L
    BY <1>4
  <2>2. PICK i \in 1..N : Claims(E, [m \in 1..L |-> E[m]]) = {i}
    BY <1>2, <2>1
  <2>3. u = [m \in 1..L |-> E[m]]
    <3>1. u = [m \in 1..L |-> u[m]]
      BY DEF Greedy
    <3> QED BY <1>3, <3>1
  <2> QED BY <1>4, <2>2, <2>3
<1> QED BY <1>4

(* ---- three readings of a ledger ---- *)

\* "No chain" is no chain.
NoneIsNoList == \A f : \A n \in Nat : [m \in 1..n |-> f[m]] # None

VerifyAccepts(E) ==
  E = <<>> \/ IsChain(E) \/ (Reordered(E) # None /\ IsChain(Reordered(E)))

LEMMA ReorderedIs ==
  ASSUME NoneIsNoList, NEW N \in Nat \ {0}, NEW E, IsList(E, N),
         \A i, j \in 1..N : E[i] = E[j] => i = j, Claims(E, Genesis) # {},
         NEW u, u = Walk(E, E[First(Claims(E, Genesis))]),
         NEW L \in 1..N, Greedy(E, u, L)
  PROVE  IF L = N THEN Reordered(E) = u /\ u # None ELSE Reordered(E) = None
<1> DEFINE G == Claims(E, Genesis)
           Fork(n) == Cardinality(Claims(E, Root(SubSeq(u, 1, n)))) > 1
<1>1. N \in Nat /\ L \in Nat /\ u = [m \in 1..L |-> u[m]] /\ DOMAIN u = 1..L
  BY DEF Greedy
<1>2. Len(E) = N /\ Len(u) = L
  BY <1>1, LenIs DEF IsList
<1>3. Reordered(E) = IF Cardinality(G) # 1 \/ (\E n \in DOMAIN u : Fork(n)) \/ Len(u) # Len(E)
                     THEN None ELSE u
  BY DEF Reordered
<1>4. CASE L # N
  BY <1>2, <1>3, <1>4
<1>5. CASE L = N
  <2>1. Greedy(E, u, N)
    BY <1>5
  <2>2. ASSUME NEW k \in 0..N, NEW C, C = Claims(E, Upto(u, k))
        PROVE  Cardinality(C) = IF C = {} THEN 0 ELSE 1
    <3>1. N \in Nat /\ \A i, j \in 1..N : E[i] = E[j] => i = j
      OBVIOUS
    <3> HIDE DEF G, Fork
    <3> QED BY <2>1, <2>2, <3>1, NoForks
  <2>3. Cardinality(G) = 1
    <3>1. 0 \in 0..N /\ Upto(u, 0) = <<>>
      BY DEF Upto
    <3>2. G = Claims(E, Upto(u, 0))
      BY <3>1 DEF Genesis
    <3>3. Cardinality(G) = IF G = {} THEN 0 ELSE 1
      BY <2>2, <3>1, <3>2
    <3> QED BY <3>3
  <2>4. ASSUME NEW n \in 1..N, Fork(n) PROVE FALSE
    <3>1. n \in 0..N /\ n \in Nat
      OBVIOUS
    <3>2. Root(SubSeq(u, 1, n)) = Upto(u, n)
      BY <3>1, Prefix DEF Root, Upto
    <3> DEFINE c == Cardinality(Claims(E, Upto(u, n)))
    <3>3. c = 0 \/ c = 1
      <4>1. PICK C : C = Claims(E, Upto(u, n))
        OBVIOUS
      <4>2. Cardinality(C) = IF C = {} THEN 0 ELSE 1
        BY <2>2, <3>1, <4>1
      <4> QED BY <4>1, <4>2
    <3>4. c > 1
      BY <2>4, <3>2
    <3> HIDE DEF c
    <3> QED BY <3>3, <3>4
  <2>5. ~ \E n \in DOMAIN u : Fork(n)
    BY <1>1, <1>5, <2>4
  <2> HIDE DEF Fork, G
  <2>6. Reordered(E) = u
    BY <1>2, <1>3, <1>5, <2>3, <2>5
  <2>7. u # None
    BY <1>1, NoneIsNoList DEF NoneIsNoList
  <2> QED BY <1>5, <2>6, <2>7
<1> QED BY <1>4, <1>5

\* Verification and orphan search agree on every list of distinct entries.
LEMMA SurfacesOfAList ==
  ASSUME NoneIsNoList, NEW N \in Nat, NEW E, IsList(E, N),
         \A i, j \in 1..N : E[i] = E[j] => i = j
  PROVE  VerifyAccepts(E) <=> FindOrphans(E) = {}
<1> DEFINE G == Claims(E, Genesis)
<1>1. DOMAIN E = 1..N /\ ToSet(E) = {E[m] : m \in 1..N}
  BY DEF IsList, ToSet
<1>2. CASE N = 0
  <2>1. E = <<>> /\ ToSet(E) = {}
    BY <1>1, <1>2 DEF IsList
  <2> QED BY <2>1 DEF FindOrphans, VerifyAccepts
<1>3. CASE N # 0 /\ G = {}
  <2>1. 1 \in DOMAIN E /\ E # <<>>
    BY <1>1, <1>3
  <2>2. FindOrphans(E) # {}
    BY <1>1, <1>3, <2>1 DEF FindOrphans
  <2>3. ~ IsChain(E)
    <3> SUFFICES ASSUME IsChain(E) PROVE FALSE
      OBVIOUS
    <3>1. E[1].parent = Genesis
      BY <2>1 DEF IsChain, ParentOk
    <3>2. 1 \in G
      BY <2>1, <3>1 DEF Claims
    <3> QED BY <1>3, <3>2
  <2>4. Reordered(E) = None
    BY <1>3, FS_EmptySet DEF Reordered
  <2> QED BY <2>1, <2>2, <2>3, <2>4 DEF VerifyAccepts
<1>4. CASE N # 0 /\ G # {}
  <2>1. PICK u : u = Walk(E, E[First(G)])
    OBVIOUS
  <2>2. PICK L \in 1..N : Greedy(E, u, L) /\ (L = N \/ Claims(E, u) = {})
    <3>1. N \in Nat \ {0}
      BY <1>4
    <3> QED BY <1>4, <2>1, <3>1, WalkIsGreedy
  <2>3. L \in Nat /\ L # 0 /\ ToSet(u) = {u[i] : i \in 1..L}
    <3>1. DOMAIN u = 1..L
      BY <2>2 DEF Greedy
    <3> QED BY <2>2, <3>1 DEF ToSet
  <2>4. L = N <=> \A m \in 1..N : \E i \in 1..L : u[i] = E[m]
    BY <2>2, <2>3, WholeWalk
  <2>5. FindOrphans(E) = ToSet(E) \ ToSet(u)
    BY <1>4, <2>1 DEF FindOrphans
  <2>6. FindOrphans(E) = {} <=> \A m \in 1..N : \E i \in 1..L : u[i] = E[m]
    <3>1. FindOrphans(E) = {} <=> \A x \in ToSet(E) : x \in ToSet(u)
      BY <2>5
    <3>2. \A x : x \in ToSet(E) <=> \E m \in 1..N : x = E[m]
      BY <1>1
    <3>3. \A x : x \in ToSet(u) <=> \E i \in 1..L : u[i] = x
      BY <2>3
    <3> QED BY <3>1, <3>2, <3>3
  <2>7. IF L = N THEN Reordered(E) = u /\ u # None ELSE Reordered(E) = None
    BY <1>4, <2>1, <2>2, ReorderedIs
  <2>8. IsChain(u)
    BY <2>2, <2>3, GreedyIsChain
  <2>9. IsChain(E) => L = N
    BY <1>4, <2>2, ChainIsWalked
  <2>10. E # <<>>
    <3>1. 1 \in DOMAIN E
      BY <1>1, <1>4
    <3> QED BY <3>1
  <2> QED BY <2>4, <2>6, <2>7, <2>8, <2>9, <2>10 DEF VerifyAccepts
<1> QED BY <1>2, <1>3, <1>4

(* ---- the ledger this version writes alone ---- *)

\* In a ledger no older version has written, every entry on disk or under way was made
\* from the root of the first rows, and a new row leaves these first.
JobsPlaced == \A p \in Procs : proc[p].at # "idle" => Placed(proc[p].entry)
OrderInv == ~ inherited => Homegrown /\ JobsPlaced

LEMMA OrderInit == Init => OrderInv
<1> SUFFICES ASSUME Init PROVE OrderInv
  OBVIOUS
<1>1. JobsPlaced
  BY DEF Init, JobsPlaced, Idle
<1> QED BY <1>1 DEF Init, OrderInv

\* A replaced index of such a ledger keeps its first rows.
LEMMA PlacedStays ==
  ASSUME NoneIsNoRow, NEW k \in Keys, IndexFits(index), ReplaceIndex(k),
         \A a \in Indexed(index) : index[a].seq # NoSeq
  PROVE  /\ \A a \in Indexed(index') : index'[a].seq # NoSeq
         /\ \A e : Placed(e) => Placed(e)'
<1>1. \/ index' = index
      \/ index[k] = None /\ index' = AppendRow(index, k)
  BY ReplacedIndex DEF Indexed, IndexFits
<1>2. CASE index' = index
  BY <1>2 DEF Placed
<1>3. CASE index[k] = None /\ index' = AppendRow(index, k)
  <2> DEFINE N == Cardinality(Indexed(index))
  <2>1. /\ N \in Nat /\ Indexed(index') = Indexed(index) \cup {k}
        /\ Cardinality(Indexed(index')) = N + 1
        /\ SortedKeys(index') = [n \in 1..(N + 1) |-> IF n = N + 1 THEN k ELSE SortedKeys(index)[n]]
    BY <1>3, AppendedKeys
  <2>2. /\ \A a \in Keys \ {k} : index'[a] = index[a]
        /\ index'[k].seq = NextSeq(index)
    BY <1>3 DEF AppendRow, IndexFits
  <2>3. NextSeq(index) # NoSeq
    BY NextSeqIsLast, KeysAreNat
  <2>4. \A a \in Indexed(index') : index'[a].seq # NoSeq
    BY <2>1, <2>2, <2>3 DEF Indexed, IndexFits
  <2> HIDE DEF N
  <2>5. ASSUME NEW e, Placed(e) PROVE Placed(e)'
    <3>1. DOMAIN e.parent \subseteq 1..N /\ \A n \in DOMAIN e.parent : e.parent[n].key = SortedKeys(index)[n]
      BY <2>5 DEF Placed, N
    <3>2. \A n \in 1..N : n \in 1..(N + 1) /\ n # N + 1
      BY <2>1
    <3>3. \A n \in 1..N : SortedKeys(index')[n] = SortedKeys(index)[n]
      BY <2>1, <3>2
    <3> QED BY <2>1, <3>1, <3>2, <3>3 DEF Placed
  <2> QED BY <2>4, <2>5
<1> QED BY <1>1, <1>2, <1>3

\* The root a caller reads lists the rows as they are.
LEMMA RootIsPlaced ==
  ASSUME LInv, LoadOk(index, files), NEW k, NEW c
  PROVE  Placed([key |-> k, payload |-> c, parent |-> LoadRoot(index, files)])
<1> DEFINE N == Cardinality(Indexed(index))
           root == LoadRoot(index, files)
<1>1. /\ N \in Nat /\ (N = 0 <=> Indexed(index) = {})
      /\ Listed(index, files) = [n \in 1..N |-> files[SortedKeys(index)[n]]]
      /\ \A n \in 1..N : SortedKeys(index)[n] \in Indexed(index)
  BY ListedFits DEF LInv
<1>2. \A a \in Indexed(index) : files[a].key = a
  BY DEF LoadOk, Readable, LInv, Indexed, IndexFits
<1>3. root = [n \in 1..N |-> files[SortedKeys(index)[n]]]
  <2>1. CASE N = 0
    <3>1. root = <<>>
      BY <1>1, <2>1 DEF LoadRoot, Genesis
    <3>2. 1..N = {}
      BY <2>1
    <3> QED BY <3>1, <3>2
  <2>2. CASE N # 0
    BY <1>1, <2>2 DEF LoadRoot, Root
  <2> QED BY <2>1, <2>2
<1> HIDE DEF N, root
<1>4. DOMAIN root \subseteq 1..N /\ \A n \in DOMAIN root : root[n].key = SortedKeys(index)[n]
  BY <1>1, <1>2, <1>3
<1> QED BY <1>4 DEF Placed, N, root

LEMMA OrderStep ==
  ASSUME NoneIsNoRow, LInv, LInv', OrderInv, [Next]_vars PROVE OrderInv'
<1> SUFFICES ASSUME ~ inherited' PROVE Homegrown' /\ JobsPlaced'
  BY DEF OrderInv
<1>0. inherited' = inherited
  <2>1. ASSUME NEW p \in Procs, MakeEntry(p) \/ Lock(p) \/ LockTimeout(p) \/ WriteEntry(p)
        PROVE  inherited' = inherited
    BY <2>1 DEF MakeEntry, Lock, LockTimeout, WriteEntry
  <2>2. ASSUME NEW p \in Procs, WriteIndex(p) \/ EntryFails(p) \/ IndexFails(p) \/ Crash(p)
        PROVE  inherited' = inherited
    BY <2>2 DEF WriteIndex, EntryFails, IndexFails, Crash
  <2>3. ASSUME NEW p \in Procs, IndexInterrupted(p) PROVE inherited' = inherited
    BY <2>3 DEF IndexInterrupted
  <2>4. CASE UNCHANGED vars
    BY <2>4 DEF vars
  <2> QED BY <2>1, <2>2, <2>3, <2>4 DEF Next
<1>1. ~ inherited /\ IInv
  BY <1>0 DEF LInv
<1>2. /\ \A k \in Indexed(index) : index[k].seq # NoSeq
      /\ \A k \in Keys : files[k] # None => Placed(files[k])
      /\ \A p \in Procs : proc[p].at # "idle" => Placed(proc[p].entry)
  BY <1>1 DEF OrderInv, Homegrown, JobsPlaced
<1>3. ASSUME NEW p \in Procs, MakeEntry(p)
      PROVE  Homegrown' /\ JobsPlaced'
  <2>1. UNCHANGED <<files, index>>
    BY <1>3 DEF MakeEntry
  <2>2. \E e : Step(p, [at |-> "lock", entry |-> e]) /\ Placed(e)
    <3>1. PICK k \in Keys :
            \/ /\ LoadOk(index, files)
               /\ \E c \in Payloads :
                    Step(p, [at |-> "lock", entry |-> [key |-> k, payload |-> c,
                                                       parent |-> LoadRoot(index, files)]])
            \/ files[k] # None /\ Step(p, [at |-> "lock", entry |-> files[k]])
      BY <1>3 DEF MakeEntry
    <3>2. LoadOk(index, files) =>
            \A c : Placed([key |-> k, payload |-> c, parent |-> LoadRoot(index, files)])
      BY RootIsPlaced
    <3> QED BY <1>2, <3>1, <3>2
  <2>3. PICK e : Step(p, [at |-> "lock", entry |-> e]) /\ Placed(e)
    BY <2>2
  <2>4. /\ proc'[p] = [at |-> "lock", entry |-> e]
        /\ \A q \in Procs \ {p} : proc'[q] = proc[q]
    BY <1>1, <2>3, StepFacts
  <2>5. \A q \in Procs : proc'[q].at # "idle" => Placed(proc'[q].entry)
    BY <1>2, <2>3, <2>4
  <2>6. \A x : Placed(x) => Placed(x)'
    BY <2>1 DEF Placed
  <2>7. JobsPlaced'
    BY <2>5, <2>6 DEF JobsPlaced
  <2> QED BY <1>2, <2>1, <2>6, <2>7 DEF Homegrown
<1>4. ASSUME NEW p \in Procs, Lock(p) \/ LockTimeout(p) \/ EntryFails(p) \/ Crash(p) \/ IndexFails(p)
      PROVE  Homegrown' /\ JobsPlaced'
  <2>1. index' = index /\ \A k \in Keys : files'[k] = files[k] \/ files'[k] = None
    BY <1>1, <1>4 DEF Lock, LockTimeout, EntryFails, Crash, IndexFails, IInv
  <2>2. \A q \in Procs : proc'[q].at = "idle" \/ (proc[q].at # "idle" /\ proc'[q].entry = proc[q].entry)
    <3>1. CASE Lock(p)
      <4>1. /\ Step(p, [proc[p] EXCEPT !.at = "entry"])
            /\ proc[p] = [at |-> "lock", entry |-> proc[p].entry]
        BY <1>1, <3>1 DEF Lock, At, IInv, Job, Idle
      <4>2. [proc[p] EXCEPT !.at = "entry"].entry = proc[p].entry
        BY <4>1
      <4> QED BY <1>1, <4>1, <4>2, StepFacts
    <3>2. CASE Step(p, Idle)
      BY <1>1, <3>2, StepFacts DEF Idle
    <3> QED BY <1>4, <3>1, <3>2 DEF LockTimeout, EntryFails, Crash, IndexFails
  <2>3. \A x : Placed(x) => Placed(x)'
    BY <2>1 DEF Placed
  <2> QED BY <1>2, <2>1, <2>2, <2>3 DEF Homegrown, JobsPlaced
<1>5. ASSUME NEW p \in Procs, WriteEntry(p)
      PROVE  Homegrown' /\ JobsPlaced'
  <2> DEFINE e == proc[p].entry
  <2>1. /\ index' = index /\ proc[p].at = "entry" /\ files' = [files EXCEPT ![e.key] = e]
        /\ Step(p, [proc[p] EXCEPT !.at = "index"])
    BY <1>5 DEF WriteEntry, At
  <2>2. proc[p] = [at |-> "entry", entry |-> e] /\ Placed(e)
    BY <1>1, <1>2, <2>1, WriterFacts DEF Writing
  <2>3. [proc[p] EXCEPT !.at = "index"].entry = e
    BY <2>2
  <2> HIDE DEF e
  <2>4. \A k \in Keys : files'[k] = files[k] \/ files'[k] = e
    BY <1>1, <2>1 DEF IInv
  <2>5. \A q \in Procs : proc'[q].at = "idle" \/ proc'[q].entry = e
                         \/ (proc[q].at # "idle" /\ proc'[q].entry = proc[q].entry)
    BY <1>1, <2>1, <2>3, StepFacts
  <2>6. \A x : Placed(x) => Placed(x)'
    BY <2>1 DEF Placed
  <2> QED BY <1>2, <2>1, <2>2, <2>4, <2>5, <2>6 DEF Homegrown, JobsPlaced
<1>6. ASSUME NEW p \in Procs, WriteIndex(p) \/ IndexInterrupted(p)
      PROVE  Homegrown' /\ JobsPlaced'
  <2> DEFINE k == proc[p].entry.key
  <2>1. ReplaceIndex(k) /\ Step(p, Idle) /\ proc[p].at \in Writing
    BY <1>6 DEF WriteIndex, IndexInterrupted, At, Writing
  <2>2. \A a \in Keys : files'[a] = files[a] \/ files'[a] = None
    BY <1>1, <1>6 DEF WriteIndex, IndexInterrupted, IInv
  <2>3. k \in Keys /\ IndexFits(index)
    BY <1>1, <2>1, WriterFacts DEF IsEntry, LInv
  <2> HIDE DEF k
  <2>4. /\ \A a \in Indexed(index') : index'[a].seq # NoSeq
        /\ \A x : Placed(x) => Placed(x)'
    BY <1>2, <2>1, <2>3, PlacedStays
  <2>5. \A q \in Procs : proc'[q].at = "idle" \/ proc'[q] = proc[q]
    BY <1>1, <2>1, StepFacts DEF Idle
  <2> QED BY <1>2, <2>2, <2>4, <2>5 DEF Homegrown, JobsPlaced
<1>7. CASE UNCHANGED vars
  <2>1. UNCHANGED <<files, index, proc>>
    BY <1>7 DEF vars
  <2>2. \A x : Placed(x) => Placed(x)'
    BY <2>1 DEF Placed
  <2> QED BY <1>2, <2>1, <2>2 DEF Homegrown, JobsPlaced
<1> QED BY <1>3, <1>4, <1>5, <1>6, <1>7 DEF Next

\* A walk over distinct entries of such a ledger visits them in the order of the index.
LEMMA WalkInOrder ==
  ASSUME NEW N \in Nat \ {0}, NEW E, IsList(E, N), NEW key,
         \A i, j \in 1..N : key[i] = key[j] => i = j,
         \A i \in 1..N : /\ E[i].key = key[i]
                         /\ \A n \in DOMAIN E[i].parent : E[i].parent[n].key = key[n],
         NEW u, Greedy(E, u, N), \A m \in 1..N : \E i \in 1..N : u[i] = E[m]
  PROVE  u = E
<1>1. u = [m \in 1..N |-> u[m]] /\ E = [m \in 1..N |-> E[m]]
  BY DEF Greedy, IsList
<1>2. \A i \in 1..N : \E m \in 1..N : u[i] = E[m] /\ E[m].parent = [n \in 1..(i - 1) |-> u[n]]
  <2> SUFFICES ASSUME NEW i \in 1..N
               PROVE  \E m \in 1..N : u[i] = E[m] /\ E[m].parent = [n \in 1..(i - 1) |-> u[n]]
    OBVIOUS
  <2> DEFINE C == Claims(E, [n \in 1..(i - 1) |-> u[n]])
  <2>1. C # {} /\ u[i] = E[First(C)]
    BY DEF Greedy
  <2>2. C \subseteq 1..N /\ \A m \in C : E[m].parent = [n \in 1..(i - 1) |-> u[n]]
    BY <1>1 DEF Claims
  <2> HIDE DEF C
  <2>3. First(C) \in C
    <3>1. C \in SUBSET Nat
      BY <2>2
    <3> QED BY <2>1, <3>1, FirstIs
  <2> QED BY <2>1, <2>2, <2>3
<1>3. PICK last \in 1..N : u[N] = E[last] /\ E[last].parent = [n \in 1..(N - 1) |-> u[n]]
  <2>1. N \in 1..N
    OBVIOUS
  <2> QED BY <1>2, <2>1
<1>4. \A i \in 1..(N - 1) : u[i] = E[i]
  <2> SUFFICES ASSUME NEW i \in 1..(N - 1) PROVE u[i] = E[i]
    OBVIOUS
  <2>1. i \in 1..N
    OBVIOUS
  <2>2. PICK m \in 1..N : u[i] = E[m]
    BY <1>2, <2>1
  <2>3. i \in DOMAIN E[last].parent /\ E[last].parent[i] = u[i]
    BY <1>3
  <2>4. u[i].key = key[i] /\ u[i].key = key[m]
    BY <2>2, <2>3
  <2> QED BY <2>1, <2>2, <2>4
<1>5. u[N] = E[N]
  <2>1. PICK i \in 1..N : u[i] = E[N]
    OBVIOUS
  <2>2. CASE i = N
    BY <2>1, <2>2
  <2>3. CASE i # N
    <3>1. i \in 1..(N - 1)
      BY <2>3
    <3>2. E[i] = E[N]
      BY <1>4, <2>1, <3>1
    <3> QED BY <2>3, <3>2
  <2> QED BY <2>2, <2>3
<1>6. \A m \in 1..N : m = N \/ m \in 1..(N - 1)
  OBVIOUS
<1>7. \A m \in 1..N : u[m] = E[m]
  BY <1>4, <1>5, <1>6
<1> QED BY <1>1, <1>7

\* One as long as the list visits all of it.
LEMMA FullWalkVisits ==
  ASSUME NEW N \in Nat \ {0}, NEW E, IsList(E, N),
         \A i, j \in 1..N : E[i] = E[j] => i = j, NEW u, Greedy(E, u, N)
  PROVE  \A m \in 1..N : \E i \in 1..N : u[i] = E[m]
<1>1. N \in Nat
  OBVIOUS
<1> QED BY <1>1, WholeWalk

\* There verification takes nothing the loader refuses.
LEMMA VerifyTakesChains ==
  ASSUME NoneIsNoList, NEW N \in Nat \ {0}, NEW E, IsList(E, N), NEW key,
         \A i, j \in 1..N : key[i] = key[j] => i = j,
         \A i \in 1..N : /\ E[i].key = key[i]
                         /\ \A n \in DOMAIN E[i].parent : E[i].parent[n].key = key[n],
         VerifyAccepts(E)
  PROVE  IsChain(E)
<1> DEFINE G == Claims(E, Genesis)
<1>1. \A i, j \in 1..N : E[i] = E[j] => i = j
  OBVIOUS
<1>2. E # <<>>
  BY DEF IsList
<1>3. CASE G = {}
  <2>1. Reordered(E) = None
    BY <1>3, FS_EmptySet DEF Reordered
  <2> QED BY <1>2, <2>1 DEF VerifyAccepts
<1>4. CASE G # {}
  <2>1. PICK u : u = Walk(E, E[First(G)])
    OBVIOUS
  <2>2. PICK L \in 1..N : Greedy(E, u, L) /\ (L = N \/ Claims(E, u) = {})
    BY <1>4, <2>1, WalkIsGreedy
  <2>3. IF L = N THEN Reordered(E) = u /\ u # None ELSE Reordered(E) = None
    BY <1>1, <1>4, <2>1, <2>2, ReorderedIs
  <2>4. CASE L = N
    <3>1. Greedy(E, u, N)
      BY <2>2, <2>4
    <3>2. \A m \in 1..N : \E i \in 1..N : u[i] = E[m]
      BY <1>1, <3>1, FullWalkVisits
    <3>3. u = E
      BY <3>1, <3>2, WalkInOrder
    <3>4. IsChain(u)
      BY <3>1, GreedyIsChain
    <3> QED BY <3>3, <3>4
  <2>5. CASE L # N
    BY <1>2, <2>3, <2>5 DEF VerifyAccepts
  <2> QED BY <2>4, <2>5
<1> QED BY <1>3, <1>4

LEMMA SurfacesOfALedger == ASSUME NoneIsNoList, LInv, OrderInv PROVE SurfacesAgree
<1> DEFINE N == Cardinality(Indexed(index))
           E == Listed(index, files)
<1>1. CASE ~ Readable(index, files)
  BY <1>1 DEF SurfacesAgree, VerifyOk, StatsOk, ShowOk, LoadOk
<1>2. CASE Readable(index, files)
  <2>1. /\ N \in Nat /\ (N = 0 <=> Indexed(index) = {})
        /\ E = [n \in 1..N |-> files[SortedKeys(index)[n]]]
        /\ \A n \in 1..N : SortedKeys(index)[n] \in Indexed(index)
    BY ListedFits DEF LInv
  <2>2. \A m, n \in 1..N : SortedKeys(index)[m] = SortedKeys(index)[n] => m = n
    <3>1. IndexFits(index)
      BY DEF LInv
    <3>2. Sorted(index, Indexed(index), SortedKeys(index))
      BY <3>1, SortedKeysIs
    <3> QED BY <3>1, <3>2, SortedCovers
  <2>3. \A k \in Indexed(index) : k \in Keys /\ files[k] # None /\ files[k].key = k
    BY <1>2 DEF LInv, Readable, Indexed, IInv
  <2>4. VerifyOk(index, files) <=> VerifyAccepts(E)
    BY <1>2 DEF VerifyOk, VerifyAccepts
  <2>5. StatsOk(index, files) <=> FindOrphans(E) = {}
    BY <1>2 DEF StatsOk
  <2>6. ShowOk(index, files) <=> (Indexed(index) = {} \/ IsChain(E))
    BY <1>2 DEF ShowOk, LoadOk
  <2> HIDE DEF N, E
  <2>7. /\ IsList(E, N) /\ \A i, j \in 1..N : E[i] = E[j] => i = j
        /\ \A n \in 1..N : E[n].key = SortedKeys(index)[n]
    <3>1. \A n \in 1..N : E[n].key = SortedKeys(index)[n]
      BY <2>1, <2>3
    <3> QED BY <2>1, <2>2, <3>1 DEF IsList
  <2>8. VerifyAccepts(E) <=> FindOrphans(E) = {}
    BY <2>1, <2>7, SurfacesOfAList
  <2>9. Indexed(index) = {} => E = <<>>
    BY <2>1
  <2>10. ASSUME ~ inherited, VerifyAccepts(E) PROVE Indexed(index) = {} \/ IsChain(E)
    <3>1. \A n \in 1..N : \A i \in DOMAIN E[n].parent : E[n].parent[i].key = SortedKeys(index)[i]
      <4>1. \A k \in Indexed(index) : Placed(files[k])
        BY <2>3, <2>10 DEF OrderInv, Homegrown
      <4> QED BY <2>1, <4>1 DEF Placed
    <3>2. N # 0 => IsChain(E)
      <4> SUFFICES ASSUME N # 0 PROVE IsChain(E)
        OBVIOUS
      <4>1. N \in Nat \ {0}
        BY <2>1
      <4> QED BY <2>2, <2>7, <2>10, <3>1, <4>1, VerifyTakesChains
    <3> QED BY <2>1, <3>2
  <2> QED BY <2>4, <2>5, <2>6, <2>8, <2>9, <2>10 DEF SurfacesAgree, VerifyAccepts
<1> QED BY <1>1, <1>2

\* In every ledger a run can leave behind, lineage verify and lineage stats agree on
\* whether the chain is intact, both take what lineage show takes, and in one that no
\* older version began show takes what they take: the order of the index, the walk from
\* the genesis and the topological order tell the same ledgers apart.
THEOREM SurfacesAgreeAlways ==
  ASSUME NoneIsNoEntry, NoneIsNoRow, NoneIsNoList PROVE Spec => []SurfacesAgree
<1>1. Init => LInv /\ OrderInv
  BY LInitOk, OrderInit
<1>2. LInv /\ OrderInv /\ [Next]_vars => LInv' /\ OrderInv'
  BY LStepOk, OrderStep, NoneIsNoEntry, NoneIsNoRow
<1>3. LInv /\ OrderInv => SurfacesAgree
  BY SurfacesOfALedger, NoneIsNoList
<1> QED BY <1>1, <1>2, <1>3, PTL DEF Spec
=============================================================================
