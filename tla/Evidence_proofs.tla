--------------------------- MODULE Evidence_proofs ---------------------------
(***************************************************************************)
(* Proofs about how evidence is collected and kept: CollectorPool, for any  *)
(* number of collectors, workers and faults, as long as Ctrl-C is pressed   *)
(* at most once; and EvidenceCache, for any number of threads, files and    *)
(* writes.                                                                 *)
(***************************************************************************)
EXTENDS CollectorPool, EvidenceCache, TLAPS

(* ---- CollectorPool ---- *)

OneInterrupt == MaxInterrupts <= 1

\* The inductive invariant.

\* A future runs exactly while its worker is somewhere; a worktree has a worker.
WorkersFit ==
  \A k \in Collectors :
    /\ at[k] # "none" <=> fut[k] = "running"
    /\ k \in trees \ stuck => fut[k] = "running"
    /\ k \in thrown => at[k] = "cleanup" \/ fut[k] = "done"

\* Once a worker has finished its work its outcome is there and on disk, unless
\* an exception left it to the main thread.
OutcomesFit ==
  \A k \in Collectors : at[k] = "cleanup" \/ fut[k] = "done" =>
    \/ k \in thrown \ taken
    \/ /\ outcome[k] \in Outcomes
       /\ outcome[k].persisted => evidence[k] = outcome[k].status

\* Where the main thread is and what has happened to it fit together.
MainFits ==
  /\ \A k \in taken : fut[k] = "done"
  /\ main = "submit" => ~pending
  /\ main \in {"wait", "drain"} => \A k \in Collectors : fut[k] # "new"
  /\ main = "drain" \/ escaping => interrupts = 1
  /\ main = "close" /\ (interrupts = 0 \/ (~pending /\ ~escaping)) => taken = Collectors
  /\ main = "close" /\ pending => Settled
  /\ Over => Settled
  /\ main = "returned" => taken = Collectors

PInv == TypeOK /\ WorkersFit /\ OutcomesFit /\ MainFits

LEMMA InitP == Init => PInv
<1> SUFFICES ASSUME Init PROVE PInv
  OBVIOUS
<1>1. TypeOK
  <2>1. pending \in BOOLEAN /\ escaping \in BOOLEAN
    BY DEF Init
  <2>2. faults \in 0..MaxFaults /\ interrupts \in 0..MaxInterrupts
    BY FaultsAssumption, InterruptsAssumption DEF Init
  <2> QED BY <2>1, <2>2 DEF Init, TypeOK
<1>2. WorkersFit /\ OutcomesFit
  BY DEF Init, WorkersFit, OutcomesFit
<1>3. MainFits
  BY DEF Init, MainFits, Over
<1> QED BY <1>1, <1>2, <1>3 DEF PInv

LEMMA InterruptCount ==
  ASSUME OneInterrupt, PInv PROVE interrupts \in {0, 1} /\ MaxInterrupts \in {0, 1}
BY InterruptsAssumption DEF OneInterrupt, PInv, TypeOK

\* What a step about collector k may do to the record and the outcome of k; in the
\* last two cases they agree.
Writes(k) ==
  \/ UNCHANGED <<outcome, evidence>>
  \/ \E s \in Statuses : OnDisk(k, s) /\ UNCHANGED outcome
  \/ \E s \in Statuses : OnDisk(k, s) /\ Report(k, s, TRUE)
  \/ Report(k, "error", FALSE) /\ UNCHANGED evidence

LEMMA ErrorWrites ==
  ASSUME NEW k \in Collectors, ErrorOutcome(k) PROVE Writes(k)
BY DEF ErrorOutcome, Writes, Statuses

LEMMA WritesOne ==
  ASSUME TypeOK, NEW k \in Collectors, Writes(k)
  PROVE  /\ outcome' \in [Collectors -> Outcomes \cup {None}]
         /\ evidence' \in [Collectors -> Statuses \cup {None}]
         /\ \A j \in Collectors : j # k =>
              outcome'[j] = outcome[j] /\ evidence'[j] = evidence[j]
<1> USE DEF TypeOK, OnDisk, Report, Outcomes, Statuses
<1>1. CASE UNCHANGED <<outcome, evidence>>
  BY <1>1
<1>2. ASSUME NEW s \in Statuses, OnDisk(k, s), UNCHANGED outcome
      PROVE  evidence' \in [Collectors -> Statuses \cup {None}]
             /\ \A j \in Collectors : j # k => evidence'[j] = evidence[j]
  BY <1>2
<1>3. ASSUME NEW s \in Statuses, NEW b \in BOOLEAN, Report(k, s, b)
      PROVE  outcome' \in [Collectors -> Outcomes \cup {None}]
             /\ \A j \in Collectors : j # k => outcome'[j] = outcome[j]
  <2>1. [status |-> s, persisted |-> b] \in Outcomes
    OBVIOUS
  <2> QED BY <1>3, <2>1
<1>4. ASSUME NEW s \in Statuses, OnDisk(k, s)
      PROVE  evidence' \in [Collectors -> Statuses \cup {None}]
             /\ \A j \in Collectors : j # k => evidence'[j] = evidence[j]
  BY <1>4
<1> QED BY <1>1, <1>3, <1>4 DEF Writes

LEMMA ErrorAgrees ==
  ASSUME TypeOK, NEW k \in Collectors,
         ErrorOutcome(k) \/ \E s \in Statuses : OnDisk(k, s) /\ Report(k, s, TRUE)
  PROVE  outcome'[k] \in Outcomes /\ (outcome'[k].persisted => evidence'[k] = outcome'[k].status)
<1>1. ASSUME NEW s \in Statuses, OnDisk(k, s), Report(k, s, TRUE)
      PROVE  outcome'[k] \in Outcomes /\ evidence'[k] = outcome'[k].status
  BY <1>1 DEF OnDisk, Report, TypeOK, Outcomes
<1>2. CASE Report(k, "error", FALSE)
  BY <1>2 DEF Report, TypeOK, Outcomes, Statuses
<1>3. "error" \in Statuses
  BY DEF Statuses
<1> QED BY <1>1, <1>2, <1>3 DEF ErrorOutcome

\* A worker's step.
LEMMA WorkKeeps ==
  ASSUME PInv, NEW k \in Collectors, Work(k) PROVE PInv'
<1> USE DEF PInv, At
<1>0. Writes(k)
  BY ErrorWrites
     DEF ends, Work, StartWorker, Checkout, Attempt, AuditTimeout, AttemptRaises, AttemptFatal,
         Reify, Cleanup, Writes
<1>1. /\ fut[k] \in {"queued", "running"}
      /\ UNCHANGED mains
      /\ faults' \in 0..MaxFaults
  <2>1. fut[k] \in {"queued", "running"} /\ UNCHANGED mains
    BY DEF ends, Work, StartWorker, Checkout, Attempt, AuditTimeout, AttemptRaises, AttemptFatal,
           Reify, Cleanup, WorkersFit
  <2>2. UNCHANGED faults \/ Fine \/ \E f \in Faults : Fail(f)
    BY DEF ends, Work, StartWorker, Checkout, Attempt, AuditTimeout, AttemptRaises, AttemptFatal,
           Reify, Cleanup, ErrorOutcome, Fail
  <2> QED BY <2>1, <2>2, FaultsAssumption DEF Fine, Fail, TypeOK
<1>2. /\ fut' \in [Collectors -> {"new", "queued", "running", "done"}]
      /\ at' \in [Collectors -> {"none", "checkout", "first", "second", "reify", "cleanup"}]
      /\ fatal' \subseteq thrown' /\ thrown' \subseteq Collectors
      /\ stuck' \subseteq trees' /\ trees' \subseteq Collectors
  BY DEF ends, Work, StartWorker, Checkout, Attempt, AuditTimeout, AttemptRaises, AttemptFatal,
         Reify, Cleanup, TypeOK
<1>3. /\ outcome' \in [Collectors -> Outcomes \cup {None}]
      /\ evidence' \in [Collectors -> Statuses \cup {None}]
  BY <1>0, WritesOne
<1>4. TypeOK'
  BY <1>1, <1>2, <1>3 DEF TypeOK, mains
<1>5. WorkersFit'
  <2>1. /\ at'[k] # "none" <=> fut'[k] = "running"
        /\ k \in trees' \ stuck' => fut'[k] = "running"
        /\ k \in thrown' => at'[k] = "cleanup" \/ fut'[k] = "done"
    <3>1. CASE StartWorker(k)
      BY <3>1 DEF ends, StartWorker, WorkersFit, TypeOK
    <3>2. CASE Cleanup(k)
      BY <3>2 DEF ends, Cleanup, WorkersFit, TypeOK, Fail
    <3>3. CASE Checkout(k) \/ Reify(k) \/ AttemptRaises(k) \/ AttemptFatal(k) \/
               \E s \in Statuses : Attempt(k, s) \/ AuditTimeout(k, s)
      BY <3>3 DEF ends, Checkout, Reify, AttemptRaises, AttemptFatal, Attempt, AuditTimeout,
                  WorkersFit, TypeOK
    <3> QED BY <3>1, <3>2, <3>3 DEF Work
  <2>2. \A j \in Collectors : j # k =>
          fut'[j] = fut[j] /\ at'[j] = at[j] /\ (j \in thrown' <=> j \in thrown)
            /\ (j \in trees' \ stuck' <=> j \in trees \ stuck)
    BY DEF ends, Work, StartWorker, Checkout, Attempt, AuditTimeout, AttemptRaises, AttemptFatal,
           Reify, Cleanup, TypeOK
  <2> QED BY <2>1, <2>2 DEF WorkersFit
<1>6. \A j \in Collectors : j # k =>
        /\ fut'[j] = fut[j] /\ at'[j] = at[j] /\ outcome'[j] = outcome[j]
        /\ evidence'[j] = evidence[j] /\ (j \in thrown' <=> j \in thrown)
  BY <1>0, WritesOne, ZenonT(30)
     DEF ends, Work, StartWorker, Checkout, Attempt, AuditTimeout, AttemptRaises, AttemptFatal,
         Reify, Cleanup, TypeOK
<1>7. OutcomesFit'
  <2>1. ASSUME at'[k] = "cleanup" \/ fut'[k] = "done"
        PROVE  \/ k \in thrown' \ taken'
               \/ /\ outcome'[k] \in Outcomes
                  /\ outcome'[k].persisted => evidence'[k] = outcome'[k].status
    <3>1. k \notin taken'
      BY <1>1 DEF mains, MainFits
    <3>2. CASE Reify(k) \/ \E s \in Statuses : Attempt(k, s)
      BY <3>2, ErrorAgrees DEF Reify, Attempt
    <3>3. CASE AttemptFatal(k)
      BY <3>1, <3>3 DEF AttemptFatal
    <3>4. CASE Cleanup(k)
      BY <1>1, <3>4 DEF Cleanup, OutcomesFit, mains, ends
    <3>5. CASE Checkout(k)
      <4>1. fut'[k] = "running" /\ (at'[k] = "cleanup" => k \in thrown')
        BY <3>5 DEF Checkout, TypeOK, WorkersFit
      <4> QED BY <2>1, <3>1, <4>1
    <3>6. CASE StartWorker(k) \/ AttemptRaises(k) \/ \E s \in Statuses : AuditTimeout(k, s)
      <4>1. at'[k] # "cleanup" /\ fut'[k] = "running"
        BY <3>6 DEF StartWorker, AttemptRaises, AuditTimeout, TypeOK, WorkersFit
      <4> QED BY <2>1, <4>1
    <3> QED BY <3>2, <3>3, <3>4, <3>5, <3>6 DEF Work
  <2> QED BY <1>1, <1>6, <2>1 DEF OutcomesFit, mains
<1>8. MainFits'
  <2>1. ~Settled
    BY <1>1 DEF Settled
  <2>2. fut'[k] # "new"
    BY <1>1 DEF ends, Work, StartWorker, Checkout, Attempt, AuditTimeout, AttemptRaises,
                AttemptFatal, Reify, Cleanup, TypeOK
  <2>3. ~Over /\ ~(main = "close" /\ pending) /\ taken # Collectors
    BY <1>1, <2>1 DEF MainFits
  <2>4. UNCHANGED <<main, pending, escaping, taken, interrupts>>
    BY <1>1 DEF mains
  <2>5. \A j \in taken : fut'[j] = "done"
    BY <1>1, <1>6, <2>4 DEF MainFits, TypeOK
  <2>6. main \in {"wait", "drain"} => \A j \in Collectors : fut'[j] # "new"
    BY <1>6, <2>2 DEF MainFits
  <2> QED BY <2>3, <2>4, <2>5, <2>6 DEF MainFits, Over
<1> QED BY <1>4, <1>5, <1>7, <1>8

\* The main thread takes a future, reading its result undisturbed or not.
LEMMA TakeKeeps ==
  ASSUME OneInterrupt, PInv, NEW k \in Collectors, Take(k) \/ InterruptedTake(k)
  PROVE  PInv'
<1> USE DEF PInv
<1>1. /\ main \in {"wait", "drain"} /\ fut[k] = "done" /\ taken' = taken \cup {k}
      /\ UNCHANGED <<main, escaping, workers>>
      /\ faults' \in 0..MaxFaults
      /\ interrupts' = interrupts \/ (interrupts' = interrupts + 1 /\ interrupts < MaxInterrupts)
  <2>1. UNCHANGED faults \/ Fine \/ \E f \in Faults : Fail(f)
    BY DEF Take, InterruptedTake, ErrorOutcome, Fail
  <2>2. faults' \in 0..MaxFaults
    BY <2>1, FaultsAssumption DEF Fine, Fail, TypeOK
  <2> QED BY <2>2 DEF Take, InterruptedTake
<1>2. ErrorOutcome(k) \/ (k \notin thrown /\ UNCHANGED <<outcome, evidence>>)
  BY Zenon DEF Take, InterruptedTake
<1>3. Writes(k)
  BY <1>2, ErrorWrites DEF Writes
<1>4. TypeOK'
  <2>1. pending' \in BOOLEAN
    BY DEF Take, InterruptedTake
  <2>2. interrupts' \in 0..MaxInterrupts
    BY <1>1, InterruptsAssumption DEF TypeOK
  <2> QED BY <1>1, <1>3, <2>1, <2>2, WritesOne DEF TypeOK, workers, ends
<1>5. WorkersFit'
  BY <1>1 DEF WorkersFit, workers, ends
<1>6. OutcomesFit'
  <2>1. /\ outcome'[k] \in Outcomes
        /\ outcome'[k].persisted => evidence'[k] = outcome'[k].status
    BY <1>1, <1>2, ErrorAgrees DEF OutcomesFit
  <2>2. \A j \in Collectors : j # k => outcome'[j] = outcome[j] /\ evidence'[j] = evidence[j]
    BY <1>3, WritesOne
  <2> QED BY <1>1, <2>1, <2>2 DEF OutcomesFit, workers, ends
<1>7. MainFits'
  BY <1>1, InterruptCount DEF MainFits, workers, ends, Settled, Over
<1> QED BY <1>4, <1>5, <1>6, <1>7

LEMMA MainKeeps ==
  ASSUME OneInterrupt, PInv,
         Submitted \/ AllTaken \/ Drained \/ Close \/ Interrupt \/ \E k \in Collectors : Submit(k)
  PROVE  PInv'
<1> USE DEF PInv
<1>1. ASSUME NEW k \in Collectors, Submit(k) PROVE PInv'
  BY <1>1 DEF Submit, mains, ends, TypeOK, WorkersFit, OutcomesFit, MainFits, Settled, Over
<1>2. CASE Submitted
  BY <1>2 DEF Submitted, workers, ends, TypeOK, WorkersFit, OutcomesFit, MainFits, Settled, Over
<1>3. CASE AllTaken
  BY <1>3 DEF AllTaken, workers, ends, TypeOK, WorkersFit, OutcomesFit, MainFits, Settled, Over
<1>4. CASE Drained
  <2>1. \A k \in Collectors : fut[k] = "done"
    BY <1>4 DEF Drained, MainFits, Settled
  <2> QED BY <1>4, <2>1
          DEF Drained, workers, ends, TypeOK, WorkersFit, OutcomesFit, MainFits, Settled, Over
<1>5. CASE Close
  BY <1>5 DEF Close, workers, ends, TypeOK, WorkersFit, OutcomesFit, MainFits, Settled, Over
<1>6. CASE Interrupt
  <2>1. /\ interrupts = 0 /\ interrupts' = 1 /\ 1 \in 0..MaxInterrupts
        /\ UNCHANGED <<pending, taken, workers, outcome, evidence, faults>>
    BY <1>6, InterruptCount DEF Interrupt, TypeOK
  <2>2. main # "drain" /\ ~escaping
    BY <2>1 DEF MainFits
  <2>3. /\ main \in {"submit", "wait", "close"}
        /\ main = "submit" => main' = "close" /\ escaping'
        /\ main = "wait" => main' = "drain" /\ ~escaping'
        /\ main = "close" => main' = "raised" /\ escaping'
        /\ escaping' \in BOOLEAN
    BY <1>6, <2>2 DEF Interrupt
  <2>4. TypeOK' /\ WorkersFit' /\ OutcomesFit'
    BY <2>1, <2>3 DEF workers, ends, TypeOK, WorkersFit, OutcomesFit
  <2>5. MainFits'
    BY <2>1, <2>3 DEF workers, ends, MainFits, Settled, Over
  <2> QED BY <2>4, <2>5
<1> QED BY <1>1, <1>2, <1>3, <1>4, <1>5, <1>6

LEMMA PInvHolds == OneInterrupt /\ Spec => []PInv
<1>1. Init => PInv
  BY InitP
<1>2. OneInterrupt /\ PInv /\ [Next]_vars => PInv'
  <2>1. OneInterrupt /\ PInv /\ Next => PInv'
    BY WorkKeeps, TakeKeeps, MainKeeps DEF Next, Main
  <2>2. PInv /\ UNCHANGED vars => PInv'
    BY DEF vars, mains, workers, ends, PInv, TypeOK, WorkersFit, OutcomesFit, MainFits,
           Settled, Over
  <2> QED BY <2>1, <2>2
<1>3. OneInterrupt => OneInterrupt'
  BY DEF OneInterrupt
<1> QED BY <1>1, <1>2, <1>3, PTL DEF Spec

\* Every variable keeps its type, every outcome its two fields.
THEOREM TypeCorrect == OneInterrupt /\ Spec => []TypeOK
<1>1. PInv => TypeOK
  BY DEF PInv
<1> QED BY <1>1, PInvHolds, PTL

\* With one Ctrl-C at most, a call is over only when every collector it started
\* has finished and its worktree is gone, unless that one's removal failed or its
\* checkout timed out.
THEOREM NothingIsLeftBehind == OneInterrupt /\ Spec => []NothingLeftBehind
<1>1. PInv => NothingLeftBehind
  BY DEF PInv, TypeOK, WorkersFit, MainFits, NothingLeftBehind, Settled
<1> QED BY <1>1, PInvHolds, PTL

\* A pool that is interrupted once at most implements Collection: records are
\* persisted only while the call runs, and a normal return reports every one.
THEOREM PoolKeepsPromise == OneInterrupt /\ Spec => KeepsPromise
<1> USE DEF PInv
<1>1. Init => Promise!Init
  BY DEF Init, Promise!Init, Over
<1>2. PInv /\ [Next]_vars => [Promise!Next]_Promise!vars
  <2> SUFFICES ASSUME PInv, Next PROVE Promise!Next \/ UNCHANGED Promise!vars
    BY DEF vars, mains, workers, ends, Promise!vars, Over
  <2>1. ASSUME NEW k \in Collectors, ErrorOutcome(k) \/ UNCHANGED evidence \/
                 \E s \in Statuses : OnDisk(k, s),
               ~Over, ~Over'
        PROVE  Promise!Next \/ UNCHANGED Promise!vars
    BY <2>1 DEF ErrorOutcome, OnDisk, Over, Statuses, Promise!Next, Promise!Persist, Promise!vars
  <2>2. ASSUME NEW k \in Collectors, Work(k) \/ Take(k) \/ InterruptedTake(k)
        PROVE  Promise!Next \/ UNCHANGED Promise!vars
    <3>1. ~Over /\ ~Over'
      <4>1. CASE Work(k)
        <5>1. fut[k] \in {"queued", "running"} /\ UNCHANGED main
          BY <4>1 DEF ends, Work, StartWorker, Checkout, Attempt, AuditTimeout, AttemptRaises,
                      AttemptFatal, Reify, Cleanup, WorkersFit, mains, TypeOK
        <5> QED BY <5>1 DEF Over, MainFits, Settled
      <4>2. CASE Take(k) \/ InterruptedTake(k)
        BY <4>2 DEF Take, InterruptedTake, Over
      <4> QED BY <2>2, <4>1, <4>2
    <3>2. ErrorOutcome(k) \/ UNCHANGED evidence \/ \E s \in Statuses : OnDisk(k, s)
      BY <2>2 DEF ends, Work, StartWorker, Checkout, Attempt, AuditTimeout, AttemptRaises,
                  AttemptFatal, Reify, Cleanup, Take, InterruptedTake
    <3> QED BY <2>1, <3>1, <3>2
  <2>3. CASE Close
    <3>1. CASE main' = "returned"
      <4>1. taken = Collectors /\ \A k \in Collectors : fut[k] = "done"
        BY <2>3, <3>1 DEF Close, MainFits
      <4>2. \A k \in Collectors :
              outcome[k] \in Outcomes /\ (outcome[k].persisted => evidence[k] = outcome[k].status)
        BY <4>1 DEF OutcomesFit
      <4>3. outcome \in [Collectors -> Outcomes]
        BY <4>2 DEF TypeOK
      <4> QED BY <2>3, <3>1, <4>2, <4>3
              DEF Close, Over, Outcomes, Promise!Next, Promise!Return, Promise!Reports
    <3>2. CASE main' = "raised"
      BY <2>3, <3>2 DEF Close, Over, Promise!Next, Promise!Raise
    <3> QED BY <2>3, <3>1, <3>2 DEF Close
  <2>4. CASE Interrupt
    BY <2>4 DEF Interrupt, Over, Promise!Next, Promise!Raise, Promise!vars
  <2>5. CASE Submitted \/ AllTaken \/ Drained \/ \E k \in Collectors : Submit(k)
    BY <2>5 DEF ends, Submitted, AllTaken, Drained, Submit, mains, Over, Promise!vars
  <2> QED BY <2>2, <2>3, <2>4, <2>5 DEF Next, Main
<1> QED BY <1>1, <1>2, PInvHolds, PTL DEF Spec, KeepsPromise, Promise!Spec

(* ---- EvidenceCache ---- *)

\* A load that has not seen the generation move has not missed a persist: what
\* had been persisted when it began is still all that has been.
GenerationTells ==
  \A t \in Threads : pc[t] \in {"missed", "reading"} =>
    /\ AtLeast(done, floor[t])
    /\ seenGen[t] <= gen
    /\ seenGen[t] = gen => done = floor[t]

\* The files a load has read, or found absent, are as new as when it began.
ReadSoFar ==
  \A t \in Threads : pc[t] = "reading" =>
    \A k \in Keys \ todo[t] : partial[t][k] >= floor[t][k]

CInv == /\ CacheTypeOK
        /\ AtLeast(disk, done) /\ \A t \in Threads : AtLeast(disk, wrote[t])
        /\ GenerationTells /\ ReadSoFar
        /\ CacheIsCurrent /\ LoadsSeePersisted

LEMMA NewerIs ==
  ASSUME NEW a \in Bundles, NEW b \in Bundles
  PROVE  /\ Newer(a, b) \in Bundles
         /\ AtLeast(Newer(a, b), a) /\ AtLeast(Newer(a, b), b)
         /\ \A d \in Bundles : AtLeast(d, a) /\ AtLeast(d, b) => AtLeast(d, Newer(a, b))
BY DEF Newer, AtLeast, Bundles

LEMMA AtLeastOrder ==
  /\ \A a \in Bundles : AtLeast(a, a) /\ AtLeast(a, Zero)
  /\ \A a, b, c \in Bundles : AtLeast(a, b) /\ AtLeast(b, c) => AtLeast(a, c)
BY DEF AtLeast, Bundles, Zero

LEMMA ZeroType == Zero \in Bundles
BY DEF Zero, Bundles

LEMMA InitC == CacheInit => CInv
BY ZeroType, AtLeastOrder, NoBundleAssumption
   DEF CacheInit, CInv, CacheTypeOK, GenerationTells, ReadSoFar, CacheIsCurrent, LoadsSeePersisted

\* The disk moves on: the file a thread writes, or every file it moves away.
LEMMA DiskMovesOn ==
  ASSUME CInv, NEW t \in Threads, (\E k \in Keys : Write(t, k)) \/ MoveAway(t)
  PROVE  CInv'
<1> USE DEF CInv, CacheTypeOK, Goto
<1>1. disk' \in Bundles /\ AtLeast(disk', disk) /\ present' \subseteq Keys
  <2>1. CASE MoveAway(t)
    BY <2>1 DEF MoveAway, Bundles, AtLeast
  <2>2. ASSUME NEW k \in Keys, Write(t, k)
        PROVE  disk' \in Bundles /\ AtLeast(disk', disk) /\ present' \subseteq Keys
    <3>1. disk[k] + 1 \in Nat /\ disk' = [disk EXCEPT ![k] = disk[k] + 1]
      BY <2>2 DEF Write, Bundles
    <3> QED BY <2>2, <3>1 DEF Write, Bundles, AtLeast
  <2> QED BY <2>1, <2>2
<1>2. wrote' \in [Threads -> Bundles] /\ \A u \in Threads : AtLeast(disk', wrote'[u])
  <2>1. CASE MoveAway(t)
    <3>1. wrote' = [wrote EXCEPT ![t] = disk']
      BY <2>1 DEF MoveAway
    <3> QED BY <1>1, <3>1, AtLeastOrder
  <2>2. ASSUME NEW k \in Keys, Write(t, k)
        PROVE  wrote' \in [Threads -> Bundles] /\ \A u \in Threads : AtLeast(disk', wrote'[u])
    <3>1. wrote' = [wrote EXCEPT ![t][k] = disk'[k]]
      BY <2>2 DEF Write
    <3>2. disk'[k] \in Nat
      BY <1>1 DEF Bundles
    <3>3. wrote' \in [Threads -> Bundles]
      BY <3>1, <3>2 DEF Bundles
    <3>4. \A u \in Threads : u # t => AtLeast(disk', wrote'[u])
      BY <1>1, <3>1, AtLeastOrder
    <3>5. AtLeast(disk', wrote'[t])
      BY <1>1, <3>1, <3>2 DEF AtLeast, Bundles
    <3> QED BY <3>3, <3>4, <3>5
  <2> QED BY <2>1, <2>2
<1>3. /\ UNCHANGED <<cached, gen, seenGen, todo, partial, got, done, floor>>
      /\ pc' = [pc EXCEPT ![t] = "wrote"]
  BY DEF Write, MoveAway
<1>4. AtLeast(disk', done')
  BY <1>1, <1>3, AtLeastOrder
<1> QED BY <1>1, <1>2, <1>3, <1>4
        DEF GenerationTells, ReadSoFar, CacheIsCurrent, LoadsSeePersisted, AtLeast

LEMMA DropsKeep ==
  ASSUME CInv, NEW t \in Threads, Invalidate(t) \/ InvalidateAll(t)
  PROVE  CInv'
<1> USE DEF CInv, CacheTypeOK, Goto
<1>1. CASE Invalidate(t)
  <2>1. /\ done' \in Bundles /\ AtLeast(done', done) /\ AtLeast(disk, done')
        /\ wrote' \in [Threads -> Bundles]
        /\ \A u \in Threads : AtLeast(disk, wrote'[u])
    BY <1>1, NewerIs, ZeroType, AtLeastOrder DEF Invalidate
  <2>2. /\ UNCHANGED <<disk, present, seenGen, todo, partial, got, floor>>
        /\ pc' = [pc EXCEPT ![t] = "idle"] /\ gen' = gen + 1 /\ cached' = NoBundle
    BY <1>1 DEF Invalidate
  <2>3. GenerationTells'
    BY <2>1, <2>2, AtLeastOrder DEF GenerationTells
  <2> QED BY <2>1, <2>2, <2>3 DEF ReadSoFar, CacheIsCurrent, LoadsSeePersisted, AtLeast
<1>2. CASE InvalidateAll(t)
  <2>1. gen' \in Nat /\ gen' >= gen /\ cached' = NoBundle
        /\ UNCHANGED <<disk, present, pc, wrote, seenGen, todo, partial, got, done, floor>>
    BY <1>2 DEF InvalidateAll
  <2>2. \A u \in Threads : seenGen[u] <= gen => (seenGen[u] = gen' => seenGen[u] = gen)
    BY <2>1
  <2>3. GenerationTells'
    BY <2>1, <2>2 DEF GenerationTells, AtLeast
  <2> QED BY <2>1, <2>3 DEF ReadSoFar, CacheIsCurrent, LoadsSeePersisted, AtLeast
<1> QED BY <1>1, <1>2

LEMMA LoadsKeep ==
  ASSUME CInv, NEW t \in Threads,
         Hit(t) \/ Miss(t) \/ ListFiles(t) \/ Store(t) \/ \E k \in Keys : ReadFile(t, k)
  PROVE  CInv'
<1> USE DEF CInv, CacheTypeOK, Goto
<1>1. CASE Hit(t)
  BY <1>1 DEF Hit, GenerationTells, ReadSoFar, CacheIsCurrent, LoadsSeePersisted, AtLeast
<1>2. CASE Miss(t)
  BY <1>2, AtLeastOrder
     DEF Miss, GenerationTells, ReadSoFar, CacheIsCurrent, LoadsSeePersisted, AtLeast
<1>3. CASE ListFiles(t)
  <2>1. \A k \in Keys : disk[k] >= floor[t][k]
    BY <1>3, AtLeastOrder DEF ListFiles, GenerationTells, AtLeast
  <2> QED BY <1>3, <2>1
          DEF ListFiles, GenerationTells, ReadSoFar, CacheIsCurrent, LoadsSeePersisted, AtLeast
<1>4. ASSUME NEW k \in Keys, ReadFile(t, k) PROVE CInv'
  <2>1. disk[k] >= floor[t][k]
    BY <1>4, AtLeastOrder DEF ReadFile, GenerationTells, AtLeast
  <2>2. partial' \in [Threads -> Bundles]
    <3>1. [partial[t] EXCEPT ![k] = disk[k]] \in Bundles
      BY DEF Bundles
    <3>2. partial' = [partial EXCEPT ![t] = [partial[t] EXCEPT ![k] = disk[k]]]
            \/ partial' = partial
      BY <1>4 DEF ReadFile
    <3> QED BY <3>1, <3>2
  <2>3. \A u \in Threads : u # t =>
          pc'[u] = pc[u] /\ partial'[u] = partial[u] /\ todo'[u] = todo[u]
    BY <1>4 DEF ReadFile
  <2>4. pc'[t] = "reading" => \A j \in Keys \ todo'[t] : partial'[t][j] >= floor[t][j]
    <3>1. CASE k \in present
      <4>1. /\ pc[t] = "reading" /\ todo'[t] = todo[t] \ {k}
            /\ partial'[t] = [partial[t] EXCEPT ![k] = disk[k]]
        BY <1>4, <3>1 DEF ReadFile
      <4>2. partial[t] \in [Keys -> Nat]
        BY DEF Bundles
      <4> QED BY <2>1, <4>1, <4>2 DEF ReadSoFar
    <3>2. CASE k \notin present
      BY <1>4, <3>2 DEF ReadFile
    <3> QED BY <3>1, <3>2
  <2>5. ReadSoFar'
    BY <1>4, <2>3, <2>4 DEF ReadFile, ReadSoFar
  <2>6. GenerationTells'
    BY <1>4, <2>3 DEF ReadFile, GenerationTells, AtLeast
  <2> QED BY <1>4, <2>2, <2>5, <2>6
          DEF ReadFile, CacheIsCurrent, LoadsSeePersisted, AtLeast
<1>5. CASE Store(t)
  <2>1. AtLeast(partial[t], floor[t])
    BY <1>5 DEF Store, ReadSoFar, AtLeast
  <2>2. cached' # NoBundle => AtLeast(cached', done)
    BY <1>5, <2>1 DEF Store, GenerationTells, CacheIsCurrent
  <2>3. \A u \in Threads : got'[u] # NoBundle => AtLeast(got'[u], floor[u])
    BY <1>5, <2>1 DEF Store, LoadsSeePersisted
  <2> QED BY <1>5, <2>2, <2>3
          DEF Store, GenerationTells, ReadSoFar, CacheIsCurrent, LoadsSeePersisted, AtLeast
<1> QED BY <1>1, <1>2, <1>3, <1>4, <1>5

LEMMA CInvHolds == CacheSpec => []CInv
<1>1. CacheInit => CInv
  BY InitC
<1>2. CInv /\ [CacheNext]_cacheVars => CInv'
  <2>1. CInv /\ CacheNext => CInv'
    BY DiskMovesOn, DropsKeep, LoadsKeep DEF CacheNext
  <2>2. CInv /\ UNCHANGED cacheVars => CInv'
    BY DEF cacheVars, CInv, CacheTypeOK, GenerationTells, ReadSoFar, CacheIsCurrent,
           LoadsSeePersisted, AtLeast
  <2> QED BY <2>1, <2>2
<1> QED BY <1>1, <1>2, PTL DEF CacheSpec

\* Every variable keeps its type: a generation is a number also for a key that
\* has none yet, and what a load returns is a bundle or nothing.
THEOREM CacheTypeCorrect == CacheSpec => []CacheTypeOK
<1>1. CInv => CacheTypeOK
  BY DEF CInv
<1> QED BY <1>1, CInvHolds, PTL

\* The generation counter at work: a loader that read the disk before a persist
\* never leaves its snapshot in the cache after the persist has returned.
THEOREM CacheStaysCurrent == CacheSpec => []CacheIsCurrent
<1>1. CInv => CacheIsCurrent
  BY DEF CInv
<1> QED BY <1>1, CInvHolds, PTL

\* Every load, hit or miss, sees what had been persisted when it began.
THEOREM LoadsAreFresh == CacheSpec => []LoadsSeePersisted
<1>1. CInv => LoadsSeePersisted
  BY DEF CInv
<1> QED BY <1>1, CInvHolds, PTL
=============================================================================
