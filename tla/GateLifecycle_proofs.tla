----------------------- MODULE GateLifecycle_proofs -----------------------
(***************************************************************************)
(* Proofs about GateLifecycle, for every number of processes, gates,        *)
(* collectors and commits, every set of requests and faults, and every      *)
(* bound on the faults; and about the rules of the categories.             *)
(***************************************************************************)
EXTENDS GateLifecycle, TLAPS

-----------------------------------------------------------------------------
(* Values.                                                                 *)

\* verdict_engine: whatever the bundle, profile and waiver, the verdict is one
\* of the four overall verdicts.
LEMMA AdjudicateType ==
  ASSUME NEW b, NEW pr, NEW r9, NEW w
  PROVE  adjudicate(b, pr, r9, w) \in Overalls
<1> DEFINE vs == compute_all_verdicts(b, pr)
<1>1. aggregate_verdicts(vs, r9) \in Overalls
  BY DEF aggregate_verdicts, Overalls
<1>2. \A o \in Overalls : apply_waivers(o, vs, w) \in Overalls
  BY DEF apply_waivers, Overalls
<1> QED BY <1>1, <1>2 DEF adjudicate

\* The override only ever replaces a verdict by FAIL.
LEMMA FailClosedType ==
  ASSUME NEW fc, NEW b, NEW o \in Overalls
  PROVE  FailClosed(fc, b, o) \in Overalls
BY DEF FailClosed, Overalls

LEMMA EmptyBundleType == EmptyBundle \in Bundles /\ Present(EmptyBundle) = {}
BY DEF EmptyBundle, Bundles, Present

\* What a process sees of a gate's evidence, cached or not, is a bundle.
LEMMA BundleType ==
  ASSUME TypeOK, NEW p \in Procs, NEW g \in Gates
  PROVE  Bundle(p, g) \in Bundles
BY DEF TypeOK, Bundle

\* A request names a gate, a commit and a profile.
LEMMA RequestType ==
  ASSUME NEW r \in Requests
  PROVE  /\ r.gate \in Gates /\ r.commit \in Commits /\ r.profile \in Profiles
         /\ r.op \in {"run", "recover"}
BY RequestsAssumption DEF Calls

LEMMA SimpleValues ==
  /\ NoDesc \in Descriptors /\ NoReply \in Replies
  /\ \A k \in {"timeout", "raised", "drift", "recovered"} : Reply(k) \in Replies
BY DEF NoDesc, Descriptors, NoReply, Replies, Reply

LEMMA DescriptorType ==
  /\ \A k \in {"live", "corrupt", "quarantined", "recovered"},
        g \in Gates \cup {None}, b \in BOOLEAN :
       /\ [NoDesc EXCEPT !.kind = k, !.gate = g] \in Descriptors
       /\ [NoDesc EXCEPT !.kind = k, !.failed = b] \in Descriptors
       /\ [NoDesc EXCEPT !.kind = k, !.gate = g].gate = g
  /\ \A d \in Descriptors, b, c \in BOOLEAN :
       /\ [d EXCEPT !.failed = b] \in Descriptors
       /\ [d EXCEPT !.had_verdict = c, !.failed = b] \in Descriptors
BY DEF NoDesc, Descriptors

\* Changing the failure flag of a descriptor, with or without had_verdict, leaves
\* the descriptors in range.
LEMMA DescFailed ==
  ASSUME desc \in [Procs -> Descriptors], NEW p \in Procs, NEW b \in BOOLEAN,
         NEW c \in BOOLEAN
  PROVE  /\ [desc EXCEPT ![p].failed = b] \in [Procs -> Descriptors]
         /\ [desc EXCEPT ![p].had_verdict = c, ![p].failed = b] \in [Procs -> Descriptors]
<1>1. [desc[p] EXCEPT !.failed = b] \in Descriptors
  BY DEF Descriptors
<1>2. [desc[p] EXCEPT !.had_verdict = c] \in Descriptors
  BY DEF Descriptors
<1> DEFINE d2 == [desc EXCEPT ![p].had_verdict = c]
<1>3. d2 \in [Procs -> Descriptors]
  BY <1>2
<1>4. [d2[p] EXCEPT !.failed = b] \in Descriptors
  BY <1>3 DEF Descriptors
<1>5. [d2 EXCEPT ![p].failed = b] \in [Procs -> Descriptors]
  <2> HIDE DEF d2
  <2> QED BY <1>3, <1>4
<1> QED BY <1>1, <1>5

\* The bound on faults is kept by every step that fails or does not.
LEMMA FaultCount ==
  ASSUME faults \in 0..MaxFaults, NEW f, Fine \/ Fail(f)
  PROVE  faults' \in 0..MaxFaults
BY FaultsAssumption DEF Fine, Fail, CanFail

-----------------------------------------------------------------------------
(* Type correctness.  A step uses the marker it found, or the gate its      *)
(* descriptor names, several steps after it found them, so the range of    *)
(* the variables depends on where each process stands and on the lock that *)
(* keeps the others away meanwhile.                                        *)

ControlOK ==
  \A p \in Procs :
    /\ pc[p] \in Holding => lock = p
    /\ pc[p] \in Running \cup {"done"} => job[p] \in Requests
    /\ pc[p] = "quarantine" => marker # None /\ marker.kind = "corrupt"
    /\ pc[p] \in {"salvage", "orphan"} => desc[p].gate \in Gates

TInv == TypeOK /\ ControlOK

LEMMA InitTyped == Init => TInv
BY EmptyBundleType, SimpleValues, FaultsAssumption
   DEF Init, TInv, TypeOK, ControlOK, Steps, Running, Holding, Before, After,
       InRecovery, InFlight

\* Every step keeps the variables in range.
LEMMA NextType == TInv /\ [Next]_vars => TypeOK'
<1> SUFFICES ASSUME TInv, [Next]_vars PROVE TypeOK'
  OBVIOUS
<1>0. TypeOK /\ ControlOK
  BY DEF TInv
<1> USE <1>0 DEF TypeOK, shared, local, Goto, Steps, Running, Before, Holding,
                 InRecovery, InFlight, After
<1>1. ASSUME NEW p \in Procs, NEW r \in Requests, Start(p, r) PROVE TypeOK'
  BY <1>1 DEF Start
<1>2. ASSUME NEW p \in Procs, NEW d \in doomed[p],
             JanitorRemove(p, d) \/ DrainDir(p, d)
      PROVE  TypeOK'
  <2>1. faults' \in 0..MaxFaults
    BY <1>2, FaultCount DEF JanitorRemove, DrainDir
  <2>2. CASE JanitorRemove(p, d)
    BY <2>1, <2>2 DEF JanitorRemove
  <2>3. CASE DrainDir(p, d)
    <3>1. desc' \in [Procs -> Descriptors]
      <4>1. [desc EXCEPT ![p].failed = TRUE] \in [Procs -> Descriptors]
        BY DescFailed
      <4> QED BY <2>3, <4>1 DEF DrainDir
    <3>2. cleanup' \subseteq Dirs /\ doomed' \in [Procs -> SUBSET Dirs]
      BY <2>3 DEF DrainDir
    <3> QED BY <2>1, <2>3, <3>1, <3>2 DEF DrainDir
  <2> QED BY <1>2, <2>2, <2>3
<1>3. ASSUME NEW p \in Procs, JanitorDone(p) \/ AcquireLock(p) \/ LockTimeout(p)
      PROVE  TypeOK'
  BY <1>3, SimpleValues, ZenonT(30) DEF JanitorDone, AcquireLock, LockTimeout
<1>4. ASSUME NEW p \in Procs, ReadMarker(p) PROVE TypeOK'
  <2>1. pc' \in [Procs -> Steps]
    BY <1>4 DEF ReadMarker, AfterRecovery
  <2>a. marker # None => marker.gate \in Gates \cup {None}
    BY DEF Markers
  <2>2. desc' \in [Procs -> Descriptors]
    <3>1. ASSUME NEW k \in {"live", "recovered"}, marker # None,
                 desc' = [desc EXCEPT ![p] =
                           [NoDesc EXCEPT !.kind = k, !.gate = marker.gate]]
          PROVE  desc' \in [Procs -> Descriptors]
      <4>1. [NoDesc EXCEPT !.kind = k, !.gate = marker.gate] \in Descriptors
        BY <2>a, <3>1 DEF NoDesc, Descriptors
      <4> QED BY <3>1, <4>1
    <3>2. \/ desc' = desc
          \/ marker # None /\ \E k \in {"live", "recovered"} :
               desc' = [desc EXCEPT ![p] =
                         [NoDesc EXCEPT !.kind = k, !.gate = marker.gate]]
      BY <1>4, Zenon DEF ReadMarker
    <3> QED BY <3>1, <3>2
  <2> QED BY <1>4, <2>1, <2>2 DEF ReadMarker
<1>5. ASSUME NEW p \in Procs, QuarantineMarker(p) PROVE TypeOK'
  <2>1. pc' \in [Procs -> Steps]
    BY <1>5 DEF QuarantineMarker, AfterRecovery
  <2>2. marker \in Markers /\ marker.gate \in Gates \cup {None}
    BY <1>5 DEF QuarantineMarker, ControlOK, Markers
  <2>3. desc' \in [Procs -> Descriptors]
    <3>1. [NoDesc EXCEPT !.kind = "quarantined", !.gate = marker.gate] \in Descriptors
      BY <2>2, DescriptorType
    <3>2. [NoDesc EXCEPT !.kind = "corrupt", !.failed = TRUE] \in Descriptors
      BY DescriptorType
    <3>3. PICK d \in Descriptors : desc' = [desc EXCEPT ![p] = d]
      BY <1>5, <3>1, <3>2, Zenon DEF QuarantineMarker
    <3> QED BY <3>3
  <2>4. marker' \in Markers \cup {None} /\ faults' \in 0..MaxFaults
    BY <1>5, FaultCount DEF QuarantineMarker
  <2> QED BY <1>5, <2>1, <2>3, <2>4 DEF QuarantineMarker
<1>6. ASSUME NEW p \in Procs, QuarantineEvidence(p) PROVE TypeOK'
  <2>1. pc' \in [Procs -> Steps] /\ faults' \in 0..MaxFaults
    BY <1>6, FaultCount DEF QuarantineEvidence, AfterRecovery
  <2>2. evidence' \in [Gates -> Bundles]
    BY <1>6, EmptyBundleType DEF QuarantineEvidence
  <2>3. cache' \in [Procs -> [Gates -> Bundles \cup {None}]]
    BY <1>6, SMTT(30) DEF QuarantineEvidence, Uncached
  <2>4. desc' \in [Procs -> Descriptors]
    <3>1. [desc EXCEPT ![p].failed = TRUE] \in [Procs -> Descriptors]
      BY DescFailed
    <3> QED BY <1>6, <3>1 DEF QuarantineEvidence
  <2> QED BY <1>6, <2>1, <2>2, <2>3, <2>4 DEF QuarantineEvidence
<1>7. ASSUME NEW p \in Procs, MoveOrphan(p) PROVE TypeOK'
  <2>1. pc' \in [Procs -> Steps] /\ faults' \in 0..MaxFaults
    BY <1>7, FaultCount DEF MoveOrphan
  <2>2. evidence' \in [Gates -> Bundles]
    BY <1>7, EmptyBundleType DEF MoveOrphan
  <2>3. cache' \in [Procs -> [Gates -> Bundles \cup {None}]]
    <3>1. cache' = cache \/ Uncached(p, desc[p].gate)
      BY <1>7, Zenon DEF MoveOrphan
    <3>2. desc[p].gate \in Gates
      BY <1>7 DEF MoveOrphan, ControlOK
    <3>3. [cache[p] EXCEPT ![desc[p].gate] = None] \in [Gates -> Bundles \cup {None}]
      OBVIOUS
    <3>4. CASE Uncached(p, desc[p].gate)
      BY <3>3, <3>4 DEF Uncached
    <3> QED BY <3>1, <3>4
  <2>4. desc' \in [Procs -> Descriptors]
    <3> DEFINE had == verdict[desc[p].gate] # None
    <3>1. \E b \in BOOLEAN :
            desc' = [desc EXCEPT ![p].had_verdict = had, ![p].failed = b]
      BY <1>7, Zenon DEF MoveOrphan
    <3>2. had \in BOOLEAN
      OBVIOUS
    <3> HIDE DEF had
    <3>3. \A b \in BOOLEAN :
            [desc EXCEPT ![p].had_verdict = had, ![p].failed = b] \in [Procs -> Descriptors]
      BY <3>2, DescFailed
    <3> QED BY <3>1, <3>3
  <2>5. cleanup' \subseteq Dirs /\ doomed' \in [Procs -> SUBSET Dirs]
    BY <1>7, SMTT(30) DEF MoveOrphan, FreshDirs
  <2> QED BY <1>7, <2>1, <2>2, <2>3, <2>4, <2>5 DEF MoveOrphan
<1>8. ASSUME NEW p \in Procs, ClearDeadMarker(p) PROVE TypeOK'
  <2>1. pc' \in [Procs -> Steps] /\ faults' \in 0..MaxFaults
    BY <1>8, FaultCount DEF ClearDeadMarker, AfterRecovery
  <2>2. desc' \in [Procs -> Descriptors]
    <3>1. [desc EXCEPT ![p].failed = TRUE] \in [Procs -> Descriptors]
      BY DescFailed
    <3> QED BY <1>8, <3>1 DEF ClearDeadMarker
  <2> QED BY <1>8, <2>1, <2>2 DEF ClearDeadMarker
<1>9. ASSUME NEW p \in Procs, ReuseVerdict(p) PROVE TypeOK'
  <2>1. job[p] \in Requests /\ job[p].gate \in Gates
    BY <1>9, RequestType DEF ReuseVerdict, ControlOK
  <2> DEFINE g == job[p].gate
  <2>2. verdict[g] \in GateFiles /\ Bundle(p, g) \in Bundles
    BY <1>9, <2>1, BundleType DEF ReuseVerdict
  <2>3. FailClosed(job[p].fail_closed, Bundle(p, g), verdict[g].overall) \in Overalls
    BY <2>2, FailClosedType DEF GateFiles
  <2>4. reply' \in [Procs -> Replies]
    BY <1>9, <2>2, <2>3 DEF ReuseVerdict, Replies, GateFiles
  <2>5. cache' \in [Procs -> [Gates -> Bundles \cup {None}]]
    BY <1>9, <2>1, <2>2 DEF ReuseVerdict, Cached
  <2> QED BY <1>9, <2>4, <2>5 DEF ReuseVerdict
<1>10. ASSUME NEW p \in Procs, ReevaluateGate(p) \/ BaselineDrift(p) \/ RaiseBeforeMarker(p)
       PROVE  TypeOK'
  <2>1. faults' \in 0..MaxFaults
    BY <1>10, FaultCount DEF ReevaluateGate, BaselineDrift, RaiseBeforeMarker
  <2> QED
    BY <1>10, <2>1, SimpleValues, ZenonT(30) DEF ReevaluateGate, BaselineDrift, RaiseBeforeMarker
<1>11. ASSUME NEW p \in Procs, WriteMarker(p) PROVE TypeOK'
  <2>1. job[p].gate \in Gates
    BY <1>11, RequestType DEF WriteMarker, ControlOK
  <2>2. marker' \in Markers /\ todo' \in [Procs -> SUBSET Collectors]
    BY <1>11, <2>1 DEF WriteMarker, Markers, Applicable
  <2> QED BY <1>11, <2>2 DEF WriteMarker
<1>12. ASSUME NEW p \in Procs, NEW k \in todo[p], CollectUnpersisted(p, k) PROVE TypeOK'
  <2>1. faults' \in 0..MaxFaults
    BY <1>12, FaultCount DEF CollectUnpersisted
  <2>2. job[p].gate \in Gates /\ job[p].commit \in Commits
    BY <1>12, RequestType DEF CollectUnpersisted, ControlOK
  <2>3. \A b \in Bundles, s \in Statuses :
          [b EXCEPT ![k] = [commit |-> job[p].commit, status |-> s]] \in Bundles
    BY <2>2 DEF Bundles, Records
  <2>4. evidence' \in [Gates -> Bundles]
    <3>1. CASE evidence' = evidence
      BY <3>1
    <3>2. ASSUME NEW s \in Statuses,
                 evidence' = [evidence EXCEPT ![job[p].gate][k] =
                               [commit |-> job[p].commit, status |-> s]]
          PROVE  evidence' \in [Gates -> Bundles]
      BY <2>2, <2>3, <3>2
    <3> QED BY <1>12, <3>1, <3>2, Zenon DEF CollectUnpersisted
  <2>5. cache' \in [Procs -> [Gates -> Bundles \cup {None}]]
    <3>1. cache' = cache \/ Uncached(p, job[p].gate)
      BY <1>12, Zenon DEF CollectUnpersisted
    <3>2. CASE Uncached(p, job[p].gate)
      BY <2>2, <3>2 DEF Uncached
    <3> QED BY <3>1, <3>2
  <2> QED BY <1>12, <2>1, <2>4, <2>5 DEF CollectUnpersisted
<1>13. ASSUME NEW p \in Procs, NEW k \in todo[p], NEW s \in Statuses, Collect(p, k, s)
       PROVE  TypeOK'
  <2>1. job[p].gate \in Gates /\ job[p].commit \in Commits
    BY <1>13, RequestType DEF Collect, ControlOK
  <2> DEFINE rec == [commit |-> job[p].commit, status |-> s]
  <2>2. \A b \in Bundles : [b EXCEPT ![k] = rec] \in Bundles
    BY <2>1 DEF Bundles, Records
  <2>3. evidence' \in [Gates -> Bundles]
    BY <1>13, <2>1, <2>2 DEF Collect
  <2>4. outcomes' \in [Procs -> Bundles]
    BY <1>13, <2>2 DEF Collect
  <2>5. cache' \in [Procs -> [Gates -> Bundles \cup {None}]]
    BY <1>13, <2>1 DEF Collect, Uncached
  <2> QED BY <1>13, <2>3, <2>4, <2>5 DEF Collect
<1>14. ASSUME NEW p \in Procs, RaiseInFlight(p) PROVE TypeOK'
  <2>1. faults' \in 0..MaxFaults
    BY <1>14, FaultCount DEF RaiseInFlight
  <2> QED BY <1>14, <2>1, SimpleValues DEF RaiseInFlight
<1>15. ASSUME NEW p \in Procs, Evaluate(p) PROVE TypeOK'
  <2>1. job[p] \in Requests
    BY <1>15 DEF Evaluate, ControlOK
  <2>2. job[p].gate \in Gates /\ job[p].commit \in Commits /\ job[p].profile \in Profiles
    BY <2>1, RequestType
  <2> DEFINE g == job[p].gate
             o == adjudicate(Bundle(p, g), job[p].profile, job[p].risk9, job[p].waiver)
  <2>3. Bundle(p, g) \in Bundles /\ o \in Overalls
    BY <2>2, BundleType, AdjudicateType
  <2> HIDE DEF o
  <2>4. verdict' \in [Gates -> GateFiles \cup {None}]
    BY <1>15, <2>2, <2>3 DEF Evaluate, GateFiles, o
  <2>5. cache' \in [Procs -> [Gates -> Bundles \cup {None}]]
    BY <1>15, <2>2, <2>3 DEF Evaluate, Cached
  <2>6. reply' \in [Procs -> Replies]
    <3> DEFINE r == [kind |-> "fresh", overall |-> o, hash |-> Bundle(p, g), root |-> None]
    <3>1. r \in Replies /\ Reply("raised") \in Replies
      BY <2>3, SimpleValues DEF Replies
    <3>2. reply' = [reply EXCEPT ![p] = r] \/ reply' = [reply EXCEPT ![p] = Reply("raised")]
      BY <1>15 DEF Evaluate, o
    <3> HIDE DEF r
    <3> QED BY <3>1, <3>2
  <2>7. faults' \in 0..MaxFaults
    BY <1>15, FaultCount DEF Evaluate
  <2> QED BY <1>15, <2>4, <2>5, <2>6, <2>7 DEF Evaluate
<1>16. ASSUME NEW p \in Procs, ClearMarker(p) PROVE TypeOK'
  BY <1>16, FaultCount DEF ClearMarker
<1>17. ASSUME NEW p \in Procs, ReleaseLock(p) \/ DrainDone(p) PROVE TypeOK'
  BY <1>17, SimpleValues DEF ReleaseLock, DrainDone
<1>18. ASSUME NEW p \in Procs, Report(p) PROVE TypeOK'
  <2>1. job[p].gate \in Gates
    BY <1>18, RequestType DEF Report, ControlOK
  <2>2. Bundle(p, job[p].gate) \in Bundles
    BY <2>1, BundleType
  <2>3. cache' \in [Procs -> [Gates -> Bundles \cup {None}]]
    BY <1>18, <2>1, <2>2 DEF Report, Cached
  <2>4. FailClosed(job[p].fail_closed, Bundle(p, job[p].gate), reply[p].overall)
          \in Overalls \cup {None}
    BY FailClosedType DEF FailClosed, Replies, Overalls
  <2>5. reply' \in [Procs -> Replies]
    <3> DEFINE b == Bundle(p, job[p].gate)
               v == FailClosed(job[p].fail_closed, b, reply[p].overall)
               r1 == [reply EXCEPT ![p].root = b]
    <3>0. b \in Bundles \cup {None} /\ reply \in [Procs -> Replies]
      BY <2>2 DEF TypeOK
    <3>1. r1 \in [Procs -> Replies] /\ r1[p].overall = reply[p].overall
      <4>1. PICK one : one = reply[p] /\ one \in Replies
        BY <3>0
      <4>2. PICK next : next = [one EXCEPT !.root = b]
        OBVIOUS
      <4>3. next \in Replies /\ next.overall = one.overall
        <5> HIDE DEF b
        <5> QED BY <3>0, <4>1, <4>2 DEF Replies
      <4>4. r1 = [reply EXCEPT ![p] = next]
        BY <4>1, <4>2
      <4> QED BY <3>0, <4>1, <4>3, <4>4
    <3>2. [r1 EXCEPT ![p].overall = v] \in [Procs -> Replies]
      <4> HIDE DEF r1, v
      <4> QED BY <2>4, <3>1, ZenonT(30) DEF Replies, v
    <3>3. reply' = [r1 EXCEPT ![p].overall = v]
      BY <1>18, <3>1 DEF Report
    <3> QED BY <3>2, <3>3
  <2> QED BY <1>18, <2>3, <2>5 DEF Report
<1>19. ASSUME NEW p \in Procs, Return(p) PROVE TypeOK'
  BY <1>19, SimpleValues, EmptyBundleType DEF Return, Forget
<1>20. ASSUME NEW p \in Procs, Crash(p) PROVE TypeOK'
  <2>1. marker' \in Markers \cup {None} /\ lock' \in Procs \cup {None}
    BY <1>20 DEF Crash, Vanish, Markers
  <2>2. cache' \in [Procs -> [Gates -> Bundles \cup {None}]] /\ faults' \in 0..MaxFaults
    BY <1>20, FaultCount DEF Crash, Vanish
  <2> QED BY <1>20, <2>1, <2>2, SimpleValues, EmptyBundleType DEF Crash, Forget, Vanish
<1>21. ASSUME NEW p \in Procs, Exit(p) PROVE TypeOK'
  <2>1. marker' \in Markers \cup {None} /\ lock' \in Procs \cup {None}
    BY <1>21 DEF Exit, Vanish, Markers
  <2> QED BY <1>21, <2>1 DEF Exit, Vanish
<1>22. ASSUME NEW g \in Gates, Invalidate(g) PROVE TypeOK'
  BY <1>22 DEF Invalidate
<1>23. CASE CorruptMarker
  <2>1. marker' \in Markers /\ faults' \in 0..MaxFaults
    BY <1>23, FaultCount DEF CorruptMarker, Markers
  <2> QED BY <1>23, <2>1 DEF CorruptMarker
<1>24. CASE UNCHANGED vars
  BY <1>24 DEF vars
<1> QED
  BY <1>1, <1>2, <1>3, <1>4, <1>5, <1>6, <1>7, <1>8, <1>9, <1>10, <1>11, <1>12,
     <1>13, <1>14, <1>15, <1>16, <1>17, <1>18, <1>19, <1>20, <1>21, <1>22, <1>23,
     <1>24 DEF Next, Step

\* The lock keeps the marker a process has looked at as it was.
LEMMA NextControl == TInv /\ [Next]_vars => ControlOK'
<1> SUFFICES ASSUME TInv, [Next]_vars PROVE ControlOK'
  OBVIOUS
<1>0. TypeOK /\ ControlOK
  BY DEF TInv
<1>a. /\ pc \in [Procs -> Steps] /\ job \in [Procs -> Requests \cup {None}]
      /\ marker \in Markers \cup {None} /\ desc \in [Procs -> Descriptors]
  BY <1>0 DEF TypeOK
<1> USE <1>0, <1>a DEF ControlOK, shared, local, Goto, Running, Before, Holding,
                       InRecovery, InFlight, After
<1>1. ASSUME NEW p \in Procs, NEW r \in Requests, Start(p, r) PROVE ControlOK'
  BY <1>1 DEF Start
<1>2. ASSUME NEW p \in Procs, NEW d \in doomed[p],
             JanitorRemove(p, d) \/ DrainDir(p, d)
      PROVE  ControlOK'
  <2>1. CASE JanitorRemove(p, d)
    BY <2>1 DEF JanitorRemove
  <2>2. CASE DrainDir(p, d)
    <3>1. \A q \in Procs : q # p => desc'[q] = desc[q]
      BY <2>2 DEF DrainDir
    <3> QED BY <2>2, <3>1 DEF DrainDir
  <2> QED BY <1>2, <2>1, <2>2
<1>3. ASSUME NEW p \in Procs, JanitorDone(p) \/ AcquireLock(p) \/ LockTimeout(p)
      PROVE  ControlOK'
  BY <1>3, ValuesAssumption DEF JanitorDone, AcquireLock, LockTimeout
<1>4. ASSUME NEW p \in Procs, ReadMarker(p) PROVE ControlOK'
  <2>1. \A q \in Procs : q # p => pc'[q] = pc[q] /\ desc'[q] = desc[q]
    BY <1>4 DEF ReadMarker
  <2>2. pc[p] = "recover" /\ pc'[p] \in Holding \ {"salvage"}
    BY <1>4 DEF ReadMarker, AfterRecovery
  <2>3. pc'[p] = "quarantine" => marker # None /\ marker.kind = "corrupt"
    BY <1>4 DEF ReadMarker, AfterRecovery
  <2>4. pc'[p] = "orphan" => desc'[p].gate \in Gates
    <3>1. pc'[p] = "orphan" =>
            /\ marker # None /\ marker.kind = "good"
            /\ desc' = [desc EXCEPT ![p] =
                         [NoDesc EXCEPT !.kind = "recovered", !.gate = marker.gate]]
      BY <1>4 DEF ReadMarker, AfterRecovery
    <3>2. marker # None /\ marker.kind = "good" => marker.gate \in Gates
      BY DEF Markers
    <3>3. [NoDesc EXCEPT !.kind = "recovered", !.gate = marker.gate].gate = marker.gate
      BY DEF NoDesc
    <3> QED BY <3>1, <3>2, <3>3
  <2> QED BY <1>4, <2>1, <2>2, <2>3, <2>4 DEF ReadMarker
<1>5. ASSUME NEW p \in Procs, QuarantineMarker(p) PROVE ControlOK'
  <2>1. \A q \in Procs : q # p => pc'[q] = pc[q] /\ desc'[q] = desc[q]
    BY <1>5 DEF QuarantineMarker
  <2>2. pc[p] = "quarantine" /\ pc'[p] \in Holding \ {"quarantine", "orphan"}
    BY <1>5 DEF QuarantineMarker, AfterRecovery
  <2>3. pc'[p] = "salvage" => desc'[p].gate \in Gates
    <3>1. pc'[p] = "salvage" =>
            /\ marker # None /\ marker.gate # None
            /\ desc' = [desc EXCEPT ![p] =
                         [NoDesc EXCEPT !.kind = "quarantined", !.gate = marker.gate]]
      BY <1>5 DEF QuarantineMarker, AfterRecovery
    <3>2. marker # None /\ marker.gate # None => marker.gate \in Gates
      BY DEF Markers
    <3>3. [NoDesc EXCEPT !.kind = "quarantined", !.gate = marker.gate].gate = marker.gate
      BY DEF NoDesc
    <3> QED BY <3>1, <3>2, <3>3
  <2> QED BY <1>5, <2>1, <2>2, <2>3 DEF QuarantineMarker
<1>6. ASSUME NEW p \in Procs, QuarantineEvidence(p) PROVE ControlOK'
  BY <1>6 DEF QuarantineEvidence, AfterRecovery
<1>7. ASSUME NEW p \in Procs, MoveOrphan(p) PROVE ControlOK'
  BY <1>7 DEF MoveOrphan
<1>8. ASSUME NEW p \in Procs, ClearDeadMarker(p) PROVE ControlOK'
  BY <1>8 DEF ClearDeadMarker, AfterRecovery
<1>9. ASSUME NEW p \in Procs,
             ReuseVerdict(p) \/ ReevaluateGate(p) \/ BaselineDrift(p)
               \/ RaiseBeforeMarker(p) \/ WriteMarker(p)
      PROVE  ControlOK'
  BY <1>9 DEF ReuseVerdict, ReevaluateGate, BaselineDrift, RaiseBeforeMarker, WriteMarker
<1>10. ASSUME NEW p \in Procs, NEW k \in todo[p],
              CollectUnpersisted(p, k) \/ \E s \in Statuses : Collect(p, k, s)
       PROVE  ControlOK'
  BY <1>10 DEF CollectUnpersisted, Collect
<1>11. ASSUME NEW p \in Procs, RaiseInFlight(p) \/ Evaluate(p) \/ ClearMarker(p)
       PROVE  ControlOK'
  BY <1>11 DEF RaiseInFlight, Evaluate, ClearMarker
<1>12. ASSUME NEW p \in Procs, ReleaseLock(p) \/ DrainDone(p) \/ Report(p) PROVE ControlOK'
  BY <1>12 DEF ReleaseLock, DrainDone, Report
<1>13. ASSUME NEW p \in Procs, Return(p) PROVE ControlOK'
  BY <1>13 DEF Return, Forget
<1>14. ASSUME NEW p \in Procs, Crash(p) \/ Exit(p) PROVE ControlOK'
  BY <1>14, ValuesAssumption DEF Crash, Exit, Vanish, Forget, Markers
<1>15. ASSUME NEW g \in Gates, Invalidate(g) PROVE ControlOK'
  BY <1>15 DEF Invalidate
<1>16. CASE CorruptMarker
  BY <1>16 DEF CorruptMarker
<1>17. CASE UNCHANGED vars
  BY <1>17 DEF vars
<1> QED
  BY <1>1, <1>2, <1>3, <1>4, <1>5, <1>6, <1>7, <1>8, <1>9, <1>10, <1>11, <1>12,
     <1>13, <1>14, <1>15, <1>16, <1>17 DEF Next, Step

\* Type correctness of the gate lifecycle, with the facts about the lock and
\* the marker it rests on.
THEOREM TypeCorrect == Spec => []TypeOK
<1>1. Init => TInv
  BY InitTyped
<1>2. TInv /\ [Next]_vars => TInv'
  BY NextType, NextControl DEF TInv
<1>3. TInv => TypeOK
  BY DEF TInv
<1> QED BY <1>1, <1>2, <1>3, PTL DEF Spec

-----------------------------------------------------------------------------
(* The lock at work: the evidence of a run in flight is left alone.         *)

\* Nothing is recorded as persisted before the first collector has run, nor of a
\* collector that has still to run.
NothingYet ==
  \A p \in Procs :
    /\ pc[p] \in {"idle", "reuse", "mark"} \cup Before \cup InRecovery =>
         Present(outcomes[p]) = {}
    /\ pc[p] = "collect" => \A k \in todo[p] : outcomes[p][k] = NoRecord

\* A step of another process, which cannot be holding the lock, touches neither
\* the marker nor the evidence of a run in flight.
LEMMA LockKeepsOut ==
  ASSUME TInv, NEW p \in Procs, NEW q \in Procs, p # q, pc[q] \in InFlight,
         pc[p] \notin Holding,
         Step(p) \/ \E r \in Requests : Start(p, r)
  PROVE  /\ marker' = marker /\ evidence' = evidence
         /\ pc'[q] = pc[q] /\ job'[q] = job[q] /\ outcomes'[q] = outcomes[q]
<1>0. /\ pc \in [Procs -> Steps] /\ job \in [Procs -> Requests \cup {None}]
      /\ outcomes \in [Procs -> Bundles]
  BY DEF TInv, TypeOK
<1> USE <1>0 DEF shared, local, Goto, Holding, InRecovery, InFlight
<1>1. ASSUME NEW r \in Requests, Start(p, r)
      PROVE  /\ marker' = marker /\ evidence' = evidence
             /\ pc'[q] = pc[q] /\ job'[q] = job[q] /\ outcomes'[q] = outcomes[q]
  BY <1>1 DEF Start
<1>2. CASE \E d \in doomed[p] : JanitorRemove(p, d) \/ DrainDir(p, d)
  BY <1>2 DEF JanitorRemove, DrainDir
<1>3. CASE JanitorDone(p) \/ AcquireLock(p) \/ LockTimeout(p) \/ DrainDone(p) \/ Report(p)
  BY <1>3 DEF JanitorDone, AcquireLock, LockTimeout, DrainDone, Report
<1>4. CASE Return(p)
  BY <1>4 DEF Return, Forget
<1>5. \/ \E r \in Requests : Start(p, r)
      \/ \E d \in doomed[p] : JanitorRemove(p, d) \/ DrainDir(p, d)
      \/ JanitorDone(p) \/ AcquireLock(p) \/ LockTimeout(p) \/ DrainDone(p) \/ Report(p)
      \/ Return(p)
  BY DEF Step, ReadMarker, QuarantineMarker, QuarantineEvidence, MoveOrphan,
         ClearDeadMarker, ReuseVerdict, ReevaluateGate, BaselineDrift,
         RaiseBeforeMarker, WriteMarker, Collect, CollectUnpersisted,
         RaiseInFlight, Evaluate, ClearMarker, ReleaseLock
<1> QED BY <1>1, <1>2, <1>3, <1>4, <1>5

LEMMA NextNothingYet == TInv /\ NothingYet /\ [Next]_vars => NothingYet'
<1> SUFFICES ASSUME TInv, NothingYet, [Next]_vars PROVE NothingYet'
  OBVIOUS
<1>0. pc \in [Procs -> Steps] /\ outcomes \in [Procs -> Bundles]
  BY DEF TInv, TypeOK
<1>00. todo \in [Procs -> SUBSET Collectors]
  BY DEF TInv, TypeOK
<1> USE <1>0, <1>00, EmptyBundleType
    DEF NothingYet, shared, local, Goto, Before, InRecovery, Present
<1>1. ASSUME NEW p \in Procs, pc[p] # "collect",
             Step(p) \/ \E r \in Requests : Start(p, r)
      PROVE  NothingYet'
  <2>1. CASE \E r \in Requests : Start(p, r)
    BY <2>1 DEF Start
  <2>2. CASE \E d \in doomed[p] : JanitorRemove(p, d) \/ DrainDir(p, d)
    BY <2>2 DEF JanitorRemove, DrainDir
  <2>3. CASE JanitorDone(p) \/ AcquireLock(p) \/ LockTimeout(p) \/ ReadMarker(p)
    BY <2>3 DEF JanitorDone, AcquireLock, LockTimeout, ReadMarker, AfterRecovery
  <2>4. CASE QuarantineMarker(p) \/ QuarantineEvidence(p) \/ MoveOrphan(p)
               \/ ClearDeadMarker(p)
    <3>1. CASE QuarantineMarker(p)
      BY <3>1, SMTT(30) DEF QuarantineMarker, AfterRecovery
    <3>2. CASE QuarantineEvidence(p)
      BY <3>2, SMTT(30) DEF QuarantineEvidence, AfterRecovery
    <3>3. CASE MoveOrphan(p)
      BY <3>3, SMTT(30) DEF MoveOrphan, AfterRecovery
    <3>4. CASE ClearDeadMarker(p)
      BY <3>4, SMTT(30) DEF ClearDeadMarker, AfterRecovery
    <3> QED BY <2>4, <3>1, <3>2, <3>3, <3>4
  <2>5. CASE ReuseVerdict(p) \/ ReevaluateGate(p) \/ BaselineDrift(p)
               \/ RaiseBeforeMarker(p)
    BY <2>5 DEF ReuseVerdict, ReevaluateGate, BaselineDrift, RaiseBeforeMarker
  <2>8. CASE WriteMarker(p)
    <3>1. /\ pc' = [pc EXCEPT ![p] = "collect"] /\ outcomes' = outcomes
          /\ todo' = [todo EXCEPT ![p] = Applicable(job[p].profile)]
          /\ Present(outcomes[p]) = {}
      BY <2>8 DEF WriteMarker
    <3>2. Applicable(job[p].profile) \subseteq Collectors
      BY DEF Applicable
    <3>3. \A k \in Collectors : outcomes[p][k] = NoRecord
      BY <3>1
    <3> QED BY <3>1, <3>2, <3>3
  <2>6. CASE ClearMarker(p) \/ ReleaseLock(p) \/ DrainDone(p) \/ Report(p)
    BY <2>6 DEF ClearMarker, ReleaseLock, DrainDone, Report
  <2>7. CASE Return(p)
    BY <2>7 DEF Return, Forget
  <2> QED BY <1>1, <2>1, <2>2, <2>3, <2>4, <2>5, <2>6, <2>7, <2>8
          DEF Step, Collect, CollectUnpersisted, RaiseInFlight, Evaluate
<1>2. ASSUME NEW p \in Procs, pc[p] = "collect",
             Step(p) \/ \E r \in Requests : Start(p, r)
      PROVE  NothingYet'
  <2>1. ASSUME NEW k \in todo[p], CollectUnpersisted(p, k)
        PROVE  NothingYet'
    BY <2>1 DEF CollectUnpersisted
  <2>2. ASSUME NEW k \in todo[p], NEW s \in Statuses, Collect(p, k, s)
        PROVE  NothingYet'
    <3>1. /\ pc' = pc /\ pc[p] = "collect" /\ todo' = [todo EXCEPT ![p] = @ \ {k}]
          /\ \A q \in Procs : q # p => outcomes'[q] = outcomes[q]
          /\ \A j \in Collectors : j # k => outcomes'[p][j] = outcomes[p][j]
      BY <2>2 DEF Collect, Bundles
    <3>2. \A j \in todo'[p] : j \in Collectors /\ j # k /\ j \in todo[p]
      BY <3>1
    <3> QED BY <3>1, <3>2
  <2>3. CASE RaiseInFlight(p) \/ Evaluate(p)
    BY <2>3 DEF RaiseInFlight, Evaluate
  <2> QED BY <1>2, <2>1, <2>2, <2>3
          DEF Step, Start, JanitorRemove, DrainDir, JanitorDone, AcquireLock, LockTimeout,
              ReadMarker, QuarantineMarker, QuarantineEvidence, MoveOrphan,
              ClearDeadMarker, ReuseVerdict, ReevaluateGate, BaselineDrift,
              RaiseBeforeMarker, WriteMarker, ClearMarker, ReleaseLock, DrainDone,
              Report, Return
<1>3. ASSUME NEW p \in Procs, Crash(p) \/ Exit(p) PROVE NothingYet'
  BY <1>3 DEF Crash, Exit, Vanish, Forget
<1>4. CASE CorruptMarker \/ \E g \in Gates : Invalidate(g)
  BY <1>4 DEF CorruptMarker, Invalidate
<1>5. CASE UNCHANGED vars
  BY <1>5 DEF vars
<1> QED BY <1>1, <1>2, <1>3, <1>4, <1>5 DEF Next

LEMMA NextIntact == TInv /\ NothingYet /\ InFlightIntact /\ [Next]_vars => InFlightIntact'
<1> SUFFICES ASSUME TInv, NothingYet, InFlightIntact, [Next]_vars PROVE InFlightIntact'
  OBVIOUS
<1>0. /\ pc \in [Procs -> Steps] /\ job \in [Procs -> Requests \cup {None}]
      /\ outcomes \in [Procs -> Bundles] /\ evidence \in [Gates -> Bundles]
      /\ marker \in Markers \cup {None}
      /\ \A p \in Procs : pc[p] \in Holding => lock = p
  BY DEF TInv, TypeOK, ControlOK
<1> USE <1>0 DEF shared, local, Goto
\* A process outside the lock.
<1>1. ASSUME NEW p \in Procs, pc[p] \notin Holding,
             Step(p) \/ \E r \in Requests : Start(p, r)
      PROVE  InFlightIntact'
  <2>1. pc'[p] \notin InFlight
    <3>1. CASE \E r \in Requests : Start(p, r)
      BY <3>1 DEF Start, InFlight
    <3>2. CASE Step(p)
      BY <1>1, <3>2
         DEF Step, JanitorRemove, DrainDir, JanitorDone, AcquireLock, LockTimeout,
             DrainDone, Report, Return, Forget,
             ReadMarker, QuarantineMarker, QuarantineEvidence, MoveOrphan,
             ClearDeadMarker, ReuseVerdict, ReevaluateGate, BaselineDrift,
             RaiseBeforeMarker, WriteMarker, Collect, CollectUnpersisted,
             RaiseInFlight, Evaluate, ClearMarker, ReleaseLock,
             Holding, InRecovery, InFlight
    <3> QED BY <1>1, <3>1, <3>2
  <2>2. \A q \in Procs : q # p => pc'[q] = pc[q]
    <3>1. CASE \E r \in Requests : Start(p, r)
      BY <3>1 DEF Start
    <3>2. CASE Step(p)
      BY <1>1, <3>2
         DEF Step, JanitorRemove, DrainDir, JanitorDone, AcquireLock, LockTimeout,
             DrainDone, Report, Return, Forget,
             ReadMarker, QuarantineMarker, QuarantineEvidence, MoveOrphan,
             ClearDeadMarker, ReuseVerdict, ReevaluateGate, BaselineDrift,
             RaiseBeforeMarker, WriteMarker, Collect, CollectUnpersisted,
             RaiseInFlight, Evaluate, ClearMarker, ReleaseLock,
             Holding, InRecovery, InFlight
    <3> QED BY <1>1, <3>1, <3>2
  <2> QED BY <1>1, <2>1, <2>2, LockKeepsOut DEF InFlightIntact, Present
\* The holder of the lock: no other process is in flight.
<1>2. ASSUME NEW p \in Procs, pc[p] \in Holding, Step(p) PROVE InFlightIntact'
  <2>1. \A q \in Procs : q # p => pc[q] \notin InFlight
    BY <1>2 DEF Holding
  <2> USE <2>1 DEF InFlightIntact, Holding, InRecovery, InFlight, Present
  <2>2. CASE ReadMarker(p)
    BY <2>2 DEF ReadMarker, AfterRecovery
  <2>3. CASE QuarantineMarker(p)
    BY <2>3 DEF QuarantineMarker, AfterRecovery
  <2>4. CASE QuarantineEvidence(p)
    BY <2>4 DEF QuarantineEvidence, AfterRecovery
  <2>5. CASE MoveOrphan(p)
    BY <2>5 DEF MoveOrphan
  <2>6. CASE ClearDeadMarker(p)
    BY <2>6 DEF ClearDeadMarker, AfterRecovery
  <2>7. CASE ReuseVerdict(p) \/ ReevaluateGate(p) \/ BaselineDrift(p) \/ RaiseBeforeMarker(p)
    BY <2>7 DEF ReuseVerdict, ReevaluateGate, BaselineDrift, RaiseBeforeMarker
  <2>8. CASE WriteMarker(p)
    <3>1. marker' \in Markers
      BY <2>8, RequestType DEF WriteMarker, Markers, TInv, TypeOK, ControlOK, Running
    <3> QED BY <2>8, <3>1, ValuesAssumption DEF WriteMarker, NothingYet
  <2>9. ASSUME NEW k \in todo[p], NEW s \in Statuses, Collect(p, k, s)
        PROVE  InFlightIntact'
    <3> DEFINE g == job[p].gate
               rec == [commit |-> job[p].commit, status |-> s]
    <3>1. g \in Gates /\ k \in Collectors
      BY <2>9, RequestType DEF Collect, TInv, TypeOK, ControlOK, Running
    <3>2. /\ evidence' = [evidence EXCEPT ![g][k] = rec]
          /\ outcomes' = [outcomes EXCEPT ![p][k] = rec]
          /\ pc' = pc /\ marker' = marker /\ job' = job /\ pc[p] \in InFlight
      BY <2>9 DEF Collect
    <3> HIDE DEF rec, g
    <3>3. \A j \in Collectors :
            /\ evidence'[g][j] = IF j = k THEN rec ELSE evidence[g][j]
            /\ outcomes'[p][j] = IF j = k THEN rec ELSE outcomes[p][j]
      BY <3>1, <3>2 DEF Bundles
    <3> QED BY <3>2, <3>3 DEF g
  <2>10. ASSUME NEW k \in todo[p], CollectUnpersisted(p, k)
         PROVE  InFlightIntact'
    <3>1. /\ pc' = pc /\ marker' = marker /\ job' = job /\ outcomes' = outcomes
          /\ pc[p] = "collect"
      BY <2>10 DEF CollectUnpersisted
    <3>2. \A g \in Gates, j \in Collectors : j # k => evidence'[g][j] = evidence[g][j]
      <4>1. CASE evidence' = evidence
        BY <4>1
      <4>2. ASSUME NEW r, evidence' = [evidence EXCEPT ![job[p].gate][k] = r]
            PROVE  \A g \in Gates, j \in Collectors : j # k => evidence'[g][j] = evidence[g][j]
        BY <4>2 DEF Bundles
      <4> QED BY <2>10, <4>1, <4>2, Zenon DEF CollectUnpersisted
    <3>3. job[p].gate \in Gates
      BY <3>1, RequestType DEF TInv, ControlOK, Running
    <3>4. k \notin Present(outcomes[p])
      BY <3>1 DEF NothingYet
    <3> QED BY <3>1, <3>2, <3>3, <3>4
  <2>11. CASE RaiseInFlight(p) \/ Evaluate(p)
    BY <2>11 DEF RaiseInFlight, Evaluate
  <2>12. CASE ClearMarker(p) \/ ReleaseLock(p)
    BY <2>12 DEF ClearMarker, ReleaseLock
  <2> QED
    BY <1>2, <2>2, <2>3, <2>4, <2>5, <2>6, <2>7, <2>8, <2>9, <2>10, <2>11, <2>12
       DEF Step, JanitorRemove, DrainDir, JanitorDone, AcquireLock, LockTimeout,
           DrainDone, Report, Return
<1>3. ASSUME NEW p \in Procs, Crash(p) \/ Exit(p) PROVE InFlightIntact'
  BY <1>3, ValuesAssumption
     DEF Crash, Exit, Vanish, Forget, Markers, InFlightIntact, InFlight, Present
<1>4. CASE \E g \in Gates : Invalidate(g)
  BY <1>4 DEF Invalidate, InFlightIntact, Present
<1>5. CASE CorruptMarker
  <2>1. marker' \in Markers /\ marker'.kind = "corrupt"
    BY <1>5 DEF CorruptMarker, Markers
  <2> QED BY <1>5, <2>1, ValuesAssumption DEF CorruptMarker, InFlightIntact, Present
<1>6. CASE UNCHANGED vars
  BY <1>6 DEF vars, InFlightIntact, Present
<1>7. \A p \in Procs, r \in Requests : Start(p, r) => pc[p] \notin Holding
  BY DEF Start, Holding, InRecovery, InFlight
<1> QED BY <1>1, <1>2, <1>3, <1>4, <1>5, <1>6, <1>7 DEF Next

\* "Recovery must not move the live run's evidence" (bug L1), for any number of
\* runs, recoveries, crashes and failed file operations.
THEOREM EvidenceInFlightIsIntact == Spec => []InFlightIntact
<1> DEFINE IInv == TInv /\ NothingYet /\ InFlightIntact
<1>1. Init => IInv
  BY InitTyped, EmptyBundleType DEF Init, NothingYet, InFlightIntact, InFlight
<1>2. IInv /\ [Next]_vars => IInv'
  BY NextType, NextControl, NextNothingYet, NextIntact DEF TInv
<1>3. IInv => InFlightIntact
  OBVIOUS
<1> QED BY <1>1, <1>2, <1>3, PTL DEF Spec

-----------------------------------------------------------------------------
(* What a fresh run tells its caller after the lock is gone.                *)

\* Persisting a record drops the cached bundle, and nothing loads it again
\* before the verdict is computed.
CacheCold ==
  \A p \in Procs :
    pc[p] = "collect" /\ Present(outcomes[p]) # {} => cache[p][job[p].gate] = None

\* From the verdict to the end of the call the bundle the verdict was computed
\* from stays in the process's own cache; it holds this run's records.
FreshInv ==
  \A p \in Procs : reply[p].kind = "fresh" =>
    /\ pc[p] \in {"clear", "release", "drain", "report", "done"}
    /\ reply[p].hash \in Bundles
    /\ \A k \in Present(outcomes[p]) : reply[p].hash[k] = outcomes[p][k]
    /\ pc[p] # "done" => cache[p][job[p].gate] = reply[p].hash
    /\ pc[p] = "done" =>
         /\ reply[p].root = reply[p].hash
         /\ job[p].fail_closed /\ ErrorLabels(reply[p].hash) # {} =>
              reply[p].overall = "FAIL"

FInv == TInv /\ NothingYet /\ InFlightIntact /\ CacheCold /\ FreshInv

\* The steps that leave alone what CacheCold and FreshInv are about: another
\* process's variables, or its own while there is no fresh reply to keep.
LEMMA Untouched ==
  ASSUME CacheCold, FreshInv, NEW p \in Procs,
         \A q \in Procs : q # p =>
           /\ pc'[q] = pc[q] /\ job'[q] = job[q] /\ outcomes'[q] = outcomes[q]
           /\ reply'[q] = reply[q] /\ cache'[q] = cache[q],
         pc'[p] = "collect" /\ Present(outcomes'[p]) # {} => cache'[p][job'[p].gate] = None,
         reply'[p].kind = "fresh" =>
           /\ pc'[p] \in {"clear", "release", "drain", "report", "done"}
           /\ reply'[p].hash \in Bundles
           /\ \A k \in Present(outcomes'[p]) : reply'[p].hash[k] = outcomes'[p][k]
           /\ pc'[p] # "done" => cache'[p][job'[p].gate] = reply'[p].hash
           /\ pc'[p] = "done" =>
                /\ reply'[p].root = reply'[p].hash
                /\ job'[p].fail_closed /\ ErrorLabels(reply'[p].hash) # {} =>
                     reply'[p].overall = "FAIL"
  PROVE  CacheCold' /\ FreshInv'
BY DEF CacheCold, FreshInv, Present, ErrorLabels

LEMMA NextFresh == FInv /\ [Next]_vars => CacheCold' /\ FreshInv'
<1> SUFFICES ASSUME FInv, [Next]_vars PROVE CacheCold' /\ FreshInv'
  OBVIOUS
<1>0. /\ pc \in [Procs -> Steps] /\ job \in [Procs -> Requests \cup {None}]
      /\ outcomes \in [Procs -> Bundles] /\ evidence \in [Gates -> Bundles]
      /\ reply \in [Procs -> Replies]
      /\ cache \in [Procs -> [Gates -> Bundles \cup {None}]]
      /\ CacheCold /\ FreshInv
  BY DEF FInv, TInv, TypeOK
<1> USE <1>0 DEF shared, local, Goto
\* Steps that change neither the cache, the outcomes nor the reply.
<1>1. ASSUME NEW p \in Procs,
             \/ \E r \in Requests : Start(p, r)
             \/ \E d \in doomed[p] : JanitorRemove(p, d) \/ DrainDir(p, d)
             \/ JanitorDone(p) \/ AcquireLock(p) \/ ReadMarker(p) \/ QuarantineMarker(p)
             \/ ClearDeadMarker(p) \/ ReevaluateGate(p) \/ WriteMarker(p)
             \/ ClearMarker(p) \/ DrainDone(p)
      PROVE  CacheCold' /\ FreshInv'
  <2> DEFINE Same == /\ cache' = cache /\ outcomes' = outcomes /\ reply' = reply
                     /\ \A q \in Procs : q # p => pc'[q] = pc[q] /\ job'[q] = job[q]
  <2>1. CASE \E r \in Requests : Start(p, r)
    <3>1. Same /\ pc[p] = "idle" /\ pc'[p] # "collect"
      BY <2>1 DEF Start
    <3> QED BY <3>1, Untouched DEF FreshInv
  <2>2. CASE WriteMarker(p)
    <3>1. Same /\ pc[p] = "mark" /\ Present(outcomes[p]) = {}
      BY <2>2 DEF WriteMarker, FInv, NothingYet
    <3> QED BY <3>1, Untouched DEF FreshInv
  <2>3. CASE JanitorDone(p) \/ AcquireLock(p) \/ ReadMarker(p) \/ QuarantineMarker(p)
               \/ ClearDeadMarker(p) \/ ReevaluateGate(p)
    <3>1. Same /\ pc[p] \notin {"clear", "release", "drain", "report", "done"}
          /\ pc'[p] # "collect"
      BY <2>3 DEF JanitorDone, AcquireLock, ReadMarker, QuarantineMarker,
                  ClearDeadMarker, ReevaluateGate, AfterRecovery
    <3> QED BY <3>1, Untouched DEF FreshInv
  <2>4. CASE \E d \in doomed[p] : JanitorRemove(p, d) \/ DrainDir(p, d)
    <3>1. Same /\ pc' = pc /\ job' = job
      BY <2>4 DEF JanitorRemove, DrainDir
    <3> QED BY <3>1 DEF CacheCold, FreshInv, Present, ErrorLabels
  <2>5. CASE ClearMarker(p) \/ DrainDone(p)
    <3>1. Same /\ job' = job
      BY <2>5 DEF ClearMarker, DrainDone
    <3>2. /\ pc'[p] \in {"release", "report", "done"} /\ pc[p] # "done"
          /\ reply[p].kind = "fresh" => pc'[p] # "done"
      BY <2>5 DEF ClearMarker, DrainDone
    <3> QED BY <3>1, <3>2, Untouched DEF FreshInv
  <2> QED BY <1>1, <2>1, <2>2, <2>3, <2>4, <2>5
\* Steps that give a reply other than "fresh", or end the call.
<1>2. ASSUME NEW p \in Procs,
             LockTimeout(p) \/ BaselineDrift(p) \/ RaiseBeforeMarker(p)
               \/ RaiseInFlight(p) \/ ReleaseLock(p)
      PROVE  CacheCold' /\ FreshInv'
  <2>1. /\ cache' = cache /\ outcomes' = outcomes /\ job' = job
        /\ \A q \in Procs : q # p => pc'[q] = pc[q] /\ reply'[q] = reply[q]
        /\ pc'[p] # "collect"
    BY <1>2 DEF LockTimeout, BaselineDrift, RaiseBeforeMarker, RaiseInFlight, ReleaseLock
  <2>2. \/ reply'[p].kind # "fresh"
        \/ reply'[p] = reply[p] /\ pc[p] = "release" /\ pc'[p] = "drain"
    BY <1>2 DEF LockTimeout, BaselineDrift, RaiseBeforeMarker, RaiseInFlight,
                ReleaseLock, Reply, NoReply
  <2>3. CASE reply'[p].kind # "fresh"
    BY <2>1, <2>3, Untouched
  <2>4. CASE reply'[p] = reply[p] /\ pc[p] = "release" /\ pc'[p] = "drain"
    <3>1. CASE reply[p].kind = "fresh"
      <4>1. /\ reply[p].hash \in Bundles
            /\ \A k \in Present(outcomes[p]) : reply[p].hash[k] = outcomes[p][k]
            /\ cache[p][job[p].gate] = reply[p].hash
        BY <2>4, <3>1 DEF FreshInv
      <4> QED BY <2>1, <2>4, <4>1, Untouched
    <3>2. CASE reply[p].kind # "fresh"
      BY <2>1, <2>4, <3>2, Untouched
    <3> QED BY <3>1, <3>2
  <2> QED BY <2>2, <2>3, <2>4
\* Steps that touch the cache before there is a fresh reply.
<1>3. ASSUME NEW p \in Procs,
             QuarantineEvidence(p) \/ MoveOrphan(p) \/ ReuseVerdict(p)
      PROVE  CacheCold' /\ FreshInv'
  <2>1. /\ outcomes' = outcomes /\ job' = job
        /\ \A q \in Procs : q # p =>
             pc'[q] = pc[q] /\ reply'[q] = reply[q] /\ cache'[q] = cache[q]
        /\ pc'[p] # "collect"
    BY <1>3 DEF QuarantineEvidence, MoveOrphan, ReuseVerdict, Cached, Uncached, AfterRecovery
  <2>2. pc[p] \in {"salvage", "orphan", "reuse"} /\ reply'[p].kind # "fresh"
    BY <1>3 DEF QuarantineEvidence, MoveOrphan, ReuseVerdict, FreshInv
  <2> QED BY <2>1, <2>2, Untouched
<1>4. ASSUME NEW p \in Procs, NEW k \in todo[p], NEW s \in Statuses, Collect(p, k, s)
      PROVE  CacheCold' /\ FreshInv'
  <2>0. job[p].gate \in Gates
    BY <1>4, RequestType DEF Collect, FInv, TInv, ControlOK, Running, Holding, InFlight
  <2>1. /\ pc' = pc /\ job' = job /\ reply' = reply /\ pc[p] = "collect"
        /\ \A q \in Procs : q # p => outcomes'[q] = outcomes[q] /\ cache'[q] = cache[q]
        /\ cache'[p][job[p].gate] = None
    BY <1>4, <2>0 DEF Collect, Uncached
  <2> QED BY <2>1, Untouched DEF FreshInv
<1>9. ASSUME NEW p \in Procs, NEW k \in todo[p], CollectUnpersisted(p, k)
      PROVE  CacheCold' /\ FreshInv'
  <2>0. job[p].gate \in Gates
    BY <1>9, RequestType DEF CollectUnpersisted, FInv, TInv, ControlOK, Running, Holding, InFlight
  <2>1. /\ pc' = pc /\ job' = job /\ reply' = reply /\ outcomes' = outcomes
        /\ pc[p] = "collect"
    BY <1>9 DEF CollectUnpersisted
  <2>2. cache' = cache \/ Uncached(p, job[p].gate)
    BY <1>9, Zenon DEF CollectUnpersisted
  <2>3. CASE cache' = cache
    BY <2>1, <2>3, Untouched DEF CacheCold, FreshInv
  <2>4. CASE Uncached(p, job[p].gate)
    <3>1. \A q \in Procs : q # p => cache'[q] = cache[q]
      BY <2>4 DEF Uncached
    <3>2. cache'[p][job[p].gate] = None
      BY <2>0, <2>4 DEF Uncached
    <3> QED BY <2>1, <3>1, <3>2, Untouched DEF FreshInv
  <2> QED BY <2>2, <2>3, <2>4
<1>5. ASSUME NEW p \in Procs, Evaluate(p) PROVE CacheCold' /\ FreshInv'
  <2> DEFINE b == Bundle(p, job[p].gate)
  <2>1. pc[p] = "collect" /\ job[p].gate \in Gates /\ b \in Bundles
    BY <1>5, RequestType, BundleType
       DEF Evaluate, FInv, TInv, ControlOK, Running, Holding, InFlight
  <2>2. \A k \in Present(outcomes[p]) : b[k] = outcomes[p][k]
    <3>1. \A k \in Present(outcomes[p]) : evidence[job[p].gate][k] = outcomes[p][k]
      BY <2>1 DEF FInv, InFlightIntact, InFlight
    <3>2. Present(outcomes[p]) # {} => b = evidence[job[p].gate]
      BY <2>1 DEF CacheCold, Bundle
    <3> QED BY <3>1, <3>2
  <2> HIDE DEF b
  <2>3. /\ job' = job /\ outcomes' = outcomes /\ pc'[p] = "clear"
        /\ \A q \in Procs : q # p => pc'[q] = pc[q]
    BY <1>5 DEF Evaluate
  <2>4. cache' = [cache EXCEPT ![p][job[p].gate] = b]
    BY <1>5 DEF Evaluate, Cached, b
  <2>5. cache'[p][job[p].gate] = b /\ \A q \in Procs : q # p => cache'[q] = cache[q]
    BY <2>1, <2>4
  <2>6. /\ \A q \in Procs : q # p => reply'[q] = reply[q]
        /\ reply'[p].kind = "fresh" => reply'[p].hash = b
    BY <1>5 DEF Evaluate, Reply, NoReply, b
  <2> QED BY <2>1, <2>2, <2>3, <2>5, <2>6, Untouched
<1>6. ASSUME NEW p \in Procs, Report(p) PROVE CacheCold' /\ FreshInv'
  <2> DEFINE b == Bundle(p, job[p].gate)
             r == reply[p]
  <2>1. pc[p] = "report" /\ job[p].gate \in Gates
    BY <1>6, RequestType DEF Report, FInv, TInv, ControlOK, Running, After
  <2>2. r.kind = "fresh" => b = r.hash /\ r.hash \in Bundles
    BY <2>1, ValuesAssumption DEF FreshInv, Bundle
  <2> HIDE DEF b
  <2>3. /\ job' = job /\ outcomes' = outcomes /\ pc'[p] = "done"
        /\ \A q \in Procs : q # p =>
             pc'[q] = pc[q] /\ cache'[q] = cache[q] /\ reply'[q] = reply[q]
    BY <1>6 DEF Report, Cached
  <2>4. /\ reply'[p].kind = r.kind /\ reply'[p].hash = r.hash /\ reply'[p].root = b
        /\ reply'[p].overall = FailClosed(job[p].fail_closed, b, r.overall)
    BY <1>6 DEF Report, Replies, b
  <2>5. job[p].fail_closed /\ ErrorLabels(b) # {} => reply'[p].overall = "FAIL"
    BY <2>4 DEF FailClosed
  <2>6. r.kind = "fresh" => \A k \in Present(outcomes[p]) : r.hash[k] = outcomes[p][k]
    BY DEF FreshInv
  <2> QED BY <2>2, <2>3, <2>4, <2>5, <2>6, Untouched
<1>7. ASSUME NEW p \in Procs, Return(p) \/ Crash(p) \/ Exit(p)
      PROVE  CacheCold' /\ FreshInv'
  <2>1. \A q \in Procs : q # p =>
          /\ pc'[q] = pc[q] /\ job'[q] = job[q] /\ outcomes'[q] = outcomes[q]
          /\ reply'[q] = reply[q] /\ cache'[q] = cache[q]
    BY <1>7 DEF Return, Crash, Exit, Forget, Vanish
  <2>2. pc'[p] = "idle" /\ reply'[p].kind # "fresh"
    BY <1>7, SMTT(30) DEF Return, Crash, Exit, Forget, Vanish, NoReply, FreshInv
  <2> QED BY <2>1, <2>2, Untouched
<1>8. CASE CorruptMarker \/ (\E g \in Gates : Invalidate(g)) \/ UNCHANGED vars
  BY <1>8 DEF CorruptMarker, Invalidate, vars, CacheCold, FreshInv, Present, ErrorLabels
<1> QED
  BY <1>1, <1>2, <1>3, <1>4, <1>5, <1>6, <1>7, <1>8, <1>9 DEF Next, Step

LEMMA FInvHolds == Spec => []FInv
<1>1. Init => FInv
  BY InitTyped, EmptyBundleType
     DEF Init, FInv, NothingYet, InFlightIntact, InFlight, CacheCold, FreshInv, NoReply
<1>2. FInv /\ [Next]_vars => FInv'
  BY NextType, NextControl, NextNothingYet, NextIntact, NextFresh DEF FInv, TInv
<1> QED BY <1>1, <1>2, PTL DEF Spec

\* A fresh verdict's evidence hash and the Merkle root of the same reply are of
\* one bundle, whatever other processes do to the evidence between the release
\* of the lock and the computation of the root.
THEOREM FreshRoot == Spec => []FreshRootMatchesVerdict
<1>1. FInv => FreshRootMatchesVerdict
  BY DEF FInv, FreshInv, FreshRootMatchesVerdict
<1> QED BY <1>1, FInvHolds, PTL

\* fail_closed overrides a waiver: an error record left by one of the run's own
\* collectors reaches the caller as FAIL.
THEOREM FailClosedOverrides == Spec => []FailClosedSinks
<1>1. FInv => FailClosedSinks
  <2> SUFFICES ASSUME FInv, NEW p \in Procs, pc[p] = "done", reply[p].kind = "fresh",
                      job[p].fail_closed, ErrorLabels(outcomes[p]) # {}
               PROVE  reply[p].overall = "FAIL"
    BY DEF FailClosedSinks
  <2>1. PICK k \in Present(outcomes[p]) : outcomes[p][k].status = "error"
    BY DEF ErrorLabels
  <2>2. reply[p].hash[k] = outcomes[p][k]
    BY DEF FInv, FreshInv
  <2>3. k \in ErrorLabels(reply[p].hash)
    BY <2>1, <2>2 DEF ErrorLabels, Present
  <2> QED BY <2>3 DEF FInv, FreshInv
<1> QED BY <1>1, FInvHolds, PTL

-----------------------------------------------------------------------------
(* The marker of a finished run is gone.                                   *)

\* Only a process in flight has its name in the marker.
Named == marker # None /\ marker.owner # Gone => pc[marker.owner] \in InFlight

LEMMA NextNamed ==
  TInv /\ "unlink" \notin Faults /\ Named /\ [Next]_vars => Named'
<1> SUFFICES ASSUME TInv, "unlink" \notin Faults, Named, [Next]_vars PROVE Named'
  OBVIOUS
<1>0. /\ pc \in [Procs -> Steps] /\ marker \in Markers \cup {None}
      /\ job \in [Procs -> Requests \cup {None}]
      /\ marker # None => marker.owner \in Procs \cup {Gone}
  BY DEF TInv, TypeOK, Markers
<1> USE <1>0 DEF shared, local, Goto, InFlight, Named
\* Steps that keep the marker: a process in flight stays in flight.
<1>1. ASSUME NEW p \in Procs, marker' = marker, \A q \in Procs : q # p => pc'[q] = pc[q],
             pc[p] \in InFlight => pc'[p] \in InFlight
      PROVE  Named'
  BY <1>1
<1>2. ASSUME NEW p \in Procs,
             \/ \E r \in Requests : Start(p, r)
             \/ \E d \in doomed[p] : JanitorRemove(p, d) \/ DrainDir(p, d)
             \/ JanitorDone(p) \/ AcquireLock(p) \/ LockTimeout(p) \/ DrainDone(p)
             \/ Report(p) \/ ReleaseLock(p)
      PROVE  Named'
  BY <1>1, <1>2 DEF Start, JanitorRemove, DrainDir, JanitorDone, AcquireLock,
                    LockTimeout, DrainDone, Report, ReleaseLock
<1>3. ASSUME NEW p \in Procs,
             ReadMarker(p) \/ QuarantineEvidence(p) \/ MoveOrphan(p) \/ ReuseVerdict(p)
               \/ ReevaluateGate(p) \/ BaselineDrift(p) \/ RaiseBeforeMarker(p)
      PROVE  Named'
  BY <1>1, <1>3 DEF ReadMarker, QuarantineEvidence, MoveOrphan, ReuseVerdict,
                    ReevaluateGate, BaselineDrift, RaiseBeforeMarker
<1>4. ASSUME NEW p \in Procs,
             \/ \E k \in todo[p] : CollectUnpersisted(p, k) \/ \E s \in Statuses : Collect(p, k, s)
             \/ RaiseInFlight(p) \/ Evaluate(p)
      PROVE  Named'
  BY <1>1, <1>4 DEF Collect, CollectUnpersisted, RaiseInFlight, Evaluate
\* Steps that remove it, damage it or write it.
<1>5. ASSUME NEW p \in Procs,
             QuarantineMarker(p) \/ ClearDeadMarker(p) \/ ClearMarker(p)
      PROVE  Named'
  <2>1. \A f : Fail(f) => f \in Faults
    BY DEF Fail, CanFail
  <2>2. CASE QuarantineMarker(p)
    <3>1. pc[p] = "quarantine" /\ \A q \in Procs : q # p => pc'[q] = pc[q]
      BY <2>2 DEF QuarantineMarker
    <3>2. marker' = None \/ marker' = marker
      BY <2>2, Zenon DEF QuarantineMarker
    <3> QED BY <1>1, <3>1, <3>2
  <2>3. CASE ClearDeadMarker(p) \/ ClearMarker(p)
    <3>1. marker' = None
      BY <2>1, <2>3, Zenon DEF ClearDeadMarker, ClearMarker
    <3> QED BY <3>1
  <2> QED BY <1>5, <2>2, <2>3
<1>6. ASSUME NEW p \in Procs, WriteMarker(p) PROVE Named'
  BY <1>6 DEF WriteMarker
<1>7. ASSUME NEW p \in Procs, Return(p) PROVE Named'
  BY <1>7 DEF Return, Forget
<1>8. ASSUME NEW p \in Procs, Crash(p) \/ Exit(p) PROVE Named'
  <2>1. \A q \in Procs : q # p => pc'[q] = pc[q]
    BY <1>8 DEF Crash, Exit, Vanish, Forget
  <2>2. CASE marker # None /\ marker.owner = p
    <3>1. marker'.owner = Gone
      BY <1>8, <2>2 DEF Crash, Exit, Vanish, Markers
    <3> QED BY <3>1
  <2>3. CASE ~(marker # None /\ marker.owner = p)
    <3>1. marker' = marker
      BY <1>8, <2>3 DEF Crash, Exit, Vanish
    <3> QED BY <2>1, <2>3, <3>1
  <2> QED BY <2>2, <2>3
<1>9. CASE CorruptMarker
  BY <1>9 DEF CorruptMarker
<1>10. CASE (\E g \in Gates : Invalidate(g)) \/ UNCHANGED vars
  BY <1>10 DEF Invalidate, vars
<1> QED
  BY <1>2, <1>3, <1>4, <1>5, <1>6, <1>7, <1>8, <1>9, <1>10 DEF Next, Step

\* The finally of run_production_gate: where no unlink fails, no exit path of a
\* run that goes on living leaves its marker behind.
THEOREM MarkerIsCleared == Spec => []LiveMarkerIsInFlight
<1> DEFINE IInv == TInv /\ ("unlink" \notin Faults => Named)
<1>1. Init => IInv
  BY InitTyped DEF Init, Named
<1>2. IInv /\ [Next]_vars => IInv'
  BY NextType, NextControl, NextNamed DEF TInv
<1>3. IInv => LiveMarkerIsInFlight
  BY DEF Named, LiveMarkerIsInFlight
<1> QED BY <1>1, <1>2, <1>3, PTL DEF Spec

-----------------------------------------------------------------------------
(* Recovery tells what it left behind.                                     *)

\* What a process knows of the dead run while it recovers, and has told by the
\* time it releases the lock: nothing before the marker is read, then a marker
\* that is gone or a flag that says it is not, and the same for the evidence.
\* Only a run goes on to the reuse check.
Told(p) ==
  /\ pc[p] \in {"idle", "recover", "quarantine"} \cup Before => desc[p] = NoDesc
  /\ pc[p] = "salvage" => marker = None /\ desc[p].kind = "quarantined"
  /\ pc[p] = "orphan" => desc[p].kind = "recovered"
  /\ pc[p] = "unmark" =>
       /\ desc[p].kind = "recovered"
       /\ ~desc[p].failed => desc[p].had_verdict \/ Present(evidence[desc[p].gate]) = {}
  /\ pc[p] \in {"reuse", "mark"} \cup InFlight => job[p].op = "run"
  /\ pc[p] = "release" /\ job[p].op = "recover" /\ ~desc[p].failed =>
       /\ desc[p].kind # "live" => marker = None
       /\ desc[p].kind \in {"quarantined", "recovered"} /\ desc[p].gate # None =>
            desc[p].had_verdict \/ Present(evidence[desc[p].gate]) = {}

\* The action of the process itself.
LEMMA OwnTold ==
  ASSUME TInv, NEW p \in Procs, Told(p), Step(p) \/ \E r \in Requests : Start(p, r)
  PROVE  Told(p)'
<1>0. TypeOK /\ ControlOK
  BY DEF TInv
<1>a. /\ pc \in [Procs -> Steps] /\ job \in [Procs -> Requests \cup {None}]
      /\ desc \in [Procs -> Descriptors] /\ evidence \in [Gates -> Bundles]
      /\ pc[p] \in Running \cup {"done"} => job[p] \in Requests
      /\ pc[p] \in {"salvage", "orphan"} => desc[p].gate \in Gates
  BY <1>0 DEF TypeOK, ControlOK
<1>b. Present(EmptyBundle) = {} /\ NoDesc.kind = "none" /\ NoDesc.failed = FALSE /\ NoDesc.gate = None
  BY EmptyBundleType DEF NoDesc
<1>c. pc[p] \in Running => job[p].op \in {"run", "recover"}
  BY <1>a, RequestType
<1> USE <1>a DEF Goto, shared, local, Running, Before, InRecovery, Holding, InFlight, After
<1>1. ASSUME NEW r \in Requests, Start(p, r) PROVE Told(p)'
  BY <1>1 DEF Start, Told
<1>2. CASE \E d \in doomed[p] : JanitorRemove(p, d) \/ DrainDir(p, d)
  BY <1>2 DEF JanitorRemove, DrainDir, Told
<1>3. CASE JanitorDone(p) \/ AcquireLock(p) \/ LockTimeout(p) \/ DrainDone(p) \/ Report(p)
  BY <1>3 DEF JanitorDone, AcquireLock, LockTimeout, DrainDone, Report, Told
<1>4. CASE ReadMarker(p)
  <2>1. pc[p] = "recover" /\ desc[p] = NoDesc /\ job' = job /\ marker' = marker
    BY <1>4 DEF ReadMarker, Told
  <2>2. CASE marker = None
    <3>1. desc'[p] = NoDesc /\ pc'[p] = AfterRecovery(p) /\ marker' = None
      BY <1>4, <2>1, <2>2 DEF ReadMarker
    <3> QED BY <1>b, <1>c, <2>1, <3>1 DEF Told, AfterRecovery
  <2>3. CASE pc'[p] = "quarantine"
    <3>1. desc'[p] = NoDesc
      BY <1>4, <2>1, <2>3 DEF ReadMarker, AfterRecovery
    <3> QED BY <2>3, <3>1 DEF Told
  <2>4. CASE desc'[p].kind = "live" /\ pc'[p] = AfterRecovery(p)
    BY <1>c, <2>1, <2>4 DEF Told, AfterRecovery
  <2>5. CASE desc'[p].kind = "recovered" /\ pc'[p] = "orphan"
    BY <2>5 DEF Told
  <2>6. \/ marker = None \/ pc'[p] = "quarantine"
        \/ desc'[p].kind = "live" /\ pc'[p] = AfterRecovery(p)
        \/ desc'[p].kind = "recovered" /\ pc'[p] = "orphan"
    BY <1>4 DEF ReadMarker, NoDesc
  <2> QED BY <2>2, <2>3, <2>4, <2>5, <2>6
<1>5. CASE QuarantineMarker(p)
  <2>1. pc[p] = "quarantine" /\ job' = job
    BY <1>5 DEF QuarantineMarker
  <2>2. CASE /\ marker' = None
             /\ desc' = [desc EXCEPT ![p] =
                          [NoDesc EXCEPT !.kind = "quarantined", !.gate = marker.gate]]
             /\ Goto(p, IF marker.gate = None THEN AfterRecovery(p) ELSE "salvage")
    <3>1. desc'[p].kind = "quarantined" /\ desc'[p].gate = marker.gate
      BY <2>2 DEF NoDesc
    <3>2. pc'[p] = IF marker.gate = None THEN AfterRecovery(p) ELSE "salvage"
      BY <2>2
    <3> QED BY <1>c, <2>1, <2>2, <3>1, <3>2 DEF Told, AfterRecovery
  <2>3. CASE /\ desc' = [desc EXCEPT ![p] =
                          [NoDesc EXCEPT !.kind = "corrupt", !.failed = TRUE]]
             /\ Goto(p, AfterRecovery(p))
    <3>1. desc'[p].failed = TRUE /\ pc'[p] = AfterRecovery(p)
      BY <2>3 DEF NoDesc
    <3> QED BY <1>c, <2>1, <3>1 DEF Told, AfterRecovery
  <2> QED BY <1>5, <2>2, <2>3, Zenon DEF QuarantineMarker
<1>6. CASE QuarantineEvidence(p)
  <2>1. /\ pc[p] = "salvage" /\ pc'[p] = AfterRecovery(p) /\ job' = job /\ marker' = marker
        /\ marker = None /\ desc[p].gate \in Gates
    BY <1>6 DEF QuarantineEvidence, Told
  <2>2. CASE desc' = [desc EXCEPT ![p].failed = TRUE]
    <3>1. desc'[p].failed = TRUE
      BY <2>2 DEF Descriptors
    <3> QED BY <1>c, <2>1, <3>1 DEF Told, AfterRecovery
  <2>3. CASE desc' = desc /\ Present(evidence'[desc[p].gate]) = {}
    BY <1>c, <2>1, <2>3 DEF Told, AfterRecovery
  <2>4. \/ desc' = [desc EXCEPT ![p].failed = TRUE]
        \/ desc' = desc /\ Present(evidence'[desc[p].gate]) = {}
    <3>1. CASE Present(evidence[desc[p].gate]) = {} /\ UNCHANGED <<evidence, desc>>
      BY <3>1
    <3>2. CASE evidence' = [evidence EXCEPT ![desc[p].gate] = EmptyBundle] /\ desc' = desc
      BY <1>b, <2>1, <3>2
    <3>3. \/ Present(evidence[desc[p].gate]) = {} /\ UNCHANGED <<evidence, desc>>
          \/ evidence' = [evidence EXCEPT ![desc[p].gate] = EmptyBundle] /\ desc' = desc
          \/ desc' = [desc EXCEPT ![p].failed = TRUE]
      BY <1>6 DEF QuarantineEvidence
    <3> QED BY <3>1, <3>2, <3>3
  <2> QED BY <2>2, <2>3, <2>4
<1>7. CASE MoveOrphan(p)
  <2> DEFINE g == desc[p].gate
             Described(had, failed) ==
               desc' = [desc EXCEPT ![p].had_verdict = had, ![p].failed = failed]
  <2>1. pc[p] = "orphan" /\ pc'[p] = "unmark" /\ g \in Gates /\ desc[p].kind = "recovered"
    BY <1>7 DEF MoveOrphan, Told
  <2>2. \A had, failed \in BOOLEAN : Described(had, failed) =>
          /\ desc'[p].kind = "recovered" /\ desc'[p].gate = g
          /\ desc'[p].had_verdict = had /\ desc'[p].failed = failed
    BY <2>1 DEF Descriptors
  <2>3. CASE /\ verdict[g] # None \/ Present(evidence[g]) = {}
             /\ Described(verdict[g] # None, FALSE) /\ evidence' = evidence
    <3>1. /\ desc'[p].kind = "recovered" /\ desc'[p].gate = g
          /\ desc'[p].had_verdict = (verdict[g] # None)
      BY <2>2, <2>3
    <3> QED BY <2>1, <2>3, <3>1 DEF Told
  <2>4. CASE /\ Described(verdict[g] # None, FALSE)
             /\ evidence' = [evidence EXCEPT ![g] = EmptyBundle]
    <3>1. desc'[p].kind = "recovered" /\ desc'[p].gate = g
      BY <2>2, <2>4
    <3>2. Present(evidence'[g]) = {}
      BY <1>b, <2>1, <2>4
    <3> QED BY <2>1, <3>1, <3>2 DEF Told
  <2>5. CASE Described(verdict[g] # None, TRUE)
    <3>1. desc'[p].kind = "recovered" /\ desc'[p].failed = TRUE
      BY <2>2, <2>5
    <3> QED BY <2>1, <3>1 DEF Told
  <2> QED BY <1>7, <2>3, <2>4, <2>5, Zenon DEF MoveOrphan
<1>8. CASE ClearDeadMarker(p)
  <2>1. /\ pc[p] = "unmark" /\ pc'[p] = AfterRecovery(p) /\ job' = job /\ evidence' = evidence
    BY <1>8 DEF ClearDeadMarker
  <2>2. CASE marker' = None /\ desc' = desc
    BY <1>c, <2>1, <2>2 DEF Told, AfterRecovery
  <2>3. CASE desc' = [desc EXCEPT ![p].failed = TRUE]
    <3>1. desc'[p].failed = TRUE
      BY <2>3 DEF Descriptors
    <3> QED BY <1>c, <2>1, <3>1 DEF Told, AfterRecovery
  <2> QED BY <1>8, <2>2, <2>3 DEF ClearDeadMarker
<1>9. CASE ReuseVerdict(p) \/ ReevaluateGate(p) \/ BaselineDrift(p) \/ RaiseBeforeMarker(p)
             \/ WriteMarker(p)
  BY <1>9 DEF ReuseVerdict, ReevaluateGate, BaselineDrift, RaiseBeforeMarker, WriteMarker, Told
<1>10. CASE \/ \E k \in todo[p] : CollectUnpersisted(p, k) \/ \E s \in Statuses : Collect(p, k, s)
            \/ RaiseInFlight(p) \/ Evaluate(p) \/ ClearMarker(p)
  BY <1>10 DEF Collect, CollectUnpersisted, RaiseInFlight, Evaluate, ClearMarker, Told
<1>11. CASE ReleaseLock(p)
  BY <1>11 DEF ReleaseLock, Told
<1>12. CASE Return(p)
  BY <1>12 DEF Return, Forget, Told
<1> QED
  BY <1>1, <1>2, <1>3, <1>4, <1>5, <1>6, <1>7, <1>8, <1>9, <1>10, <1>11, <1>12 DEF Step

\* The action of another process: it leaves the frame of the call alone, and what
\* the call found on disk too as long as the call holds the lock.
LEMMA OtherTold ==
  ASSUME TInv, NEW p \in Procs, NEW q \in Procs, p # q, Told(q),
         Step(p) \/ \E r \in Requests : Start(p, r)
  PROVE  Told(q)'
<1>0. TypeOK /\ ControlOK
  BY DEF TInv
<1>a. /\ pc \in [Procs -> Steps] /\ job \in [Procs -> Requests \cup {None}]
      /\ desc \in [Procs -> Descriptors] /\ lock \in Procs \cup {None}
      /\ pc[p] \in Holding => lock = p
      /\ pc[q] \in Holding => lock = q
  BY <1>0 DEF TypeOK, ControlOK
<1> USE <1>a DEF shared, local, Goto
<1>1. pc'[q] = pc[q] /\ job'[q] = job[q] /\ desc'[q] = desc[q]
  <2>1. ASSUME NEW r \in Requests, Start(p, r)
        PROVE  pc'[q] = pc[q] /\ job'[q] = job[q] /\ desc'[q] = desc[q]
    BY <2>1 DEF Start
  <2>2. CASE \/ \E d \in doomed[p] : JanitorRemove(p, d) \/ DrainDir(p, d)
             \/ JanitorDone(p) \/ AcquireLock(p) \/ LockTimeout(p) \/ DrainDone(p)
             \/ Report(p) \/ ReleaseLock(p)
    BY <2>2 DEF JanitorRemove, DrainDir, JanitorDone, AcquireLock, LockTimeout, DrainDone,
                Report, ReleaseLock
  <2>3. CASE ReadMarker(p) \/ QuarantineMarker(p) \/ QuarantineEvidence(p)
               \/ MoveOrphan(p) \/ ClearDeadMarker(p)
    BY <2>3 DEF ReadMarker, QuarantineMarker, QuarantineEvidence, MoveOrphan, ClearDeadMarker
  <2>4. CASE ReuseVerdict(p) \/ ReevaluateGate(p) \/ BaselineDrift(p)
               \/ RaiseBeforeMarker(p) \/ WriteMarker(p)
    BY <2>4 DEF ReuseVerdict, ReevaluateGate, BaselineDrift, RaiseBeforeMarker, WriteMarker
  <2>5. CASE \/ \E k \in todo[p] : CollectUnpersisted(p, k) \/ \E s \in Statuses : Collect(p, k, s)
             \/ RaiseInFlight(p) \/ Evaluate(p) \/ ClearMarker(p)
    BY <2>5 DEF Collect, CollectUnpersisted, RaiseInFlight, Evaluate, ClearMarker
  <2>6. CASE Return(p)
    BY <2>6 DEF Return, Forget
  <2> QED BY <2>1, <2>2, <2>3, <2>4, <2>5, <2>6 DEF Step
<1>2. CASE pc[q] \notin Holding
  BY <1>1, <1>2 DEF Told, Holding, InRecovery, InFlight
<1>3. CASE pc[q] \in Holding
  <2>1. pc[p] \notin Holding
    BY <1>3
  <2>2. marker' = marker /\ evidence' = evidence
    <3> USE DEF Holding, InRecovery, InFlight
    <3>1. ASSUME NEW r \in Requests, Start(p, r) PROVE marker' = marker /\ evidence' = evidence
      BY <3>1 DEF Start
    <3>2. CASE \E d \in doomed[p] : JanitorRemove(p, d) \/ DrainDir(p, d)
      BY <3>2 DEF JanitorRemove, DrainDir
    <3>3. CASE JanitorDone(p) \/ AcquireLock(p) \/ LockTimeout(p) \/ DrainDone(p)
                 \/ Report(p) \/ Return(p)
      BY <3>3 DEF JanitorDone, AcquireLock, LockTimeout, DrainDone, Report, Return
    <3>4. \/ \E r \in Requests : Start(p, r)
          \/ \E d \in doomed[p] : JanitorRemove(p, d) \/ DrainDir(p, d)
          \/ JanitorDone(p) \/ AcquireLock(p) \/ LockTimeout(p) \/ DrainDone(p)
          \/ Report(p) \/ Return(p)
      BY <2>1 DEF Step, ReadMarker, QuarantineMarker, QuarantineEvidence, MoveOrphan,
             ClearDeadMarker, ReuseVerdict, ReevaluateGate, BaselineDrift,
             RaiseBeforeMarker, WriteMarker, Collect, CollectUnpersisted,
             RaiseInFlight, Evaluate, ClearMarker, ReleaseLock
    <3> QED BY <3>1, <3>2, <3>3, <3>4
  <2> QED BY <1>1, <2>2 DEF Told
<1> QED BY <1>2, <1>3

\* The environment takes no evidence and brings no marker.
LEMMA OutsideTold ==
  ASSUME TInv, NEW q \in Procs, Told(q),
         \/ \E p \in Procs : Crash(p) \/ Exit(p)
         \/ \E g \in Gates : Invalidate(g)
         \/ CorruptMarker
         \/ UNCHANGED vars
  PROVE  Told(q)'
<1>0. /\ pc \in [Procs -> Steps] /\ job \in [Procs -> Requests \cup {None}]
      /\ desc \in [Procs -> Descriptors]
  BY DEF TInv, TypeOK
<1> USE <1>0 DEF shared, local, Goto
<1>1. evidence' = evidence /\ (marker = None => marker' = None)
  BY DEF Crash, Exit, Vanish, Invalidate, CorruptMarker, vars
<1>2. CASE pc'[q] = pc[q] /\ job'[q] = job[q] /\ desc'[q] = desc[q]
  BY <1>1, <1>2 DEF Told
<1>3. CASE pc'[q] = "idle" /\ desc'[q] = NoDesc
  BY <1>3 DEF Told, InFlight
<1>4. \/ pc'[q] = pc[q] /\ job'[q] = job[q] /\ desc'[q] = desc[q]
      \/ pc'[q] = "idle" /\ desc'[q] = NoDesc
  BY DEF Crash, Exit, Forget, Invalidate, CorruptMarker, vars
<1> QED BY <1>2, <1>3, <1>4

\* "Loud, not silent": recover_from_crash leaves nothing of the dead run, or says
\* that it does, whatever the others do meanwhile.
THEOREM RecoveryTells == Spec => []RecoveryIsLoud
<1> DEFINE Loud == \A p \in Procs : Told(p)
           IInv == TInv /\ Loud
<1>1. Init => IInv
  BY InitTyped DEF Init, Told, InFlight, Before
<1>2. IInv /\ [Next]_vars => IInv'
  <2> SUFFICES ASSUME TInv, Loud, [Next]_vars PROVE TInv' /\ Loud'
    OBVIOUS
  <2>1. TInv'
    BY NextType, NextControl DEF TInv
  <2>2. ASSUME NEW q \in Procs PROVE Told(q)'
    <3>1. ASSUME NEW p \in Procs, Step(p) \/ \E r \in Requests : Start(p, r) PROVE Told(q)'
      BY <3>1, OwnTold, OtherTold
    <3> QED BY <3>1, OutsideTold DEF Next
  <2> QED BY <2>1, <2>2
<1>3. IInv => RecoveryIsLoud
  BY DEF Told, RecoveryIsLoud
<1> QED BY <1>1, <1>2, <1>3, PTL DEF Spec

-----------------------------------------------------------------------------
(* Evidence a verdict stands on.                                           *)

\* Only the move of an orphan, which looks at the verdict first, and the salvage
\* behind a damaged marker empty a bundle.
LEMMA StepKeepsEvidence ==
  ASSUME TInv, [Next]_vars, NEW g \in Gates, verdict[g] # None,
         NEW k \in Collectors, evidence[g][k] # NoRecord, evidence'[g][k] = NoRecord
  PROVE  \E p \in Procs : pc[p] = "salvage" /\ desc[p].gate = g
<1>0. /\ evidence \in [Gates -> Bundles] /\ evidence' # evidence
      /\ \A p \in Procs : pc[p] \in Running \cup {"done"} => job[p] \in Requests
      /\ \A p \in Procs : pc[p] \in {"salvage", "orphan"} => desc[p].gate \in Gates
  BY DEF TInv, TypeOK, ControlOK
<1>1. PICK p \in Procs : QuarantineEvidence(p) \/ MoveOrphan(p)
          \/ \E c \in todo[p] : CollectUnpersisted(p, c) \/ \E s \in Statuses : Collect(p, c, s)
  <2> USE DEF shared, local
  <2>1. \A q \in Procs : ~(\/ \E r \in Requests : Start(q, r)
                           \/ \E d \in doomed[q] : JanitorRemove(q, d) \/ DrainDir(q, d)
                           \/ JanitorDone(q) \/ AcquireLock(q) \/ LockTimeout(q)
                           \/ ReadMarker(q) \/ QuarantineMarker(q) \/ ClearDeadMarker(q))
    BY <1>0 DEF Start, JanitorRemove, DrainDir, JanitorDone, AcquireLock, LockTimeout,
                ReadMarker, QuarantineMarker, ClearDeadMarker
  <2>2. \A q \in Procs : ~(\/ ReuseVerdict(q) \/ ReevaluateGate(q) \/ BaselineDrift(q)
                           \/ RaiseBeforeMarker(q) \/ WriteMarker(q) \/ RaiseInFlight(q)
                           \/ Evaluate(q) \/ ClearMarker(q))
    BY <1>0 DEF ReuseVerdict, ReevaluateGate, BaselineDrift, RaiseBeforeMarker, WriteMarker,
                RaiseInFlight, Evaluate, ClearMarker
  <2>3. \A q \in Procs : ~(\/ ReleaseLock(q) \/ DrainDone(q) \/ Report(q) \/ Return(q)
                           \/ Crash(q) \/ Exit(q))
    BY <1>0 DEF ReleaseLock, DrainDone, Report, Return, Crash, Exit, Vanish
  <2>4. ~((\E h \in Gates : Invalidate(h)) \/ CorruptMarker \/ UNCHANGED vars)
    BY <1>0 DEF Invalidate, CorruptMarker, vars
  <2>5. PICK q \in Procs : Step(q)
    BY <2>1, <2>3, <2>4 DEF Next
  <2>6. \/ QuarantineEvidence(q) \/ MoveOrphan(q)
        \/ \E c \in todo[q] : CollectUnpersisted(q, c) \/ \E s \in Statuses : Collect(q, c, s)
    BY <2>1, <2>2, <2>3, <2>5 DEF Step
  <2> QED BY <2>6
<1>2. CASE QuarantineEvidence(p)
  BY <1>0, <1>2 DEF QuarantineEvidence
<1>3. CASE MoveOrphan(p)
  <2>1. pc[p] = "orphan" /\ desc[p].gate \in Gates
    BY <1>0, <1>3 DEF MoveOrphan
  <2>2. evidence' = [evidence EXCEPT ![desc[p].gate] = EmptyBundle] /\ verdict[desc[p].gate] = None
    BY <1>0, <1>3 DEF MoveOrphan
  <2> QED BY <1>0, <2>1, <2>2
<1>4. CASE \E c \in todo[p] : CollectUnpersisted(p, c) \/ \E s \in Statuses : Collect(p, c, s)
  <2>1. PICK c \in todo[p], s \in Statuses :
          evidence' = [evidence EXCEPT ![job[p].gate][c] = [commit |-> job[p].commit, status |-> s]]
          /\ pc[p] = "collect"
    BY <1>0, <1>4 DEF CollectUnpersisted, Collect
  <2>2. job[p].gate \in Gates /\ job[p].commit \in Commits
    BY <1>0, <2>1, RequestType DEF Running, Holding, InFlight
  <2>3. [commit |-> job[p].commit, status |-> s] # NoRecord
    BY <2>2, NoRecordAssumption
  <2>4. evidence'[g][k] = evidence[g][k]
          \/ evidence'[g][k] = [commit |-> job[p].commit, status |-> s]
    BY <1>0, <2>1, <2>2 DEF Bundles
  <2> QED BY <2>3, <2>4
<1> QED BY <1>1, <1>2, <1>3, <1>4

\* Bug L2: the evidence of a gate with a verdict is never moved away by mistake.
THEOREM VerdictEvidenceStays == Spec => VerdictKeepsEvidence
<1>1. TInv /\ [Next]_vars =>
        [\A g \in Gates :
           verdict[g] # None /\ (\E k \in Collectors :
             evidence[g][k] # NoRecord /\ evidence'[g][k] = NoRecord)
           => \E p \in Procs : pc[p] = "salvage" /\ desc[p].gate = g]_vars
  BY StepKeepsEvidence
<1>2. Spec => []TInv
  BY InitTyped, NextType, NextControl, PTL DEF Spec, TInv
<1> QED BY <1>1, <1>2, PTL DEF Spec, VerdictKeepsEvidence


-----------------------------------------------------------------------------
(* The rules of the categories.                                            *)

C == INSTANCE CategoryRules

LEMMA SeverityOf ==
  /\ C!Severity["ok"] = 0 /\ C!Severity["violation"] = 1
  /\ C!Severity["timeout"] = 2 /\ C!Severity["error"] = 3
BY DEF C!Severity, C!EvidenceStatuses

LEMMA WorstExists ==
  ASSUME NEW S, S # {}, S \subseteq {"ok", "violation", "timeout", "error"}
  PROVE  \E s \in S : \A u \in S : C!Severity[u] <= C!Severity[s]
<1>1. CASE "error" \in S
  BY <1>1, SeverityOf
<1>2. CASE "error" \notin S /\ "timeout" \in S
  BY <1>2, SeverityOf
<1>3. CASE "error" \notin S /\ "timeout" \notin S /\ "violation" \in S
  BY <1>3, SeverityOf
<1>4. CASE S = {"ok"}
  BY <1>4, SeverityOf
<1> QED BY <1>1, <1>2, <1>3, <1>4

\* A crash or a timeout, or the absence of any record, is the worst there is.
LEMMA WorstStatus ==
  ASSUME NEW bundle, \A i \in DOMAIN bundle : bundle[i].status \in C!EvidenceStatuses,
         bundle = <<>> \/ (\E i \in DOMAIN bundle : bundle[i].status \in {"error", "timeout"})
  PROVE  C!worst_evidence_status(bundle) \in {"error", "timeout"}
<1> DEFINE statuses == {bundle[i].status : i \in DOMAIN bundle}
<1>1. CASE statuses = {}
  BY <1>1 DEF C!worst_evidence_status
<1>2. CASE statuses # {}
  <2>1. \E i \in DOMAIN bundle : bundle[i].status \in {"error", "timeout"}
    <3>1. bundle = <<>> => DOMAIN bundle = {}
      OBVIOUS
    <3> QED BY <1>2, <3>1
  <2>2. PICK t \in {"error", "timeout"} : t \in statuses
    BY <2>1
  <2>3. statuses \subseteq {"ok", "violation", "timeout", "error"}
    BY DEF C!EvidenceStatuses
  <2> DEFINE Worst(s) == \A u \in statuses : C!Severity[u] <= C!Severity[s]
  <2>5. C!worst_evidence_status(bundle) = CHOOSE s \in statuses : Worst(s)
    BY <1>2 DEF C!worst_evidence_status
  <2> HIDE DEF statuses
  <2>6. \E s \in statuses : Worst(s)
    BY <1>2, <2>3, WorstExists
  <2>7. PICK s \in statuses : s = C!worst_evidence_status(bundle) /\ Worst(s)
    BY <2>5, <2>6
  <2>8. C!Severity[t] <= C!Severity[s]
    BY <2>2, <2>7
  <2>9. s # "ok" /\ s # "violation"
    BY <2>2, <2>8, SeverityOf
  <2> QED BY <2>3, <2>7, <2>9
<1> QED BY <1>1, <1>2

\* A category that is worth PASS has no other record than clean ones.
LEMMA CleanOnly ==
  ASSUME NEW bundle, \A i \in DOMAIN bundle : bundle[i].status \in C!EvidenceStatuses,
         C!worst_evidence_status(bundle) = "ok"
  PROVE  \A i \in DOMAIN bundle : bundle[i].status = "ok"
<1> SUFFICES ASSUME NEW i \in DOMAIN bundle, bundle[i].status # "ok"
             PROVE  C!worst_evidence_status(bundle) # "ok"
  OBVIOUS
<1> DEFINE statuses == {bundle[j].status : j \in DOMAIN bundle}
<1>1. PICK worse \in statuses : worse \in {"violation", "timeout", "error"}
  BY DEF C!EvidenceStatuses
<1>2. statuses \subseteq {"ok", "violation", "timeout", "error"}
  BY DEF C!EvidenceStatuses
<1>3. C!worst_evidence_status(bundle)
        = CHOOSE s \in statuses : \A u \in statuses : C!Severity[u] <= C!Severity[s]
  BY <1>1 DEF C!worst_evidence_status
<1> HIDE DEF statuses
<1>4. /\ \E s \in statuses : \A u \in statuses : C!Severity[u] <= C!Severity[s]
      /\ C!Severity["ok"] < C!Severity[worse]
  <2>1. statuses # {}
    BY <1>1
  <2>2. C!Severity["ok"] < C!Severity[worse]
    BY <1>1, SeverityOf
  <2> QED BY <1>2, <2>1, <2>2, WorstExists
<1>5. PICK s \in statuses : /\ s = C!worst_evidence_status(bundle)
                            /\ C!Severity[worse] <= C!Severity[s]
  BY <1>1, <1>3, <1>4
<1>6. C!Severity[s] \in Nat /\ C!Severity[worse] \in Nat /\ C!Severity["ok"] \in Nat
  BY <1>1, <1>2, SeverityOf
<1>7. s # "ok"
  BY <1>4, <1>5, <1>6
<1> QED BY <1>5, <1>7

\* For every category, profile and number of records: without evidence, or with a
\* collector that crashed or timed out, a category fails, and one that passes has
\* clean records only (apply_category_rule, category_rules.py).
THEOREM NoSilentPass ==
  ASSUME NEW category, NEW profile, NEW required,
         NEW bundle, \A i \in DOMAIN bundle : bundle[i].status \in C!EvidenceStatuses
  PROVE  C!FailsClosedOn(category, bundle, profile, required)
<1> DEFINE judged == C!apply_category_rule(category, bundle, profile, required)
<1>a. ASSUME bundle = <<>> \/ \E i \in DOMAIN bundle : bundle[i].status \in {"error", "timeout"}
      PROVE  judged = "FAIL"
  <2>1. C!worst_evidence_status(bundle) \in {"error", "timeout"}
    BY <1>a, WorstStatus
  <2>2. \A exceeded : C!Verdict(bundle, exceeded) = "FAIL"
    BY <2>1 DEF C!Verdict
  <2>3. C!correctness_rule(bundle, required) = "FAIL"
    BY <2>2 DEF C!correctness_rule
  <2>4. C!cost_to_serve_rule(bundle, profile.tiers, profile.forbidden) = "FAIL"
    BY <2>1 DEF C!cost_to_serve_rule
  <2>5. C!cert_cadence_rule(bundle) = "FAIL"
    BY <2>1 DEF C!cert_cadence_rule
  <2>6. /\ C!security_rule(bundle, profile.rules) = "FAIL"
        /\ C!license_rule(bundle) = "FAIL"
        /\ C!test_quality_rule(bundle, profile.rules) = "FAIL"
        /\ C!mutation_rule(bundle, profile.rules) = "FAIL"
        /\ C!reliability_rule(bundle, profile.rules) = "FAIL"
        /\ C!resilience_rule(bundle) = "FAIL"
        /\ C!blast_radius_rule(bundle) = "FAIL"
        /\ C!durable_hitl_rule(bundle) = "FAIL"
        /\ C!progressive_delivery_rule(bundle) = "FAIL"
        /\ C!status_based_rule(bundle) = "FAIL"
    BY <2>2 DEF C!security_rule, C!license_rule, C!test_quality_rule, C!mutation_rule,
                C!reliability_rule, C!resilience_rule, C!blast_radius_rule, C!durable_hitl_rule,
                C!progressive_delivery_rule, C!status_based_rule
  <2> QED BY <2>3, <2>4, <2>5, <2>6 DEF C!apply_category_rule
<1>b. ASSUME judged = "PASS" PROVE \A i \in DOMAIN bundle : bundle[i].status = "ok"
  <2> SUFFICES ASSUME C!worst_evidence_status(bundle) # "ok" PROVE FALSE
    BY CleanOnly
  <2>1. \A exceeded : C!Verdict(bundle, exceeded) = "FAIL"
    BY DEF C!Verdict
  <2>2. C!correctness_rule(bundle, required) # "PASS"
    BY <2>1 DEF C!correctness_rule
  <2>3. C!cost_to_serve_rule(bundle, profile.tiers, profile.forbidden) # "PASS"
    BY <2>1 DEF C!cost_to_serve_rule
  <2>4. C!cert_cadence_rule(bundle) # "PASS"
    BY DEF C!cert_cadence_rule
  <2>5. /\ C!security_rule(bundle, profile.rules) = "FAIL"
        /\ C!license_rule(bundle) = "FAIL"
        /\ C!test_quality_rule(bundle, profile.rules) = "FAIL"
        /\ C!mutation_rule(bundle, profile.rules) = "FAIL"
        /\ C!reliability_rule(bundle, profile.rules) = "FAIL"
        /\ C!resilience_rule(bundle) = "FAIL"
        /\ C!blast_radius_rule(bundle) = "FAIL"
        /\ C!durable_hitl_rule(bundle) = "FAIL"
        /\ C!progressive_delivery_rule(bundle) = "FAIL"
        /\ C!status_based_rule(bundle) = "FAIL"
    BY <2>1 DEF C!security_rule, C!license_rule, C!test_quality_rule, C!mutation_rule,
                C!reliability_rule, C!resilience_rule, C!blast_radius_rule, C!durable_hitl_rule,
                C!progressive_delivery_rule, C!status_based_rule
  <2> QED BY <1>b, <2>2, <2>3, <2>4, <2>5 DEF C!apply_category_rule
<1> QED BY <1>a, <1>b DEF C!FailsClosedOn
=============================================================================
