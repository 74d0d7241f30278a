-------------------------- MODULE AuditLog_proofs --------------------------
(***************************************************************************)
(* Proofs about AuditLog, for any number of instances, events, writes and   *)
(* interruptions, as long as no interruption leaves a whole record without  *)
(* its newline.                                                            *)
(***************************************************************************)
EXTENDS AuditLog, TLAPS

\* The inductive invariant.

\* Only the holder of the lock is in an append.
Exclusive == \A l \in Logs : pc[l] # "idle" => holder = l /\ event[l] \in Events

\* Every line links to the one before, except a fragment that ends the file.
Chained ==
  IF ended THEN Good(Len(lines))
  ELSE lines # <<>> /\ Good(Len(lines) - 1) /\ lines[Len(lines)] = <<Cut>>

LastTag == IF lines = <<>> THEN Genesis ELSE lines[Len(lines)][1].tag

\* A cache of the file's size describes its last record.
CacheTells ==
  \A l \in Logs : cache[l] # None =>
    /\ cache[l].size <= size
    /\ cache[l].size = size =>
         ended /\ lines # <<>> /\ cache[l].seq = Len(lines) /\ cache[l].tag = LastTag

\* The record about to be written continues the chain; the one being synced is
\* the last.
ChosenFits ==
  \A l \in Logs :
    /\ pc[l] = "write" =>
         /\ ended /\ chosen[l] \in Records /\ chosen[l].seq = Len(lines) + 1
         /\ chosen[l].tag = Tag(LastTag, Len(lines) + 1, chosen[l].event)
    /\ pc[l] = "sync" =>
         ended /\ lines # <<>> /\ chosen[l] \in Records
               /\ lines[Len(lines)] = <<chosen[l]>>

AckedInPlace ==
  \A r \in acked : r.seq \in 1..Len(lines) /\ lines[r.seq] = <<r>>

AInv == /\ TypeOK /\ Exclusive /\ Chained /\ CacheTells /\ ChosenFits /\ AckedInPlace

NoLostNewline == "unterminated" \notin Faults

LEMMA TagType ==
  ASSUME NEW t \in Tags, NEW n \in Nat, NEW e \in Events
  PROVE  Tag(t, n, e) \in Tags
BY DEF Tag, Tags

LEMMA LastTagType == ASSUME AInv, ended PROVE LastTag \in Tags
<1>1. CASE lines = <<>>
  BY <1>1 DEF LastTag, Genesis, Tags
<1>2. CASE lines # <<>>
  <2>1. Len(lines) \in 1..Len(lines)
    BY <1>2 DEF AInv, TypeOK
  <2>2. lines[Len(lines)][1] \in Records
    BY <2>1 DEF AInv, Chained, Good, Links, Parses
  <2> QED BY <1>2, <2>2 DEF LastTag, Records
<1> QED BY <1>1, <1>2

LEMMA InitA == Init => AInv
BY FaultsAssumption
   DEF Init, AInv, TypeOK, Exclusive, Chained, CacheTells, ChosenFits, AckedInPlace,
       Good, LastTag

\* A new last line that continues the chain.
LEMMA ChainGrows ==
  ASSUME NEW old \in Seq(Seq(Records \cup {Cut})), NEW r \in Records,
         lines = old, Good(Len(old)), r.seq = Len(old) + 1,
         r.tag = Tag(LastTag, Len(old) + 1, r.event),
         lines' = Append(old, <<r>>)
  PROVE  Good(Len(lines))' /\ LastTag' = r.tag
<1>1. /\ Len(lines') = Len(old) + 1 /\ lines'[Len(old) + 1] = <<r>>
      /\ \A i \in 1..Len(old) : lines'[i] = old[i]
  OBVIOUS
<1>2. \A i \in 1..Len(old) : Links(i)'
  BY <1>1 DEF Good, Links, Parses
<1>3. Links(Len(old) + 1)'
  BY <1>1 DEF Links, Parses, LastTag
<1>4. Good(Len(lines))'
  BY <1>1, <1>2, <1>3 DEF Good
<1>5. lines' # <<>> /\ lines'[Len(lines')][1] = r
  BY <1>1
<1> QED BY <1>4, <1>5 DEF LastTag

LEMMA FileUnchanged ==
  ASSUME UNCHANGED lines
  PROVE  (\A n : Good(n)' <=> Good(n)) /\ LastTag' = LastTag
BY DEF Good, Links, LastTag

\* A step that leaves the file alone and ends the call.
LEMMA LeaveKeeps ==
  ASSUME AInv, NEW l \in Logs, Leave(l), UNCHANGED file, faults' \in 0..MaxFaults,
         cache' = cache \/ cache' = [cache EXCEPT ![l] = None], UNCHANGED acked,
         pc[l] # "idle"
  PROVE  AInv'
<1> USE DEF AInv, TypeOK, Leave, Goto, file
<1>1. TypeOK'
  OBVIOUS
<1>2. Exclusive'
  BY DEF Exclusive
<1>3. Chained'
  BY FileUnchanged DEF Chained
<1>4. CacheTells'
  BY FileUnchanged DEF CacheTells
<1>5. ChosenFits'
  BY FileUnchanged DEF ChosenFits
<1>6. AckedInPlace'
  BY DEF AckedInPlace
<1> QED BY <1>1, <1>2, <1>3, <1>4, <1>5, <1>6

LEMMA ChooseKeeps ==
  ASSUME AInv, NEW l \in Logs, pc[l] = "chain", ended,
         Choose(l, Len(lines) + 1, LastTag)
  PROVE  AInv'
<1> USE DEF AInv, TypeOK, Goto, file, Choose
<1> DEFINE r == [seq |-> Len(lines) + 1, event |-> event[l],
                 tag |-> Tag(LastTag, Len(lines) + 1, event[l])]
<1>1. event[l] \in Events /\ Len(lines) \in Nat
  BY DEF Exclusive
<1>2. r \in Records
  BY <1>1, TagType, LastTagType, SMTT(30) DEF Records
<1>3. chosen' = [chosen EXCEPT ![l] = r] /\ pc' = [pc EXCEPT ![l] = "write"]
  OBVIOUS
<1> HIDE DEF r
<1>4. TypeOK'
  BY <1>2, <1>3
<1>5. ChosenFits'
  <2>1. r.seq = Len(lines) + 1 /\ r.tag = Tag(LastTag, Len(lines) + 1, r.event)
    BY DEF r
  <2> QED BY <1>2, <1>3, <2>1, FileUnchanged DEF ChosenFits
<1>6. Exclusive'
  BY DEF Exclusive
<1>7. Chained' /\ CacheTells' /\ AckedInPlace'
  BY FileUnchanged DEF Chained, CacheTells, AckedInPlace
<1> QED BY <1>4, <1>5, <1>6, <1>7

LEMMA WriteKeeps == ASSUME AInv, NEW l \in Logs, Write(l) PROVE AInv'
<1> USE DEF AInv, TypeOK, Goto, file
<1> DEFINE r == chosen[l]
<1>1. /\ ended /\ r \in Records /\ r.seq = Len(lines) + 1
      /\ r.tag = Tag(LastTag, Len(lines) + 1, r.event)
      /\ lines' = Append(lines, <<r>>) /\ ended' /\ size' = size + 1
      /\ pc' = [pc EXCEPT ![l] = "sync"]
      /\ UNCHANGED <<holder, event, chosen, cache, acked, faults>>
  BY DEF Write, ChosenFits, Behind
<1>2. Good(Len(lines))' /\ LastTag' = r.tag
  BY <1>1, ChainGrows DEF Chained
<1>3. lines' \in Seq(Seq(Records \cup {Cut}))
  BY <1>1
<1>4. Len(lines') = Len(lines) + 1 /\ lines'[Len(lines')] = <<r>>
      /\ \A i \in 1..Len(lines) : lines'[i] = lines[i]
  BY <1>1
<1>5. TypeOK'
  BY <1>1, <1>3
<1>6. Exclusive' /\ Chained'
  BY <1>1, <1>2 DEF Write, Exclusive, Chained
<1>7. CacheTells'
  BY <1>1 DEF CacheTells, Caches
<1>8. ChosenFits'
  BY <1>1, <1>4 DEF ChosenFits, Exclusive, Write
<1>9. AckedInPlace'
  BY <1>1, <1>4 DEF AckedInPlace
<1> QED BY <1>5, <1>6, <1>7, <1>8, <1>9

LEMMA WritePartKeeps ==
  ASSUME AInv, NoLostNewline, NEW l \in Logs, WritePart(l) PROVE AInv'
<1> USE DEF AInv, TypeOK, Goto, file
<1>1. /\ ended /\ lines' = Append(lines, <<Cut>>) /\ ended' = FALSE /\ size' = size + 1
      /\ faults' \in 0..MaxFaults /\ UNCHANGED acked
      /\ cache' = cache \/ cache' = [cache EXCEPT ![l] = None]
      /\ Leave(l)
  BY FaultsAssumption DEF WritePart, ChosenFits, Behind, NoLostNewline, Fail
<1>2. /\ Len(lines') = Len(lines) + 1 /\ lines'[Len(lines')] = <<Cut>>
      /\ \A i \in 1..Len(lines) : lines'[i] = lines[i]
  BY <1>1
<1>3. TypeOK'
  <2>1. lines' \in Seq(Seq(Records \cup {Cut}))
    <3>1. <<Cut>> \in Seq(Records \cup {Cut})
      OBVIOUS
    <3> QED BY <1>1, <3>1
  <2>2. cache' \in [Logs -> Caches \cup {None}]
    BY <1>1
  <2>3. /\ pc' \in [Logs -> {"idle", "chain", "write", "sync"}]
        /\ event' \in [Logs -> Events \cup {None}]
        /\ chosen' \in [Logs -> Records \cup {None}]
        /\ holder' \in Logs \cup {None}
    BY <1>1 DEF Leave
  <2>4. /\ ended' \in BOOLEAN
        /\ size' \in Nat
        /\ acked' \subseteq Records
        /\ faults' \in 0..MaxFaults
    <3>1. ended' \in BOOLEAN
      BY <1>1
    <3>2. size' \in Nat
      BY <1>1
    <3>3. acked' \subseteq Records
      BY <1>1
    <3>4. faults' \in 0..MaxFaults
      BY <1>1
    <3> QED BY <3>1, <3>2, <3>3, <3>4
  <2> QED BY <2>1, <2>2, <2>3, <2>4
<1>4. Exclusive'
  BY <1>1 DEF Exclusive, Leave, WritePart
<1>5. Chained'
  <2>1. \A i \in 1..Len(lines) : Links(i)'
    BY <1>1, <1>2 DEF Chained, Good, Links, Parses
  <2> QED BY <1>1, <1>2, <2>1 DEF Chained, Good
<1>6. CacheTells'
  BY <1>1 DEF CacheTells, Caches
<1>7. ChosenFits'
  BY <1>1 DEF ChosenFits, Exclusive, Leave, WritePart
<1>8. AckedInPlace'
  BY <1>1, <1>2 DEF AckedInPlace
<1> QED BY <1>3, <1>4, <1>5, <1>6, <1>7, <1>8

LEMMA SyncedKeeps == ASSUME AInv, NEW l \in Logs, Synced(l) PROVE AInv'
<1> USE DEF AInv, TypeOK, Goto, file
<1> DEFINE c == [seq |-> chosen[l].seq, tag |-> chosen[l].tag, size |-> size]
<1>1. /\ ended /\ lines # <<>> /\ chosen[l] \in Records
      /\ lines[Len(lines)] = <<chosen[l]>>
      /\ cache' = [cache EXCEPT ![l] = c] /\ acked' = acked \cup {chosen[l]}
      /\ Leave(l) /\ UNCHANGED <<file, faults>>
  BY DEF Synced, ChosenFits
<1>2. Len(lines) \in 1..Len(lines) /\ chosen[l].seq = Len(lines)
  BY <1>1, SMTT(30) DEF Chained, Good, Links
<1>3. c \in Caches /\ c.tag = LastTag /\ c.seq = Len(lines) /\ c.size = size
  BY <1>1, <1>2 DEF Caches, Records, LastTag
<1> HIDE DEF c
<1>4. TypeOK'
  BY <1>1, <1>3 DEF Leave
<1>5. Exclusive'
  BY <1>1 DEF Exclusive, Leave, Synced
<1>6. Chained'
  BY <1>1, FileUnchanged DEF Chained
<1>7. CacheTells'
  BY <1>1, <1>3, FileUnchanged DEF CacheTells
<1>8. ChosenFits'
  BY <1>1, FileUnchanged DEF ChosenFits, Exclusive, Leave, Synced
<1>9. AckedInPlace'
  BY <1>1, <1>2 DEF AckedInPlace
<1> QED BY <1>4, <1>5, <1>6, <1>7, <1>8, <1>9

LEMMA OthersKeep ==
  ASSUME AInv, NEW l \in Logs, (\E e \in Events : Acquire(l, e)) \/ Reopen(l)
  PROVE  AInv'
<1> USE DEF AInv, TypeOK, Goto, file
<1>1. UNCHANGED file
  BY DEF Acquire, Reopen
<1>2. TypeOK'
  BY ZenonT(30) DEF Acquire, Reopen
<1>3. Exclusive'
  BY NoneAssumption DEF Acquire, Reopen, Exclusive
<1>4. Chained' /\ CacheTells' /\ AckedInPlace'
  BY <1>1, FileUnchanged DEF Acquire, Reopen, Chained, CacheTells, AckedInPlace
<1>5. ChosenFits'
  BY <1>1, FileUnchanged DEF Acquire, Reopen, ChosenFits
<1> QED BY <1>2, <1>3, <1>4, <1>5

\* Whatever an append chains to, it is the end of the chain.
LEMMA ChainKeeps ==
  ASSUME AInv, NEW l \in Logs, ChainToCache(l) \/ StartChain(l) \/ ChainToTail(l)
  PROVE  AInv'
<1> USE DEF AInv
<1>1. CASE ChainToCache(l)
  <2>1. ended /\ cache[l].seq = Len(lines) /\ cache[l].tag = LastTag
    BY <1>1 DEF ChainToCache, Untouched, CacheTells
  <2> QED BY <1>1, <2>1, ChooseKeeps DEF ChainToCache
<1>2. CASE StartChain(l)
  <2>1. ended /\ Len(lines) = 0 /\ LastTag = Genesis
    BY <1>2 DEF StartChain, Chained, LastTag
  <2> QED BY <1>2, <2>1, ChooseKeeps DEF StartChain
<1>3. CASE ChainToTail(l)
  <2>1. ended
    BY <1>3, CutAssumption DEF ChainToTail, Chained, Parses
  <2>2. Len(lines) \in 1..Len(lines)
    BY <1>3 DEF ChainToTail, TypeOK
  <2>3. lines[Len(lines)][1].seq = Len(lines) /\ lines[Len(lines)][1].tag = LastTag
    BY <1>3, <2>1, <2>2 DEF ChainToTail, Chained, Good, Links, LastTag
  <2> QED BY <1>3, <2>1, <2>3, ChooseKeeps DEF ChainToTail
<1> QED BY <1>1, <1>2, <1>3

LEMMA EndsKeep ==
  ASSUME AInv, NEW l \in Logs, RefuseTail(l) \/ Stop(l) PROVE AInv'
<1>1. /\ Leave(l) /\ UNCHANGED file /\ UNCHANGED acked /\ pc[l] # "idle"
      /\ cache' = cache \/ cache' = [cache EXCEPT ![l] = None]
  BY DEF RefuseTail, Stop
<1>2. faults' \in 0..MaxFaults
  BY FaultsAssumption DEF RefuseTail, Stop, Fail, AInv, TypeOK
<1> QED BY <1>1, <1>2, LeaveKeeps

LEMMA AInvHolds == NoLostNewline /\ Spec => []AInv
<1>1. Init => AInv
  BY InitA
<1>2. NoLostNewline /\ AInv /\ [Next]_vars => AInv'
  <2>1. NoLostNewline /\ AInv /\ Next => AInv'
    BY ChainKeeps, WriteKeeps, WritePartKeeps, SyncedKeeps, OthersKeep, EndsKeep DEF Next
  <2>2. AInv /\ UNCHANGED vars => AInv'
    BY FileUnchanged
       DEF vars, file, AInv, TypeOK, Exclusive, Chained, CacheTells, ChosenFits, AckedInPlace
  <2> QED BY <2>1, <2>2
<1>3. NoLostNewline => NoLostNewline'
  BY DEF NoLostNewline
<1> QED BY <1>1, <1>2, <1>3, PTL DEF Spec

-----------------------------------------------------------------------------
(* What verify() says of such a file.                                      *)

Verified == IF ended THEN Len(lines) ELSE Len(lines) - 1

\* A fragment is no record, so verify() stops exactly in front of it.
LEMMA VerifyStops == AInv => VerifiedLength = Verified
<1> SUFFICES ASSUME AInv PROVE VerifiedLength = Verified
  OBVIOUS
<1> DEFINE P(n) == Good(n) /\ (n < Len(lines) => ~Links(n + 1))
<1>1. Len(lines) \in Nat /\ (lines # <<>> => Len(lines) > 0) /\ ended \in BOOLEAN
  BY DEF AInv, TypeOK
<1>2. Verified \in 0..Len(lines)
  BY <1>1 DEF AInv, Chained, Verified
<1>3. P(Verified)
  BY <1>1, CutAssumption DEF AInv, Chained, Verified, Links, Parses
<1>4. \A n \in 0..Len(lines) : P(n) => n = Verified
  BY <1>1, <1>2, <1>3 DEF Good
<1> QED BY <1>2, <1>3, <1>4 DEF VerifiedLength

LEMMA InvImpliesProperties == AInv => TypeOK /\ OnlyTailIsTorn /\ AckedVerify
<1> SUFFICES ASSUME AInv PROVE TypeOK /\ OnlyTailIsTorn /\ AckedVerify
  OBVIOUS
<1>1. Len(lines) \in Nat /\ (lines # <<>> => Len(lines) > 0)
  BY DEF AInv, TypeOK
<1>2. OnlyTailIsTorn
  BY <1>1 DEF AInv, OnlyTailIsTorn, Chained, Good
<1>3. ASSUME NEW r \in acked PROVE r.seq <= VerifiedLength /\ lines[r.seq] = <<r>>
  <2>1. r.seq \in 1..Len(lines) /\ lines[r.seq] = <<r>> /\ r \in Records
    BY DEF AInv, AckedInPlace, TypeOK
  <2>2. lines[r.seq] # <<Cut>>
    BY <2>1, CutAssumption
  <2>3. r.seq <= Verified
    BY <1>1, <2>1, <2>2 DEF AInv, Chained, Verified
  <2> QED BY <2>1, <2>3, VerifyStops
<1> QED BY <1>2, <1>3 DEF AInv, AckedVerify

\* Every variable keeps its type.
THEOREM TypeCorrect == NoLostNewline /\ Spec => []TypeOK
<1> QED BY InvImpliesProperties, AInvHolds, PTL

\* The chain breaks nowhere but at the very end, where an interrupted append
\* left a fragment: the size check of the cache never lets an instance continue
\* a chain that another has extended.
THEOREM ChainHolds == NoLostNewline /\ Spec => []OnlyTailIsTorn
<1> QED BY InvImpliesProperties, AInvHolds, PTL

\* What has been acknowledged is in its place and verifies.
THEOREM AckedRecordsVerify == NoLostNewline /\ Spec => []AckedVerify
<1> QED BY InvImpliesProperties, AInvHolds, PTL

-----------------------------------------------------------------------------
(* The log as a ledger.                                                    *)

LEMMA InitIsEmpty == Init => Ledger!Init
<1> SUFFICES ASSUME Init PROVE VerifiedEvents = <<>>
  BY DEF Ledger!Init
<1>1. AInv /\ Verified = 0
  BY InitA DEF Init, Verified
<1> QED BY <1>1, VerifyStops DEF VerifiedEvents

LEMMA StepIsAStep ==
  ASSUME NoLostNewline, AInv, AInv', [Next]_vars
  PROVE  [Ledger!Next]_VerifiedEvents
<1> DEFINE Stops == VerifiedLength = Verified
<1>a. Stops /\ Stops'
  BY VerifyStops, PTL
<1>1. CASE UNCHANGED file
  BY <1>1, <1>a DEF file, Verified, VerifiedEvents
<1>2. ASSUME NEW l \in Logs, Write(l) PROVE \E e \in Events : Ledger!Add(e)
  <2> DEFINE e == chosen[l].event
  <2>1. /\ ended /\ ended' /\ lines' = Append(lines, <<chosen[l]>>) /\ e \in Events
        /\ Len(lines) \in Nat
    BY <1>2 DEF Write, AInv, ChosenFits, Behind, Records, TypeOK
  <2>2. VerifiedLength = Len(lines) /\ VerifiedLength' = Len(lines')
    BY <2>1, <1>a DEF Verified
  <2>3. Len(lines') = Len(lines) + 1 /\ lines'[Len(lines) + 1] = <<chosen[l]>>
        /\ \A i \in 1..Len(lines) : lines'[i] = lines[i]
    BY <2>1 DEF AInv, TypeOK
  <2>4. VerifiedEvents' = [i \in 1..(Len(lines) + 1) |->
                             IF i = Len(lines) + 1 THEN e ELSE lines[i][1].event]
    BY <2>2, <2>3 DEF VerifiedEvents
  <2>5. VerifiedEvents = [i \in 1..Len(lines) |-> lines[i][1].event]
    BY <2>2 DEF VerifiedEvents
  <2>6. \A i \in 1..Len(lines) : lines[i][1].event \in Events
    BY <2>1 DEF AInv, Chained, Good, Links, Parses, Records
  <2>7. VerifiedEvents \in Seq(Events) /\ Len(VerifiedEvents) = Len(lines)
    BY <2>1, <2>5, <2>6
  <2>8. VerifiedEvents' = Append(VerifiedEvents, e)
    BY <2>1, <2>4, <2>5, <2>7
  <2> QED BY <2>1, <2>8 DEF Ledger!Add
<1>3. ASSUME NEW l \in Logs, WritePart(l) PROVE UNCHANGED VerifiedEvents
  <2>1. /\ ended /\ ~ended' /\ lines' = Append(lines, <<Cut>>) /\ Len(lines) \in Nat
    BY <1>3 DEF WritePart, AInv, ChosenFits, Behind, NoLostNewline, Fail, TypeOK
  <2>2. VerifiedLength = Len(lines) /\ VerifiedLength' = Len(lines)
    BY <2>1, <1>a DEF Verified, AInv, TypeOK
  <2>3. \A i \in 1..Len(lines) : lines'[i] = lines[i]
    BY <2>1 DEF AInv, TypeOK
  <2> QED BY <2>2, <2>3 DEF VerifiedEvents
<1>4. ASSUME Next, ~UNCHANGED file
      PROVE  \E k \in Logs : Write(k) \/ WritePart(k)
  BY <1>4 DEF Next, Acquire, ChainToCache, StartChain, ChainToTail, RefuseTail, Choose,
              Synced, Stop, Reopen
<1>5. UNCHANGED vars => UNCHANGED file
  BY DEF vars
<1>6. CASE ~UNCHANGED file
  <2>1. \E k \in Logs : Write(k) \/ WritePart(k)
    BY <1>4, <1>5, <1>6
  <2> QED BY <2>1, <1>2, <1>3 DEF Ledger!Next
<1> QED BY <1>1, <1>6

\* As verify() reads it, the log is an append-only ledger of events: every step
\* adds one at the end or changes nothing.
THEOREM LogIsALedger == NoLostNewline /\ Spec => IsALedger
<1>1. NoLostNewline => NoLostNewline'
  BY DEF NoLostNewline
<1>2. NoLostNewline /\ AInv /\ AInv' /\ [Next]_vars => [Ledger!Next]_VerifiedEvents
  BY StepIsAStep
<1> QED BY InitIsEmpty, AInvHolds, <1>1, <1>2, PTL DEF Spec, IsALedger, Ledger!Spec

=============================================================================
