----------------------- MODULE ThresholdTuning_proofs -----------------------
(***************************************************************************)
(* Proofs about ThresholdTuning, for any number of users, gates, edits and  *)
(* failures, and about the step ThresholdRules clamps, for any window.      *)
(***************************************************************************)
EXTENDS ThresholdTuning, FiniteSetTheorems, WellFoundedInduction, TLAPS

(* ---- sequences ---- *)

LEMMA AppendFacts ==
  ASSUME NEW S, NEW s \in Seq(S), NEW x
  PROVE  /\ Len(Append(s, x)) = Len(s) + 1 /\ DOMAIN Append(s, x) = 1..(Len(s) + 1)
         /\ DOMAIN s = 1..Len(s) /\ Len(s) \in Nat
         /\ \A i \in 1..Len(s) : Append(s, x)[i] = s[i]
         /\ Append(s, x)[Len(s) + 1] = x
OBVIOUS

LEMMA AppendPrefix ==
  ASSUME NEW S, NEW s \in Seq(S), NEW x \in S, NEW i \in 1..(Len(s) + 1)
  PROVE  SubSeq(Append(s, x), 1, i - 1) = SubSeq(s, 1, i - 1)
<1>1. Len(s) \in Nat /\ i - 1 \in 0..Len(s) /\ Append(s, x) \in Seq(S)
  OBVIOUS
<1>2. \A j \in 1..(i - 1) : Append(s, x)[j] = s[j]
  BY <1>1
<1> QED BY <1>1, <1>2

LEMMA WholePrefix ==
  ASSUME NEW S, NEW s \in Seq(S) PROVE SubSeq(s, 1, Len(s)) = s
OBVIOUS

LEMMA SeqGrows ==
  ASSUME NEW S, NEW T, S \subseteq T, NEW s \in Seq(S) PROVE s \in Seq(T)
<1>1. s \in [1..Len(s) -> S] /\ Len(s) \in Nat
  OBVIOUS
<1>2. s \in [1..Len(s) -> T]
  BY <1>1
<1> QED BY <1>1, <1>2

LEMMA InsertStays ==
  ASSUME NEW S, NEW s \in Seq(S), NEW x \in S, NEW i \in 1..(Len(s) + 1)
  PROVE  InsertAt(s, i, x) \in Seq(S)
<1>1. SubSeq(s, 1, i - 1) \in Seq(S) /\ SubSeq(s, i, Len(s)) \in Seq(S) /\ <<x>> \in Seq(S)
  OBVIOUS
<1> QED BY <1>1 DEF InsertAt

LEMMA WithFacts ==
  ASSUME NEW f, NEW x, NEW v
  PROVE  /\ DOMAIN With(f, x, v) = DOMAIN f \cup {x} /\ With(f, x, v)[x] = v
         /\ \A y \in DOMAIN f \ {x} : With(f, x, v)[y] = f[y]
BY DEF With

\* Another decision leaves the last one on a proposal alone, unless it is about it.
LEMMA LatestAfter ==
  ASSUME NEW S, NEW s \in Seq(S), NEW d, NEW id, NEW actions,
         ~LatestIs(s, id, actions), d.id # id \/ d.action \notin actions
  PROVE  ~LatestIs(Append(s, d), id, actions)
<1> SUFFICES ASSUME LatestIs(Append(s, d), id, actions) PROVE FALSE
  OBVIOUS
<1> DEFINE e == Append(s, d)
<1>1. PICK i \in DOMAIN e : /\ e[i].id = id /\ e[i].action \in actions
                            /\ \A j \in DOMAIN e : j > i => e[j].id # id
  BY DEF LatestIs
<1>2. i \in 1..Len(s) /\ i \in DOMAIN s /\ e[i] = s[i]
  BY <1>1, AppendFacts
<1>3. \A j \in DOMAIN s : j > i => s[j].id # id
  BY <1>1, AppendFacts
<1> QED BY <1>1, <1>2, <1>3 DEF LatestIs

-----------------------------------------------------------------------------
(* ---- types, and what a user at work has in hand ---- *)

Shaped(j) == j = [id |-> j.id, slug |-> j.slug, raw |-> j.raw, todo |-> j.todo]

\* A user with a proposal in hand read it from the ledger's directory, past the
\* backup it has a backup, and past the record a record.
JobsFit ==
  /\ job = [u \in Users |-> job[u]]
  /\ \A u \in Users :
       /\ Shaped(job[u])
       /\ at[u] \in {"confirming", "rejecting", "backup", "splice", "record", "accept"} =>
            job[u].id \in Ids
       /\ at[u] = "superseding" => job[u].todo \subseteq Ids
       /\ at[u] \in {"backup", "splice"} => DOMAIN job[u].raw = Priorities
       /\ at[u] \in {"record", "accept", "splice"} => job[u].id \in DOMAIN backups
       /\ at[u] = "accept" => job[u].id \in records

TInv == TypeOK /\ IsFiniteSet(Ids) /\ JobsFit

LEMMA SetJob ==
  ASSUME NEW j, Shaped(j), NEW x
  PROVE  /\ [j EXCEPT !.id = x] = [id |-> x, slug |-> j.slug, raw |-> j.raw, todo |-> j.todo]
         /\ [j EXCEPT !.raw = x] = [id |-> j.id, slug |-> j.slug, raw |-> x, todo |-> j.todo]
         /\ [j EXCEPT !.todo = x] = [id |-> j.id, slug |-> j.slug, raw |-> j.raw, todo |-> x]
<1> j = [id |-> j.id, slug |-> j.slug, raw |-> j.raw, todo |-> j.todo]
  BY DEF Shaped
<1>1. [j EXCEPT !.id = x] = [id |-> x, slug |-> j.slug, raw |-> j.raw, todo |-> j.todo]
  OBVIOUS
<1>3. [j EXCEPT !.raw = x] = [id |-> j.id, slug |-> j.slug, raw |-> x, todo |-> j.todo]
  OBVIOUS
<1>4. [j EXCEPT !.todo = x] = [id |-> j.id, slug |-> j.slug, raw |-> j.raw, todo |-> x]
  OBVIOUS
<1> QED BY <1>1, <1>3, <1>4

\* One user's job is replaced.
LEMMA JobStep ==
  ASSUME JobsFit, NEW u \in Users, NEW k
  PROVE  LET new == [job EXCEPT ![u] = k] IN
         /\ new = [v \in Users |-> new[v]] /\ new[u] = k
         /\ \A v \in Users \ {u} : new[v] = job[v]
BY DEF JobsFit

\* A user goes somewhere.
LEMMA GoStep ==
  ASSUME TypeOK, NEW u \in Users, NEW place \in {"idle"} \cup Waiting \cup Held, Go(u, place)
  PROVE  /\ at' \in [Users -> {"idle"} \cup Waiting \cup Held] /\ at'[u] = place
         /\ \A v \in Users \ {u} : at'[v] = at[v]
BY DEF TypeOK, Go

\* A user gives up its lock and its job.
LEMMA DoneStep ==
  ASSUME TInv, NEW u \in Users, Done(u), lock = u \/ Free
  PROVE  /\ at' \in [Users -> {"idle"} \cup Waiting \cup Held]
         /\ at'[u] = "idle" /\ \A v \in Users \ {u} : at'[v] = at[v] /\ job'[v] = job[v]
         /\ job' = [v \in Users |-> job'[v]] /\ job'[u] = NoJob /\ Shaped(NoJob)
         /\ \A v \in Users : at'[v] \in Held <=> lock' = v
<1>1. /\ at' \in [Users -> {"idle"} \cup Waiting \cup Held] /\ at'[u] = "idle"
      /\ \A v \in Users \ {u} : at'[v] = at[v]
  BY GoStep DEF Done, TInv
<1>2. /\ job' = [v \in Users |-> job'[v]] /\ job'[u] = NoJob
      /\ \A v \in Users \ {u} : job'[v] = job[v]
  BY JobStep DEF Done, TInv
<1>3. \A v \in Users : at'[v] \notin Held
  BY <1>1, UsersAssumption DEF TInv, TypeOK, Held, Free
<1>4. lock' \notin Users
  BY UsersAssumption DEF Done
<1>5. Shaped(NoJob)
  BY DEF Shaped, NoJob, About
<1> QED BY <1>1, <1>2, <1>3, <1>4, <1>5

\* A decision about a proposal that is there.
LEMMA AppendDecision ==
  ASSUME TypeOK, NEW id \in Ids, NEW action \in Actions, Append1(id, action)
  PROVE  decisions' \in Seq([id : Ids, action : Actions])
BY DEF TypeOK, Append1, Ids

\* What the files and the ledger hold.
Disk ==
  /\ gates \in Seq(GateFiles) /\ DOMAIN source = Priorities
  /\ clock \in 0..MaxClock /\ mishaps \in 0..MaxMishaps
  /\ \A id \in Ids : proposals[id] \in [created : 0..MaxClock, slug : Nat \ {0}]
  /\ decisions \in Seq([id : Ids, action : Actions])
  /\ DOMAIN backups \subseteq Ids /\ records \subseteq DOMAIN backups
  /\ IsFiniteSet(Ids)
Places ==
  /\ at \in [Users -> {"idle"} \cup Waiting \cup Held]
  /\ \A u \in Users : at[u] \in Held <=> lock = u

LEMMA Parts == TInv <=> Disk /\ Places /\ JobsFit
BY DEF TInv, TypeOK, Disk, Places

\* The proposals, backups and records only grow.
Grows ==
  /\ Ids \subseteq Ids' /\ DOMAIN backups \subseteq DOMAIN backups' /\ records \subseteq records'

\* Nothing of what JobsFit says of the others is lost when one user moves on.
LEMMA JobsStep ==
  ASSUME TInv, NEW u \in Users, Grows,
         at' \in [Users -> {"idle"} \cup Waiting \cup Held],
         job' = [v \in Users |-> job'[v]], Shaped(job'[u]),
         \A v \in Users \ {u} : at'[v] = at[v] /\ job'[v] = job[v],
         at'[u] \in {"confirming", "rejecting", "backup", "splice", "record", "accept"} =>
           job'[u].id \in Ids',
         at'[u] = "superseding" => job'[u].todo \subseteq Ids',
         at'[u] \in {"backup", "splice"} => DOMAIN job'[u].raw = Priorities,
         at'[u] \in {"record", "accept", "splice"} => job'[u].id \in DOMAIN backups',
         at'[u] = "accept" => job'[u].id \in records'
  PROVE  JobsFit'
<1>1. ASSUME NEW v \in Users \ {u}
      PROVE  /\ Shaped(job'[v])
             /\ at'[v] \in {"confirming", "rejecting", "backup", "splice", "record", "accept"} =>
                  job'[v].id \in Ids'
             /\ at'[v] = "superseding" => job'[v].todo \subseteq Ids'
             /\ at'[v] \in {"backup", "splice"} => DOMAIN job'[v].raw = Priorities
             /\ at'[v] \in {"record", "accept", "splice"} => job'[v].id \in DOMAIN backups'
             /\ at'[v] = "accept" => job'[v].id \in records'
  BY DEF TInv, JobsFit, Grows
<1> QED BY <1>1 DEF JobsFit, Shaped

THEOREM InitTypes == Init => TInv
<1> SUFFICES ASSUME Init PROVE TInv
  OBVIOUS
<1> USE DEF Init
<1>1. DOMAIN proposals = {} /\ DOMAIN backups = {} /\ DOMAIN decisions = {}
  OBVIOUS
<1>2. Disk
  BY <1>1, SourceAssumption, BoundsAssumption, FS_EmptySet DEF Disk, Ids
<1>3. Places
  BY UsersAssumption DEF Places, Held
<1>4. JobsFit
  BY DEF JobsFit, Shaped, NoJob, About, Held, Waiting
<1> QED BY <1>2, <1>3, <1>4, Parts

LEMMA GateTypes == TInv /\ (PersistGate \/ InvalidateGate \/ EditSource \/ Tick) => TInv'
<1> SUFFICES ASSUME TInv, PersistGate \/ InvalidateGate \/ EditSource \/ Tick PROVE TInv'
  OBVIOUS
<1> USE Parts
<1>1. UNCHANGED <<disk, lock, at, job>>
  BY DEF PersistGate, InvalidateGate, EditSource, Tick
<1>2. gates' \in Seq(GateFiles)
  <2>1. CASE PersistGate
    <3>1. PICK i \in 1..(Len(gates) + 1), p \in Priorities, c \in Coverages :
            gates' = InsertAt(gates, i, [n |-> Len(gates), priority |-> p, coverage |-> c,
                                         invalidated |-> FALSE])
      BY <2>1 DEF PersistGate
    <3>2. [n |-> Len(gates), priority |-> p, coverage |-> c, invalidated |-> FALSE] \in GateFiles
      BY CoveragesAssumption DEF GateFiles, Disk
    <3> HIDE DEF GateFiles
    <3> QED BY <3>1, <3>2, InsertStays DEF Disk
  <2>2. CASE InvalidateGate
    <3>1. PICK i \in DOMAIN gates : gates' = [gates EXCEPT ![i].invalidated = TRUE]
      BY <2>2 DEF InvalidateGate
    <3>2. [gates[i] EXCEPT !.invalidated = TRUE] \in GateFiles
      <4>1. gates[i] \in GateFiles
        BY <3>1 DEF Disk
      <4> QED BY <4>1 DEF GateFiles
    <3> QED BY <3>1, <3>2 DEF Disk
  <2> QED BY <2>1, <2>2 DEF EditSource, Tick, Disk
<1>3. DOMAIN source' = Priorities /\ clock' \in 0..MaxClock /\ mishaps' \in 0..MaxMishaps
  <2>1. CASE EditSource
    BY <2>1, BoundsAssumption DEF EditSource, Disk
  <2>2. CASE Tick
    BY <2>2, BoundsAssumption DEF Tick, Disk
  <2> QED BY <2>1, <2>2 DEF PersistGate, InvalidateGate, Disk
<1>4. Disk'
  BY <1>1, <1>2, <1>3 DEF Disk, Ids, disk
<1>5. Places' /\ JobsFit'
  BY <1>1 DEF Places, JobsFit, Ids, disk, Shaped
<1> QED BY <1>4, <1>5 DEF TInv, TypeOK, Disk, Places

\* A step of one user that leaves the files alone.
LEMMA UserStepTypes ==
  ASSUME TInv, NEW u \in Users, Grows,
         at' \in [Users -> {"idle"} \cup Waiting \cup Held],
         \A v \in Users : at'[v] \in Held <=> lock' = v,
         JobsFit',
         UNCHANGED <<gates, clock>>, mishaps' \in 0..MaxMishaps, DOMAIN source' = Priorities,
         \/ UNCHANGED proposals
         \/ /\ \A id \in Ids' : proposals'[id] \in [created : 0..MaxClock, slug : Nat \ {0}]
            /\ IsFiniteSet(Ids'),
         UNCHANGED decisions \/ decisions' \in Seq([id : Ids, action : Actions]),
         DOMAIN backups' \subseteq Ids', records' \subseteq DOMAIN backups'
  PROVE  TInv'
<1>1. decisions' \in Seq([id : Ids', action : Actions])
  <2>1. [id : Ids, action : Actions] \subseteq [id : Ids', action : Actions]
    BY DEF Grows
  <2>2. decisions' \in Seq([id : Ids, action : Actions])
    BY Parts DEF Disk
  <2> QED BY <2>1, <2>2, SeqGrows
<1>2. /\ \A id \in Ids' : proposals'[id] \in [created : 0..MaxClock, slug : Nat \ {0}]
      /\ IsFiniteSet(Ids')
  BY Parts DEF Disk, Ids
<1>3. gates' \in Seq(GateFiles) /\ clock' \in 0..MaxClock
  BY Parts DEF Disk
<1> QED BY <1>1, <1>2, <1>3 DEF TInv, TypeOK

\* A user takes up a command, or gives up on one.
LEMMA TakeUpTypes ==
  ASSUME TInv, NEW u \in Users, Observe(u) \/ Confirm(u) \/ Reject(u) \/ GiveUp(u)
  PROVE  TInv'
<1> USE Parts
<1>1. UNCHANGED <<gates, source, clock, disk, lock, mishaps>>
  BY DEF Observe, Confirm, Reject, GiveUp
<1>2. PICK place \in {"idle"} \cup Waiting : Go(u, place) /\ at[u] \in {"idle"} \cup Waiting
  BY DEF Observe, Confirm, Reject, GiveUp, Waiting
<1>3. /\ at' \in [Users -> {"idle"} \cup Waiting \cup Held] /\ at'[u] = place
      /\ \A v \in Users \ {u} : at'[v] = at[v]
  BY <1>2, GoStep DEF TInv
<1>4. \A v \in Users : at'[v] \in Held <=> lock' = v
  BY <1>1, <1>2, <1>3 DEF Places, Held, Waiting
<1>5. Grows
  BY <1>1 DEF Grows, disk, Ids
<1>6. PICK k : /\ job' = [job EXCEPT ![u] = k] /\ Shaped(k)
               /\ place \in {"confirming", "rejecting"} => k.id \in Ids
  <2>1. CASE Observe(u)
    <3>1. PICK id : job' = [job EXCEPT ![u].id = id]
      BY <2>1 DEF Observe
    <3>2. Shaped([job[u] EXCEPT !.id = id])
      BY SetJob DEF JobsFit, Shaped
    <3>3. at'[u] = "proposing"
      BY <2>1, <1>3, GoStep DEF Observe, TInv, Waiting
    <3> QED BY <3>1, <3>2, <3>3, <1>3
  <2>2. CASE Confirm(u)
    <3>1. PICK id, slug : id \in Ids /\ job' = [job EXCEPT ![u] = About(id, slug)]
      BY <2>2 DEF Confirm, Listed, Ids
    <3>2. Shaped(About(id, slug)) /\ About(id, slug).id = id
      BY DEF Shaped, About
    <3> QED BY <3>1, <3>2
  <2>3. CASE Reject(u)
    <3>1. PICK id \in Ids : job' = [job EXCEPT ![u].id = id]
      BY <2>3 DEF Reject, Ids
    <3>2. Shaped([job[u] EXCEPT !.id = id]) /\ [job[u] EXCEPT !.id = id].id = id
      BY SetJob DEF JobsFit, Shaped
    <3> QED BY <3>1, <3>2
  <2>4. CASE GiveUp(u)
    <3>1. job' = [job EXCEPT ![u] = NoJob] /\ Go(u, "idle")
      BY <2>4 DEF GiveUp
    <3>2. at'[u] = "idle"
      BY <3>1, GoStep DEF TInv
    <3> QED BY <3>1, <3>2, <1>3 DEF Shaped, NoJob, About
  <2> QED BY <2>1, <2>2, <2>3, <2>4
<1>7. /\ job' = [v \in Users |-> job'[v]] /\ job'[u] = k
      /\ \A v \in Users \ {u} : job'[v] = job[v]
  BY <1>6, JobStep DEF TInv
<1>8. JobsFit'
  <2>1. at'[u] \in {"idle", "proposing", "confirming", "rejecting"} /\ Ids' = Ids
    BY <1>1, <1>3 DEF Waiting, disk, Ids
  <2> QED BY <2>1, <1>3, <1>5, <1>6, <1>7, JobsStep
<1> QED BY <1>1, <1>3, <1>4, <1>5, <1>8, UserStepTypes DEF disk, Disk, Ids

\* A user takes the lock, or works under it, and moves on to another place.
LEMMA LockedPlaces ==
  ASSUME TInv, NEW u \in Users, NEW place \in Held, Go(u, place), lock' = u, lock = u \/ Free
  PROVE  \A v \in Users : at'[v] \in Held <=> lock' = v
<1>1. at'[u] = place /\ \A v \in Users \ {u} : at'[v] = at[v]
  BY GoStep DEF TInv
<1> QED BY <1>1, UsersAssumption DEF TInv, TypeOK, Free

LEMMA ProposeTypes == ASSUME TInv, NEW u \in Users, Propose(u) PROVE TInv'
<1> USE Parts
<1> DEFINE id == job[u].id
<1>1. UNCHANGED <<gates, source, clock, decisions, backups, records, mishaps>> /\ Free
  BY DEF Propose
<1>2. CASE id \in DOMAIN proposals
  <2>1. Done(u) /\ UNCHANGED proposals
    BY <1>2 DEF Propose
  <2>2. Grows
    BY <1>1, <2>1 DEF Grows, Ids
  <2>3. JobsFit'
    BY <1>1, <2>1, <2>2, DoneStep, JobsStep
  <2> QED BY <1>1, <2>1, <2>2, <2>3, DoneStep, UserStepTypes DEF Disk, Ids
<1>3. CASE id \notin DOMAIN proposals
  <2> DEFINE new == [created |-> clock, slug |-> Cardinality(DOMAIN proposals) + 1]
             k == [job[u] EXCEPT !.todo = Pending(proposals, decisions, id)]
  <2>1. /\ proposals' = With(proposals, id, new)
        /\ job' = [job EXCEPT ![u] = k] /\ lock' = u /\ Go(u, "superseding")
    BY <1>3 DEF Propose
  <2>2. /\ Ids' = Ids \cup {id} /\ proposals'[id] = new
        /\ \A x \in Ids : proposals'[x] = proposals[x]
    <3> HIDE DEF new, id
    <3>1. /\ DOMAIN With(proposals, id, new) = DOMAIN proposals \cup {id}
          /\ With(proposals, id, new)[id] = new
          /\ \A x \in DOMAIN proposals \ {id} : With(proposals, id, new)[x] = proposals[x]
      BY DEF With
    <3> QED BY <1>3, <2>1, <3>1 DEF Ids
  <2>3. Grows
    BY <1>1, <2>2 DEF Grows
  <2>4. Cardinality(DOMAIN proposals) \in Nat /\ IsFiniteSet(Ids')
    <3>1. IsFiniteSet(DOMAIN proposals)
      BY DEF Disk, Ids
    <3>2. IsFiniteSet(Ids \cup {id})
      BY <3>1, FS_AddElement DEF Ids
    <3> QED BY <2>2, <3>1, <3>2, FS_CardinalityType
  <2>5. \A x \in Ids' : proposals'[x] \in [created : 0..MaxClock, slug : Nat \ {0}]
    BY <2>2, <2>4 DEF Disk
  <2>6. Shaped(k) /\ k.todo \subseteq Ids
    <3>1. Pending(proposals, decisions, id) \subseteq Ids
      BY DEF Pending, Ids
    <3>2. Shaped(job[u])
      BY DEF JobsFit
    <3> HIDE DEF id
    <3>3. k = [id |-> job[u].id, slug |-> job[u].slug, raw |-> job[u].raw,
               todo |-> Pending(proposals, decisions, id)]
      BY <3>2, SetJob
    <3> HIDE DEF k
    <3> QED BY <3>1, <3>3 DEF Shaped
  <2>7. /\ job' = [v \in Users |-> job'[v]] /\ job'[u] = k
        /\ \A v \in Users \ {u} : job'[v] = job[v]
    BY <2>1, JobStep DEF TInv
  <2>8. /\ at' \in [Users -> {"idle"} \cup Waiting \cup Held] /\ at'[u] = "superseding"
        /\ \A v \in Users \ {u} : at'[v] = at[v]
        /\ \A v \in Users : at'[v] \in Held <=> lock' = v
    BY <1>1, <2>1, GoStep, LockedPlaces DEF TInv, Held
  <2>9. JobsFit'
    BY <2>2, <2>3, <2>6, <2>7, <2>8, JobsStep
  <2> QED BY <1>1, <2>2, <2>3, <2>4, <2>5, <2>8, <2>9, UserStepTypes DEF Disk
<1> QED BY <1>2, <1>3

\* A command ends, leaving at most one more decision about a proposal that is there.
LEMMA EndTypes ==
  ASSUME TInv, NEW u \in Users, Done(u), lock = u \/ Free,
         UNCHANGED <<gates, source, clock, proposals, backups, records>>,
         mishaps' \in 0..MaxMishaps,
         UNCHANGED decisions \/ decisions' \in Seq([id : Ids, action : Actions])
  PROVE  TInv'
<1>1. Grows /\ Ids' = Ids
  BY DEF Grows, Ids
<1>2. JobsFit'
  BY <1>1, DoneStep, JobsStep
<1> QED BY <1>1, <1>2, DoneStep, UserStepTypes, Parts DEF Disk

LEMMA SupersedeTypes == ASSUME TInv, NEW u \in Users, Supersede(u) PROVE TInv'
<1> USE Parts
<1>1. /\ UNCHANGED <<gates, source, clock, proposals, backups, records>>
      /\ at[u] = "superseding" /\ lock = u
  BY DEF Supersede, Places, Held
<1>2. Grows /\ Ids' = Ids
  BY <1>1 DEF Grows, Ids
<1>3. CASE Done(u) /\ UNCHANGED <<decisions, mishaps>>
  BY <1>1, <1>3, EndTypes DEF Disk
<1>4. ASSUME NEW id \in job[u].todo, job' = [job EXCEPT ![u].todo = @ \ {id}],
             \/ Append1(id, "superseded") /\ UNCHANGED mishaps
             \/ /\ mishaps < MaxMishaps /\ mishaps' = mishaps + 1
                /\ UNCHANGED decisions,
             UNCHANGED <<lock, at>>
      PROVE  TInv'
  <2> DEFINE k == [job[u] EXCEPT !.todo = @ \ {id}]
  <2>1. id \in Ids /\ Shaped(job[u]) /\ job[u].todo \subseteq Ids
    BY <1>1 DEF JobsFit
  <2>2. k = [id |-> job[u].id, slug |-> job[u].slug, raw |-> job[u].raw,
             todo |-> job[u].todo \ {id}]
    BY <2>1, SetJob
  <2>3. job' = [job EXCEPT ![u] = k]
    BY <1>4
  <2> HIDE DEF k
  <2>4. /\ job' = [v \in Users |-> job'[v]] /\ job'[u] = k
        /\ \A v \in Users \ {u} : job'[v] = job[v]
    BY <2>3, JobStep DEF TInv
  <2>5. Shaped(k) /\ k.todo \subseteq Ids
    BY <2>1, <2>2 DEF Shaped
  <2>6. JobsFit'
    BY <1>1, <1>2, <1>4, <2>4, <2>5, JobsStep DEF Places
  <2>7. UNCHANGED decisions \/ decisions' \in Seq([id : Ids, action : Actions])
    <3>1. CASE Append1(id, "superseded")
      BY <2>1, <3>1, AppendDecision DEF TInv, Actions
    <3> QED BY <1>4, <3>1
  <2>8. mishaps' \in 0..MaxMishaps
    BY <1>4, BoundsAssumption DEF Disk
  <2> QED BY <1>1, <1>2, <1>4, <2>6, <2>7, <2>8, UserStepTypes DEF Disk, Places
<1> QED BY <1>3, <1>4 DEF Supersede

LEMMA ValidateTypes == ASSUME TInv, NEW u \in Users, Validate(u) PROVE TInv'
<1> USE Parts
<1> DEFINE why == Refusal(proposals, job[u].id, job[u].slug, clock, source)
           k == [job[u] EXCEPT !.raw = source]
<1>1. /\ UNCHANGED <<gates, source, clock, proposals, backups, records, mishaps>>
      /\ at[u] = "confirming" /\ Free /\ job[u].id \in Ids /\ Shaped(job[u])
  BY DEF Validate, JobsFit
<1>2. CASE why = "none"
  <2>1. /\ job' = [job EXCEPT ![u] = k] /\ lock' = u /\ Go(u, "backup") /\ UNCHANGED decisions
    BY <1>2 DEF Validate
  <2>2. k = [id |-> job[u].id, slug |-> job[u].slug, raw |-> source, todo |-> job[u].todo]
    BY <1>1, SetJob
  <2> HIDE DEF k, why
  <2>3. /\ job' = [v \in Users |-> job'[v]] /\ job'[u] = k
        /\ \A v \in Users \ {u} : job'[v] = job[v]
    BY <2>1, JobStep DEF TInv
  <2>4. /\ at' \in [Users -> {"idle"} \cup Waiting \cup Held] /\ at'[u] = "backup"
        /\ \A v \in Users \ {u} : at'[v] = at[v]
        /\ \A v \in Users : at'[v] \in Held <=> lock' = v
    BY <1>1, <2>1, GoStep, LockedPlaces DEF TInv, Held
  <2>5. Grows /\ Ids' = Ids
    BY <1>1 DEF Grows, Ids
  <2>6. Shaped(k) /\ k.id \in Ids /\ DOMAIN k.raw = Priorities
    BY <1>1, <2>2 DEF Shaped, Disk
  <2>7. JobsFit'
    BY <2>3, <2>4, <2>5, <2>6, JobsStep
  <2> QED BY <1>1, <2>1, <2>4, <2>5, <2>7, UserStepTypes DEF Disk
<1>3. CASE why # "none"
  <2>1. Done(u) /\ (UNCHANGED decisions \/ Append1(job[u].id, "confirm_failed"))
    BY <1>3 DEF Validate
  <2>2. UNCHANGED decisions \/ decisions' \in Seq([id : Ids, action : Actions])
    BY <1>1, <2>1, AppendDecision DEF TInv, Actions
  <2> QED BY <1>1, <2>1, <2>2, EndTypes DEF Disk
<1> QED BY <1>2, <1>3

\* The steps of an apply between its lock and its acceptance keep the job.
LEMMA ApplyTypes ==
  ASSUME TInv, NEW u \in Users, Backup(u) \/ Splice(u) \/ WriteRecord(u)
  PROVE  TInv'
<1> USE Parts
<1>1. UNCHANGED <<gates, clock, proposals, decisions, lock, job, mishaps>>
  BY DEF Backup, Splice, WriteRecord, disk
<1>2. /\ at[u] \in {"backup", "splice", "record"} /\ lock = u
      /\ Shaped(job[u]) /\ job[u].id \in Ids /\ job = [v \in Users |-> job[v]]
      /\ at[u] \in {"backup", "splice"} => DOMAIN job[u].raw = Priorities
  BY DEF Backup, Splice, WriteRecord, JobsFit, Places, Held
<1>3. CASE Backup(u)
  <2>1. DOMAIN backups' = DOMAIN backups \cup {job[u].id}
    BY <1>3 DEF Backup, With
  <2>2. Go(u, "splice") /\ UNCHANGED <<source, records>> /\ at[u] = "backup"
    BY <1>3 DEF Backup
  <2>3. /\ at' \in [Users -> {"idle"} \cup Waiting \cup Held] /\ at'[u] = "splice"
        /\ \A v \in Users \ {u} : at'[v] = at[v]
        /\ \A v \in Users : at'[v] \in Held <=> lock' = v
    BY <1>1, <1>2, <2>2, GoStep, LockedPlaces DEF TInv, Held
  <2>4. Grows /\ Ids' = Ids
    BY <1>1, <2>1, <2>2 DEF Grows, Ids
  <2>5. JobsFit'
    BY <1>1, <1>2, <2>1, <2>2, <2>3, <2>4, JobsStep
  <2> QED BY <1>1, <1>2, <2>1, <2>2, <2>3, <2>4, <2>5, UserStepTypes DEF Disk
<1>4. CASE Splice(u)
  <2>1. /\ Go(u, "record") /\ UNCHANGED <<records, backups>> /\ at[u] = "splice"
        /\ source' = [job[u].raw EXCEPT ![job[u].id.priority] = job[u].id.proposed]
    BY <1>4 DEF Splice, disk
  <2>2. /\ at' \in [Users -> {"idle"} \cup Waiting \cup Held] /\ at'[u] = "record"
        /\ \A v \in Users \ {u} : at'[v] = at[v]
        /\ \A v \in Users : at'[v] \in Held <=> lock' = v
    BY <1>1, <1>2, <2>1, GoStep, LockedPlaces DEF TInv, Held
  <2>3. Grows /\ Ids' = Ids
    BY <1>1, <2>1 DEF Grows, Ids
  <2>4. job[u].id \in DOMAIN backups /\ DOMAIN source' = Priorities
    BY <1>2, <2>1 DEF JobsFit
  <2>5. JobsFit'
    BY <1>1, <1>2, <2>1, <2>2, <2>3, <2>4, JobsStep
  <2> QED BY <1>1, <1>2, <2>1, <2>2, <2>3, <2>4, <2>5, UserStepTypes DEF Disk
<1>5. CASE WriteRecord(u)
  <2>1. /\ Go(u, "accept") /\ UNCHANGED <<source, backups>> /\ at[u] = "record"
        /\ records' = records \cup {job[u].id}
    BY <1>5 DEF WriteRecord
  <2>2. /\ at' \in [Users -> {"idle"} \cup Waiting \cup Held] /\ at'[u] = "accept"
        /\ \A v \in Users \ {u} : at'[v] = at[v]
        /\ \A v \in Users : at'[v] \in Held <=> lock' = v
    BY <1>1, <1>2, <2>1, GoStep, LockedPlaces DEF TInv, Held
  <2>3. Grows /\ Ids' = Ids
    BY <1>1, <2>1 DEF Grows, Ids
  <2>4. job[u].id \in DOMAIN backups
    BY <1>2, <2>1 DEF JobsFit
  <2>5. JobsFit'
    BY <1>1, <1>2, <2>1, <2>2, <2>3, <2>4, JobsStep
  <2> QED BY <1>1, <1>2, <2>1, <2>2, <2>3, <2>4, <2>5, UserStepTypes DEF Disk
<1> QED BY <1>3, <1>4, <1>5

LEMMA CloseTypes ==
  ASSUME TInv, NEW u \in Users, Accept(u) \/ RecordReject(u) \/ Fail(u)
  PROVE  TInv'
<1> USE Parts
<1>1. /\ Done(u) /\ (lock = u \/ Free)
      /\ UNCHANGED <<gates, source, clock, proposals, backups, records>>
  BY DEF Accept, RecordReject, Fail, Places, Held, disk
<1>2. mishaps' \in 0..MaxMishaps
  BY BoundsAssumption DEF Accept, RecordReject, Fail, Disk
<1>3. UNCHANGED decisions \/ decisions' \in Seq([id : Ids, action : Actions])
  <2>1. CASE Fail(u)
    BY <2>1 DEF Fail, disk
  <2>2. CASE Accept(u) \/ RecordReject(u)
    <3>1. job[u].id \in Ids
          /\ (Append1(job[u].id, "accept") \/ Append1(job[u].id, "reject"))
      BY <2>2 DEF Accept, RecordReject, JobsFit
    <3> QED BY <3>1, AppendDecision DEF TInv, Actions
  <2> QED BY <2>1, <2>2
<1> QED BY <1>1, <1>2, <1>3, EndTypes

THEOREM StepTypes == TInv /\ [Next]_vars => TInv'
<1> SUFFICES ASSUME TInv, [Next]_vars PROVE TInv'
  OBVIOUS
<1>1. CASE PersistGate \/ InvalidateGate \/ EditSource \/ Tick
  BY <1>1, GateTypes
<1>2. ASSUME NEW u \in Users, Observe(u) \/ Confirm(u) \/ Reject(u) \/ GiveUp(u) PROVE TInv'
  BY <1>2, TakeUpTypes
<1>3. ASSUME NEW u \in Users, Work(u) \/ Fail(u) PROVE TInv'
  BY <1>3, ProposeTypes, SupersedeTypes, ValidateTypes, ApplyTypes, CloseTypes DEF Work
<1>4. CASE UNCHANGED vars
  BY <1>4 DEF vars, disk, TInv, TypeOK, JobsFit, Shaped, Ids
<1> QED BY <1>1, <1>2, <1>3, <1>4 DEF Next

\* The lock is held exactly while its holder is at work, and the ledger names only
\* proposals whose files exist.
THEOREM TypeCorrect == Spec => []TypeOK
<1>1. TInv => TypeOK
  BY DEF TInv
<1> QED BY <1>1, InitTypes, StepTypes, PTL DEF Spec

-----------------------------------------------------------------------------
(* ---- what the source says can be undone ---- *)

BackupsFit == \A id \in DOMAIN backups : backups[id][id.priority] = id.current

\* A text of the source: shipped, written by hand, or accounted for by a backup.
Accounted(s) ==
  \A p \in Priorities :
    \/ s[p] = Original[p] \/ s[p] \in Edits
    \/ \E id \in DOMAIN backups : id.priority = p /\ id.proposed = s[p]

\* What an apply has read is accounted for as the source was, and until it is
\* backed up it holds the value the proposal is about.
ReadsFit ==
  \A u \in Users :
    /\ at[u] \in {"backup", "splice"} => Accounted(job[u].raw)
    /\ at[u] = "backup" => job[u].raw[job[u].id.priority] = job[u].id.current

RestInv == BackupsFit /\ Accounted(source) /\ ReadsFit

LEMMA RestoreInit == Init => RestInv
<1> SUFFICES ASSUME Init PROVE RestInv
  OBVIOUS
<1>1. DOMAIN backups = {} /\ \A u \in Users : at[u] = "idle"
  BY DEF Init
<1> QED BY <1>1 DEF Init, RestInv, BackupsFit, Accounted, ReadsFit

\* Steps that leave the backups alone, and the source, and whoever applies.
LEMMA RestoreQuiet ==
  ASSUME RestInv, UNCHANGED <<backups, source>>,
         \A v \in Users :
           \/ at'[v] \notin {"backup", "splice"}
           \/ at'[v] = at[v] /\ job'[v].raw = job[v].raw /\ job'[v].id = job[v].id
  PROVE  RestInv'
BY DEF RestInv, BackupsFit, Accounted, ReadsFit

LEMMA RestoreApply ==
  ASSUME TInv, RestInv, NEW u \in Users, Backup(u) \/ Splice(u)
  PROVE  RestInv'
<1>1. /\ \A v \in Users \ {u} : at[v] \notin Held /\ at'[v] = at[v]
      /\ UNCHANGED job /\ at[u] \in {"backup", "splice"}
  <2>1. lock = u /\ at[u] \in {"backup", "splice"} /\ UNCHANGED job
        /\ (Go(u, "splice") \/ Go(u, "record"))
    BY DEF Backup, Splice, TInv, TypeOK, Held
  <2>2. \A v \in Users \ {u} : at'[v] = at[v]
    BY <2>1, GoStep DEF TInv, Held
  <2> QED BY <2>1, <2>2 DEF TInv, TypeOK
<1>2. CASE Backup(u)
  <2> DEFINE id == job[u].id
  <2>1. /\ DOMAIN backups' = DOMAIN backups \cup {id} /\ backups'[id] = job[u].raw
        /\ \A x \in DOMAIN backups \ {id} : backups'[x] = backups[x]
    BY <1>2 DEF Backup, With
  <2>2. Accounted(job[u].raw) /\ job[u].raw[id.priority] = id.current /\ UNCHANGED source
    BY <1>2 DEF Backup, RestInv, ReadsFit
  <2>3. BackupsFit'
    BY <2>1, <2>2 DEF RestInv, BackupsFit
  <2>4. Accounted(source)' /\ Accounted(job[u].raw)'
    BY <1>1, <2>1, <2>2 DEF RestInv, Accounted
  <2>5. at'[u] = "splice"
    BY <1>2, GoStep DEF Backup, Held, TInv
  <2>6. ReadsFit'
    BY <1>1, <2>4, <2>5 DEF ReadsFit, Held
  <2> QED BY <2>3, <2>4, <2>6 DEF RestInv
<1>3. CASE Splice(u)
  <2> DEFINE id == job[u].id
  <2>1. /\ id \in DOMAIN backups /\ DOMAIN job[u].raw = Priorities /\ UNCHANGED backups
        /\ source' = [job[u].raw EXCEPT ![id.priority] = id.proposed]
        /\ Accounted(job[u].raw)
    BY <1>3 DEF Splice, disk, TInv, JobsFit, RestInv, ReadsFit
  <2>2. BackupsFit'
    BY <2>1 DEF RestInv, BackupsFit
  <2>3. Accounted(source)'
    <3> SUFFICES ASSUME NEW p \in Priorities
                 PROVE  \/ source'[p] = Original[p] \/ source'[p] \in Edits
                        \/ \E x \in DOMAIN backups : x.priority = p /\ x.proposed = source'[p]
      BY <2>1 DEF Accounted
    <3>1. CASE p = id.priority
      BY <2>1, <3>1
    <3>2. CASE p # id.priority
      BY <2>1, <3>2 DEF Accounted
    <3> QED BY <3>1, <3>2
  <2>4. at'[u] = "record"
    BY <1>3, GoStep DEF Splice, Held, TInv
  <2>5. ReadsFit'
    BY <1>1, <2>4 DEF ReadsFit, Held
  <2> QED BY <2>2, <2>3, <2>5 DEF RestInv
<1> QED BY <1>2, <1>3

\* Every other step of a user moves nobody but itself, and itself into an apply only
\* by validating what the source says.
LEMMA RestoreOther ==
  ASSUME TInv, RestInv, NEW u \in Users,
         \/ Observe(u) \/ Confirm(u) \/ Reject(u) \/ GiveUp(u) \/ Fail(u)
         \/ Propose(u) \/ Supersede(u) \/ WriteRecord(u) \/ Accept(u) \/ RecordReject(u)
  PROVE  RestInv'
<1>1. UNCHANGED <<backups, source>>
  BY DEF Observe, Confirm, Reject, GiveUp, Fail, Propose, Supersede, WriteRecord, Accept,
         RecordReject, disk
<1>2. \A v \in Users \ {u} : at'[v] = at[v] /\ job'[v] = job[v]
  BY DEF Observe, Confirm, Reject, GiveUp, Fail, Propose, Supersede, WriteRecord, Accept,
         RecordReject, Done, Go, TInv, TypeOK, JobsFit
<1>3. at'[u] \notin {"backup", "splice"}
  BY DEF Observe, Confirm, Reject, GiveUp, Fail, Propose, Supersede, WriteRecord, Accept,
         RecordReject, Done, Go, TInv, TypeOK
<1> QED BY <1>1, <1>2, <1>3, RestoreQuiet

LEMMA RestoreValidate == ASSUME TInv, RestInv, NEW u \in Users, Validate(u) PROVE RestInv'
<1> DEFINE id == job[u].id
           why == Refusal(proposals, id, job[u].slug, clock, source)
           k == [job[u] EXCEPT !.raw = source]
<1>1. UNCHANGED <<backups, source>> /\ at[u] = "confirming" /\ id \in Ids /\ Shaped(job[u])
  BY DEF Validate, TInv, JobsFit
<1>2. CASE why = "none"
  <2>1. job' = [job EXCEPT ![u] = k] /\ Go(u, "backup")
    BY <1>2 DEF Validate
  <2>2. k = [id |-> id, slug |-> job[u].slug, raw |-> source, todo |-> job[u].todo]
    BY <1>1, SetJob
  <2>3. source[id.priority] = id.current
    <3>1. source[id.priority] # id.current => why # "none"
      BY DEF Refusal
    <3> QED BY <1>2, <3>1
  <2> HIDE DEF k, why
  <2>4. /\ job'[u] = k /\ \A v \in Users \ {u} : job'[v] = job[v]
        /\ at'[u] = "backup" /\ \A v \in Users \ {u} : at'[v] = at[v]
    BY <2>1, JobStep, GoStep, ZenonT(30) DEF TInv, Held
  <2>5. k.raw = source /\ k.id = id
    BY <2>2
  <2>6. BackupsFit' /\ Accounted(source)'
    BY <1>1 DEF RestInv, BackupsFit, Accounted
  <2>7. ReadsFit'
    <3>1. ASSUME NEW v \in Users \ {u}
          PROVE  /\ at'[v] \in {"backup", "splice"} => Accounted(job[v].raw)'
                 /\ at'[v] = "backup" => job'[v].raw[job'[v].id.priority] = job'[v].id.current
      BY <1>1, <2>4 DEF RestInv, ReadsFit, Accounted
    <3>2. Accounted(job[u].raw)' /\ job'[u].raw[job'[u].id.priority] = job'[u].id.current
      BY <1>1, <2>3, <2>4, <2>5, <2>6 DEF Accounted
    <3> QED BY <3>1, <3>2 DEF ReadsFit
  <2> QED BY <2>6, <2>7 DEF RestInv
<1>3. CASE why # "none"
  <2>1. Done(u) /\ Free
    BY <1>3 DEF Validate
  <2>2. at'[u] = "idle" /\ \A v \in Users \ {u} : at'[v] = at[v] /\ job'[v] = job[v]
    BY <2>1, DoneStep
  <2> QED BY <1>1, <2>2, RestoreQuiet
<1> QED BY <1>2, <1>3

LEMMA RestoreStep == TInv /\ RestInv /\ [Next]_vars => RestInv'
<1> SUFFICES ASSUME TInv, RestInv, [Next]_vars PROVE RestInv'
  OBVIOUS
<1>1. CASE PersistGate \/ InvalidateGate \/ Tick \/ UNCHANGED vars
  <2>1. UNCHANGED <<backups, source, at, job>>
    BY <1>1 DEF PersistGate, InvalidateGate, Tick, vars, disk
  <2> QED BY <2>1, RestoreQuiet
<1>2. CASE EditSource
  <2>1. /\ UNCHANGED <<backups, at, job>>
        /\ \E p \in Priorities, v \in Edits : source' = [source EXCEPT ![p] = v]
    BY <1>2 DEF EditSource, disk
  <2>2. Accounted(source)'
    BY <2>1 DEF RestInv, Accounted, TInv, TypeOK
  <2> QED BY <2>1, <2>2 DEF RestInv, BackupsFit, ReadsFit, Accounted
<1>3. ASSUME NEW u \in Users,
             Observe(u) \/ Confirm(u) \/ Reject(u) \/ Work(u) \/ Fail(u) \/ GiveUp(u)
      PROVE  RestInv'
  BY <1>3, RestoreApply, RestoreOther, RestoreValidate DEF Work
<1> QED BY <1>1, <1>2, <1>3 DEF Next

\* Whatever a threshold says, it was shipped, or written by hand, or a backup on disk
\* holds the value the proposal that put it there replaced.
THEOREM SourceIsRestorable == Spec => []Restorable
<1>1. RestInv => Restorable
  BY DEF RestInv, BackupsFit, Accounted, Restorable
<1> QED BY <1>1, InitTypes, StepTypes, RestoreInit, RestoreStep, PTL DEF Spec

-----------------------------------------------------------------------------
(* ---- the ledger tells the truth ---- *)

\* What a proposer still has to supersede was not decided meanwhile: the lock is its own.
TodoIsOpen ==
  \A u \in Users : at[u] = "superseding" =>
    \A id \in job[u].todo : ~LatestIs(decisions, id, {"accept", "reject"})

LedgerInv == LedgerIsHonest /\ TodoIsOpen

LEMMA LedgerInit == Init => LedgerInv
<1> SUFFICES ASSUME Init PROVE LedgerInv
  OBVIOUS
<1>1. DOMAIN decisions = {} /\ \A u \in Users : at[u] = "idle"
  BY DEF Init
<1> QED BY <1>1 DEF LedgerInv, LedgerIsHonest, TodoIsOpen

\* An honest line keeps the ledger honest.
LEMMA AppendHonest ==
  ASSUME TypeOK, LedgerIsHonest, records \subseteq records', NEW id \in Ids,
         NEW action \in Actions, Append1(id, action),
         action = "superseded" => ~LatestIs(decisions, id, {"accept", "reject"}),
         action = "accept" => id \in records'
  PROVE  LedgerIsHonest'
<1> DEFINE d == [id |-> id, action |-> action]
<1>1. decisions \in Seq([id : Ids, action : Actions]) /\ decisions' = Append(decisions, d)
      /\ d \in [id : Ids, action : Actions]
  BY DEF TypeOK, Append1
<1>2. /\ DOMAIN decisions' = 1..(Len(decisions) + 1) /\ DOMAIN decisions = 1..Len(decisions)
      /\ Len(decisions) \in Nat
      /\ \A i \in 1..Len(decisions) : decisions'[i] = decisions[i]
      /\ decisions'[Len(decisions) + 1] = d
  BY <1>1, AppendFacts
<1>3. ASSUME NEW i \in 1..(Len(decisions) + 1)
      PROVE  SubSeq(decisions', 1, i - 1) = SubSeq(decisions, 1, i - 1)
  <2> HIDE DEF d
  <2> QED BY <1>1, AppendPrefix
<1>4. SubSeq(decisions, 1, Len(decisions)) = decisions
  BY <1>1, WholePrefix
<1>5. ASSUME NEW i \in DOMAIN decisions', decisions'[i].action = "superseded"
      PROVE  ~LatestIs(SubSeq(decisions', 1, i - 1), decisions'[i].id, {"accept", "reject"})
  <2>1. CASE i = Len(decisions) + 1
    <3>1. SubSeq(decisions', 1, i - 1) = decisions
      BY <1>2, <1>3, <1>4, <2>1
    <3>2. decisions'[i].id = id /\ action = "superseded"
      BY <1>2, <1>5, <2>1
    <3> QED BY <3>1, <3>2
  <2>2. CASE i # Len(decisions) + 1
    <3>1. i \in DOMAIN decisions /\ decisions'[i] = decisions[i]
      BY <1>2, <2>2
    <3>2. SubSeq(decisions', 1, i - 1) = SubSeq(decisions, 1, i - 1)
      BY <1>2, <1>3
    <3> QED BY <1>5, <3>1, <3>2 DEF LedgerIsHonest
  <2> QED BY <2>1, <2>2
<1>6. ASSUME NEW i \in DOMAIN decisions', decisions'[i].action = "accept"
      PROVE  decisions'[i].id \in records'
  <2>1. CASE i = Len(decisions) + 1
    BY <1>2, <1>6, <2>1
  <2>2. CASE i # Len(decisions) + 1
    BY <1>2, <1>6, <2>2 DEF LedgerIsHonest
  <2> QED BY <2>1, <2>2
<1> QED BY <1>5, <1>6 DEF LedgerIsHonest

\* Steps that add nothing to the ledger.
LEMMA LedgerQuiet ==
  ASSUME LedgerInv, UNCHANGED decisions, records \subseteq records',
         \A v \in Users :
           at'[v] # "superseding" \/ (at'[v] = at[v] /\ job'[v].todo = job[v].todo)
  PROVE  LedgerInv'
BY DEF LedgerInv, LedgerIsHonest, TodoIsOpen

\* A command ends with one honest line or none; nobody else holds the lock.
LEMMA LedgerEnds ==
  ASSUME TInv, LedgerInv, NEW u \in Users, Done(u), lock = u \/ Free, UNCHANGED records,
         \/ UNCHANGED decisions
         \/ \E id \in Ids, action \in Actions \ {"superseded"} :
              Append1(id, action) /\ (action = "accept" => id \in records)
  PROVE  LedgerInv'
<1>1. \A v \in Users : at'[v] # "superseding"
  BY DoneStep, UsersAssumption DEF Done, Held
<1>2. LedgerIsHonest'
  BY AppendHonest DEF LedgerInv, TInv, LedgerIsHonest
<1> QED BY <1>1, <1>2 DEF LedgerInv, TodoIsOpen

LEMMA LedgerPropose == ASSUME TInv, LedgerInv, NEW u \in Users, Propose(u) PROVE LedgerInv'
<1> DEFINE id == job[u].id
           k == [job[u] EXCEPT !.todo = Pending(proposals, decisions, id)]
<1>1. UNCHANGED <<decisions, records>> /\ Free
  BY DEF Propose
<1>2. CASE Done(u)
  BY <1>1, <1>2, LedgerEnds
<1>3. CASE job' = [job EXCEPT ![u] = k] /\ Go(u, "superseding")
  <2>1. k = [id |-> id, slug |-> job[u].slug, raw |-> job[u].raw,
             todo |-> Pending(proposals, decisions, id)]
    BY SetJob DEF TInv, JobsFit
  <2> HIDE DEF k
  <2>2. /\ job'[u] = k /\ \A v \in Users \ {u} : job'[v] = job[v]
        /\ \A v \in Users \ {u} : at'[v] = at[v]
    BY <1>3, JobStep, GoStep, ZenonT(30) DEF TInv, Held
  <2>3. \A x \in k.todo : ~LatestIs(decisions, x, {"accept", "reject"})
    BY <2>1 DEF Pending
  <2> QED BY <1>1, <2>2, <2>3 DEF LedgerInv, LedgerIsHonest, TodoIsOpen
<1> QED BY <1>2, <1>3 DEF Propose

LEMMA LedgerSupersede == ASSUME TInv, LedgerInv, NEW u \in Users, Supersede(u) PROVE LedgerInv'
<1>1. UNCHANGED records /\ at[u] = "superseding" /\ lock = u
  BY DEF Supersede, TInv, TypeOK, Held
<1>2. CASE Done(u) /\ UNCHANGED decisions
  BY <1>1, <1>2, LedgerEnds
<1>3. ASSUME NEW id \in job[u].todo, job' = [job EXCEPT ![u].todo = @ \ {id}],
             Append1(id, "superseded") \/ UNCHANGED decisions, UNCHANGED at
      PROVE  LedgerInv'
  <2>1. /\ id \in Ids /\ Shaped(job[u]) /\ ~LatestIs(decisions, id, {"accept", "reject"})
        /\ \A v \in Users \ {u} : at'[v] # "superseding"
    BY <1>1, <1>3 DEF TInv, TypeOK, JobsFit, LedgerInv, TodoIsOpen, Held
  <2>2. job'[u].todo = job[u].todo \ {id}
    <3> DEFINE k == [job[u] EXCEPT !.todo = @ \ {id}]
    <3>1. k = [id |-> job[u].id, slug |-> job[u].slug, raw |-> job[u].raw,
               todo |-> job[u].todo \ {id}]
      BY <2>1, SetJob
    <3>2. job' = [job EXCEPT ![u] = k]
      BY <1>3
    <3> HIDE DEF k
    <3>3. job'[u] = k
      BY <3>2, JobStep DEF TInv
    <3> QED BY <3>1, <3>3
  <2>3. LedgerIsHonest'
    <3>1. CASE Append1(id, "superseded")
      BY <1>1, <2>1, <3>1, AppendHonest DEF TInv, LedgerInv, Actions
    <3> QED BY <1>1, <1>3, <3>1 DEF LedgerInv, LedgerIsHonest
  <2>4. ASSUME NEW x \in job[u].todo \ {id}
        PROVE  ~LatestIs(decisions', x, {"accept", "reject"})
    <3>1. ~LatestIs(decisions, x, {"accept", "reject"})
      BY <1>1 DEF LedgerInv, TodoIsOpen
    <3>2. CASE Append1(id, "superseded")
      <4> DEFINE d == [id |-> id, action |-> "superseded"]
      <4>1. decisions' = Append(decisions, d) /\ d.id # x
        BY <3>2 DEF Append1
      <4>2. decisions \in Seq([id : Ids, action : Actions])
        BY DEF TInv, TypeOK
      <4> HIDE DEF d
      <4> QED BY <3>1, <4>1, <4>2, LatestAfter
    <3> QED BY <1>3, <3>1, <3>2
  <2> QED BY <2>1, <2>2, <2>3, <2>4 DEF LedgerInv, TodoIsOpen
<1> QED BY <1>2, <1>3 DEF Supersede

\* Steps of a user that leave the ledger alone or close with a line of their own.
LEMMA LedgerOther ==
  ASSUME TInv, LedgerInv, NEW u \in Users,
         \/ Observe(u) \/ Confirm(u) \/ Reject(u) \/ GiveUp(u) \/ Fail(u) \/ Validate(u)
         \/ Backup(u) \/ Splice(u) \/ WriteRecord(u) \/ Accept(u) \/ RecordReject(u)
  PROVE  LedgerInv'
<1>1. CASE Observe(u) \/ Confirm(u) \/ Reject(u) \/ GiveUp(u) \/ Backup(u) \/ Splice(u)
           \/ WriteRecord(u)
  <2>1. UNCHANGED decisions /\ records \subseteq records'
    BY <1>1 DEF Observe, Confirm, Reject, GiveUp, Backup, Splice, WriteRecord, disk
  <2>2. at'[u] # "superseding" /\ \A v \in Users \ {u} : at'[v] = at[v] /\ job'[v] = job[v]
    BY <1>1 DEF Observe, Confirm, Reject, GiveUp, Backup, Splice, WriteRecord, Go, TInv,
                TypeOK, JobsFit
  <2> QED BY <2>1, <2>2, LedgerQuiet
<1>2. CASE Validate(u)
  <2> DEFINE why == Refusal(proposals, job[u].id, job[u].slug, clock, source)
  <2>1. job[u].id \in Ids /\ Free /\ UNCHANGED records
    BY <1>2 DEF Validate, TInv, JobsFit
  <2>2. CASE why = "none"
    <3>1. /\ job' = [job EXCEPT ![u].raw = source] /\ Go(u, "backup") /\ UNCHANGED decisions
      BY <1>2, <2>2 DEF Validate
    <3>2. at'[u] # "superseding" /\ \A v \in Users \ {u} : at'[v] = at[v] /\ job'[v] = job[v]
      BY <3>1 DEF Go, TInv, TypeOK, JobsFit
    <3> QED BY <2>1, <3>1, <3>2, LedgerQuiet
  <2>3. CASE why # "none"
    <3>1. Done(u) /\ (UNCHANGED decisions \/ Append1(job[u].id, "confirm_failed"))
      BY <1>2, <2>3 DEF Validate
    <3> QED BY <2>1, <3>1, LedgerEnds DEF Actions
  <2> QED BY <2>2, <2>3
<1>3. CASE Accept(u) \/ RecordReject(u) \/ Fail(u)
  <2>1. Done(u) /\ (lock = u \/ Free) /\ UNCHANGED records
    BY <1>3 DEF Accept, RecordReject, Fail, TInv, TypeOK, Held, disk
  <2>2. CASE Fail(u)
    BY <2>1, <2>2, LedgerEnds DEF Fail, disk
  <2>3. CASE Accept(u)
    <3>1. job[u].id \in records /\ job[u].id \in Ids /\ Append1(job[u].id, "accept")
      BY <2>3 DEF Accept, TInv, JobsFit
    <3> QED BY <2>1, <3>1, LedgerEnds DEF Actions
  <2>4. CASE RecordReject(u)
    <3>1. job[u].id \in Ids /\ Append1(job[u].id, "reject")
      BY <2>4 DEF RecordReject, TInv, JobsFit
    <3> QED BY <2>1, <3>1, LedgerEnds DEF Actions
  <2> QED BY <1>3, <2>2, <2>3, <2>4
<1> QED BY <1>1, <1>2, <1>3

LEMMA LedgerStep == TInv /\ LedgerInv /\ [Next]_vars => LedgerInv'
<1> SUFFICES ASSUME TInv, LedgerInv, [Next]_vars PROVE LedgerInv'
  OBVIOUS
<1>1. CASE PersistGate \/ InvalidateGate \/ EditSource \/ Tick \/ UNCHANGED vars
  <2>1. UNCHANGED <<decisions, records, at, job>>
    BY <1>1 DEF PersistGate, InvalidateGate, EditSource, Tick, vars, disk
  <2> QED BY <2>1, LedgerQuiet
<1>2. ASSUME NEW u \in Users,
             Observe(u) \/ Confirm(u) \/ Reject(u) \/ Work(u) \/ Fail(u) \/ GiveUp(u)
      PROVE  LedgerInv'
  BY <1>2, LedgerPropose, LedgerSupersede, LedgerOther DEF Work
<1> QED BY <1>1, <1>2 DEF Next

\* No proposer's supersede hides an outcome an operator recorded, however they
\* interleave and fail, and every accept has its record.
THEOREM LedgerStaysHonest == Spec => []LedgerIsHonest
<1>1. LedgerInv => LedgerIsHonest
  BY DEF LedgerInv
<1> QED BY <1>1, InitTypes, StepTypes, LedgerInit, LedgerStep, PTL DEF Spec

-----------------------------------------------------------------------------
\* A printed slug stays the slug: proposals are added and never rewritten.
THEOREM SlugsAreKept == Spec => SlugsStick
<1>1. [Next]_vars =>
        [\A id \in Ids : id \in DOMAIN proposals' /\ proposals'[id] = proposals[id]]_vars
  <2> SUFFICES ASSUME [Next]_vars
               PROVE  \A id \in Ids : id \in DOMAIN proposals' /\ proposals'[id] = proposals[id]
    OBVIOUS
  <2>1. ASSUME NEW u \in Users, Propose(u)
        PROVE  UNCHANGED proposals
               \/ \E id, v : id \notin DOMAIN proposals /\ proposals' = With(proposals, id, v)
    BY <2>1 DEF Propose
  <2>2. \/ UNCHANGED proposals
        \/ \E id, v : id \notin DOMAIN proposals /\ proposals' = With(proposals, id, v)
    BY <2>1 DEF Next, PersistGate, InvalidateGate, EditSource, Tick, Observe, Confirm, Reject,
                Work, Supersede, Validate, Backup, Splice, WriteRecord, Accept, RecordReject,
                Fail, GiveUp, vars, disk
  <2> QED BY <2>2 DEF With, Ids
<1> QED BY <1>1, PTL DEF Spec, SlugsStick

LEMMA Least == ASSUME NEW S \in SUBSET Nat, S # {} PROVE \E m \in S : \A n \in S : m <= n
<1> DEFINE R == OpToRel(<, Nat)
<1>1. IsWellFoundedOn(R, Nat)
  BY NatLessThanWellFounded
<1>2. \A x, y \in Nat : y < x => <<y, x>> \in R
  BY DEF OpToRel
<1> HIDE DEF R
<1>3. PICK m \in S : \A n \in S : ~ (<<n, m>> \in R)
  BY <1>1, WFMin
<1>4. \A n \in S : m <= n
  <2> SUFFICES ASSUME NEW n \in S, ~ (m <= n) PROVE FALSE
    OBVIOUS
  <2>1. n < m /\ m \in Nat /\ n \in Nat
    OBVIOUS
  <2> QED BY <1>2, <1>3, <2>1
<1> QED BY <1>4

(* ---- what a window proposes ---- *)

Covered(s, N) == \A n \in 1..N : s[n].coverage \in Percent
\* The sums of the first files of a window.
Sums(s, N, sum) == sum = [n \in 0..N |-> IF n = 0 THEN 0 ELSE sum[n - 1] + s[n].coverage]

LEMMA SumsExist == ASSUME NEW s, NEW N \in Nat PROVE \E sum : Sums(s, N, sum)
<1> DEFINE D == {n \in Nat : ~ \E sum : Sums(s, n, sum)}
<1> SUFFICES ASSUME D # {} PROVE FALSE
  OBVIOUS
<1>1. PICK n \in D : \A k \in D : n <= k
  <2>1. D \in SUBSET Nat
    OBVIOUS
  <2> HIDE DEF D
  <2> QED BY <2>1, Least
<1>2. CASE n = 0
  <2>1. PICK sum : sum = [k \in 0..0 |-> 0]
    OBVIOUS
  <2>2. Sums(s, n, sum)
    BY <1>2, <2>1 DEF Sums
  <2> QED BY <1>1, <2>2
<1>3. CASE n # 0
  <2>1. n - 1 \in Nat /\ ~ (n <= n - 1) /\ n \in Nat
    BY <1>1, <1>3
  <2>2. PICK before : Sums(s, n - 1, before)
    BY <1>1, <2>1
  <2>3. PICK sum : sum = [k \in 0..n |-> IF k # n THEN before[k] ELSE before[k - 1] + s[k].coverage]
    OBVIOUS
  <2>4. ASSUME NEW k \in 0..n PROVE sum[k] = IF k = 0 THEN 0 ELSE sum[k - 1] + s[k].coverage
    <3>1. k # n => k \in 0..(n - 1) /\ sum[k] = before[k]
      BY <2>1, <2>3
    <3>2. k # 0 => k - 1 \in 0..n /\ k - 1 # n /\ sum[k - 1] = before[k - 1]
      BY <2>1, <2>3
    <3>3. k = n => sum[k] = before[k - 1] + s[k].coverage
      BY <2>3
    <3>4. k # n => before[k] = IF k = 0 THEN 0 ELSE before[k - 1] + s[k].coverage
      BY <2>2, <3>1 DEF Sums
    <3> QED BY <1>3, <3>1, <3>2, <3>3, <3>4
  <2>5. sum = [k \in 0..n |-> sum[k]]
    BY <2>3
  <2>6. Sums(s, n, sum)
    BY <2>4, <2>5 DEF Sums
  <2> QED BY <1>1, <2>6
<1> QED BY <1>2, <1>3

LEMMA SumsBounded ==
  ASSUME NEW s, NEW N \in Nat, Covered(s, N), NEW sum, Sums(s, N, sum)
  PROVE  sum[N] \in 0..(100 * N)
<1> DEFINE D == {n \in 0..N : sum[n] \notin 0..(100 * n)}
<1>1. ASSUME D # {} PROVE FALSE
  <2>1. PICK n \in D : \A k \in D : n <= k
    <3>1. D \in SUBSET Nat
      OBVIOUS
    <3> HIDE DEF D
    <3> QED BY <1>1, <3>1, Least
  <2>2. n # 0
    <3>1. 0 \in 0..N
      OBVIOUS
    <3>2. sum[0] = 0
      BY <3>1 DEF Sums
    <3> QED BY <2>1, <3>2
  <2>3. n \in 1..N /\ n - 1 \in 0..N /\ ~ (n <= n - 1)
    BY <2>1, <2>2
  <2>4. sum[n - 1] \in 0..(100 * (n - 1))
    BY <2>1, <2>3
  <2>5. sum[n] = sum[n - 1] + s[n].coverage /\ s[n].coverage \in 0..100
    <3>1. s[n].coverage \in 0..100
      BY <2>3 DEF Covered, Percent
    <3>2. n \in 0..N /\ n # 0
      BY <2>3
    <3>3. sum[n] = IF n = 0 THEN 0 ELSE sum[n - 1] + s[n].coverage
      BY <3>2 DEF Sums
    <3> QED BY <3>1, <3>2, <3>3
  <2>6. sum[n] \in 0..(100 * n)
    BY <2>3, <2>4, <2>5
  <2> QED BY <2>1, <2>6
<1>2. N \in 0..N
  OBVIOUS
<1> QED BY <1>1, <1>2

LEMMA QuotientBounds ==
  ASSUME NEW S \in Int, NEW N \in Nat \ {0}, NEW a \in Int, NEW b \in Int, a * N <= S, S <= b * N
  PROVE  S \div N \in a..b
<1>1. PICK q \in Int : q = S \div N
  OBVIOUS
<1>2. PICK r \in 0..(N - 1) : S = q * N + r
  <2>1. S % N \in 0..(N - 1) /\ S = N * (S \div N) + (S % N)
    OBVIOUS
  <2>2. N * q = q * N
    OBVIOUS
  <2> QED BY <1>1, <2>1, <2>2
<1>3. q < a => FALSE
  <2> SUFFICES ASSUME q + 1 <= a PROVE FALSE
    OBVIOUS
  <2>1. (q + 1) * N <= a * N
    OBVIOUS
  <2>2. (q + 1) * N = q * N + N
    OBVIOUS
  <2> QED BY <1>2, <2>1, <2>2
<1>4. q > b => FALSE
  <2> SUFFICES ASSUME b + 1 <= q PROVE FALSE
    OBVIOUS
  <2>1. (b + 1) * N <= q * N
    OBVIOUS
  <2>2. (b + 1) * N = b * N + N
    OBVIOUS
  <2> QED BY <1>2, <2>1, <2>2
<1> QED BY <1>1, <1>3, <1>4

LEMMA MeanIsPercent ==
  ASSUME NEW s, Len(s) \in Nat \ {0}, Covered(s, Len(s))
  PROVE  MeanFloor(s) \in Percent /\ MeanCeil(s) \in Percent
<1>1. PICK N \in Nat \ {0} : N = Len(s)
  OBVIOUS
<1>2. SumOf(s) \in 0..(100 * N)
  <2> DEFINE sum == CHOOSE sum : Sums(s, N, sum)
  <2>1. SumOf(s) = sum[N]
    BY <1>1 DEF SumOf, Sums
  <2>2. Sums(s, N, sum)
    BY <1>1, SumsExist
  <2> HIDE DEF sum
  <2> QED BY <1>1, <2>1, <2>2, SumsBounded
<1>3. PICK S \in Nat : S = SumOf(s) /\ S <= 100 * N
  BY <1>2
<1>4. S \div N \in 0..100
  <2>1. S \in Int /\ 0 * N <= S /\ S <= 100 * N /\ 0 \in Int /\ 100 \in Int
    BY <1>3
  <2> QED BY <2>1, QuotientBounds
<1>5. -((-S) \div N) \in 0..100
  <2>1. -S \in Int /\ (-100) * N <= -S /\ -S <= 0 * N /\ -100 \in Int
    BY <1>3
  <2>2. (-S) \div N \in (-100)..0
    BY <2>1, QuotientBounds
  <2>3. PICK q \in (-100)..0 : q = (-S) \div N
    BY <2>2
  <2> QED BY <2>3
<1> QED BY <1>1, <1>3, <1>4, <1>5 DEF MeanFloor, MeanCeil, Percent

\* Whatever a window measured and wherever the threshold stands, a proposal moves it
\* by MaxDelta at most, towards the mean and not past it, and to a percentage
\* (_compute_proposed_value, threshold_proposer.py).
THEOREM ProposedStepIsClamped ==
  ASSUME NEW window, Len(window) \in Nat \ {0},
         \A i \in 1..Len(window) : window[i].coverage \in Percent, NEW current \in Percent
  PROVE  StepIsClamped(window, current)
<1> DEFINE tail == TailOf(window, Consecutive)
           passes == \A i \in DOMAIN tail : tail[i].coverage >= current
           fails == \A i \in DOMAIN tail : tail[i].coverage < current
           v == ComputeProposedValue(window, current)
<1>1. PICK up \in Percent : up = MeanCeil(window)
  BY MeanIsPercent DEF Covered
<1>2. PICK down \in Percent : down = MeanFloor(window)
  BY MeanIsPercent DEF Covered
<1> DEFINE rise == IF up - current > MaxDelta THEN MaxDelta ELSE up - current
           drop == IF current - down > MaxDelta THEN MaxDelta ELSE current - down
           rises == passes /\ up - current > 0
           drops == fails /\ current - down > 0
<1>3. v = CASE rises -> current + rise [] drops -> current - drop [] OTHER -> None
  BY <1>1, <1>2 DEF ComputeProposedValue
<1>4. rises => rise \in 1..MaxDelta /\ rise <= up - current
  <2>1. up - current \in Int /\ MaxDelta \in Nat \ {0}
    BY ProposerAssumption DEF Percent
  <2>2. PICK n \in Int : n = up - current
    BY <2>1
  <2>3. n > 0 => (IF n > MaxDelta THEN MaxDelta ELSE n) \in 1..MaxDelta
                 /\ (IF n > MaxDelta THEN MaxDelta ELSE n) <= n
    BY <2>1
  <2> QED BY <2>2, <2>3
<1>5. drops => drop \in 1..MaxDelta /\ drop <= current - down
  <2>1. current - down \in Int /\ MaxDelta \in Nat \ {0}
    BY ProposerAssumption DEF Percent
  <2>2. PICK n \in Int : n = current - down
    BY <2>1
  <2>3. n > 0 => (IF n > MaxDelta THEN MaxDelta ELSE n) \in 1..MaxDelta
                 /\ (IF n > MaxDelta THEN MaxDelta ELSE n) <= n
    BY <2>1
  <2> QED BY <2>2, <2>3
<1> HIDE DEF rise, drop, rises, drops, v
<1>6. CASE rises /\ v = current + rise
  <2>1. PICK k \in 1..MaxDelta : v = current + k /\ k <= up - current
    BY <1>4, <1>6
  <2>2. v \in Percent /\ v > current /\ up >= v /\ v - current = k
    BY <2>1, ProposerAssumption DEF Percent
  <2>3. k \in (-MaxDelta..MaxDelta) \ {0}
    BY ProposerAssumption
  <2> QED BY <1>1, <2>2, <2>3 DEF StepIsClamped, v
<1>7. CASE drops /\ v = current - drop
  <2>1. PICK k \in 1..MaxDelta : v = current - k /\ k <= current - down
    BY <1>5, <1>7
  <2>2. v \in Percent /\ ~ (v > current) /\ down <= v /\ v - current = -k
    BY <2>1, ProposerAssumption DEF Percent
  <2>3. -k \in (-MaxDelta..MaxDelta) \ {0}
    BY ProposerAssumption
  <2> QED BY <1>2, <2>2, <2>3 DEF StepIsClamped, v
<1>8. CASE v = None
  BY <1>8 DEF StepIsClamped, v
<1> QED BY <1>3, <1>6, <1>7, <1>8
=============================================================================
