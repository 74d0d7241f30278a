-------------------------- MODULE MCCollectorPool --------------------------
(***************************************************************************)
(* Instances of CollectorPool for TLC.                                     *)
(***************************************************************************)
EXTENDS CollectorPool

AllFaults == FaultKinds

\* The profile the collectors are chosen by: its layers, with values where
\* another layer has objects and the other way round.
P == INSTANCE Profile
Security == {P!Leaf("int", 0), P!Leaf("int", 1), P!Empty,
             P!Obj([max |-> P!Leaf("int", 0)]), P!Obj([max |-> P!Leaf("int", 1)]),
             P!Obj([min |-> P!Leaf("int", 2)])}
Waived == {P!Leaf("strings", s) : s \in SUBSET {"docs", "static"}}
LayersOf(keys) ==
  LET Values(k) == IF k = "rules" THEN {P!Obj([security |-> v]) : v \in Security} \cup {P!Empty}
                   ELSE IF k = "categories_na" THEN Waived ELSE {P!Leaf("string", "a"), P!Leaf("string", "b")}
  IN  {P!Obj(f) : f \in {g \in [keys -> UNION {Values(k) : k \in keys}] : \A k \in keys : g[k] \in Values(k)}}
Layers == UNION {LayersOf(keys) : keys \in {{}, {"rules"}, {"id", "rules"}, {"rules", "categories_na"}}}
Matrix(c) == P!Obj([q \in P!Priorities |->
  P!Obj([coverage_pct |-> P!Leaf("int", c), levels |-> P!Leaf("strings", {"unit"})])])
Whole(version, c, ref, hours) ==
  P!Obj([version |-> P!Leaf("int", version), id |-> P!Leaf("string", "p"), matrix |-> Matrix(c),
         categories |-> P!Obj([code |-> P!Leaf("strings", {"docs"})]),
         timeouts |-> P!Obj([docs |-> P!Leaf("int", hours)]),
         snapshot |-> P!Obj([relativeDir |-> P!Leaf("string", ref)])])
Wholes == {Whole(v, c, r, h) : v \in 0..1, c \in {100, 101}, r \in {"", "in", "out"}, h \in 0..1}
ASSUME Sticking == \A base, over \in Layers : P!OverridesStick(base, over)
ASSUME Summaries == \A a, b, c \in LayersOf({"rules"}) \cup LayersOf({"id", "rules"}) : P!SummaryIsRight(<<a, b, c>>)
ASSUME Diffs == \A before, after \in Layers : P!DiffIsExact(before, after)
ASSUME Validity == \A base, over \in Wholes : P!ValidityIsKept(base, over)
ASSUME Snapshots == P!SnapshotsRoundTrip(Wholes, {"in"})
=============================================================================
