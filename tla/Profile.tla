------------------------------ MODULE Profile ------------------------------
(***************************************************************************)
(* The product profile a gate is judged by: how its layers are merged      *)
(* (core/profile_composer.py), what makes one valid, and the snapshot a    *)
(* gate pins (core/product_profile.py, core/profile_bridge.py).  A         *)
(* document is a tree: [obj |-> function from keys to documents], or       *)
(* [type, value] for anything else.                                        *)
(***************************************************************************)
EXTENDS Naturals, Sequences, FiniteSetsExt, SequencesExt

Obj(f) == [obj |-> f]
Leaf(type, value) == [type |-> type, value |-> value]
IsObj(node) == "obj" \in DOMAIN node
Is(node, type) == ~IsObj(node) /\ node.type = type
Empty == Obj([k \in {} |-> 0])

DictKeys == {"snapshot", "seed_template", "toolchain", "matrix", "categories", "rules",
             "invariants", "cost_tier", "timeouts", "forbidden_until"}
ListKeys == {"categories_na"}
TopLevelKeys == DictKeys \cup ListKeys \cup {"version", "id"}

-----------------------------------------------------------------------------
(* Layers.                                                                 *)

LayerShape(layer) ==
  /\ IsObj(layer) /\ DOMAIN layer.obj \subseteq TopLevelKeys
  /\ \A k \in DOMAIN layer.obj : /\ k \in DictKeys => IsObj(layer.obj[k])
                                 /\ k \in ListKeys => Is(layer.obj[k], "strings")

\* Objects are merged key by key; whatever else the later layer says replaces
\* what the earlier one said.
RECURSIVE DeepMerge(_, _)
DeepMerge(base, over) ==
  Obj([k \in DOMAIN base.obj \cup DOMAIN over.obj |->
         IF k \notin DOMAIN over.obj THEN base.obj[k]
         ELSE IF k \in DOMAIN base.obj /\ IsObj(base.obj[k]) /\ IsObj(over.obj[k])
              THEN DeepMerge(base.obj[k], over.obj[k])
              ELSE over.obj[k]])

\* The lists are united, so no layer takes back what an earlier one waived.
MergeLayer(base, over) ==
  LET merged == DeepMerge(base, over)
      United(k) == Leaf("strings", base.obj[k].value \cup over.obj[k].value)
  IN  Obj([k \in DOMAIN merged.obj |->
             IF k \in ListKeys /\ k \in DOMAIN base.obj /\ k \in DOMAIN over.obj
             THEN United(k) ELSE merged.obj[k]])

compose_profiles(layers) == FoldLeft(MergeLayer, Empty, layers)

\* The leaves of a document by their paths; an empty object counts as a leaf.
RECURSIVE Flatten(_)
Flatten(node) ==
  IF ~IsObj(node) \/ DOMAIN node.obj = {} THEN {<<<<>>, node>>}
  ELSE UNION {{<< <<k>> \o leaf[1], leaf[2]>> : leaf \in Flatten(node.obj[k])} : k \in DOMAIN node.obj}

\* The last layer that has a leaf at each path (profile_layer_summary).
LayerSummary(layers) ==
  LET Paths(i) == {leaf[1] : leaf \in Flatten(layers[i])}
  IN  [path \in UNION {Paths(i) : i \in DOMAIN layers} |-> Max({i \in DOMAIN layers : path \in Paths(i)})]

\* What changed between two profiles: paths only in the one, only in the
\* other, and in both with another value.
diff_profile(before, after) ==
  LET old == Flatten(before)
      new == Flatten(after)
      Paths(leaves) == {leaf[1] : leaf \in leaves}
  IN  [added   |-> Paths(new) \ Paths(old),
       removed |-> Paths(old) \ Paths(new),
       changed |-> {path \in Paths(old) \cap Paths(new) :
                      \E leaf \in old : leaf[1] = path /\ leaf \notin new}]

-----------------------------------------------------------------------------
(* Validity.                                                               *)

Priorities == {"P0", "P1", "P2", "P3"}
CodeCategories == {"correctness", "traceability", "test_quality", "mutation", "static", "security",
                   "compliance", "license", "supply_chain", "api_compat", "migrations", "performance",
                   "accessibility", "observability", "invariants", "agentic", "docs", "process"}
SystemCategories == {"reliability", "resilience", "durable_hitl", "blast_radius", "cost_to_serve",
                     "progressive_delivery", "cert_cadence"}
AllCategories == CodeCategories \cup SystemCategories

Has(node, k) == k \in DOMAIN node.obj
IntIn(node, range) == Is(node, "int") /\ node.value \in range
Text(node) == Is(node, "string") /\ node.value # ""
StringsIn(node, allowed) == Is(node, "strings") /\ node.value \subseteq allowed

VersionAndId(p) ==
  /\ Has(p, "version") /\ Is(p.obj["version"], "int") /\ p.obj["version"].value >= 1
  /\ Has(p, "id") /\ Text(p.obj["id"])

MatrixValid(matrix) ==
  /\ IsObj(matrix) /\ DOMAIN matrix.obj = Priorities
  /\ \A p \in Priorities : LET entry == matrix.obj[p] IN
       /\ IsObj(entry) /\ Has(entry, "coverage_pct") /\ Has(entry, "levels")
       /\ IntIn(entry.obj["coverage_pct"], 0..100) /\ Is(entry.obj["levels"], "strings")

CategoriesValid(categories) ==
  /\ IsObj(categories)
  /\ Has(categories, "code") => StringsIn(categories.obj["code"], CodeCategories)
  /\ Has(categories, "system") => StringsIn(categories.obj["system"], SystemCategories)

\* A tool is named; a toolchain maps languages to lists of tools.
ToolchainValid(toolchain) == \A language \in DOMAIN toolchain.obj : Is(toolchain.obj[language], "tools")
RulesValid(rules) == \A category \in DOMAIN rules.obj : IsObj(rules.obj[category])
NamesValid(node, names) == \A k \in names \cap DOMAIN node.obj : Is(node.obj[k], "string")
SnapshotValid(snapshot) == Has(snapshot, "relativeDir") => Text(snapshot.obj["relativeDir"])
CostTierValid(tier) ==
  /\ NamesValid(tier, {"sku_id"})
  /\ \A k \in {"arpu_monthly", "max_pod_cost_per_tenant"} \cap DOMAIN tier.obj : Is(tier.obj[k], "int")
TimeoutsValid(timeouts) ==
  /\ DOMAIN timeouts.obj \subseteq AllCategories
  /\ \A c \in DOMAIN timeouts.obj : Is(timeouts.obj[c], "int") /\ timeouts.obj[c].value > 0
ForbiddenValid(mapping) == \A adr \in DOMAIN mapping.obj : adr # "" /\ Is(mapping.obj[adr], "strings")

Valid(p) ==
  LET Absent(k, Test(_)) == Has(p, k) => IsObj(p.obj[k]) /\ Test(p.obj[k])
      Seed(node) == NamesValid(node, {"ref", "url"})
      Registry(node) == NamesValid(node, {"registry_file"})
  IN  /\ DOMAIN p.obj \subseteq TopLevelKeys
      /\ VersionAndId(p)
      /\ Has(p, "matrix") /\ MatrixValid(p.obj["matrix"])
      /\ Has(p, "categories") /\ CategoriesValid(p.obj["categories"])
      /\ Absent("toolchain", ToolchainValid) /\ Absent("rules", RulesValid)
      /\ Absent("seed_template", Seed) /\ Absent("invariants", Registry)
      /\ Absent("snapshot", SnapshotValid) /\ Absent("cost_tier", CostTierValid)
      /\ (Has(p, "categories_na") => StringsIn(p.obj["categories_na"], AllCategories))
      /\ Absent("timeouts", TimeoutsValid) /\ Absent("forbidden_until", ForbiddenValid)

\* The profile a command works with: the bundled one of the chosen name under
\* the project's override ({}: there is none); {} when either is refused.
load_effective_profile(bundled, id, override) ==
  IF id \notin DOMAIN bundled \/ ~Valid(bundled[id])
     \/ (\E layer \in override : ~LayerShape(layer)) THEN {}
  ELSE LET merged == IF override = {} THEN bundled[id]
                     ELSE compose_profiles(<<bundled[id], CHOOSE layer \in override : TRUE>>)
       IN  IF Valid(merged) THEN {merged} ELSE {}

-----------------------------------------------------------------------------
(* What is read from a profile.                                            *)

Child(node, k) == IF Has(node, k) THEN node.obj[k] ELSE Empty
required_for_priority(p, priority) == p.obj["matrix"].obj[priority]
toolchain_for(p, language) ==
  IF Has(Child(p, "toolchain"), language) THEN p.obj["toolchain"].obj[language].value ELSE {}
rule_for(p, category) == Child(Child(p, "rules"), category)

\* The decisions that still forbid a story; matched gives the stories a pattern
\* matches.
Blockers(p, story, matched) ==
  LET mapping == Child(p, "forbidden_until")
  IN  {adr \in DOMAIN mapping.obj : \E pattern \in mapping.obj[adr].value : story \in matched[pattern]}

\* A snapshot is written inside the project ({}: refused) under the second it
\* was taken in and its hash (here the document itself); a file that changed
\* since, or is no valid profile, is not loaded.  A content or an expected hash
\* of {} is none.
snapshot_effective_profile(p, second, inside) ==
  LET dir == Child(p, "snapshot")
  IN  IF Has(dir, "relativeDir") /\ dir.obj["relativeDir"].value \in inside
      THEN {[file |-> <<second, p>>, hash |-> p]} ELSE {}
load_profile_snapshot(content, expected) ==
  {p \in content : (expected = {} \/ expected = content) /\ Valid(p)}

\* What the agents are told of the profile.
CustomizeFacts(p) ==
  [id        |-> p.obj["id"].value,
   hash      |-> p,
   adrs      |-> DOMAIN Child(p, "forbidden_until").obj,
   rules     |-> DOMAIN Child(p, "rules").obj,
   na        |-> IF Has(p, "categories_na") THEN p.obj["categories_na"].value ELSE {}]

-----------------------------------------------------------------------------
(* Requirements.                                                           *)

\* What an override says is in force and what it does not touch stays as it was
\* (profile_composer.py:22-27), path by path; an empty object adds nothing to a
\* fuller one.  Waived categories only grow (lines 28-29, 37-38).
OverridesStick(base, over) ==
  LET merged == Flatten(MergeLayer(base, over))
      Below(path, leaves) == {leaf \in leaves : IsStrictPrefix(path, leaf[1])}
      Touches(one, other) == IsPrefix(one, other) \/ IsPrefix(other, one)
      Says == {leaf \in Flatten(over) : leaf[2] = Empty => Below(leaf[1], Flatten(base)) = {}}
      Stays == {leaf \in Flatten(base) : \A said \in Says : ~Touches(said[1], leaf[1])}
      Ordinary(leaves) == {leaf \in leaves : leaf[1] # <<"categories_na">>}
      Na(doc) == IF Has(doc, "categories_na") THEN doc.obj["categories_na"].value ELSE {}
  IN  /\ Ordinary(merged) = Ordinary(Says) \cup Ordinary(Stays)
      /\ Na(MergeLayer(base, over)) = Na(base) \cup Na(over)

\* Layers whose objects and values are at the same paths, none of them empty.
SameShape(layers) ==
  \A i, j \in DOMAIN layers : \A one \in Flatten(layers[i]), other \in Flatten(layers[j]) :
    one[2] # Empty /\ ~IsStrictPrefix(one[1], other[1])

\* The summary names the layer that gave each leaf of the result its value
\* (profile_composer.py:199-205), for layers of one shape.
SummaryIsRight(layers) ==
  SameShape(layers) =>
    \A leaf \in Flatten(compose_profiles(layers)) :
      leaf[1] = <<"categories_na">> \/ leaf \in Flatten(layers[LayerSummary(layers)[leaf[1]]])

\* Nothing changed exactly when the profiles are the same.
DiffIsExact(before, after) ==
  (diff_profile(before, after) = [added |-> {}, removed |-> {}, changed |-> {}]) <=> (before = after)

\* A valid profile under a valid override is valid: layering alone never makes a
\* profile the gate refuses to load.
ValidityIsKept(base, over) == Valid(base) /\ Valid(over) => Valid(MergeLayer(base, over))

\* A snapshot loads back as what was saved, and as nothing else.
SnapshotsRoundTrip(profiles, inside) ==
  \A p \in profiles, content \in profiles, second \in 0..1 :
    \A saved \in snapshot_effective_profile(p, second, inside) :
      load_profile_snapshot({content}, {saved.hash}) = IF content = p /\ Valid(p) THEN {p} ELSE {}

=============================================================================
