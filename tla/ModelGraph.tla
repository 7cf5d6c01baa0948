----------------------------- MODULE ModelGraph ------------------------------
(***************************************************************************)
(* The structure being edited: nodes, bars, shells, supports, loads,       *)
(* connectors, constraints, footings, load cases, strata and materials, as *)
(* the maps of `model.svelte.ts` hold them, and the edits of the store,    *)
(* each with every cascade it makes.  Nothing in the maps is checked       *)
(* against anything else: what one map says of another holds because the   *)
(* edits keep it.                                                          *)
(*                                                                         *)
(* Nodes lie on a line, at whole positions, which is what the cutting of a *)
(* bar and of the loads on it depends on.  Plates go as quads do, sections *)
(* as materials.                                                           *)
(***************************************************************************)
EXTENDS Integers, Sequences, FiniteSets, SequencesExt, FiniteSetsExt, Functions

CONSTANTS
    None,
    Start,     \* the structure that was opened
    Shapes,    \* loads a user draws on a bar
    Reach,     \* bound: the last position of the line
    MaxEdits,  \* bound: edits
    Races      \* circumstances the code does not guard against, see below

\* cascade:   a node goes whose bars carry loads, or stand on a footing;
\* split3d:   a bar is cut that carries 3D loads, or stands on a footing;
\* subdivide: a bar is subdivided that carries more than loads on all of it;
\* unclamped: a bar changes length under its loads by a way other than updateNode;
\* firstOne:  a bar or a load is added once the material or the case it starts with, 1, is gone;
\* shell:     a material goes that only shells use.
AllRaces == {"cascade", "split3d", "subdivide", "unclamped", "firstOne", "shell"}

ASSUME BoundsAssumption == Reach \in Nat /\ MaxEdits \in Nat
ASSUME RacesAssumption == Races \subseteq AllRaces

VARIABLES model, edits
vars == <<model, edits>>

-----------------------------------------------------------------------------
OnBars == {"distributed", "point", "thermal", "bar3d"}

CaseOf(load) == IF load.case = None THEN 1 ELSE load.case

\* The entries of a map that satisfy a condition, as Map.delete leaves them.
Keep(f, Good(_)) == Restrict(f, {k \in DOMAIN f : Good(f[k])})

Without(f, gone) == Restrict(f, DOMAIN f \ gone)

\* Map.set, of one entry and of each entry of g.
Set(f, key, entry) == [k \in DOMAIN f \cup {key} |-> IF k = key THEN entry ELSE f[k]]

Put(f, g) == [k \in DOMAIN f \cup DOMAIN g |-> IF k \in DOMAIN g THEN g[k] ELSE f[k]]

Added(m, map, entry) ==
    [m EXCEPT ![map] = Set(@, m.nextId[map], entry), !.nextId[map] = @ + 1]

\* A bar that is gone has none.
Length(m, e) ==
    IF e \notin DOMAIN m.elements THEN 0
    ELSE LET from == m.nodes[m.elements[e].i]  to == m.nodes[m.elements[e].j]
         IN  Max({from, to}) - Min({from, to})

\* Where on the line the place at a distance from the first end of a bar is.
At(m, e, distance) ==
    LET bar == m.elements[e]
    IN  IF m.nodes[bar.j] < m.nodes[bar.i] THEN m.nodes[bar.i] - distance
        ELSE m.nodes[bar.i] + distance

LoadsOn(m, e) == {k \in DOMAIN m.loads : m.loads[k].kind \in OnBars /\ m.loads[k].on = e}

Reaches(m, load) ==
    IF load.b = None \/ load.kind = "thermal" THEN Length(m, load.on) ELSE load.b

Init == model = Start /\ edits = 0

\* Every edit, with the structure it leaves.
Becomes(m) == edits' = edits + 1 /\ model' = m

-----------------------------------------------------------------------------
(***************************************************************************)
(* Things are added.  The ids a caller hands in are of things that exist.  *)
(***************************************************************************)

addNode == \E x \in 0..Reach : Becomes(Added(model, "nodes", x))

addElement ==
    \E i, j \in DOMAIN model.nodes :
        /\ i # j
        /\ 1 \in model.materials \/ "firstOne" \in Races
        /\ Becomes(Added(model, "elements", [i |-> i, j |-> j, material |-> 1, hinges |-> {}]))

\* The support the node has goes first.
Supported(m, n) ==
    Added([m EXCEPT !.supports = Keep(@, LAMBDA s : s # n)], "supports", n)

addSupport == \E n \in DOMAIN model.nodes : Becomes(Supported(model, n))

\* A load of a shape is drawn on a node, a bar or a shell.
addLoad ==
    \E s \in Shapes :
        \E on \in CASE s.kind = "nodal" -> DOMAIN model.nodes
                    [] s.kind = "surface" -> DOMAIN model.quads
                    [] OTHER -> DOMAIN model.elements :
            /\ CaseOf(s) \in model.cases \/ "firstOne" \in Races
            /\ s.kind \in OnBars =>
                   s.a < Length(model, on) /\ (s.b # None => s.b <= Length(model, on))
            /\ Becomes(Added(model, "loads", Set(s, "on", on)))

addQuad ==
    \E corners \in (SUBSET DOMAIN model.nodes) \ {{}}, mat \in model.materials :
        Becomes(Added(model, "quads", [corners |-> corners, material |-> mat]))

Tie(kind, n, others) == [kind |-> kind, master |-> n, slaves |-> others]

addConstraint ==
    \E n \in DOMAIN model.nodes :
        \E others \in (SUBSET (DOMAIN model.nodes \ {n})) \ {{}},
           kind \in {"diaphragm", "equation"} :
            Becomes([model EXCEPT !.constraints = Append(@, Tie(kind, n, others))])

addConnector ==
    \E i, j \in DOMAIN model.nodes :
        i # j /\ Becomes(Added(model, "connectors", [i |-> i, j |-> j]))

\* newFooting: on the default stratum, under no column yet.
addFooting ==
    \E n \in DOMAIN model.nodes :
        Becomes(Added(model, "footings",
            [node |-> n, column |-> None, soil |-> model.defaultProfile, revision |-> 0]))

\* The first stratum becomes the default.
addSoilProfile ==
    LET id == model.nextId.profiles
    IN  Becomes([model EXCEPT
            !.profiles = Append(@, id),
            !.defaultProfile = IF @ = None THEN id ELSE @,
            !.nextId.profiles = @ + 1])

addLoadCase ==
    Becomes([model EXCEPT !.cases = @ \cup {model.nextId.cases}, !.nextId.cases = @ + 1])

addCombination ==
    \E factors \in SUBSET model.cases : Becomes(Added(model, "combinations", factors))

addMaterial ==
    Becomes([model EXCEPT !.materials = @ \cup {model.nextId.materials},
                          !.nextId.materials = @ + 1])

-----------------------------------------------------------------------------
(***************************************************************************)
(* Things go, and with them what cannot stand without them.                *)
(***************************************************************************)

\* Defect: a constraint keeps the node it lost.
KeepsConstraint(c, gone) == <<c>>

\* A diaphragm loses the node, or goes with its master or its last slave; any other
\* constraint goes.
Pruned(c, gone) ==
    IF c.kind = "diaphragm"
    THEN IF c.master \in gone \/ c.slaves \subseteq gone THEN <<>>
         ELSE <<[c EXCEPT !.slaves = @ \ gone]>>
    ELSE IF (c.slaves \cup {c.master}) \cap gone # {} THEN <<>> ELSE <<c>>

\* removeNode, of each node of a selection: bars, supports, nodal loads, connectors,
\* footings and constraints follow; shells, and what refers to the bars, do not.
NodesRemoved(m, gone) ==
    [m EXCEPT
        !.nodes = Without(@, gone),
        !.elements = Keep(@, LAMBDA e : {e.i, e.j} \cap gone = {}),
        !.supports = Keep(@, LAMBDA n : n \notin gone),
        !.loads = Keep(@, LAMBDA l : ~(l.kind = "nodal" /\ l.on \in gone)),
        !.connectors = Keep(@, LAMBDA c : {c.i, c.j} \cap gone = {}),
        !.footings = Keep(@, LAMBDA f : f.node \notin gone),
        !.constraints = FlattenSeq([k \in DOMAIN @ |-> Pruned(@[k], gone)])]

\* Defect: the footing keeps the column that is gone.
KeepsColumn(f, gone) == f

\* A footing survives its column, and says so.
ColumnCleared(f, gone) ==
    IF f.column \in gone THEN [f EXCEPT !.column = None, !.revision = @ + 1] ELSE f

\* removeElement, of each bar of a selection.
ElementsRemoved(m, gone) ==
    [m EXCEPT
        !.elements = Without(@, gone),
        !.loads = Keep(@, LAMBDA l : ~(l.kind \in OnBars /\ l.on \in gone)),
        !.footings = [k \in DOMAIN @ |-> ColumnCleared(@[k], gone)]]

\* Defect: the loads of a shell stay.
KeepsShellLoads(m, gone) == [m EXCEPT !.quads = Without(@, gone)]

QuadsRemoved(m, gone) ==
    [m EXCEPT !.quads = Without(@, gone),
              !.loads = Keep(@, LAMBDA l : ~(l.kind = "surface" /\ l.on \in gone))]

\* The bars of these nodes carry nothing and stand on no footing.
Unloaded(nodes) ==
    \A e \in DOMAIN model.elements :
        {model.elements[e].i, model.elements[e].j} \cap nodes # {} =>
            LoadsOn(model, e) = {} /\ \A f \in DOMAIN model.footings : model.footings[f].column # e

\* A selection of nodes, bars and shells: the bars that went with a node are not removed
\* again, so that what refers to them stays.
deleteEntities ==
    \E nodes \in SUBSET DOMAIN model.nodes, bars \in SUBSET DOMAIN model.elements,
       shells \in SUBSET DOMAIN model.quads :
        LET m == NodesRemoved(model, nodes)
        IN  /\ "cascade" \in Races \/ Unloaded(nodes)
            /\ Becomes(QuadsRemoved(ElementsRemoved(m, bars \cap DOMAIN m.elements), shells))

\* Ctrl+X: every bar of the selection is removed, gone or not.
Cut ==
    \E nodes \in SUBSET DOMAIN model.nodes :
        LET touched == {e \in DOMAIN model.elements :
                           {model.elements[e].i, model.elements[e].j} \cap nodes # {}}
        IN  /\ nodes # {}
            /\ Becomes(ElementsRemoved(NodesRemoved(model, nodes), touched))

removeSupport ==
    \E s \in DOMAIN model.supports : Becomes([model EXCEPT !.supports = Without(@, {s})])

removeLoad ==
    \E l \in DOMAIN model.loads : Becomes([model EXCEPT !.loads = Without(@, {l})])

\* removeConstraint, clearConstraints.
removeConstraint ==
    \E kept \in {<<>>} \cup {RemoveAt(model.constraints, k) : k \in DOMAIN model.constraints} :
        Becomes([model EXCEPT !.constraints = kept])

\* removeConnector, clearConnectors; removeFooting, clearFootings.
removeConnector ==
    \E gone \in {DOMAIN model.connectors} \cup {{k} : k \in DOMAIN model.connectors} :
        Becomes([model EXCEPT !.connectors = Without(@, gone)])

removeFooting ==
    \E gone \in {DOMAIN model.footings} \cup {{k} : k \in DOMAIN model.footings} :
        Becomes([model EXCEPT !.footings = Without(@, gone)])

\* Its footings stand on nothing, and say so.
SoilCleared(f, id) == IF f.soil = id THEN [f EXCEPT !.soil = None, !.revision = @ + 1] ELSE f

removeSoilProfile ==
    \E id \in ToSet(model.profiles) :
        LET left == FlattenSeq([k \in DOMAIN model.profiles |->
                        IF model.profiles[k] = id THEN <<>> ELSE <<model.profiles[k]>>])
        IN  Becomes([model EXCEPT
                !.profiles = left,
                !.defaultProfile = IF @ # id THEN @ ELSE IF left = <<>> THEN None ELSE Head(left),
                !.footings = [k \in DOMAIN @ |-> SoilCleared(@[k], id)]])

\* A load that names none is of the first case.
IsOfCase(load, id) == CaseOf(load) = id

removeLoadCase ==
    \E id \in model.cases :
        Becomes([model EXCEPT
            !.cases = @ \ {id},
            !.loads = Keep(@, LAMBDA l : ~IsOfCase(l, id)),
            !.combinations = [k \in DOMAIN @ |-> @[k] \ {id}]])

removeCombination ==
    \E c \in DOMAIN model.combinations : Becomes([model EXCEPT !.combinations = Without(@, {c})])

\* Only bars keep a material: shells are not asked.
Unused(m, id) == \A e \in DOMAIN m.elements : m.elements[e].material # id

removeMaterial ==
    \E id \in model.materials :
        /\ Unused(model, id)
        /\ \/ \A q \in DOMAIN model.quads : model.quads[q].material # id
           \/ "shell" \in Races
        /\ Becomes([model EXCEPT !.materials = @ \ {id}])

\* A new structure: empty, with the cases, combinations and material every one starts with.
clear ==
    Becomes([model EXCEPT
        !.nodes = <<>>, !.elements = <<>>, !.supports = <<>>, !.loads = <<>>, !.quads = <<>>,
        !.constraints = <<>>, !.connectors = <<>>, !.footings = <<>>,
        !.profiles = <<>>, !.defaultProfile = None,
        !.materials = {1}, !.cases = 1..4,
        !.combinations = <<{1, 2}, {1}, {1, 2, 3}, {1, 2, 4}>>,
        !.nextId = [k \in DOMAIN @ |-> CASE k = "materials" -> 2
                                         [] k \in {"cases", "combinations"} -> 5
                                         [] OTHER -> 1]])

-----------------------------------------------------------------------------
(***************************************************************************)
(* Things change.                                                          *)
(***************************************************************************)

\* The support moves; one that stood there goes.
updateSupport ==
    \E s \in DOMAIN model.supports, n \in DOMAIN model.nodes :
        LET others == Keep(model.supports, LAMBDA at : at # n)
        IN  Becomes([model EXCEPT !.supports = Set(others, s, n)])

\* What a shape states of a load replaces what the load had; the end of its span stays
\* inside the bar and after its start.
Restated(m, load, s) ==
    LET spans == load.kind \in {"distributed", "bar3d"}
        a     == IF load.kind \in OnBars THEN s.a ELSE load.a
    IN  [load EXCEPT
            !.case = IF s.case = None THEN @ ELSE s.case,
            !.a = a,
            !.b = IF ~spans \/ s.b = None THEN @
                  ELSE IF s.b < Length(m, load.on) THEN Max({a, s.b}) ELSE None,
            !.qi = s.qi, !.qj = s.qj]

\* updateLoad, updateLoadCaseId.
updateLoad ==
    \E k \in DOMAIN model.loads, s \in Shapes :
        LET load == model.loads[k]
        IN  /\ s.kind = load.kind
            /\ CaseOf(s) \in model.cases \/ "firstOne" \in Races
            /\ load.kind = "point" => s.a <= Length(model, load.on)
            /\ Becomes([model EXCEPT !.loads[k] = Restated(model, load, s)])

Refounded(f, column, soil) ==
    [f EXCEPT !.column = column, !.soil = soil, !.revision = @ + 1]

updateFooting ==
    \E k \in DOMAIN model.footings, column \in DOMAIN model.elements \cup {None},
       soil \in ToSet(model.profiles) \cup {None} :
        Becomes([model EXCEPT !.footings[k] = Refounded(@, column, soil)])

setDefaultSoilProfile ==
    \E id \in ToSet(model.profiles) \cup {None} : Becomes([model EXCEPT !.defaultProfile = id])

updateCombination ==
    \E c \in DOMAIN model.combinations, factors \in SUBSET model.cases :
        Becomes([model EXCEPT !.combinations[c] = factors])

\* updateElementMaterial, updateQuad.
updateMaterialOf ==
    \E material \in model.materials :
        \/ \E e \in DOMAIN model.elements : Becomes([model EXCEPT !.elements[e].material = material])
        \/ \E q \in DOMAIN model.quads : Becomes([model EXCEPT !.quads[q].material = material])

\* Loads of the plane stay inside a bar that gets shorter; the others are left as they are.
Clamped(m, load) ==
    IF load.kind \notin {"distributed", "point"} THEN load
    ELSE LET length == Length(m, load.on)
         IN  [load EXCEPT !.a = Min({@, length}),
                          !.b = IF @ = None THEN None ELSE Min({@, length})]

updateNode ==
    \E n \in DOMAIN model.nodes, x \in 0..Reach :
        LET m     == [model EXCEPT !.nodes[n] = x]
            bars  == {e \in DOMAIN m.elements : n \in {m.elements[e].i, m.elements[e].j}}
        IN  /\ \/ "unclamped" \in Races
               \/ \A e \in bars : \A k \in LoadsOn(m, e) : m.loads[k].kind # "bar3d"
            /\ Becomes([m EXCEPT !.loads = [k \in DOMAIN @ |->
                  IF \E e \in bars : k \in LoadsOn(m, e) THEN Clamped(m, @[k]) ELSE @[k]]])

\* mirrorNodes: every node of a selection about its centre. Loads are left as they are.
mirrorNodes ==
    \E chosen \in SUBSET DOMAIN model.nodes :
        LET sum      == MapThenSumSet(LAMBDA n : model.nodes[n], chosen)
            place(n) == (2 * sum) \div Cardinality(chosen) - model.nodes[n]
            m        == [model EXCEPT !.nodes =
                            [n \in DOMAIN @ |-> IF n \in chosen THEN place(n) ELSE @[n]]]
        IN  /\ Cardinality(chosen) > 1 /\ (2 * sum) % Cardinality(chosen) = 0
            /\ \A n \in chosen : place(n) \in 0..Reach
            /\ \/ "unclamped" \in Races
               \/ \A e \in DOMAIN m.elements :
                      LoadsOn(m, e) = {} \/ Length(m, e) = Length(model, e)
            /\ Becomes(m)

-----------------------------------------------------------------------------
(***************************************************************************)
(* A bar is cut, and its loads with it.                                    *)
(***************************************************************************)

\* Defect: the intensity at the cut is taken as if the load covered the bar.
MidOfTheBar(load, c, from, to, length) ==
    load.qi + ((load.qj - load.qi) * c) \div length

\* The intensity at the cut, of a load that spans it.
Mid(load, c, from, to, length) ==
    load.qi + ((load.qj - load.qi) * (c - from)) \div (to - from)

\* What a load of the plane becomes when its bar is cut at a distance c into a and b.
Pieces(load, a, b, c, length) ==
    LET to    == IF load.b = None THEN length ELSE load.b
        ends  == IF to < length THEN to - c ELSE None   \* on b
        q     == Mid(load, c, load.a, to, length)
        OnA   == [load EXCEPT !.on = a]
        OnB   == [load EXCEPT !.on = b, !.a = @ - c]
    IN  CASE load.kind = "thermal" -> <<OnA, [load EXCEPT !.on = b]>>
          [] load.kind = "point" -> IF load.a < c THEN <<OnA>> ELSE <<OnB>>
          [] to <= c -> <<[OnA EXCEPT !.b = IF to < c THEN to ELSE None]>>
          [] load.a >= c -> <<[OnB EXCEPT !.b = ends]>>
          [] OTHER -> <<[OnA EXCEPT !.b = None, !.qj = q],
                        [OnB EXCEPT !.a = 0, !.b = ends, !.qi = q]>>

\* The hinges of the part of a bar that has one of its ends only.
HingesAt(bar, end) == bar.hinges \cap {end}

Renumbered(new, next) == [id \in next..(next + Len(new) - 1) |-> new[id - next + 1]]

\* Defect: the new loads take ids that the next ones take again.
ReusesLoadIds(m, old, new) ==
    [m EXCEPT !.loads = Put(Without(@, old), Renumbered(new, m.nextId.loads))]

\* Loads of ids `old` are replaced by `new`, under the next ids.
Replaced(m, old, new) ==
    [m EXCEPT !.loads = Put(Without(@, old), Renumbered(new, m.nextId.loads)),
              !.nextId.loads = @ + Len(new)]

\* A node at a place of the line: the first that is there, or a new one.
Noded(m, x) == IF \E n \in DOMAIN m.nodes : m.nodes[n] = x THEN m ELSE Added(m, "nodes", x)

\* splitElementAtPoint: two new bars for the old. Loads of the plane are shared out; 3D loads
\* and footings keep the old bar.
Split(m, e, c) ==
    LET bar  == m.elements[e]
        x    == At(m, e, c)
        with == Noded(m, x)
        n    == Min({k \in DOMAIN with.nodes : with.nodes[k] = x})
        a    == m.nextId.elements
        two  == Added(Added([with EXCEPT !.elements = Without(@, {e})],
                    "elements", [bar EXCEPT !.j = n, !.hinges = HingesAt(bar, "i")]),
                    "elements", [bar EXCEPT !.i = n, !.hinges = HingesAt(bar, "j")])
        old  == {k \in LoadsOn(m, e) : m.loads[k].kind # "bar3d"}
    IN  Replaced(two, old, FlattenSeq([k \in 1..Cardinality(old) |->
            Pieces(m.loads[SetToSeq(old)[k]], a, a + 1, c, Length(m, e))]))

splitElementAtPoint ==
    \E e \in DOMAIN model.elements :
        \E c \in 1..(Length(model, e) - 1) :
            /\ \/ "split3d" \in Races
               \/ /\ \A k \in LoadsOn(model, e) : model.loads[k].kind # "bar3d"
                  /\ \A f \in DOMAIN model.footings : model.footings[f].column # e
            /\ Becomes(Split(model, e, c))

\* subdivideElement: the bar becomes the first of n segments, between new nodes. Distributed
\* loads are spread again over all of it, as loads without case or direction; point loads go;
\* thermal and 3D loads stay on the first segment.
Subdivided(m, e, n) ==
    LET bar    == m.elements[e]
        step   == Length(m, e) \div n
        node   == [k \in 1..(n - 1) |-> m.nextId.nodes + k - 1]
        id(k)  == IF k = 1 THEN e ELSE m.nextId.elements + k - 2
        part   == [k \in 1..n |-> [bar EXCEPT
                      !.i = IF k = 1 THEN @ ELSE node[k - 1],
                      !.j = IF k = n THEN @ ELSE node[k],
                      !.hinges = IF k = 1 THEN HingesAt(bar, "i")
                                 ELSE IF k = n THEN HingesAt(bar, "j") ELSE {}]]
        gone   == {k \in LoadsOn(m, e) : m.loads[k].kind \in {"distributed", "point"}}
        spread == SetToSeq({k \in gone : m.loads[k].kind = "distributed"})
        Value(load, k) == load.qi + ((load.qj - load.qi) * k) \div n
        Spread(load) == [k \in 1..n |->
            [load EXCEPT !.on = id(k), !.case = None, !.meta = None, !.a = 0, !.b = None,
                         !.qi = Value(load, k - 1), !.qj = Value(load, k)]]
    IN  Replaced(
            [m EXCEPT
                !.nodes = Put(@, [k \in ToSet(node) |->
                                     At(m, e, step * (k - m.nextId.nodes + 1))]),
                !.nextId.nodes = @ + n - 1,
                !.elements = Put(@, [k \in {id(j) : j \in 1..n} |->
                                        part[CHOOSE j \in 1..n : id(j) = k]]),
                !.nextId.elements = @ + n - 1],
            gone, FlattenSeq([k \in 1..Len(spread) |-> Spread(m.loads[spread[k]])]))

\* A load that subdividing the bar keeps: on all of it, of the first case, as it falls.
Plain(load) ==
    load.kind = "distributed" /\ load.a = 0 /\ load.b = None /\ CaseOf(load) = 1 /\ load.meta = None

subdivideElement ==
    \E e \in DOMAIN model.elements :
        \E n \in {k \in 2..20 : k <= Length(model, e) /\ Length(model, e) % k = 0} :
            /\ "subdivide" \in Races \/ \A k \in LoadsOn(model, e) : Plain(model.loads[k])
            /\ Becomes(Subdivided(model, e, n))

-----------------------------------------------------------------------------
Next ==
    /\ edits < MaxEdits
    /\ \/ addNode \/ addElement \/ addSupport \/ addLoad \/ addQuad \/ addConstraint
       \/ addConnector \/ addFooting \/ addSoilProfile \/ addLoadCase \/ addCombination
       \/ addMaterial
       \/ deleteEntities \/ Cut \/ removeSupport \/ removeLoad \/ removeConstraint
       \/ removeConnector \/ removeFooting \/ removeSoilProfile \/ removeLoadCase
       \/ removeCombination \/ removeMaterial \/ clear
       \/ updateSupport \/ updateLoad \/ updateFooting \/ setDefaultSoilProfile
       \/ updateCombination \/ updateMaterialOf \/ updateNode \/ mirrorNodes
       \/ splitElementAtPoint \/ subdivideElement

Spec == Init /\ [][Next]_vars

-----------------------------------------------------------------------------
Kinds == {"nodes", "elements", "supports", "loads", "quads", "connectors", "footings",
          "combinations"}

\* The types of the maps, and that no id is at or past the next of its kind: what is added
\* next replaces nothing (the counters of model.svelte.ts, put back by clear).
TypeOK ==
    /\ edits \in 0..MaxEdits
    /\ \A kind \in Kinds : \A id \in DOMAIN model[kind] : id < model.nextId[kind]
    /\ \A kind \in {"cases", "materials"} : \A id \in model[kind] : id < model.nextId[kind]
    /\ \A id \in ToSet(model.profiles) : id < model.nextId.profiles
    /\ \A n \in DOMAIN model.nodes : model.nodes[n] \in 0..Reach
    /\ \A f \in DOMAIN model.footings : model.footings[f].revision \in Nat
    /\ \A k \in DOMAIN model.loads : model.loads[k].kind \in OnBars \cup {"nodal", "surface"}

\* Every bar, support, nodal load, connector, constraint and footing is between nodes, or on a
\* node, that there is.
EndsExist ==
    /\ \A e \in Range(model.elements) : {e.i, e.j} \subseteq DOMAIN model.nodes
    /\ \A c \in Range(model.connectors) : {c.i, c.j} \subseteq DOMAIN model.nodes
    /\ Range(model.supports) \subseteq DOMAIN model.nodes
    /\ \A l \in Range(model.loads) : l.kind = "nodal" => l.on \in DOMAIN model.nodes
    /\ \A f \in Range(model.footings) : f.node \in DOMAIN model.nodes
    /\ \A c \in ToSet(model.constraints) :
           c.slaves # {} /\ c.slaves \cup {c.master} \subseteq DOMAIN model.nodes

\* Loads and combinations are of load cases there are, a load without a case being of the
\* first; bars and shells are of materials there are.
CasesAndMaterialsExist ==
    /\ \A l \in Range(model.loads) : CaseOf(l) \in model.cases
    /\ \A c \in Range(model.combinations) : c \subseteq model.cases
    /\ \A s \in Range(model.elements) \cup Range(model.quads) : s.material \in model.materials

\* Whatever was deleted, moved or cut, in any order, the model refers to nothing that is gone,
\* which the solver would skip in silence, and no node is held twice (the cascades of removeNode,
\* addSupport, updateSupport, removeLoadCase, removeMaterial).  Not of the corners of a shell,
\* which the solver reports, nor of the bar a support's axes follow (dofLocalElementId).
ModelIsCoherent == EndsExist /\ CasesAndMaterialsExist /\ IsInjective(model.supports)

\* Every load is on a bar or a shell that there is, also after the bar was deleted, split or
\* subdivided (removeElement, removeQuad, splitElementAtPoint).
LoadsHaveABearer ==
    \A l \in Range(model.loads) :
        /\ l.kind \in OnBars => l.on \in DOMAIN model.elements
        /\ l.kind = "surface" => l.on \in DOMAIN model.quads

\* A footing names no column that is gone, whose id a later bar could have (removeElement), and
\* no stratum that is gone, nor does the project by default (removeSoilProfile).
FootingsKnowTheirGround ==
    /\ \A f \in Range(model.footings) :
           /\ f.column # None => f.column \in DOMAIN model.elements
           /\ f.soil # None => f.soil \in ToSet(model.profiles)
    /\ model.defaultProfile # None => model.defaultProfile \in ToSet(model.profiles)

\* A footing names no column that is gone.
ColumnsExist ==
    \A f \in Range(model.footings) : f.column # None => f.column \in DOMAIN model.elements

\* How often each key occurs.
Tally(S, Key(_)) == [k \in {Key(s) : s \in S} |-> Cardinality({s \in S : Key(s) = k})]

\* The line as its bars cover it: each unit of it, the way it is covered, of what, how often;
\* and the hinges at nodes.
Units(m) == UNION {{[bar |-> e, at |-> d] : d \in 0..(Length(m, e) - 1)} : e \in DOMAIN m.elements}

Cover(m) ==
    <<Tally(Units(m), LAMBDA u : <<At(m, u.bar, u.at), At(m, u.bar, u.at + 1),
                                   m.elements[u.bar].material>>),
      Tally({u \in (DOMAIN m.elements) \X {"i", "j"} : u[2] \in m.elements[u[1]].hinges},
            LAMBDA u : <<u[2], m.elements[u[1]][u[2]]>>)>>

\* The places of the line a load acts at: the two ends of each unit, or one point.
Places(m, k) ==
    LET load  == m.loads[k]
        to    == Reaches(m, load)
        from  == IF load.kind = "thermal" THEN 0 ELSE load.a
        Q(d)  == IF load.kind = "thermal" THEN load.qi
                 ELSE load.qi + ((load.qj - load.qi) * (d - from)) \div (to - from)
        Key(d, end) == [kind |-> load.kind, case |-> CaseOf(load), meta |-> load.meta,
                        from |-> At(m, load.on, d), to |-> At(m, load.on, d + end),
                        end |-> end]
    IN  IF load.kind = "point" THEN {[load |-> k, key |-> Key(from, 0), q |-> load.qi]}
        ELSE UNION {{[load |-> k, key |-> Key(d, 1), q |-> Q(d)],
                     [load |-> k, key |-> Key(d + 1, -1), q |-> Q(d + 1)]} : d \in from..(to - 1)}

\* What the line carries, of each kind, case and direction.
Carried(m) ==
    LET places == UNION {Places(m, k) : k \in {j \in DOMAIN m.loads : m.loads[j].kind \in OnBars}}
    IN  [key \in {p.key : p \in places} |->
            MapThenSumSet(LAMBDA p : p.q, {p \in places : p.key = key})]

\* Making bars changes nothing of what is carried where, in which case and direction: a bar is
\* drawn bare, and cutting one, once or into segments, shares its loads out without a rest.
\* Nor does a cut change the line: the same material lies between the same places, and hinges
\* are at the same nodes and at no cut (splitElementAtPoint, subdivideElement).
CutsChangeNothing ==
    [][model.nextId.elements < model'.nextId.elements =>
           /\ Carried(model') = Carried(model)
           /\ addElement \/ Cover(model') = Cover(model)]_vars

=============================================================================
