----------------------------- MODULE FrameEdits ------------------------------
(***************************************************************************)
(* What the capability server makes of a request to build or to change a   *)
(* plane frame: the generators and the edit executor, over the snapshot    *)
(* the browser sends.  An edit the code refuses has a Can... condition; it *)
(* works on a copy, so that a refused one leaves nothing.                  *)
(*                                                                         *)
(* A frame is its nodes (x and y), bars, supports, loads and sections by   *)
(* id, its load cases, and the next id of each kind.  Frames in space are  *)
(* left out: the browser's snapshots do not say they are one.              *)
(***************************************************************************)
EXTENDS Integers, Sequences, FiniteSets, SequencesExt, FiniteSetsExt, Functions

CONSTANT None

Xs(f) == {n.x : n \in Range(f.nodes)}   \* column lines
Ys(f) == {n.y : n \in Range(f.nodes)}   \* floor levels

\* A set of numbers, sorted.
Ascending(S) ==
    [k \in 1..Cardinality(S) |-> CHOOSE n \in S : Cardinality({m \in S : m < n}) = k - 1]

NodesAt(f, x, y) == {n \in DOMAIN f.nodes : f.nodes[n] = [x |-> x, y |-> y]}

\* find_node_at: the first one there.
NodeAt(f, x, y) == Min(NodesAt(f, x, y))

IsHorizontal(f, e) == f.nodes[f.elements[e].i].y = f.nodes[f.elements[e].j].y

\* A map, with the entries of a sequence under the ids from first on (next_id).
Extended(m, first, entries) ==
    [id \in DOMAIN m \cup first..(first + Len(entries) - 1) |->
        IF id \in DOMAIN m THEN m[id] ELSE entries[id - first + 1]]

Appended(f, map, entries) ==
    [f EXCEPT ![map] = Extended(@, f.nextId[map], entries), !.nextId[map] = @ + Len(entries)]

Frame(i, j, section) == [i |-> i, j |-> j, section |-> section]
Fixed(n) == [node |-> n, type |-> "fixed"]
Distributed(e, q) == [kind |-> "distributed", on |-> e, q |-> q]
Nodal(n, q) == [kind |-> "nodal", on |-> n, q |-> q]

\* Defect: a section is made also where there is one of the name.
AlwaysMade(f, name) == IF name = None THEN f ELSE Appended(f, "sections", <<name>>)

\* ensure_section: a section is made when there is none of the name.
WithSection(f, name) ==
    IF name = None \/ name \in Range(f.sections) THEN f ELSE Appended(f, "sections", <<name>>)

\* The section of a name, the first one without.
SectionId(f, name) ==
    IF name = None THEN Min(DOMAIN f.sections)
    ELSE Min({s \in DOMAIN f.sections : f.sections[s] = name})

-----------------------------------------------------------------------------
CanAddBay(f) == Cardinality(Ys(f)) >= 2

\* Defect: only the columns are made.
ColumnsOnly(f, beside, floors, node, beam, column) ==
    [k \in 1..(Len(floors) - 1) |-> Frame(node[k], node[k + 1], column)]

\* The bars of a new column line: from floor to floor, and to the line beside it where that
\* has a node, above the base.
BayBars(f, beside, floors, node, beam, column) ==
    FlattenSeq([k \in 1..(Len(floors) - 1) |->
        <<Frame(node[k], node[k + 1], column)>> \o
        (IF NodesAt(f, beside, floors[k + 1]) = {} THEN <<>>
         ELSE <<Frame(NodeAt(f, beside, floors[k + 1]), node[k + 1], beam)>>)])

\* A column line beside the outermost one, with a node at every level, fixed at the lowest.
AddBay(f, width, side, beam, column) ==
    LET g      == WithSection(WithSection(f, beam), column)
        floors == Ascending(Ys(f))
        beside == IF side = "left" THEN Min(Xs(f)) ELSE Max(Xs(f))
        x      == IF side = "left" THEN beside - width ELSE beside + width
        node   == [k \in DOMAIN floors |-> f.nextId.nodes + k - 1]
        bars   == BayBars(f, beside, floors, node, SectionId(g, beam), SectionId(g, column))
        raised == Appended(g, "nodes", [k \in DOMAIN floors |-> [x |-> x, y |-> floors[k]]])
    IN  Appended(Appended(raised, "elements", bars), "supports", <<Fixed(node[1])>>)

CanAddStory(f) == f.nodes # <<>>

\* Defect: the last beam of the storey is not made.
StoryLessABeam(node, beam) ==
    [k \in 1..(Len(node) - 2) |-> Frame(node[k], node[k + 1], beam)]

\* One beam from each line to the next, whether or not a column stands below.
StoryBeams(node, beam) ==
    [k \in 1..(Len(node) - 1) |-> Frame(node[k], node[k + 1], beam)]

\* A column on every line that reaches the top floor.
StoryColumns(f, lines, top, node, column) ==
    FlattenSeq([k \in DOMAIN lines |->
        IF NodesAt(f, lines[k], top) = {} THEN <<>>
        ELSE <<Frame(NodeAt(f, lines[k], top), node[k], column)>>])

\* A node above every column line, on a column where the line reaches the top floor.
AddStory(f, height, beam, column) ==
    LET g     == WithSection(WithSection(f, beam), column)
        lines == Ascending(Xs(f))
        top   == Max(Ys(f))
        node  == [k \in DOMAIN lines |-> f.nextId.nodes + k - 1]
        columns == StoryColumns(f, lines, top, node, SectionId(g, column))
        raised == Appended(g, "nodes", [k \in DOMAIN lines |-> [x |-> lines[k], y |-> top + height]])
    IN  Appended(Appended(raised, "elements", columns), "elements",
                 StoryBeams(node, SectionId(g, beam)))

\* The bars named, or the beams, the columns or all of them.
ChangeSection(f, name, bars) ==
    LET g == WithSection(f, name)
    IN  [g EXCEPT !.elements = [e \in DOMAIN @ |->
            IF e \in bars THEN [@[e] EXCEPT !.section = SectionId(g, name)] ELSE @[e]]]

SetAllSupports(f, type) ==
    [f EXCEPT !.supports = [s \in DOMAIN @ |-> [@[s] EXCEPT !.type = type]]]

\* Every bar has one distributed load, and no other.
SetAllBeamLoads(f, q) ==
    LET bars   == Ascending(DOMAIN f.elements)
        others == {l \in DOMAIN f.loads : f.loads[l].kind # "distributed"}
    IN  Appended([f EXCEPT !.loads = Restrict(@, others)], "loads",
                 [k \in DOMAIN bars |-> Distributed(bars[k], q)])

\* A force at every level above the lowest where the leftmost line has a node.
AddLateralLoads(f, q) ==
    LET left   == Min(Xs(f))
        levels == Ascending({y \in Ys(f) \ {Min(Ys(f))} : NodesAt(f, left, y) # {}})
    IN  Appended(f, "loads", [k \in DOMAIN levels |-> Nodal(NodeAt(f, left, levels[k]), q)])

AddDistributedLoad(f, e, q) == Appended(f, "loads", <<Distributed(e, q)>>)
AddNodalLoad(f, n, q) == Appended(f, "loads", <<Nodal(n, q)>>)

\* Defect: the loads of the bar stay.
DeletesOnlyTheBar(f, e) == [f EXCEPT !.elements = Restrict(@, DOMAIN @ \ {e})]

DeleteElement(f, e) ==
    [f EXCEPT
        !.elements = Restrict(@, DOMAIN @ \ {e}),
        !.loads = Restrict(@, {l \in DOMAIN @ : ~(@[l].kind = "distributed" /\ @[l].on = e)})]

DeleteLoad(f, l) == [f EXCEPT !.loads = Restrict(@, DOMAIN @ \ {l})]

-----------------------------------------------------------------------------
NoFrame ==
    [nodes |-> <<>>, elements |-> <<>>, supports |-> <<>>, loads |-> <<>>, sections |-> <<>>,
     cases |-> None,
     nextId |-> [nodes |-> 1, elements |-> 1, supports |-> 1, loads |-> 1, sections |-> 1,
                 cases |-> None]]

\* A generated frame says nothing of load cases, nor of the next one.
Generated(nodes, bars, supports, loads, sections) ==
    LET standing == Appended(Appended(NoFrame, "sections", sections), "nodes", nodes)
        framed   == Appended(Appended(standing, "elements", bars), "supports", supports)
    IN  Appended(framed, "loads", loads)

\* The beam has the first section, the columns the second.
PortalFrame(width, height, q, h) ==
    Generated(
        <<[x |-> 0, y |-> 0], [x |-> 0, y |-> height],
          [x |-> width, y |-> height], [x |-> width, y |-> 0]>>,
        <<Frame(1, 2, 2), Frame(2, 3, 1), Frame(4, 3, 2)>>,
        <<Fixed(1), Fixed(4)>>,
        (IF q = 0 THEN <<>> ELSE <<Distributed(2, q)>>) \o
        (IF h = 0 THEN <<>> ELSE <<Nodal(2, h)>>),
        <<"beam", "column">>)

MultiStoryFrame(bays, floors, width, height, q, h) ==
    LET node(l, c) == l * (bays + 1) + c + 1   \* at a level and a column line
        columns == [k \in 1..(floors * (bays + 1)) |-> Frame(k, k + bays + 1, 2)]
        beams   == [k \in 1..(floors * bays) |->
                       LET l == (k - 1) \div bays + 1  c == (k - 1) % bays
                       IN  Frame(node(l, c), node(l, c + 1), 1)]
    IN  Generated(
            [k \in 1..((floors + 1) * (bays + 1)) |->
                [x |-> ((k - 1) % (bays + 1)) * width, y |-> ((k - 1) \div (bays + 1)) * height]],
            columns \o beams,
            [c \in 1..(bays + 1) |-> Fixed(node(0, c - 1))],
            (IF q = 0 THEN <<>> ELSE
                [k \in DOMAIN beams |-> Distributed(Len(columns) + k, q)]) \o
            (IF h = 0 THEN <<>> ELSE [l \in 1..floors |-> Nodal(node(l, 0), h)]),
            <<"beam", "column">>)

-----------------------------------------------------------------------------
(***************************************************************************)
(* create_model: the arrays come from the language model, by id.           *)
(***************************************************************************)

Maps == {"nodes", "elements", "supports", "loads", "sections"}

\* validate_action and validate_snapshot: something of each, and bars and supports that refer
\* to what is there.  What a load is on is only warned of; an id given twice is refused.
CanCreateModel(m) ==
    /\ \A map \in Maps \ {"loads"} : m[map] # <<>>
    /\ \A e \in Range(m.elements) :
           {e.i, e.j} \subseteq DOMAIN m.nodes /\ e.section \in DOMAIN m.sections
    /\ \A s \in Range(m.supports) : s.node \in DOMAIN m.nodes

\* max_id
MaxId(map) == Max(DOMAIN map \cup {0})

\* The loads are counted, whatever their ids.
NextLoad(m) == Cardinality(DOMAIN m.loads) + 1

\* assemble_create_model
CreateModel(m) ==
    [nodes |-> m.nodes, elements |-> m.elements, supports |-> m.supports, loads |-> m.loads,
     sections |-> m.sections, cases |-> None,
     nextId |-> [nodes |-> MaxId(m.nodes) + 1, elements |-> MaxId(m.elements) + 1,
                 supports |-> MaxId(m.supports) + 1, loads |-> NextLoad(m),
                 sections |-> MaxId(m.sections) + 1, cases |-> None]]

-----------------------------------------------------------------------------
\* Whatever a frame refers to is in it, and what is added next is new.
Linked(f) ==
    /\ \A e \in Range(f.elements) :
           {e.i, e.j} \subseteq DOMAIN f.nodes /\ e.section \in DOMAIN f.sections
    /\ \A s \in Range(f.supports) : s.node \in DOMAIN f.nodes
    /\ \A l \in Range(f.loads) :
           l.on \in IF l.kind = "nodal" THEN DOMAIN f.nodes ELSE DOMAIN f.elements
    /\ \A map \in Maps : \A id \in DOMAIN f[map] : id < f.nextId[map]

\* No two nodes are at a place, no two bars between two nodes, no bar from a node to itself, no
\* two supports under a node, no two sections of a name.
Single(f) ==
    /\ \A e \in Range(f.elements) : e.i # e.j
    /\ IsInjective(f.nodes)
    /\ IsInjective([e \in DOMAIN f.elements |-> {f.elements[e].i, f.elements[e].j}])
    /\ IsInjective([s \in DOMAIN f.supports |-> f.supports[s].node])
    /\ IsInjective(f.sections)

Joined(f, n, m) == \E e \in Range(f.elements) : {e.i, e.j} = {n, m}

\* The nodes that bars join to those of S, and S.
Around(f, S) ==
    UNION {held \cup UNION {ends \in {{e.i, e.j} : e \in Range(f.elements)} : ends \cap held # {}} :
              held \in {S}}

\* Every node is held, through bars, by a support.
Standing(f) ==
    LET held[k \in 0..Cardinality(DOMAIN f.nodes)] ==
            IF k = 0 THEN {s.node : s \in Range(f.supports)} ELSE Around(f, held[k - 1])
    IN  held[Cardinality(DOMAIN f.nodes)] = DOMAIN f.nodes

Meets(f, x, y, x2, y2) ==
    \E n \in NodesAt(f, x, y), m \in NodesAt(f, x2, y2) : Joined(f, n, m)

\* A whole grid: a node where a line and a level cross, a column between levels, a beam between
\* lines above the base, and every line supported.
IsGrid(f) ==
    LET xs == Ascending(Xs(f))  ys == Ascending(Ys(f))
    IN  /\ \A c \in DOMAIN xs, l \in DOMAIN ys :
               /\ NodesAt(f, xs[c], ys[l]) # {}
               /\ l > 1 => Meets(f, xs[c], ys[l - 1], xs[c], ys[l])
               /\ l > 1 /\ c > 1 => Meets(f, xs[c - 1], ys[l], xs[c], ys[l])
        /\ \A x \in Xs(f) : \E s \in Range(f.supports) : s.node \in NodesAt(f, x, ys[1])

=============================================================================
