-------------------------- MODULE ModelGraphProofs ---------------------------
(***************************************************************************)
(* Proofs about the structure being edited: for any structure that is      *)
(* opened, any loads that are drawn, any line and any number of edits, no  *)
(* id is given twice and every reference finds what it names.              *)
(***************************************************************************)
EXTENDS ModelGraph, SequenceTheorems, FiniteSetTheorems, WellFoundedInduction, TLAPS

\* The circumstances a theorem leaves out.
MaterialsAreKept == {"firstOne", "shell"} \cap Races = {}
CasesAreKept == {"firstOne", "subdivide"} \cap Races = {}
BearersAreKept == {"cascade", "split3d"} \cap Races = {}

-----------------------------------------------------------------------------
(***************************************************************************)
(* A sound structure, map by map.  N, E, Q, M, C and P are the nodes, bars *)
(* shells, materials, cases and strata there are.                          *)
(***************************************************************************)

Counters == Kinds \cup {"profiles", "materials", "cases"}
Fields == Counters \cup {"constraints", "defaultProfile", "nextId"}

\* The ids of a map are below the next one.
Ids(ids, next) == next \in Nat /\ \A id \in ids : id \in Nat /\ id < next

NodesIn(nodes, next) ==
    Ids(DOMAIN nodes, next) /\ \A n \in DOMAIN nodes : nodes[n] \in 0..Reach

Bar(bar, N, M) ==
    /\ DOMAIN bar = {"i", "j", "material", "hinges"}
    /\ bar.i \in N /\ bar.j \in N
    /\ MaterialsAreKept => bar.material \in M

BarsIn(elements, next, N, M) ==
    Ids(DOMAIN elements, next) /\ \A e \in DOMAIN elements : Bar(elements[e], N, M)

SupportsIn(supports, next, N) ==
    /\ Ids(DOMAIN supports, next)
    /\ \A s \in DOMAIN supports : supports[s] \in N
    /\ IsInjective(supports)

ShapeFields == {"kind", "case", "a", "b", "qi", "qj", "meta"}

Shape(s) == DOMAIN s = ShapeFields /\ s.kind \in OnBars \cup {"nodal", "surface"}

Load(load, N, E, Q, C) ==
    /\ DOMAIN load = ShapeFields \cup {"on"}
    /\ load.kind \in OnBars \cup {"nodal", "surface"}
    /\ load.kind = "nodal" => load.on \in N
    /\ load.kind = "surface" => load.on \in Q
    /\ BearersAreKept /\ load.kind \in OnBars => load.on \in E
    /\ CasesAreKept => CaseOf(load) \in C

LoadsIn(loads, next, N, E, Q, C) ==
    Ids(DOMAIN loads, next) /\ \A k \in DOMAIN loads : Load(loads[k], N, E, Q, C)

Quad(quad, M) ==
    DOMAIN quad = {"corners", "material"} /\ (MaterialsAreKept => quad.material \in M)

QuadsIn(quads, next, M) ==
    Ids(DOMAIN quads, next) /\ \A q \in DOMAIN quads : Quad(quads[q], M)

ConnectorsIn(connectors, next, N) ==
    /\ Ids(DOMAIN connectors, next)
    /\ \A c \in DOMAIN connectors : connectors[c].i \in N /\ connectors[c].j \in N

Footing(f, N, E, P) ==
    /\ DOMAIN f = {"node", "column", "soil", "revision"}
    /\ f.node \in N
    /\ f.revision \in Nat
    /\ BearersAreKept => f.column \in E \cup {None}
    /\ f.soil \in P \cup {None}

FootingsIn(footings, next, N, E, P) ==
    Ids(DOMAIN footings, next) /\ \A f \in DOMAIN footings : Footing(footings[f], N, E, P)

CombinationsIn(combinations, next, C) ==
    Ids(DOMAIN combinations, next) /\ \A c \in DOMAIN combinations : combinations[c] \subseteq C

Ties(N) == [kind : {"diaphragm", "equation"}, master : N, slaves : (SUBSET N) \ {{}}]

ProfilesIn(profiles, next, default) ==
    /\ profiles \in Seq(Nat)
    /\ Ids(ToSet(profiles), next)
    /\ default \in ToSet(profiles) \cup {None}

Shaped(m) == DOMAIN m = Fields /\ DOMAIN m.nextId = Counters

\* The maps that refer to others.
Referring(m, N, E, Q, M, C, P) ==
    /\ BarsIn(m.elements, m.nextId.elements, N, M)
    /\ SupportsIn(m.supports, m.nextId.supports, N)
    /\ LoadsIn(m.loads, m.nextId.loads, N, E, Q, C)
    /\ QuadsIn(m.quads, m.nextId.quads, M)
    /\ ConnectorsIn(m.connectors, m.nextId.connectors, N)
    /\ FootingsIn(m.footings, m.nextId.footings, N, E, P)
    /\ CombinationsIn(m.combinations, m.nextId.combinations, C)
    /\ m.constraints \in Seq(Ties(N))

\* Sound, but that loads on bars and columns may still name the bars of G, which are gone.
SoundBut(m, G) ==
    /\ Shaped(m)
    /\ NodesIn(m.nodes, m.nextId.nodes)
    /\ Referring(m, DOMAIN m.nodes, DOMAIN m.elements \cup G, DOMAIN m.quads, m.materials,
                 m.cases, ToSet(m.profiles))
    /\ ProfilesIn(m.profiles, m.nextId.profiles, m.defaultProfile)
    /\ Ids(m.materials, m.nextId.materials)
    /\ Ids(m.cases, m.nextId.cases)

Sound(m) == SoundBut(m, {})

\* What is opened is sound, and what is drawn is a load.
ASSUME StartAssumption == Sound(Start)
ASSUME ShapesAssumption == \A s \in Shapes : Shape(s)

Inv == edits \in 0..MaxEdits /\ Sound(model)

-----------------------------------------------------------------------------
(***************************************************************************)
(* Maps: of ids, of references, and what they keep.                        *)
(***************************************************************************)

LEMMA NextId ==
    ASSUME NEW ids, NEW next, Ids(ids, next)
    PROVE  next \notin ids /\ Ids(ids \cup {next}, next + 1)
BY DEF Ids

\* More of what is referred to leaves every reference as good as it was.
LEMMA MoreToReferTo ==
    ASSUME NEW N, NEW NN, N \subseteq NN, NEW E, NEW EE, E \subseteq EE,
           NEW Q, NEW QQ, Q \subseteq QQ, NEW M, NEW MM, M \subseteq MM,
           NEW C, NEW CC, C \subseteq CC, NEW P, NEW PP, P \subseteq PP,
           NEW m, Referring(m, N, E, Q, M, C, P)
    PROVE  Referring(m, NN, EE, QQ, MM, CC, PP)
<1>1. BarsIn(m.elements, m.nextId.elements, NN, MM)
  BY DEF Referring, BarsIn, Bar
<1>2. SupportsIn(m.supports, m.nextId.supports, NN)
  BY DEF Referring, SupportsIn
<1>3. LoadsIn(m.loads, m.nextId.loads, NN, EE, QQ, CC)
  BY DEF Referring, LoadsIn, Load
<1>4. QuadsIn(m.quads, m.nextId.quads, MM)
  BY DEF Referring, QuadsIn, Quad
<1>5. ConnectorsIn(m.connectors, m.nextId.connectors, NN)
  BY DEF Referring, ConnectorsIn
<1>6. FootingsIn(m.footings, m.nextId.footings, NN, EE, PP)
  BY DEF Referring, FootingsIn, Footing
<1>7. CombinationsIn(m.combinations, m.nextId.combinations, CC)
  BY DEF Referring, CombinationsIn
<1>8. m.constraints \in Seq(Ties(NN))
  <2>1. Ties(N) \subseteq Ties(NN)
    BY DEF Ties
  <2> QED
    BY <2>1 DEF Referring
<1>9. QED
  BY <1>1, <1>2, <1>3, <1>4, <1>5, <1>6, <1>7, <1>8 DEF Referring

-----------------------------------------------------------------------------
(***************************************************************************)
(* Something is added.                                                     *)
(***************************************************************************)

Fits(m, G, map, entry) ==
    /\ map = "nodes" => entry \in 0..Reach
    /\ map = "elements" => Bar(entry, DOMAIN m.nodes, m.materials)
    /\ map = "supports" =>
           entry \in DOMAIN m.nodes /\ \A s \in DOMAIN m.supports : m.supports[s] # entry
    /\ map = "loads" =>
           Load(entry, DOMAIN m.nodes, DOMAIN m.elements \cup G, DOMAIN m.quads, m.cases)
    /\ map = "quads" => Quad(entry, m.materials)
    /\ map = "connectors" => entry.i \in DOMAIN m.nodes /\ entry.j \in DOMAIN m.nodes
    /\ map = "footings" =>
           Footing(entry, DOMAIN m.nodes, DOMAIN m.elements \cup G, ToSet(m.profiles))
    /\ map = "combinations" => entry \subseteq m.cases

LEMMA AddedFields ==
    ASSUME NEW m, Shaped(m), NEW map \in Kinds, NEW entry, NEW u, u = Added(m, map, entry)
    PROVE  /\ Shaped(u)
           /\ u[map] = Set(m[map], m.nextId[map], entry)
           /\ u.nextId[map] = m.nextId[map] + 1
           /\ \A f \in Fields \ {map, "nextId"} : u[f] = m[f]
           /\ \A f \in Counters \ {map} : u.nextId[f] = m.nextId[f]
BY DEF Added, Fields, Counters, Kinds, Shaped

LEMMA AddedIsSound ==
    ASSUME NEW m, NEW G, SoundBut(m, G), NEW map \in Kinds, NEW entry, Fits(m, G, map, entry),
           NEW u, u = Added(m, map, entry)
    PROVE  SoundBut(u, G)
<1> DEFINE id == m.nextId[map]
<1> DEFINE NN == DOMAIN u.nodes
<1> DEFINE EE == DOMAIN u.elements \cup G
<1>1. Shaped(m)
  BY DEF SoundBut
<1> HIDE DEF NN, EE
<1>2. /\ Shaped(u)
      /\ u[map] = Set(m[map], id, entry)
      /\ u.nextId[map] = id + 1
      /\ \A f \in Fields \ {map, "nextId"} : u[f] = m[f]
      /\ \A f \in Counters \ {map} : u.nextId[f] = m.nextId[f]
  BY <1>1, AddedFields
<1>3. Ids(DOMAIN m[map], id)
  BY DEF SoundBut, Referring, Kinds, NodesIn, BarsIn, SupportsIn, LoadsIn, QuadsIn,
         ConnectorsIn, FootingsIn, CombinationsIn
<1>4. id \notin DOMAIN m[map] /\ Ids(DOMAIN m[map] \cup {id}, id + 1)
  <2> HIDE DEF id
  <2> QED
    BY <1>3, NextId
<1>5. /\ DOMAIN u[map] = DOMAIN m[map] \cup {id}
      /\ u[map][id] = entry
      /\ \A x \in DOMAIN m[map] : u[map][x] = m[map][x]
  <2> DEFINE f == m[map]
  <2>1. u[map] = Set(f, id, entry) /\ id \notin DOMAIN f
    BY <1>2, <1>4
  <2> HIDE DEF f, id
  <2>2. /\ DOMAIN u[map] = DOMAIN f \cup {id}
        /\ u[map][id] = entry
        /\ \A x \in DOMAIN f : u[map][x] = f[x]
    BY <2>1 DEF Set
  <2>3. QED
    BY <2>2 DEF f
<1>6. Ids(DOMAIN u[map], u.nextId[map])
  BY <1>2, <1>4, <1>5
<1>7. \A f \in Kinds \ {map} : u[f] = m[f] /\ u.nextId[f] = m.nextId[f]
  BY <1>2 DEF Fields, Counters, Kinds
<1>8. /\ u.constraints = m.constraints /\ u.profiles = m.profiles
      /\ u.defaultProfile = m.defaultProfile /\ u.materials = m.materials /\ u.cases = m.cases
      /\ u.nextId.profiles = m.nextId.profiles /\ u.nextId.materials = m.nextId.materials
      /\ u.nextId.cases = m.nextId.cases
  BY <1>2 DEF Fields, Counters, Kinds
<1>9. \A f \in Kinds : DOMAIN m[f] \subseteq DOMAIN u[f]
  BY <1>5, <1>7
<1>10. /\ DOMAIN m.nodes \subseteq NN /\ DOMAIN m.elements \cup G \subseteq EE
       /\ DOMAIN m.quads \subseteq DOMAIN u.quads
  BY <1>9 DEF Kinds, NN, EE
<1> HIDE DEF NN, EE, id
<1>11. /\ NodesIn(m.nodes, m.nextId.nodes)
       /\ Referring(m, NN, EE, DOMAIN u.quads, u.materials, u.cases, ToSet(u.profiles))
  <2> DEFINE N == DOMAIN m.nodes
  <2> DEFINE E == DOMAIN m.elements \cup G
  <2>1. /\ NodesIn(m.nodes, m.nextId.nodes)
        /\ Referring(m, N, E, DOMAIN m.quads, m.materials, m.cases, ToSet(m.profiles))
    BY DEF SoundBut
  <2>2. /\ N \subseteq NN /\ E \subseteq EE /\ DOMAIN m.quads \subseteq DOMAIN u.quads
        /\ m.materials \subseteq u.materials /\ m.cases \subseteq u.cases
        /\ ToSet(m.profiles) \subseteq ToSet(u.profiles)
    BY <1>8, <1>10
  <2> HIDE DEF N, E
  <2>3. QED
    BY <2>1, <2>2, MoreToReferTo
<1>12. /\ map = "nodes" => entry \in 0..Reach
       /\ map = "elements" => Bar(entry, NN, u.materials)
       /\ map = "supports" => entry \in NN /\ \A s \in DOMAIN m.supports : m.supports[s] # entry
       /\ map = "loads" => Load(entry, NN, EE, DOMAIN u.quads, u.cases)
       /\ map = "quads" => Quad(entry, u.materials)
       /\ map = "connectors" => entry.i \in NN /\ entry.j \in NN
       /\ map = "footings" => Footing(entry, NN, EE, ToSet(u.profiles))
       /\ map = "combinations" => entry \subseteq u.cases
  BY <1>8, <1>10 DEF Fits, Bar, Load, Footing, Quad
<1>13. NodesIn(u.nodes, u.nextId.nodes)
  <2>1. CASE map = "nodes"
    BY <1>5, <1>6, <1>11, <1>12, <2>1 DEF NodesIn
  <2>2. CASE map # "nodes"
    BY <1>7, <1>11, <2>2 DEF Kinds
  <2>3. QED
    BY <2>1, <2>2
<1>14. BarsIn(u.elements, u.nextId.elements, NN, u.materials)
  <2>1. CASE map = "elements"
    BY <1>5, <1>6, <1>11, <1>12, <2>1 DEF Referring, BarsIn
  <2>2. CASE map # "elements"
    BY <1>7, <1>11, <2>2 DEF Referring, Kinds
  <2>3. QED
    BY <2>1, <2>2
<1>15. SupportsIn(u.supports, u.nextId.supports, NN)
  <2>1. CASE map = "supports"
    <3>1. \A s \in DOMAIN u.supports : u.supports[s] \in NN
      BY <1>5, <1>11, <1>12, <2>1 DEF Referring, SupportsIn
    <3>2. IsInjective(u.supports)
      <4>1. ASSUME NEW s \in DOMAIN u.supports, NEW t \in DOMAIN u.supports,
                   u.supports[s] = u.supports[t]
            PROVE  s = t
        BY <1>4, <1>5, <1>11, <1>12, <2>1, <4>1 DEF Referring, SupportsIn, IsInjective
      <4>2. QED
        BY <4>1 DEF IsInjective
    <3>3. QED
      BY <1>6, <2>1, <3>1, <3>2 DEF Referring, SupportsIn
  <2>2. CASE map # "supports"
    BY <1>7, <1>11, <2>2 DEF Referring, Kinds
  <2>3. QED
    BY <2>1, <2>2
<1>16. LoadsIn(u.loads, u.nextId.loads, NN, EE, DOMAIN u.quads, u.cases)
  <2>1. CASE map = "loads"
    BY <1>5, <1>6, <1>11, <1>12, <2>1 DEF Referring, LoadsIn
  <2>2. CASE map # "loads"
    BY <1>7, <1>11, <2>2 DEF Referring, Kinds
  <2>3. QED
    BY <2>1, <2>2
<1>17. QuadsIn(u.quads, u.nextId.quads, u.materials)
  <2>1. CASE map = "quads"
    BY <1>5, <1>6, <1>11, <1>12, <2>1 DEF Referring, QuadsIn
  <2>2. CASE map # "quads"
    BY <1>7, <1>11, <2>2 DEF Referring, Kinds
  <2>3. QED
    BY <2>1, <2>2
<1>18. ConnectorsIn(u.connectors, u.nextId.connectors, NN)
  <2>1. CASE map = "connectors"
    BY <1>5, <1>6, <1>11, <1>12, <2>1 DEF Referring, ConnectorsIn
  <2>2. CASE map # "connectors"
    BY <1>7, <1>11, <2>2 DEF Referring, Kinds
  <2>3. QED
    BY <2>1, <2>2
<1>19. FootingsIn(u.footings, u.nextId.footings, NN, EE, ToSet(u.profiles))
  <2>1. CASE map = "footings"
    BY <1>5, <1>6, <1>11, <1>12, <2>1 DEF Referring, FootingsIn
  <2>2. CASE map # "footings"
    BY <1>7, <1>11, <2>2 DEF Referring, Kinds
  <2>3. QED
    BY <2>1, <2>2
<1>20. CombinationsIn(u.combinations, u.nextId.combinations, u.cases)
  <2>1. CASE map = "combinations"
    BY <1>5, <1>6, <1>11, <1>12, <2>1 DEF Referring, CombinationsIn
  <2>2. CASE map # "combinations"
    BY <1>7, <1>11, <2>2 DEF Referring, Kinds
  <2>3. QED
    BY <2>1, <2>2
<1>21. /\ ProfilesIn(u.profiles, u.nextId.profiles, u.defaultProfile)
       /\ Ids(u.materials, u.nextId.materials) /\ Ids(u.cases, u.nextId.cases)
  BY <1>8 DEF SoundBut
<1>22. QED
  BY <1>2, <1>8, <1>11, <1>13, <1>14, <1>15, <1>16, <1>17, <1>18, <1>19, <1>20, <1>21
     DEF SoundBut, Referring, NN, EE

-----------------------------------------------------------------------------
(***************************************************************************)
(* Sets of numbers, and sequences laid end to end.                         *)
(***************************************************************************)

\* A set of naturals has a least element.
LEMMA LeastOf ==
    ASSUME NEW S, S \subseteq Nat, S # {}
    PROVE  Min(S) \in S /\ \A y \in S : Min(S) <= y
<1> DEFINE Less == {z \in Nat \X Nat : z[1] < z[2]}
<1>1. IsWellFoundedOn(Less, Nat)
  BY NatLessThanWellFounded DEF OpToRel
<1>2. PICK x \in S : \A y \in S : ~(<<y, x>> \in Less)
  <2> HIDE DEF Less
  <2>1. QED
    BY <1>1, WFMin
<1>3. \A y \in S : x <= y
  <2> SUFFICES ASSUME NEW y \in S, ~(x <= y) PROVE FALSE
    OBVIOUS
  <2>1. x \in Nat /\ y \in Nat /\ y < x
    OBVIOUS
  <2>2. <<y, x>> \in Nat \X Nat /\ <<y, x>>[1] < <<y, x>>[2]
    BY <2>1
  <2>3. <<y, x>> \in Less
    BY <2>2
  <2>4. QED
    BY <1>2, <2>3
<1>4. \E z \in S : \A y \in S : z <= y
  BY <1>3
<1>5. QED
  BY <1>4 DEF Min

LEMMA MinMaxOfTwo ==
    ASSUME NEW a \in Int, NEW b \in Int
    PROVE  /\ Max({a, b}) = IF a >= b THEN a ELSE b
           /\ Min({a, b}) = IF a <= b THEN a ELSE b
<1>1. \A x \in {a, b} : (\A y \in {a, b} : x >= y) => x = IF a >= b THEN a ELSE b
  OBVIOUS
<1>2. \A x \in {a, b} : (\A y \in {a, b} : x <= y) => x = IF a <= b THEN a ELSE b
  OBVIOUS
<1>3. \E x \in {a, b} : \A y \in {a, b} : x >= y
  OBVIOUS
<1>4. \E x \in {a, b} : \A y \in {a, b} : x <= y
  OBVIOUS
<1>5. QED
  BY <1>1, <1>2, <1>3, <1>4 DEF Max, Min

\* The sequences seqs, laid end to end, up to each of them.
EndToEnd(f, seqs, n) == f = [i \in 1..n |-> IF i = 1 THEN seqs[i] ELSE f[i - 1] \o seqs[i]]

LEMMA EndToEndStep ==
    ASSUME NEW seqs, NEW n \in Nat, NEW f, EndToEnd(f, seqs, n)
    PROVE  \E g : EndToEnd(g, seqs, n + 1)
<1> DEFINE Longer(i) == IF n = 0 THEN seqs[i] ELSE f[n] \o seqs[i]
           g == [i \in 1..(n + 1) |-> IF i = n + 1 THEN Longer(i) ELSE f[i]]
           h == [i \in 1..(n + 1) |-> IF i = 1 THEN seqs[i] ELSE g[i - 1] \o seqs[i]]
<1>1. \A i \in 1..(n + 1) : g[i] = IF i = 1 THEN seqs[i] ELSE g[i - 1] \o seqs[i]
  <2> SUFFICES ASSUME NEW i \in 1..(n + 1)
               PROVE  g[i] = IF i = 1 THEN seqs[i] ELSE g[i - 1] \o seqs[i]
    OBVIOUS
  <2>1. CASE i = n + 1 /\ n = 0
    BY <2>1
  <2>2. CASE i = n + 1 /\ n # 0
    <3>1. i # 1 /\ i - 1 \in 1..(n + 1) /\ i - 1 # n + 1 /\ i - 1 = n
      BY <2>2
    <3>2. g[i - 1] = f[n] /\ g[i] = f[n] \o seqs[i]
      BY <2>2, <3>1
    <3>3. QED
      BY <3>1, <3>2
  <2>3. CASE i # n + 1 /\ i = 1
    <3>1. g[i] = f[i] /\ i \in 1..n
      BY <2>3
    <3>2. f[i] = seqs[i]
      BY <2>3, <3>1 DEF EndToEnd
    <3>3. QED
      BY <2>3, <3>1, <3>2
  <2>4. CASE i # n + 1 /\ i # 1
    <3>1. i - 1 \in 1..(n + 1) /\ i - 1 # n + 1 /\ i \in 1..n
      BY <2>4
    <3>2. g[i] = f[i] /\ g[i - 1] = f[i - 1]
      BY <2>4, <3>1
    <3> HIDE DEF g
    <3>3. f[i] = f[i - 1] \o seqs[i]
      BY <2>4, <3>1 DEF EndToEnd
    <3>4. QED
      BY <2>4, <3>2, <3>3
  <2>5. QED
    BY <2>1, <2>2, <2>3, <2>4
<1>2. DOMAIN g = 1..(n + 1) /\ g = [i \in 1..(n + 1) |-> g[i]]
  OBVIOUS
<1> HIDE DEF g
<1>3. h = g
  BY <1>1, <1>2
<1>4. QED
  BY <1>3 DEF EndToEnd

LEMMA EndToEndExists == \A seqs : \A n \in Nat : \E f : EndToEnd(f, seqs, n)
<1> SUFFICES ASSUME NEW seqs PROVE \A n \in Nat : \E f : EndToEnd(f, seqs, n)
  OBVIOUS
<1> DEFINE Bad == {n \in Nat : ~\E f : EndToEnd(f, seqs, n)}
<1>1. Bad \subseteq Nat
  OBVIOUS
<1>2. CASE Bad # {}
  <2>1. PICK n \in Bad : \A k \in Bad : n <= k
    <3> HIDE DEF Bad
    <3>1. QED
      BY <1>1, <1>2, LeastOf
  <2>2. n # 0
    <3> DEFINE f == [i \in 1..0 |-> seqs[i]]
    <3>1. f = [i \in 1..0 |-> IF i = 1 THEN seqs[i] ELSE f[i - 1] \o seqs[i]]
      OBVIOUS
    <3> HIDE DEF f
    <3>2. EndToEnd(f, seqs, 0)
      BY <3>1 DEF EndToEnd
    <3>3. QED
      BY <3>2
  <2>3. n - 1 \in Nat /\ n - 1 \notin Bad /\ (n - 1) + 1 = n
    BY <2>1, <2>2
  <2>4. PICK f : EndToEnd(f, seqs, n - 1)
    BY <2>3
  <2>5. \E g : EndToEnd(g, seqs, n)
    BY <2>3, <2>4, EndToEndStep
  <2>6. QED
    BY <2>5
<1>3. QED
  BY <1>2

LEMMA EndToEndEntries ==
    ASSUME NEW S, NEW seqs \in Seq(Seq(S)), NEW f, EndToEnd(f, seqs, Len(seqs))
    PROVE  \A i \in 1..Len(seqs) : f[i] \in Seq(S)
<1> DEFINE n == Len(seqs)
           Bad == {i \in 1..n : f[i] \notin Seq(S)}
<1>1. n \in Nat /\ \A i \in 1..n : seqs[i] \in Seq(S)
  BY LenProperties, ElementOfSeq
<1>2. Bad \subseteq Nat
  BY <1>1
<1>3. CASE Bad # {}
  <2>1. PICK i \in Bad : \A k \in Bad : i <= k
    <3> HIDE DEF Bad
    <3>1. QED
      BY <1>2, <1>3, LeastOf
  <2>2. i \in 1..n /\ f[i] \notin Seq(S) /\ seqs[i] \in Seq(S)
    BY <1>1, <2>1
  <2>3. f[i] = IF i = 1 THEN seqs[i] ELSE f[i - 1] \o seqs[i]
    BY <2>2 DEF EndToEnd
  <2>4. i # 1
    BY <2>2, <2>3
  <2>5. i - 1 \in 1..n /\ ~(i <= i - 1)
    BY <1>1, <2>2, <2>4
  <2>6. f[i - 1] \in Seq(S)
    BY <2>1, <2>5
  <2> HIDE DEF n, Bad
  <2>7. f[i - 1] \o seqs[i] \in Seq(S)
    BY <2>2, <2>6, ConcatProperties
  <2>8. QED
    BY <2>2, <2>3, <2>4, <2>7
<1>4. QED
  BY <1>3

LEMMA FlattenedIsTheLast ==
    ASSUME NEW S, NEW seqs \in Seq(Seq(S)), Len(seqs) # 0
    PROVE  \E f : EndToEnd(f, seqs, Len(seqs)) /\ FlattenSeq(seqs) = f[Len(seqs)]
<1> DEFINE n == Len(seqs)
           f == CHOOSE f : EndToEnd(f, seqs, n)
<1>1. FlattenSeq(seqs) = f[n]
  BY DEF FlattenSeq, EndToEnd
<1>2. EndToEnd(f, seqs, n)
  <2>1. n \in Nat
    BY LenProperties
  <2>2. \E g : EndToEnd(g, seqs, n)
    BY <2>1, EndToEndExists
  <2> HIDE DEF EndToEnd, n
  <2>3. QED
    BY <2>2
<1>3. QED
  BY <1>1, <1>2

LEMMA FlattenedIsASequence ==
    ASSUME NEW S, NEW seqs \in Seq(Seq(S))
    PROVE  FlattenSeq(seqs) \in Seq(S)
<1>1. CASE Len(seqs) = 0
  <2>1. FlattenSeq(seqs) = seqs /\ seqs = <<>>
    BY <1>1, LenProperties DEF FlattenSeq
  <2>2. QED
    BY <2>1
<1>2. CASE Len(seqs) # 0
  <2>1. PICK f : EndToEnd(f, seqs, Len(seqs)) /\ FlattenSeq(seqs) = f[Len(seqs)]
    BY <1>2, FlattenedIsTheLast
  <2>2. Len(seqs) \in 1..Len(seqs)
    BY <1>2, LenProperties
  <2>3. QED
    BY <2>1, <2>2, EndToEndEntries
<1>3. QED
  BY <1>1, <1>2

LEMMA JoinedEntries ==
    ASSUME NEW S, NEW s \in Seq(S), NEW t \in Seq(S)
    PROVE  ToSet(s) \subseteq ToSet(s \o t) /\ ToSet(t) \subseteq ToSet(s \o t)
<1>1. /\ Len(s) \in Nat /\ DOMAIN s = 1..Len(s) /\ Len(t) \in Nat /\ DOMAIN t = 1..Len(t)
      /\ s \o t \in Seq(S) /\ Len(s \o t) = Len(s) + Len(t)
      /\ \A i \in 1..(Len(s) + Len(t)) :
             (s \o t)[i] = IF i <= Len(s) THEN s[i] ELSE t[i - Len(s)]
  BY LenProperties, ConcatProperties
<1>2. DOMAIN (s \o t) = 1..(Len(s) + Len(t))
  BY <1>1, LenProperties
<1>3. ASSUME NEW i \in DOMAIN s PROVE s[i] \in ToSet(s \o t)
  <2>1. i \in 1..(Len(s) + Len(t)) /\ i <= Len(s)
    BY <1>1
  <2>2. QED
    BY <1>1, <1>2, <2>1 DEF ToSet
<1>4. ASSUME NEW i \in DOMAIN t PROVE t[i] \in ToSet(s \o t)
  <2>1. Len(s) + i \in 1..(Len(s) + Len(t)) /\ ~(Len(s) + i <= Len(s)) /\ Len(s) + i - Len(s) = i
    BY <1>1
  <2>2. QED
    BY <1>1, <1>2, <2>1 DEF ToSet
<1>5. QED
  BY <1>3, <1>4 DEF ToSet

\* What is in one of the sequences is in what they are laid end to end.
LEMMA FlattenedKeepsEntries ==
    ASSUME NEW S, NEW seqs \in Seq(Seq(S)), NEW k \in 1..Len(seqs)
    PROVE  ToSet(seqs[k]) \subseteq ToSet(FlattenSeq(seqs))
<1> DEFINE n == Len(seqs)
<1>1. n \in Nat /\ n # 0 /\ \A i \in 1..n : seqs[i] \in Seq(S)
  BY LenProperties, ElementOfSeq
<1>2. PICK f : EndToEnd(f, seqs, n) /\ FlattenSeq(seqs) = f[n]
  BY <1>1, FlattenedIsTheLast
<1>3. \A i \in 1..n : f[i] \in Seq(S)
  BY <1>2, EndToEndEntries
<1>4. \A i \in 1..n : f[i] = IF i = 1 THEN seqs[i] ELSE f[i - 1] \o seqs[i]
  BY <1>2 DEF EndToEnd
<1> DEFINE Lost == {i \in k..n : ~(ToSet(seqs[k]) \subseteq ToSet(f[i]))}
<1>5. k \in 1..n /\ Lost \subseteq Nat
  BY <1>1
<1>6. CASE Lost # {}
  <2>1. PICK i \in Lost : \A j \in Lost : i <= j
    <3> HIDE DEF Lost
    <3>1. QED
      BY <1>5, <1>6, LeastOf
  <2>2. i \in 1..n /\ k <= i /\ i \in Nat /\ k \in Nat
    BY <1>1, <1>5, <2>1
  <2>3. i # 1
    BY <1>4, <2>1, <2>2
  <2>4. i - 1 \in 1..n
    BY <1>1, <2>2, <2>3
  <2>5. /\ ToSet(f[i - 1]) \subseteq ToSet(f[i - 1] \o seqs[i])
        /\ ToSet(seqs[i]) \subseteq ToSet(f[i - 1] \o seqs[i])
    <3>1. f[i - 1] \in Seq(S) /\ seqs[i] \in Seq(S)
      BY <1>1, <1>3, <2>2, <2>4
    <3>2. QED
      BY <3>1, JoinedEntries
  <2>6. f[i] = f[i - 1] \o seqs[i]
    BY <1>4, <2>2, <2>3
  <2>7. i # k
    BY <2>1, <2>5, <2>6
  <2>8. i - 1 \in k..n /\ ~(i <= i - 1)
    BY <1>1, <2>2, <2>7
  <2>9. ToSet(seqs[k]) \subseteq ToSet(f[i - 1])
    BY <2>1, <2>8
  <2>10. QED
    BY <2>1, <2>5, <2>6, <2>9
<1>7. CASE Lost = {}
  <2>1. n \in k..n
    BY <1>1, <1>5
  <2>2. QED
    BY <1>2, <1>7, <2>1
<1>8. QED
  BY <1>6, <1>7

LEMMA ListedOnce ==
    ASSUME NEW S, IsFiniteSet(S)
    PROVE  Cardinality(S) \in Nat /\ SetToSeq(S) \in [1..Cardinality(S) -> S]
<1>1. Cardinality(S) \in Nat /\ ExistsBijection(1..Cardinality(S), S)
  BY FS_CardinalityType
<1>2. \E f \in [1..Cardinality(S) -> S] : IsInjective(f)
  BY <1>1 DEF ExistsBijection, Bijection, Injection
<1>3. QED
  BY <1>1, <1>2 DEF SetToSeq

LEMMA IdsAreFinite ==
    ASSUME NEW ids, NEW next, Ids(ids, next), NEW some, some \subseteq ids
    PROVE  IsFiniteSet(some)
<1>1. next \in Nat /\ some \subseteq 0..next
  BY DEF Ids
<1>2. IsFiniteSet(0..next)
  BY <1>1, FS_Interval
<1>3. QED
  BY <1>1, <1>2, FS_Subset

-----------------------------------------------------------------------------
(***************************************************************************)
(* Something goes.                                                         *)
(***************************************************************************)

\* Fewer entries are as good as they were.
LEMMA FewerEntries ==
    ASSUME NEW f, NEW g, IsRestriction(g, f), NEW next, NEW N, NEW E, NEW Q, NEW M, NEW C, NEW P
    PROVE  /\ NodesIn(f, next) => NodesIn(g, next)
           /\ BarsIn(f, next, N, M) => BarsIn(g, next, N, M)
           /\ SupportsIn(f, next, N) => SupportsIn(g, next, N)
           /\ LoadsIn(f, next, N, E, Q, C) => LoadsIn(g, next, N, E, Q, C)
           /\ QuadsIn(f, next, M) => QuadsIn(g, next, M)
           /\ ConnectorsIn(f, next, N) => ConnectorsIn(g, next, N)
           /\ FootingsIn(f, next, N, E, P) => FootingsIn(g, next, N, E, P)
           /\ CombinationsIn(f, next, C) => CombinationsIn(g, next, C)
<1>1. DOMAIN g \subseteq DOMAIN f /\ \A x \in DOMAIN g : g[x] = f[x]
  BY DEF IsRestriction
<1>2. Ids(DOMAIN f, next) => Ids(DOMAIN g, next)
  BY <1>1 DEF Ids
<1>3. NodesIn(f, next) => NodesIn(g, next)
  BY <1>1, <1>2 DEF NodesIn
<1>4. BarsIn(f, next, N, M) => BarsIn(g, next, N, M)
  BY <1>1, <1>2 DEF BarsIn
<1>5. SupportsIn(f, next, N) => SupportsIn(g, next, N)
  BY <1>1, <1>2 DEF SupportsIn, IsInjective
<1>6. LoadsIn(f, next, N, E, Q, C) => LoadsIn(g, next, N, E, Q, C)
  BY <1>1, <1>2 DEF LoadsIn
<1>7. QuadsIn(f, next, M) => QuadsIn(g, next, M)
  BY <1>1, <1>2 DEF QuadsIn
<1>8. ConnectorsIn(f, next, N) => ConnectorsIn(g, next, N)
  BY <1>1, <1>2 DEF ConnectorsIn
<1>9. FootingsIn(f, next, N, E, P) => FootingsIn(g, next, N, E, P)
  BY <1>1, <1>2 DEF FootingsIn
<1>10. CombinationsIn(f, next, C) => CombinationsIn(g, next, C)
  BY <1>1, <1>2 DEF CombinationsIn
<1>11. QED
  BY <1>3, <1>4, <1>5, <1>6, <1>7, <1>8, <1>9, <1>10

LEMMA PrunedIsOfTheRest ==
    ASSUME NEW N, NEW c \in Ties(N), NEW gone
    PROVE  Pruned(c, gone) \in Seq(Ties(N \ gone))
<1> DEFINE left == [c EXCEPT !.slaves = @ \ gone]
<1>0. <<>> \in Seq(Ties(N \ gone))
  BY EmptySeq
<1>1. CASE c.kind = "diaphragm" /\ ~(c.master \in gone \/ c.slaves \subseteq gone)
  <2>1. left \in Ties(N \ gone)
    BY <1>1 DEF Ties
  <2> HIDE DEF left
  <2>2. <<left>> \in Seq(Ties(N \ gone))
    BY <2>1
  <2>3. QED
    BY <1>1, <2>2 DEF Pruned, left
<1>2. CASE c.kind # "diaphragm" /\ (c.slaves \cup {c.master}) \cap gone = {}
  <2>1. c \in Ties(N \ gone)
    BY <1>2 DEF Ties
  <2>2. <<c>> \in Seq(Ties(N \ gone))
    BY <2>1
  <2>3. QED
    BY <1>2, <2>2 DEF Pruned
<1>3. QED
  BY <1>0, <1>1, <1>2 DEF Pruned

LEMMA PrunedAreOfTheRest ==
    ASSUME NEW N, NEW ties \in Seq(Ties(N)), NEW gone
    PROVE  FlattenSeq([k \in DOMAIN ties |-> Pruned(ties[k], gone)]) \in Seq(Ties(N \ gone))
<1> DEFINE each == [k \in DOMAIN ties |-> Pruned(ties[k], gone)]
           rest == Seq(Ties(N \ gone))
<1>1. Len(ties) \in Nat /\ DOMAIN ties = 1..Len(ties)
  BY LenProperties
<1>2. \A k \in DOMAIN ties : Pruned(ties[k], gone) \in rest
  BY <1>1, ElementOfSeq, PrunedIsOfTheRest
<1>3. each \in [1..Len(ties) -> rest]
  BY <1>1, <1>2
<1> HIDE DEF each, rest
<1>4. each \in Seq(rest)
  BY <1>1, <1>3, SeqDef
<1>5. QED
  BY <1>4, FlattenedIsASequence DEF each, rest

\* The bars at none of these nodes.
Apart(m, nodes) ==
    {e \in DOMAIN m.elements : {m.elements[e].i, m.elements[e].j} \cap nodes = {}}

\* What refers to a node goes with it; loads and columns may name the bars that went.
LEMMA NodesRemovedIsSound ==
    ASSUME NEW m, NEW G, SoundBut(m, G), NEW gone, NEW u, u = NodesRemoved(m, gone),
           NEW H, H = G \cup ((DOMAIN m.elements) \ (DOMAIN u.elements))
    PROVE  /\ SoundBut(u, H)
           /\ DOMAIN u.elements = Apart(m, gone)
           /\ IsRestriction(u.loads, m.loads)
           /\ IsRestriction(u.footings, m.footings)
           /\ u.quads = m.quads
<1> DEFINE N == DOMAIN m.nodes
           E == DOMAIN m.elements \cup G
<1>1. /\ Shaped(m) /\ NodesIn(m.nodes, m.nextId.nodes)
      /\ Referring(m, N, E, DOMAIN m.quads, m.materials, m.cases, ToSet(m.profiles))
      /\ ProfilesIn(m.profiles, m.nextId.profiles, m.defaultProfile)
      /\ Ids(m.materials, m.nextId.materials) /\ Ids(m.cases, m.nextId.cases)
  BY DEF SoundBut
<1>2. /\ DOMAIN u = Fields
      /\ u.nodes = Without(m.nodes, gone)
      /\ u.elements = Keep(m.elements, LAMBDA e : {e.i, e.j} \cap gone = {})
      /\ u.supports = Keep(m.supports, LAMBDA n : n \notin gone)
      /\ u.loads = Keep(m.loads, LAMBDA l : ~(l.kind = "nodal" /\ l.on \in gone))
      /\ u.connectors = Keep(m.connectors, LAMBDA c : {c.i, c.j} \cap gone = {})
      /\ u.footings = Keep(m.footings, LAMBDA f : f.node \notin gone)
      /\ u.constraints = FlattenSeq([k \in DOMAIN m.constraints |-> Pruned(m.constraints[k], gone)])
      /\ u.quads = m.quads /\ u.profiles = m.profiles /\ u.defaultProfile = m.defaultProfile
      /\ u.materials = m.materials /\ u.cases = m.cases /\ u.combinations = m.combinations
      /\ u.nextId = m.nextId
  BY <1>1 DEF NodesRemoved, Shaped, Fields, Counters, Kinds
<1>3. DOMAIN u.nodes = N \ gone /\ \A n \in N \ gone : u.nodes[n] = m.nodes[n]
  BY <1>2 DEF Without, Restrict
<1>4. /\ DOMAIN u.elements =
             {e \in DOMAIN m.elements : {m.elements[e].i, m.elements[e].j} \cap gone = {}}
      /\ \A e \in DOMAIN u.elements : u.elements[e] = m.elements[e]
  BY <1>2 DEF Keep, Restrict
<1>5. /\ DOMAIN u.supports = {s \in DOMAIN m.supports : m.supports[s] \notin gone}
      /\ \A s \in DOMAIN u.supports : u.supports[s] = m.supports[s]
  BY <1>2 DEF Keep, Restrict
<1>6. /\ DOMAIN u.loads =
             {k \in DOMAIN m.loads : ~(m.loads[k].kind = "nodal" /\ m.loads[k].on \in gone)}
      /\ \A k \in DOMAIN u.loads : u.loads[k] = m.loads[k]
  BY <1>2 DEF Keep, Restrict
<1>7. /\ DOMAIN u.connectors =
             {c \in DOMAIN m.connectors : {m.connectors[c].i, m.connectors[c].j} \cap gone = {}}
      /\ \A c \in DOMAIN u.connectors : u.connectors[c] = m.connectors[c]
  BY <1>2 DEF Keep, Restrict
<1>8. /\ DOMAIN u.footings = {f \in DOMAIN m.footings : m.footings[f].node \notin gone}
      /\ \A f \in DOMAIN u.footings : u.footings[f] = m.footings[f]
  BY <1>2 DEF Keep, Restrict
<1>9. DOMAIN u.elements \cup H = E
  BY <1>4
<1> HIDE DEF N, E
<1>10. NodesIn(u.nodes, u.nextId.nodes)
  BY <1>1, <1>2, <1>3 DEF NodesIn, Ids, N
<1>11. BarsIn(u.elements, u.nextId.elements, N \ gone, u.materials)
  BY <1>1, <1>2, <1>4 DEF Referring, BarsIn, Bar, Ids
<1>12. SupportsIn(u.supports, u.nextId.supports, N \ gone)
  BY <1>1, <1>2, <1>5 DEF Referring, SupportsIn, IsInjective, Ids
<1>13. LoadsIn(u.loads, u.nextId.loads, N \ gone, E, DOMAIN u.quads, u.cases)
  BY <1>1, <1>2, <1>6 DEF Referring, LoadsIn, Load, Ids
<1>14. ConnectorsIn(u.connectors, u.nextId.connectors, N \ gone)
  BY <1>1, <1>2, <1>7 DEF Referring, ConnectorsIn, Ids
<1>15. FootingsIn(u.footings, u.nextId.footings, N \ gone, E, ToSet(u.profiles))
  BY <1>1, <1>2, <1>8 DEF Referring, FootingsIn, Footing, Ids
<1>16. u.constraints \in Seq(Ties(N \ gone))
  BY <1>1, <1>2, PrunedAreOfTheRest DEF Referring
<1>17. Referring(u, N \ gone, E, DOMAIN u.quads, u.materials, u.cases, ToSet(u.profiles))
  BY <1>1, <1>2, <1>11, <1>12, <1>13, <1>14, <1>15, <1>16 DEF Referring
<1>18. SoundBut(u, H)
  BY <1>1, <1>2, <1>3, <1>9, <1>10, <1>17 DEF SoundBut, Shaped, N
<1>19. IsRestriction(u.loads, m.loads) /\ IsRestriction(u.footings, m.footings)
  BY <1>6, <1>8 DEF IsRestriction
<1>20. QED
  BY <1>2, <1>4, <1>18, <1>19 DEF Apart

\* Bars go with their loads, and columns are cleared, of bars that were gone before too.
LEMMA ElementsRemovedIsSound ==
    ASSUME NEW m, NEW G, SoundBut(m, G), NEW gone, NEW u, u = ElementsRemoved(m, gone)
    PROVE  SoundBut(u, G \ gone)
<1> DEFINE N == DOMAIN m.nodes
           E == DOMAIN m.elements \cup G
<1>1. /\ Shaped(m) /\ NodesIn(m.nodes, m.nextId.nodes)
      /\ Referring(m, N, E, DOMAIN m.quads, m.materials, m.cases, ToSet(m.profiles))
      /\ ProfilesIn(m.profiles, m.nextId.profiles, m.defaultProfile)
      /\ Ids(m.materials, m.nextId.materials) /\ Ids(m.cases, m.nextId.cases)
  BY DEF SoundBut
<1>2. /\ DOMAIN u = Fields
      /\ u.elements = Without(m.elements, gone)
      /\ u.loads = Keep(m.loads, LAMBDA l : ~(l.kind \in OnBars /\ l.on \in gone))
      /\ u.footings = [k \in DOMAIN m.footings |-> ColumnCleared(m.footings[k], gone)]
      /\ u.nodes = m.nodes /\ u.supports = m.supports /\ u.connectors = m.connectors
      /\ u.constraints = m.constraints
      /\ u.quads = m.quads /\ u.profiles = m.profiles /\ u.defaultProfile = m.defaultProfile
      /\ u.materials = m.materials /\ u.cases = m.cases /\ u.combinations = m.combinations
      /\ u.nextId = m.nextId
  BY <1>1 DEF ElementsRemoved, Shaped, Fields, Counters, Kinds
<1>3. /\ DOMAIN u.elements = (DOMAIN m.elements) \ gone
      /\ \A e \in DOMAIN u.elements : u.elements[e] = m.elements[e]
  BY <1>2 DEF Without, Restrict
<1>4. /\ DOMAIN u.loads =
             {k \in DOMAIN m.loads : ~(m.loads[k].kind \in OnBars /\ m.loads[k].on \in gone)}
      /\ \A k \in DOMAIN u.loads : u.loads[k] = m.loads[k]
  BY <1>2 DEF Keep, Restrict
<1>5. /\ DOMAIN u.footings = DOMAIN m.footings
      /\ \A f \in DOMAIN u.footings : u.footings[f] = ColumnCleared(m.footings[f], gone)
  BY <1>2
<1>6. DOMAIN u.elements \cup (G \ gone) = E \ gone
  BY <1>3
<1> HIDE DEF N, E
<1>7. BarsIn(u.elements, u.nextId.elements, N, u.materials)
  BY <1>1, <1>2, <1>3 DEF Referring, BarsIn, Ids
<1>8. LoadsIn(u.loads, u.nextId.loads, N, E \ gone, DOMAIN u.quads, u.cases)
  BY <1>1, <1>2, <1>4 DEF Referring, LoadsIn, Load, Ids
<1>9. FootingsIn(u.footings, u.nextId.footings, N, E \ gone, ToSet(u.profiles))
  <2>1. ASSUME NEW f \in DOMAIN m.footings
        PROVE  Footing(ColumnCleared(m.footings[f], gone), N, E \ gone, ToSet(m.profiles))
    <3>1. Footing(m.footings[f], N, E, ToSet(m.profiles))
      BY <1>1 DEF Referring, FootingsIn
    <3>2. QED
      BY <3>1 DEF Footing, ColumnCleared
  <2>2. QED
    BY <1>1, <1>2, <1>5, <2>1 DEF Referring, FootingsIn
<1>10. Referring(u, N, E \ gone, DOMAIN u.quads, u.materials, u.cases, ToSet(u.profiles))
  BY <1>1, <1>2, <1>7, <1>8, <1>9 DEF Referring
<1>11. QED
  BY <1>1, <1>2, <1>6, <1>10 DEF SoundBut, Shaped, N

LEMMA QuadsRemovedIsSound ==
    ASSUME NEW m, NEW G, SoundBut(m, G), NEW gone, NEW u, u = QuadsRemoved(m, gone)
    PROVE  SoundBut(u, G)
<1> DEFINE N == DOMAIN m.nodes
           E == DOMAIN m.elements \cup G
           Q == DOMAIN m.quads
<1>1. /\ Shaped(m) /\ NodesIn(m.nodes, m.nextId.nodes)
      /\ Referring(m, N, E, Q, m.materials, m.cases, ToSet(m.profiles))
      /\ ProfilesIn(m.profiles, m.nextId.profiles, m.defaultProfile)
      /\ Ids(m.materials, m.nextId.materials) /\ Ids(m.cases, m.nextId.cases)
  BY DEF SoundBut
<1>2. /\ DOMAIN u = Fields
      /\ u.quads = Without(m.quads, gone)
      /\ u.loads = Keep(m.loads, LAMBDA l : ~(l.kind = "surface" /\ l.on \in gone))
      /\ u.nodes = m.nodes /\ u.elements = m.elements /\ u.supports = m.supports
      /\ u.connectors = m.connectors /\ u.constraints = m.constraints
      /\ u.footings = m.footings /\ u.profiles = m.profiles
      /\ u.defaultProfile = m.defaultProfile
      /\ u.materials = m.materials /\ u.cases = m.cases /\ u.combinations = m.combinations
      /\ u.nextId = m.nextId
  BY <1>1 DEF QuadsRemoved, Shaped, Fields, Counters, Kinds
<1>3. DOMAIN u.quads = Q \ gone /\ \A q \in DOMAIN u.quads : u.quads[q] = m.quads[q]
  BY <1>2 DEF Without, Restrict
<1>4. /\ DOMAIN u.loads =
             {k \in DOMAIN m.loads : ~(m.loads[k].kind = "surface" /\ m.loads[k].on \in gone)}
      /\ \A k \in DOMAIN u.loads : u.loads[k] = m.loads[k]
  BY <1>2 DEF Keep, Restrict
<1> HIDE DEF N, E
<1>5. QuadsIn(u.quads, u.nextId.quads, u.materials)
  BY <1>1, <1>2, <1>3 DEF Referring, QuadsIn, Ids
<1> HIDE DEF Q
<1>6. LoadsIn(u.loads, u.nextId.loads, N, E, Q \ gone, u.cases)
  BY <1>1, <1>2, <1>4 DEF Referring, LoadsIn, Load, Ids
<1>7. Referring(u, N, E, Q \ gone, u.materials, u.cases, ToSet(u.profiles))
  BY <1>1, <1>2, <1>5, <1>6 DEF Referring
<1>8. QED
  BY <1>1, <1>2, <1>3, <1>7 DEF SoundBut, Shaped, N, E

\* Nothing names the bars that are gone: all is as if they had never been.
LEMMA NothingNamesThem ==
    ASSUME NEW m, NEW G, SoundBut(m, G),
           BearersAreKept =>
               /\ \A k \in DOMAIN m.loads : m.loads[k].kind \in OnBars => m.loads[k].on \notin G
               /\ \A f \in DOMAIN m.footings : m.footings[f].column \notin G
    PROVE  Sound(m)
<1> DEFINE N == DOMAIN m.nodes
           E == DOMAIN m.elements
<1>1. /\ Shaped(m) /\ NodesIn(m.nodes, m.nextId.nodes)
      /\ Referring(m, N, E \cup G, DOMAIN m.quads, m.materials, m.cases, ToSet(m.profiles))
      /\ ProfilesIn(m.profiles, m.nextId.profiles, m.defaultProfile)
      /\ Ids(m.materials, m.nextId.materials) /\ Ids(m.cases, m.nextId.cases)
  BY DEF SoundBut
<1> HIDE DEF N, E
<1>2. LoadsIn(m.loads, m.nextId.loads, N, E, DOMAIN m.quads, m.cases)
  BY <1>1 DEF Referring, LoadsIn, Load
<1>3. FootingsIn(m.footings, m.nextId.footings, N, E, ToSet(m.profiles))
  BY <1>1 DEF Referring, FootingsIn, Footing
<1>4. Referring(m, N, E \cup {}, DOMAIN m.quads, m.materials, m.cases, ToSet(m.profiles))
  <2>1. E \cup {} = E
    OBVIOUS
  <2>2. QED
    BY <1>1, <1>2, <1>3, <2>1 DEF Referring
<1>5. QED
  BY <1>1, <1>4 DEF Sound, SoundBut, N, E

-----------------------------------------------------------------------------
(***************************************************************************)
(* A bar is cut, and its loads with it.                                    *)
(***************************************************************************)

\* A place within the length of a bar is on the line.
LEMMA PlacesAreOnTheLine ==
    ASSUME NEW m, NEW e \in DOMAIN m.elements, m.nodes[m.elements[e].i] \in 0..Reach,
           m.nodes[m.elements[e].j] \in 0..Reach
    PROVE  /\ Length(m, e) \in Nat
           /\ \A d \in 0..Length(m, e) : At(m, e, d) \in 0..Reach
<1> DEFINE from == m.nodes[m.elements[e].i]
           to == m.nodes[m.elements[e].j]
<1>1. from \in Nat /\ to \in Nat /\ Reach \in Nat /\ from <= Reach /\ to <= Reach
  BY BoundsAssumption
<1>2. Length(m, e) = Max({from, to}) - Min({from, to})
  BY DEF Length
<1>3. \A d : At(m, e, d) = IF to < from THEN from - d ELSE from + d
  BY DEF At
<1> HIDE DEF from, to
<1>4. Length(m, e) = (IF from >= to THEN from ELSE to) - (IF from <= to THEN from ELSE to)
  BY <1>1, <1>2, MinMaxOfTwo
<1>5. QED
  BY <1>1, <1>3, <1>4

\* What flattening lays end to end is what was in the sequences.
LEMMA FlattenedEntries ==
    ASSUME NEW n \in Nat, NEW seqs, seqs = [k \in 1..n |-> seqs[k]],
           \A k \in 1..n : \E V : seqs[k] \in Seq(V)
    PROVE  FlattenSeq(seqs) \in Seq(UNION {Range(seqs[k]) : k \in 1..n})
<1> DEFINE S == UNION {Range(seqs[k]) : k \in 1..n}
           T == Seq(S)
<1>1. ASSUME NEW k \in 1..n PROVE seqs[k] \in Seq(S)
  <2>1. PICK V : seqs[k] \in Seq(V)
    OBVIOUS
  <2>2. Len(seqs[k]) \in Nat /\ seqs[k] \in [1..Len(seqs[k]) -> V]
    BY <2>1, LenProperties
  <2>3. \A i \in 1..Len(seqs[k]) : seqs[k][i] \in Range(seqs[k])
    BY <2>2 DEF Range
  <2>4. Range(seqs[k]) \subseteq S
    OBVIOUS
  <2>5. seqs[k] \in [1..Len(seqs[k]) -> S]
    <3> HIDE DEF S
    <3>1. QED
      BY <2>2, <2>3, <2>4
  <2> HIDE DEF S
  <2>6. QED
    BY <2>2, <2>5, SeqDef
<1>2. seqs \in [1..n -> T]
  BY <1>1
<1> HIDE DEF T
<1>3. seqs \in Seq(T)
  BY <1>2, SeqDef
<1>4. seqs \in Seq(Seq(S))
  BY <1>3 DEF T
<1> HIDE DEF S
<1>5. FlattenSeq(seqs) \in Seq(S)
  BY <1>4, FlattenedIsASequence
<1>6. QED
  BY <1>5 DEF S

LEMMA RenumberedProperties ==
    ASSUME NEW S, NEW new \in Seq(S), NEW ids, NEW next, Ids(ids, next)
    PROVE  /\ (DOMAIN Renumbered(new, next)) \cap ids = {}
           /\ Ids(ids \cup DOMAIN Renumbered(new, next), next + Len(new))
           /\ \A id \in DOMAIN Renumbered(new, next) : Renumbered(new, next)[id] \in S
<1>1. Len(new) \in Nat /\ next \in Nat /\ \A i \in 1..Len(new) : new[i] \in S
  BY LenProperties, ElementOfSeq DEF Ids
<1>2. DOMAIN Renumbered(new, next) = next..(next + Len(new) - 1)
  BY DEF Renumbered
<1>3. \A id \in next..(next + Len(new) - 1) :
          id - next + 1 \in 1..Len(new) /\ Renumbered(new, next)[id] = new[id - next + 1]
  BY <1>1 DEF Renumbered
<1>4. QED
  BY <1>1, <1>2, <1>3 DEF Ids

\* Loads are replaced by ones that are as good; what is left names no bar but those of H
\* that is gone.
LEMMA ReplacedIsSound ==
    ASSUME NEW m, NEW G, NEW H, SoundBut(m, G), NEW old, NEW S, NEW new \in Seq(S),
           \A l \in S : Load(l, DOMAIN m.nodes, DOMAIN m.elements \cup H, DOMAIN m.quads, m.cases),
           BearersAreKept =>
               /\ \A k \in (DOMAIN m.loads) \ old :
                      m.loads[k].kind \in OnBars => m.loads[k].on \in DOMAIN m.elements \cup H
               /\ \A f \in DOMAIN m.footings :
                      m.footings[f].column \in DOMAIN m.elements \cup H \cup {None},
           NEW u, u = Replaced(m, old, new)
    PROVE  SoundBut(u, H)
<1> DEFINE N == DOMAIN m.nodes
           E == DOMAIN m.elements \cup G
           F == DOMAIN m.elements \cup H
           add == Renumbered(new, m.nextId.loads)
           left == Without(m.loads, old)
<1>1. /\ Shaped(m) /\ NodesIn(m.nodes, m.nextId.nodes)
      /\ Referring(m, N, E, DOMAIN m.quads, m.materials, m.cases, ToSet(m.profiles))
      /\ ProfilesIn(m.profiles, m.nextId.profiles, m.defaultProfile)
      /\ Ids(m.materials, m.nextId.materials) /\ Ids(m.cases, m.nextId.cases)
  BY DEF SoundBut
<1>2. /\ DOMAIN u = Fields
      /\ u.loads = Put(left, add)
      /\ u.nodes = m.nodes /\ u.elements = m.elements /\ u.supports = m.supports
      /\ u.connectors = m.connectors /\ u.constraints = m.constraints /\ u.quads = m.quads
      /\ u.footings = m.footings /\ u.profiles = m.profiles
      /\ u.defaultProfile = m.defaultProfile
      /\ u.materials = m.materials /\ u.cases = m.cases /\ u.combinations = m.combinations
      /\ u.nextId = [m.nextId EXCEPT !.loads = @ + Len(new)]
  BY <1>1 DEF Replaced, Shaped, Fields, Counters, Kinds
<1>3. /\ DOMAIN u.nextId = Counters
      /\ u.nextId.loads = m.nextId.loads + Len(new)
      /\ \A c \in Counters \ {"loads"} : u.nextId[c] = m.nextId[c]
  BY <1>1, <1>2 DEF Shaped, Counters, Kinds
<1>4. Ids(DOMAIN m.loads, m.nextId.loads)
  BY <1>1 DEF Referring, LoadsIn
<1>5. DOMAIN left = (DOMAIN m.loads) \ old /\ \A k \in DOMAIN left : left[k] = m.loads[k]
  BY DEF Without, Restrict
<1> HIDE DEF left
<1>6. Ids(DOMAIN left, m.nextId.loads)
  BY <1>4, <1>5 DEF Ids
<1>7. /\ (DOMAIN add) \cap DOMAIN left = {}
      /\ Ids(DOMAIN left \cup DOMAIN add, m.nextId.loads + Len(new))
      /\ \A id \in DOMAIN add : add[id] \in S
  <2> DEFINE ids == DOMAIN left
             next == m.nextId.loads
  <2>1. Ids(ids, next) /\ new \in Seq(S)
    BY <1>6
  <2> HIDE DEF ids, next
  <2>2. /\ (DOMAIN Renumbered(new, next)) \cap ids = {}
        /\ Ids(ids \cup DOMAIN Renumbered(new, next), next + Len(new))
        /\ \A id \in DOMAIN Renumbered(new, next) : Renumbered(new, next)[id] \in S
    BY <2>1, RenumberedProperties
  <2>3. QED
    BY <2>2 DEF ids, next
<1> HIDE DEF add
<1>8. /\ DOMAIN u.loads = DOMAIN left \cup DOMAIN add
      /\ \A k \in DOMAIN add : u.loads[k] = add[k]
      /\ \A k \in DOMAIN left : u.loads[k] = left[k]
  BY <1>2, <1>7 DEF Put
<1> HIDE DEF N, E, F
<1>9. LoadsIn(u.loads, u.nextId.loads, N, F, DOMAIN m.quads, m.cases)
  <2>1. ASSUME NEW k \in DOMAIN left PROVE Load(m.loads[k], N, F, DOMAIN m.quads, m.cases)
    <3>1. Load(m.loads[k], N, E, DOMAIN m.quads, m.cases)
      BY <1>1, <1>5 DEF Referring, LoadsIn
    <3>2. BearersAreKept /\ m.loads[k].kind \in OnBars => m.loads[k].on \in F
      BY <1>5 DEF F
    <3>3. QED
      BY <3>1, <3>2 DEF Load
  <2>2. \A l \in S : Load(l, N, F, DOMAIN m.quads, m.cases)
    BY DEF N, F
  <2>3. Ids(DOMAIN u.loads, u.nextId.loads)
    BY <1>3, <1>7, <1>8
  <2>4. QED
    BY <1>5, <1>7, <1>8, <2>1, <2>2, <2>3 DEF LoadsIn
<1>10. FootingsIn(m.footings, m.nextId.footings, N, F, ToSet(m.profiles))
  <2>1. BearersAreKept => \A f \in DOMAIN m.footings : m.footings[f].column \in F \cup {None}
    BY DEF F
  <2>2. QED
    BY <1>1, <2>1 DEF Referring, FootingsIn, Footing
<1>11. Referring(u, N, F, DOMAIN m.quads, m.materials, m.cases, ToSet(m.profiles))
  BY <1>1, <1>2, <1>3, <1>9, <1>10 DEF Referring, Counters, Kinds
<1>12. QED
  BY <1>1, <1>2, <1>3, <1>11 DEF SoundBut, Shaped, N, F, Counters, Kinds

LEMMA NodedIsSound ==
    ASSUME NEW m, NEW G, SoundBut(m, G), NEW x \in 0..Reach, NEW u, u = Noded(m, x)
    PROVE  /\ SoundBut(u, G)
           /\ DOMAIN m.nodes \subseteq DOMAIN u.nodes
           /\ \E n \in DOMAIN u.nodes : u.nodes[n] = x
           /\ \A f \in Fields \ {"nodes", "nextId"} : u[f] = m[f]
           /\ \A c \in Counters \ {"nodes"} : u.nextId[c] = m.nextId[c]
<1>1. CASE \E n \in DOMAIN m.nodes : m.nodes[n] = x
  BY <1>1 DEF Noded
<1>2. CASE ~\E n \in DOMAIN m.nodes : m.nodes[n] = x
  <2>1. u = Added(m, "nodes", x) /\ Shaped(m)
    BY <1>2 DEF Noded, SoundBut
  <2>2. "nodes" \in Kinds /\ Fits(m, G, "nodes", x)
    BY DEF Kinds, Fits
  <2>3. SoundBut(u, G)
    BY <2>1, <2>2, AddedIsSound
  <2>4. /\ u["nodes"] = Set(m["nodes"], m.nextId["nodes"], x)
        /\ \A f \in Fields \ {"nodes", "nextId"} : u[f] = m[f]
        /\ \A c \in Counters \ {"nodes"} : u.nextId[c] = m.nextId[c]
    BY <2>1, <2>2, AddedFields
  <2>5. /\ DOMAIN u.nodes = DOMAIN m.nodes \cup {m.nextId.nodes}
        /\ u.nodes[m.nextId.nodes] = x
    BY <2>4 DEF Set
  <2>6. QED
    BY <2>3, <2>4, <2>5
<1>3. QED
  BY <1>1, <1>2

\* A part of a load: the same kind and case, on one of two bars.
PartOf(x, load, a, b) ==
    /\ DOMAIN x = DOMAIN load
    /\ x.kind = load.kind /\ x.case = load.case
    /\ x.on \in {a, b}

LEMMA PiecesAreParts ==
    ASSUME NEW load, DOMAIN load = ShapeFields \cup {"on"}, NEW a, NEW b, NEW c, NEW length
    PROVE  \E x, y : /\ PartOf(x, load, a, b) /\ PartOf(y, load, a, b)
                     /\ \/ Pieces(load, a, b, c, length) = <<x>>
                        \/ Pieces(load, a, b, c, length) = <<x, y>>
<1> DEFINE to == IF load.b = None THEN length ELSE load.b
           ends == IF to < length THEN to - c ELSE None
           q == Mid(load, c, load.a, to, length)
           OnA == [load EXCEPT !.on = a]
           OnB == [load EXCEPT !.on = b, !.a = @ - c]
           alone == [load EXCEPT !.on = b]
           short == [OnA EXCEPT !.b = IF to < c THEN to ELSE None]
           late == [OnB EXCEPT !.b = ends]
           first == [OnA EXCEPT !.b = None, !.qj = q]
           second == [OnB EXCEPT !.a = 0, !.b = ends, !.qi = q]
<1>1. Pieces(load, a, b, c, length) =
          CASE load.kind = "thermal" -> <<OnA, alone>>
            [] load.kind = "point" -> IF load.a < c THEN <<OnA>> ELSE <<OnB>>
            [] to <= c -> <<short>>
            [] load.a >= c -> <<late>>
            [] OTHER -> <<first, second>>
  BY DEF Pieces
<1>2. PartOf(OnA, load, a, b) /\ PartOf(OnB, load, a, b) /\ PartOf(alone, load, a, b)
  BY DEF PartOf, ShapeFields
<1>3. PartOf(short, load, a, b) /\ PartOf(late, load, a, b)
  BY DEF PartOf, ShapeFields
<1>4. PartOf(first, load, a, b) /\ PartOf(second, load, a, b)
  BY DEF PartOf, ShapeFields
<1> DEFINE P == Pieces(load, a, b, c, length)
<1> HIDE DEF OnA, OnB, alone, short, late, first, second
<1>5. P \in {<<OnA, alone>>, <<OnA>>, <<OnB>>, <<short>>, <<late>>, <<first, second>>}
  <2> DEFINE Thermal == load.kind = "thermal"
             Point == load.kind = "point"
             Before == to <= c
             After == load.a >= c
  <2>1. CASE Thermal
    BY <1>1, <2>1
  <2>2. CASE ~Thermal /\ Point
    BY <1>1, <2>2
  <2>3. CASE ~Thermal /\ ~Point /\ Before
    BY <1>1, <2>3
  <2>4. CASE ~Thermal /\ ~Point /\ ~Before /\ After
    BY <1>1, <2>4
  <2>5. CASE ~Thermal /\ ~Point /\ ~Before /\ ~After
    BY <1>1, <2>5
  <2>6. QED
    BY <2>1, <2>2, <2>3, <2>4, <2>5
<1> HIDE DEF P
<1>6. \E x, y : PartOf(x, load, a, b) /\ PartOf(y, load, a, b) /\ (P = <<x>> \/ P = <<x, y>>)
  BY <1>2, <1>3, <1>4, <1>5
<1>7. QED
  BY <1>6 DEF P

\* The loads that a cut shares out.
Shares(loads, old, a, b, c, length) ==
    FlattenSeq([k \in 1..Cardinality(old) |-> Pieces(loads[SetToSeq(old)[k]], a, b, c, length)])

LEMMA SharedOut ==
    ASSUME NEW loads, NEW old, IsFiniteSet(old), NEW a, NEW b, NEW c, NEW length,
           \A k \in old : DOMAIN loads[k] = ShapeFields \cup {"on"}
    PROVE  \E S :
               /\ Shares(loads, old, a, b, c, length) \in Seq(S)
               /\ \A x \in S : \E k \in old : PartOf(x, loads[k], a, b)
<1> DEFINE n == Cardinality(old)
           list == SetToSeq(old)
           seqs == [k \in 1..n |-> Pieces(loads[list[k]], a, b, c, length)]
           S == UNION {Range(seqs[k]) : k \in 1..n}
<1>1. n \in Nat /\ list \in [1..n -> old]
  BY ListedOnce
<1> HIDE DEF list, n
<1>2. ASSUME NEW k \in 1..n
      PROVE  \E x, y : /\ PartOf(x, loads[list[k]], a, b) /\ PartOf(y, loads[list[k]], a, b)
                       /\ seqs[k] = <<x>> \/ seqs[k] = <<x, y>>
  <2> DEFINE load == loads[list[k]]
  <2>1. list[k] \in old
    BY <1>1
  <2>2. DOMAIN load = ShapeFields \cup {"on"}
    BY <2>1
  <2>3. seqs[k] = Pieces(load, a, b, c, length)
    OBVIOUS
  <2> HIDE DEF load, seqs
  <2>4. PICK x, y : /\ PartOf(x, load, a, b) /\ PartOf(y, load, a, b)
                    /\ \/ Pieces(load, a, b, c, length) = <<x>>
                       \/ Pieces(load, a, b, c, length) = <<x, y>>
    BY <2>2, PiecesAreParts
  <2>5. QED
    BY <2>3, <2>4 DEF load
<1>3. seqs = [k \in 1..n |-> seqs[k]]
  OBVIOUS
<1> HIDE DEF seqs
<1>4. \A k \in 1..n : \E V : seqs[k] \in Seq(V)
  <2> SUFFICES ASSUME NEW k \in 1..n PROVE \E V : seqs[k] \in Seq(V)
    OBVIOUS
  <2>1. PICK x, y : seqs[k] = <<x>> \/ seqs[k] = <<x, y>>
    BY <1>2
  <2>2. <<x>> \in Seq({x, y}) /\ <<x, y>> \in Seq({x, y})
    OBVIOUS
  <2>3. QED
    BY <2>1, <2>2
<1>5. FlattenSeq(seqs) \in Seq(S)
  BY <1>1, <1>3, <1>4, FlattenedEntries
<1>6. ASSUME NEW z \in S PROVE \E k \in old : PartOf(z, loads[k], a, b)
  <2>1. PICK k \in 1..n : z \in Range(seqs[k])
    OBVIOUS
  <2>2. PICK x, y : /\ PartOf(x, loads[list[k]], a, b) /\ PartOf(y, loads[list[k]], a, b)
                    /\ seqs[k] = <<x>> \/ seqs[k] = <<x, y>>
    BY <1>2
  <2>3. z \in {x, y}
    BY <2>1, <2>2 DEF Range
  <2>4. list[k] \in old
    BY <1>1
  <2>5. QED
    BY <2>2, <2>3, <2>4
<1>7. QED
  BY <1>5, <1>6 DEF seqs, list, n, Shares

\* Two bars for one, which carry its loads of the plane.
LEMMA SplitIsSound ==
    ASSUME NEW m, Sound(m), NEW e \in DOMAIN m.elements, NEW c \in 1..(Length(m, e) - 1),
           BearersAreKept =>
               /\ \A k \in LoadsOn(m, e) : m.loads[k].kind # "bar3d"
               /\ \A f \in DOMAIN m.footings : m.footings[f].column # e
    PROVE  Sound(Split(m, e, c))
<1> DEFINE bar == m.elements[e]
           x == At(m, e, c)
           with == Noded(m, x)
           n == Min({k \in DOMAIN with.nodes : with.nodes[k] = x})
           a == m.nextId.elements
           b == a + 1
           left == [bar EXCEPT !.j = n, !.hinges = HingesAt(bar, "i")]
           right == [bar EXCEPT !.i = n, !.hinges = HingesAt(bar, "j")]
           less == [with EXCEPT !.elements = Without(@, {e})]
           one == Added(less, "elements", left)
           two == Added(one, "elements", right)
           old == {k \in LoadsOn(m, e) : m.loads[k].kind # "bar3d"}
           new == FlattenSeq([k \in 1..Cardinality(old) |->
                      Pieces(m.loads[SetToSeq(old)[k]], a, b, c, Length(m, e))])
<1>1. Split(m, e, c) = Replaced(two, old, new)
  BY DEF Split
<1>2. /\ SoundBut(m, {}) /\ Shaped(m)
      /\ NodesIn(m.nodes, m.nextId.nodes)
      /\ BarsIn(m.elements, m.nextId.elements, DOMAIN m.nodes, m.materials)
      /\ LoadsIn(m.loads, m.nextId.loads, DOMAIN m.nodes, DOMAIN m.elements \cup {},
                 DOMAIN m.quads, m.cases)
      /\ FootingsIn(m.footings, m.nextId.footings, DOMAIN m.nodes, DOMAIN m.elements \cup {},
                    ToSet(m.profiles))
  BY DEF Sound, SoundBut, Referring
<1>3. Bar(bar, DOMAIN m.nodes, m.materials) /\ Ids(DOMAIN m.elements, a)
  BY <1>2 DEF BarsIn
<1>4. x \in 0..Reach
  <2>1. m.nodes[bar.i] \in 0..Reach /\ m.nodes[bar.j] \in 0..Reach
    BY <1>2, <1>3 DEF NodesIn, Bar
  <2>2. Length(m, e) \in Nat /\ \A d \in 0..Length(m, e) : At(m, e, d) \in 0..Reach
    BY <2>1, PlacesAreOnTheLine
  <2>3. c \in 0..Length(m, e)
    BY <2>2
  <2>4. QED
    BY <2>2, <2>3
<1> HIDE DEF x
<1>5. /\ SoundBut(with, {})
      /\ DOMAIN m.nodes \subseteq DOMAIN with.nodes
      /\ \E k \in DOMAIN with.nodes : with.nodes[k] = x
      /\ \A f \in Fields \ {"nodes", "nextId"} : with[f] = m[f]
      /\ \A k \in Counters \ {"nodes"} : with.nextId[k] = m.nextId[k]
  BY <1>2, <1>4, NodedIsSound
<1> HIDE DEF with
<1>6. /\ with.elements = m.elements /\ with.loads = m.loads /\ with.footings = m.footings
      /\ with.materials = m.materials /\ with.quads = m.quads /\ with.cases = m.cases
      /\ with.nextId.elements = a
  BY <1>5 DEF Fields, Counters, Kinds
<1>7. n \in DOMAIN with.nodes
  <2> DEFINE There == {k \in DOMAIN with.nodes : with.nodes[k] = x}
  <2>1. There # {}
    BY <1>5
  <2>2. There \subseteq Nat
    BY <1>5 DEF SoundBut, NodesIn, Ids
  <2> HIDE DEF There
  <2>3. Min(There) \in There
    BY <2>1, <2>2, LeastOf
  <2>4. QED
    BY <2>3 DEF There
<1> HIDE DEF n
<1>8. /\ Bar(left, DOMAIN with.nodes, m.materials) /\ Bar(right, DOMAIN with.nodes, m.materials)
  BY <1>3, <1>5, <1>7 DEF Bar
<1> HIDE DEF left, right
<1>9. /\ DOMAIN less = Fields
      /\ \A f \in Fields \ {"elements"} : less[f] = with[f]
      /\ less.elements = Without(m.elements, {e})
  BY <1>5, <1>6 DEF SoundBut, Shaped, Fields, Counters, Kinds
<1> HIDE DEF less
<1>10. /\ DOMAIN less.elements = (DOMAIN m.elements) \ {e}
       /\ \A k \in DOMAIN less.elements : less.elements[k] = m.elements[k]
       /\ IsRestriction(less.elements, with.elements)
  BY <1>6, <1>9 DEF Without, Restrict, IsRestriction
<1>11. /\ less.nodes = with.nodes /\ less.supports = with.supports /\ less.loads = with.loads
       /\ less.quads = with.quads /\ less.connectors = with.connectors
       /\ less.footings = with.footings /\ less.constraints = with.constraints
       /\ less.combinations = with.combinations /\ less.profiles = with.profiles
       /\ less.defaultProfile = with.defaultProfile /\ less.materials = with.materials
       /\ less.cases = with.cases /\ less.nextId = with.nextId
  BY <1>9 DEF Fields, Counters, Kinds
<1>12. SoundBut(less, {e})
  <2>1. DOMAIN less.elements \cup {e} = DOMAIN with.elements \cup {}
    BY <1>6, <1>10
  <2>2. BarsIn(with.elements, with.nextId.elements, DOMAIN with.nodes, with.materials)
    BY <1>5 DEF SoundBut, Referring
  <2>3. BarsIn(less.elements, with.nextId.elements, DOMAIN with.nodes, with.materials)
    BY <1>10, <2>2, FewerEntries
  <2>4. QED
    BY <1>5, <1>9, <1>11, <2>1, <2>3 DEF SoundBut, Referring, Shaped
<1>13. SoundBut(one, {e}) /\ Shaped(less)
  <2>1. "elements" \in Kinds /\ Fits(less, {e}, "elements", left)
    BY <1>6, <1>8, <1>11 DEF Kinds, Fits
  <2>2. QED
    BY <1>12, <2>1, AddedIsSound DEF SoundBut
<1>14. /\ one["elements"] = Set(less["elements"], less.nextId["elements"], left)
       /\ one.nextId["elements"] = less.nextId["elements"] + 1
       /\ \A f \in Fields \ {"elements", "nextId"} : one[f] = less[f]
       /\ \A f \in Counters \ {"elements"} : one.nextId[f] = less.nextId[f]
  <2>1. "elements" \in Kinds
    BY DEF Kinds
  <2>2. QED
    BY <1>13, <2>1, AddedFields
<1> HIDE DEF one
<1>15. SoundBut(two, {e}) /\ Shaped(one)
  <2>1. one.nodes = less.nodes /\ one.materials = less.materials
    BY <1>14 DEF Fields, Counters, Kinds
  <2>2. "elements" \in Kinds /\ Fits(one, {e}, "elements", right)
    BY <1>6, <1>8, <1>11, <2>1 DEF Kinds, Fits
  <2>3. QED
    BY <1>13, <2>2, AddedIsSound DEF SoundBut
<1>16. /\ two["elements"] = Set(one["elements"], one.nextId["elements"], right)
       /\ \A f \in Fields \ {"elements", "nextId"} : two[f] = one[f]
  <2>1. "elements" \in Kinds
    BY DEF Kinds
  <2>2. QED
    BY <1>15, <2>1, AddedFields
<1> HIDE DEF two
<1>17. DOMAIN two.elements = ((DOMAIN m.elements) \ {e}) \cup {a, b}
  <2>1. /\ one.elements = Set(less.elements, a, left)
        /\ two.elements = Set(one.elements, b, right)
    BY <1>6, <1>11, <1>14, <1>16
  <2>2. DOMAIN one.elements = DOMAIN less.elements \cup {a}
    BY <2>1 DEF Set
  <2>3. DOMAIN two.elements = DOMAIN one.elements \cup {b}
    BY <2>1 DEF Set
  <2>4. QED
    BY <1>10, <2>2, <2>3
<1>18. /\ two.nodes = with.nodes /\ two.loads = m.loads /\ two.footings = m.footings
       /\ two.quads = m.quads /\ two.cases = m.cases
  BY <1>6, <1>11, <1>14, <1>16 DEF Fields, Counters, Kinds
<1>19. \A k \in DOMAIN m.loads :
           Load(m.loads[k], DOMAIN m.nodes, DOMAIN m.elements \cup {}, DOMAIN m.quads, m.cases)
  BY <1>2 DEF LoadsIn
<1>20. \A k \in old : /\ k \in DOMAIN m.loads
                      /\ m.loads[k].kind \in OnBars /\ m.loads[k].on = e
                      /\ DOMAIN m.loads[k] = ShapeFields \cup {"on"}
  BY <1>19 DEF LoadsOn, Load
<1>21. IsFiniteSet(old)
  <2>1. old \subseteq DOMAIN m.loads /\ Ids(DOMAIN m.loads, m.nextId.loads)
    BY <1>2 DEF LoadsOn, LoadsIn
  <2> HIDE DEF old
  <2>2. QED
    BY <2>1, IdsAreFinite
<1>22. PICK S : new \in Seq(S) /\ \A y \in S : \E k \in old : PartOf(y, m.loads[k], a, b)
  <2> DEFINE loads == m.loads
             length == Length(m, e)
  <2>1. IsFiniteSet(old) /\ \A k \in old : DOMAIN loads[k] = ShapeFields \cup {"on"}
    BY <1>20, <1>21
  <2> HIDE DEF old, a, b, loads, length
  <2>2. \E S : /\ Shares(loads, old, a, b, c, length) \in Seq(S)
               /\ \A y \in S : \E k \in old : PartOf(y, loads[k], a, b)
    BY <2>1, SharedOut
  <2>3. QED
    BY <2>2 DEF new, loads, length, Shares
<1> HIDE DEF new
<1>23. \A y \in S : Load(y, DOMAIN two.nodes, DOMAIN two.elements \cup {}, DOMAIN two.quads,
                         two.cases)
  <2> SUFFICES ASSUME NEW y \in S
               PROVE  Load(y, DOMAIN two.nodes, DOMAIN two.elements \cup {}, DOMAIN two.quads,
                           two.cases)
    OBVIOUS
  <2>1. PICK k \in old : PartOf(y, m.loads[k], a, b)
    BY <1>22
  <2>2. /\ Load(m.loads[k], DOMAIN m.nodes, DOMAIN m.elements \cup {}, DOMAIN m.quads, m.cases)
        /\ m.loads[k].kind \in OnBars
    BY <1>19, <1>20
  <2>3. y.kind \in OnBars /\ y.kind # "nodal" /\ y.kind # "surface"
    BY <2>1, <2>2 DEF PartOf, OnBars
  <2>4. y.on \in DOMAIN two.elements
    BY <1>17, <2>1 DEF PartOf
  <2>5. CasesAreKept => CaseOf(y) \in two.cases
    BY <1>18, <2>1, <2>2 DEF PartOf, Load, CaseOf
  <2>6. DOMAIN y = ShapeFields \cup {"on"}
    BY <2>1, <2>2 DEF PartOf, Load
  <2>7. QED
    BY <2>3, <2>4, <2>5, <2>6 DEF Load
<1>24. BearersAreKept =>
           /\ \A k \in (DOMAIN two.loads) \ old :
                  two.loads[k].kind \in OnBars => two.loads[k].on \in DOMAIN two.elements \cup {}
           /\ \A f \in DOMAIN two.footings :
                  two.footings[f].column \in DOMAIN two.elements \cup {} \cup {None}
  <2> SUFFICES ASSUME BearersAreKept
               PROVE  /\ \A k \in (DOMAIN two.loads) \ old : two.loads[k].kind \in OnBars =>
                             two.loads[k].on \in DOMAIN two.elements \cup {}
                      /\ \A f \in DOMAIN two.footings :
                             two.footings[f].column \in DOMAIN two.elements \cup {} \cup {None}
    OBVIOUS
  <2>1. ASSUME NEW k \in (DOMAIN m.loads) \ old, m.loads[k].kind \in OnBars
        PROVE  m.loads[k].on \in (DOMAIN m.elements) \ {e}
    <3>1. m.loads[k].on \in DOMAIN m.elements
      BY <1>19, <2>1 DEF Load
    <3>2. m.loads[k].on # e
      BY <2>1 DEF LoadsOn
    <3>3. QED
      BY <3>1, <3>2
  <2>2. ASSUME NEW f \in DOMAIN m.footings
        PROVE  m.footings[f].column \in ((DOMAIN m.elements) \ {e}) \cup {None}
    BY <1>2 DEF FootingsIn, Footing
  <2>3. QED
    BY <1>17, <1>18, <2>1, <2>2
<1> HIDE DEF old
<1>25. SoundBut(Replaced(two, old, new), {})
  BY <1>15, <1>22, <1>23, <1>24, ReplacedIsSound
<1>26. QED
  BY <1>1, <1>25 DEF Sound

LEMMA StepsWithin ==
    ASSUME NEW length \in Nat, NEW n \in 2..20, length % n = 0, NEW j \in 1..(n - 1)
    PROVE  (length \div n) * j \in 0..length
<1> DEFINE step == length \div n
<1>1. step \in Nat /\ length = n * step
  BY Z3
<1> HIDE DEF step
<1>2. n - j \in Nat /\ j \in Nat /\ n \in Nat
  OBVIOUS
<1>3. step * (n - j) \in Nat /\ step * j \in Nat
  BY <1>1, <1>2
<1>4. n * step = step * j + step * (n - j)
  BY <1>1, <1>2
<1>5. step * j <= length
  <2> DEFINE x == step * j
             y == step * (n - j)
  <2>1. length = x + y /\ x \in Nat /\ y \in Nat
    BY <1>1, <1>3, <1>4
  <2> HIDE DEF x, y
  <2>2. x <= length
    BY <2>1
  <2>3. QED
    BY <2>2 DEF x
<1>6. QED
  BY <1>3, <1>5 DEF step

LEMMA MoreIds ==
    ASSUME NEW ids, NEW next, Ids(ids, next), NEW n \in 2..20
    PROVE  Ids(ids \cup (next..(next + n - 2)), next + n - 1)
<1>1. next \in Nat /\ \A id \in ids : id \in Nat /\ id < next
  BY DEF Ids
<1>2. next + n - 1 \in Nat /\ next < next + n - 1
  BY <1>1
<1>3. ASSUME NEW id \in next..(next + n - 2) PROVE id \in Nat /\ id < next + n - 1
  BY <1>1
<1>4. ASSUME NEW id \in ids PROVE id \in Nat /\ id < next + n - 1
  <2>1. id \in Nat /\ id < next
    BY <1>1
  <2>2. QED
    BY <1>1, <1>2, <2>1
<1>5. QED
  BY <1>2, <1>3, <1>4 DEF Ids

\* The places are those of new nodes, the parts those of the bar and of new ones.
Segmented(m, n, places, parts) ==
    [m EXCEPT !.nodes = Put(@, places), !.nextId.nodes = @ + n - 1,
              !.elements = Put(@, parts), !.nextId.elements = @ + n - 1]

Segments(m, e, n, places, parts) ==
    /\ DOMAIN places = m.nextId.nodes..(m.nextId.nodes + n - 2)
    /\ \A k \in DOMAIN places : places[k] \in 0..Reach
    /\ DOMAIN parts = {e} \cup (m.nextId.elements..(m.nextId.elements + n - 2))
    /\ \A k \in DOMAIN parts : Bar(parts[k], DOMAIN m.nodes \cup DOMAIN places, m.materials)

\* A bar is the first of its segments; the nodes between them are new.
LEMMA SegmentsAreSound ==
    ASSUME NEW m, Sound(m), NEW e \in DOMAIN m.elements, NEW n \in 2..20,
           NEW places, NEW parts, Segments(m, e, n, places, parts),
           NEW u, u = Segmented(m, n, places, parts)
    PROVE  /\ Sound(u)
           /\ DOMAIN u.elements = DOMAIN m.elements \cup DOMAIN parts
           /\ u.loads = m.loads /\ u.quads = m.quads /\ u.cases = m.cases
           /\ u.nodes = Put(m.nodes, places)
<1> DEFINE N == DOMAIN m.nodes
           E == DOMAIN m.elements \cup {}
           NN == N \cup DOMAIN places
           EE == DOMAIN m.elements \cup DOMAIN parts
<1>0. /\ DOMAIN places = m.nextId.nodes..(m.nextId.nodes + n - 2)
      /\ \A k \in DOMAIN places : places[k] \in 0..Reach
      /\ DOMAIN parts = {e} \cup (m.nextId.elements..(m.nextId.elements + n - 2))
      /\ \A k \in DOMAIN parts : Bar(parts[k], NN, m.materials)
  BY DEF Segments
<1>1. /\ Shaped(m) /\ NodesIn(m.nodes, m.nextId.nodes)
      /\ Referring(m, N, E, DOMAIN m.quads, m.materials, m.cases, ToSet(m.profiles))
      /\ ProfilesIn(m.profiles, m.nextId.profiles, m.defaultProfile)
      /\ Ids(m.materials, m.nextId.materials) /\ Ids(m.cases, m.nextId.cases)
  BY DEF Sound, SoundBut
<1>2. /\ DOMAIN u = Fields
      /\ u.nodes = Put(m.nodes, places) /\ u.elements = Put(m.elements, parts)
      /\ u.loads = m.loads /\ u.supports = m.supports
      /\ u.connectors = m.connectors /\ u.constraints = m.constraints /\ u.quads = m.quads
      /\ u.footings = m.footings /\ u.profiles = m.profiles
      /\ u.defaultProfile = m.defaultProfile
      /\ u.materials = m.materials /\ u.cases = m.cases /\ u.combinations = m.combinations
      /\ DOMAIN u.nextId = Counters
      /\ u.nextId.nodes = m.nextId.nodes + n - 1
      /\ u.nextId.elements = m.nextId.elements + n - 1
      /\ \A c \in Counters \ {"nodes", "elements"} : u.nextId[c] = m.nextId[c]
  BY <1>1 DEF Segmented, Shaped, Fields, Counters, Kinds
<1>3. /\ DOMAIN u.nodes = NN
      /\ \A k \in NN : u.nodes[k] = IF k \in DOMAIN places THEN places[k] ELSE m.nodes[k]
  BY <1>2 DEF Put
<1>4. /\ DOMAIN u.elements = EE
      /\ \A k \in EE : u.elements[k] = IF k \in DOMAIN parts THEN parts[k] ELSE m.elements[k]
  BY <1>2 DEF Put
<1>5. /\ Referring(m, NN, EE \cup {}, DOMAIN m.quads, m.materials, m.cases, ToSet(m.profiles))
  <2> DEFINE F == EE \cup {}
  <2>1. N \subseteq NN /\ E \subseteq F
    OBVIOUS
  <2> HIDE DEF N, E, NN, F
  <2>2. Referring(m, NN, F, DOMAIN m.quads, m.materials, m.cases, ToSet(m.profiles))
    BY <1>1, <2>1, MoreToReferTo
  <2>3. QED
    BY <2>2 DEF F
<1>6. NodesIn(u.nodes, u.nextId.nodes)
  <2>1. Ids(N, m.nextId.nodes) /\ \A k \in N : m.nodes[k] \in 0..Reach
    BY <1>1 DEF NodesIn
  <2>2. Ids(NN, m.nextId.nodes + n - 1)
    BY <1>0, <2>1, MoreIds
  <2> HIDE DEF NN
  <2>3. \A k \in NN : u.nodes[k] \in 0..Reach
    BY <1>0, <1>3, <2>1 DEF NN
  <2>4. QED
    BY <1>2, <1>3, <2>2, <2>3 DEF NodesIn
<1>7. BarsIn(u.elements, u.nextId.elements, NN, m.materials)
  <2>1. BarsIn(m.elements, m.nextId.elements, NN, m.materials)
    BY <1>5 DEF Referring
  <2>2. Ids(DOMAIN m.elements, m.nextId.elements)
    BY <2>1 DEF BarsIn
  <2>3. Ids(EE, m.nextId.elements + n - 1)
    <3> DEFINE ids == DOMAIN m.elements
               next == m.nextId.elements
    <3>1. EE = ids \cup (next..(next + n - 2))
      BY <1>0
    <3> HIDE DEF ids, next, EE
    <3>2. Ids(EE, next + n - 1)
      BY <2>2, <3>1, MoreIds DEF ids, next
    <3>3. QED
      BY <3>2 DEF next
  <2>4. \A k \in EE : Bar(u.elements[k], NN, m.materials)
    BY <1>0, <1>4, <2>1 DEF BarsIn
  <2> HIDE DEF EE, NN
  <2>5. QED
    BY <1>2, <1>4, <2>3, <2>4 DEF BarsIn
<1> HIDE DEF NN, EE
<1>8. Referring(u, NN, EE \cup {}, DOMAIN m.quads, m.materials, m.cases, ToSet(m.profiles))
  BY <1>2, <1>5, <1>7 DEF Referring, Counters, Kinds
<1>9. SoundBut(u, {})
  BY <1>1, <1>2, <1>3, <1>4, <1>6, <1>8 DEF SoundBut, Shaped, Counters, Kinds
<1>10. QED
  BY <1>2, <1>4, <1>9 DEF Sound, EE

LEMMA SubdividedIsSound ==
    ASSUME NEW m, Sound(m), NEW e \in DOMAIN m.elements, NEW n \in 2..20,
           Length(m, e) % n = 0,
           CasesAreKept => \A k \in LoadsOn(m, e) : Plain(m.loads[k])
    PROVE  Sound(Subdivided(m, e, n))
<1> DEFINE bar == m.elements[e]
           step == Length(m, e) \div n
           p == m.nextId.nodes
           q == m.nextId.elements
           node == [k \in 1..(n - 1) |-> p + k - 1]
           id(k) == IF k = 1 THEN e ELSE q + k - 2
           part == [k \in 1..n |-> [bar EXCEPT
                      !.i = IF k = 1 THEN @ ELSE node[k - 1],
                      !.j = IF k = n THEN @ ELSE node[k],
                      !.hinges = IF k = 1 THEN HingesAt(bar, "i")
                                 ELSE IF k = n THEN HingesAt(bar, "j") ELSE {}]]
           places == [k \in ToSet(node) |-> At(m, e, step * (k - p + 1))]
           parts == [k \in {id(j) : j \in 1..n} |-> part[CHOOSE j \in 1..n : id(j) = k]]
           base == Segmented(m, n, places, parts)
           gone == {k \in LoadsOn(m, e) : m.loads[k].kind \in {"distributed", "point"}}
           some == {k \in gone : m.loads[k].kind = "distributed"}
           spread == SetToSeq(some)
           Value(load, k) == load.qi + ((load.qj - load.qi) * k) \div n
           Segment(load, k) ==
               [load EXCEPT !.on = id(k), !.case = None, !.meta = None, !.a = 0, !.b = None,
                            !.qi = Value(load, k - 1), !.qj = Value(load, k)]
           seqs == [k \in 1..Len(spread) |-> [j \in 1..n |-> Segment(m.loads[spread[k]], j)]]
<1>1. Subdivided(m, e, n) = Replaced(base, gone, FlattenSeq(seqs))
  BY DEF Subdivided, Segmented
<1>2. /\ SoundBut(m, {}) /\ Shaped(m)
      /\ NodesIn(m.nodes, p)
      /\ BarsIn(m.elements, q, DOMAIN m.nodes, m.materials)
      /\ LoadsIn(m.loads, m.nextId.loads, DOMAIN m.nodes, DOMAIN m.elements \cup {},
                 DOMAIN m.quads, m.cases)
  BY DEF Sound, SoundBut, Referring
<1>3. Bar(bar, DOMAIN m.nodes, m.materials) /\ Ids(DOMAIN m.elements, q) /\ Ids(DOMAIN m.nodes, p)
  BY <1>2 DEF BarsIn, NodesIn
<1>4. p \in Nat /\ q \in Nat /\ e \in Nat /\ e < q /\ n \in Nat /\ n >= 2
  BY <1>3 DEF Ids
<1>5. /\ ToSet(node) = p..(p + n - 2)
      /\ \A k \in 1..(n - 1) : node[k] \in p..(p + n - 2)
  <2>1. \A k \in 1..(n - 1) : node[k] = p + k - 1 /\ node[k] \in p..(p + n - 2)
    BY <1>4
  <2>2. ASSUME NEW x \in p..(p + n - 2) PROVE x - p + 1 \in 1..(n - 1) /\ x = node[x - p + 1]
    <3> HIDE DEF p
    <3>1. x \in Int /\ p <= x /\ x <= p + n - 2
      BY <1>4
    <3>2. x - p + 1 \in 1..(n - 1) /\ p + (x - p + 1) - 1 = x
      BY <1>4, <3>1
    <3>3. QED
      BY <3>2
  <2>3. DOMAIN node = 1..(n - 1)
    OBVIOUS
  <2> HIDE DEF node, p
  <2>4. QED
    BY <2>1, <2>2, <2>3 DEF ToSet
<1>6. {id(j) : j \in 1..n} = {e} \cup (q..(q + n - 2))
  <2>1. 1 \in 1..n /\ id(1) = e
    BY <1>4
  <2>2. \A j \in 1..n : j # 1 => id(j) \in q..(q + n - 2)
    BY <1>4
  <2>3. ASSUME NEW x \in q..(q + n - 2) PROVE x - q + 2 \in 1..n /\ x = id(x - q + 2)
    <3> HIDE DEF q
    <3>1. x \in Int /\ q <= x /\ x <= q + n - 2
      BY <1>4
    <3>2. x - q + 2 \in 1..n /\ q + (x - q + 2) - 2 = x /\ x - q + 2 # 1
      BY <1>4, <3>1
    <3>3. QED
      BY <3>2
  <2> HIDE DEF id, q
  <2>4. QED
    BY <2>1, <2>2, <2>3
<1>7. \A k \in ToSet(node) : At(m, e, step * (k - p + 1)) \in 0..Reach
  <2>1. m.nodes[bar.i] \in 0..Reach /\ m.nodes[bar.j] \in 0..Reach
    BY <1>2, <1>3 DEF NodesIn, Bar
  <2>2. Length(m, e) \in Nat /\ \A d \in 0..Length(m, e) : At(m, e, d) \in 0..Reach
    BY <2>1, PlacesAreOnTheLine
  <2>3. ASSUME NEW j \in 1..(n - 1) PROVE step * j \in 0..Length(m, e)
    <3> DEFINE length == Length(m, e)
    <3>1. length \in Nat /\ length % n = 0
      BY <2>2
    <3> HIDE DEF length
    <3>2. (length \div n) * j \in 0..length
      BY <3>1, StepsWithin
    <3>3. QED
      BY <3>2 DEF length
  <2>4. ASSUME NEW k \in ToSet(node) PROVE k - p + 1 \in 1..(n - 1)
    <3> HIDE DEF p, node
    <3>1. k \in Int /\ p <= k /\ k <= p + n - 2
      BY <1>4, <1>5
    <3>2. QED
      BY <1>4, <3>1
  <2> HIDE DEF step
  <2>5. QED
    BY <2>2, <2>3, <2>4
<1>8. /\ DOMAIN places = p..(p + n - 2)
      /\ \A k \in DOMAIN places : places[k] \in 0..Reach
  BY <1>5, <1>7
<1> HIDE DEF places, step
<1>9. \A j \in 1..n : Bar(part[j], DOMAIN m.nodes \cup DOMAIN places, m.materials)
  <2> SUFFICES ASSUME NEW j \in 1..n
               PROVE  Bar(part[j], DOMAIN m.nodes \cup DOMAIN places, m.materials)
    OBVIOUS
  <2>1. /\ j # 1 => node[j - 1] \in DOMAIN places
        /\ j # n => node[j] \in DOMAIN places
    <3>1. j # 1 => j - 1 \in 1..(n - 1)
      BY <1>4
    <3>2. j # n => j \in 1..(n - 1)
      BY <1>4
    <3> HIDE DEF node
    <3>3. QED
      BY <1>5, <1>8, <3>1, <3>2
  <2> HIDE DEF node
  <2>2. QED
    BY <1>3, <2>1 DEF Bar
<1>10. DOMAIN parts = {e} \cup (q..(q + n - 2))
  BY <1>6
<1>11. \A k \in DOMAIN parts : Bar(parts[k], DOMAIN m.nodes \cup DOMAIN places, m.materials)
  <2> SUFFICES ASSUME NEW k \in {id(j) : j \in 1..n}
               PROVE  Bar(parts[k], DOMAIN m.nodes \cup DOMAIN places, m.materials)
    OBVIOUS
  <2>1. (CHOOSE j \in 1..n : id(j) = k) \in 1..n
    <3> HIDE DEF id
    <3>1. \E j \in 1..n : id(j) = k
      OBVIOUS
    <3>2. QED
      BY <3>1
  <2> HIDE DEF part, id
  <2>2. parts[k] = part[CHOOSE j \in 1..n : id(j) = k]
    OBVIOUS
  <2>3. QED
    BY <1>9, <2>1, <2>2
<1> HIDE DEF parts, part
<1>12. /\ Sound(base)
       /\ DOMAIN base.elements = DOMAIN m.elements \cup DOMAIN parts
       /\ base.loads = m.loads /\ base.quads = m.quads /\ base.cases = m.cases
       /\ base.nodes = Put(m.nodes, places)
  <2>1. Segments(m, e, n, places, parts)
    BY <1>8, <1>10, <1>11 DEF Segments
  <2>2. QED
    BY <2>1, SegmentsAreSound
<1> HIDE DEF base
<1>13. \A k \in DOMAIN m.loads :
           Load(m.loads[k], DOMAIN m.nodes, DOMAIN m.elements \cup {}, DOMAIN m.quads, m.cases)
  BY <1>2 DEF LoadsIn
<1>14. \A k \in some : /\ k \in LoadsOn(m, e) /\ k \in DOMAIN m.loads
                       /\ DOMAIN m.loads[k] = ShapeFields \cup {"on"}
                       /\ m.loads[k].kind = "distributed"
  BY <1>13 DEF LoadsOn, Load
<1>15. Len(spread) \in Nat /\ \A k \in 1..Len(spread) : spread[k] \in some
  <2>1. some \subseteq DOMAIN m.loads /\ Ids(DOMAIN m.loads, m.nextId.loads)
    BY <1>2, <1>14 DEF LoadsIn
  <2> HIDE DEF some
  <2>2. IsFiniteSet(some)
    BY <2>1, IdsAreFinite
  <2>3. Cardinality(some) \in Nat /\ spread \in [1..Cardinality(some) -> some]
    BY <2>2, ListedOnce
  <2> HIDE DEF spread
  <2>4. spread \in Seq(some)
    BY <2>3, SeqDef
  <2>5. QED
    BY <2>4, LenProperties, ElementOfSeq
<1> HIDE DEF spread
<1>16. ASSUME NEW k \in some, NEW j \in 1..n
       PROVE  Load(Segment(m.loads[k], j), DOMAIN base.nodes, DOMAIN base.elements \cup {},
                   DOMAIN base.quads, base.cases)
  <2> DEFINE load == m.loads[k]
             x == Segment(load, j)
  <2>1. DOMAIN load = ShapeFields \cup {"on"} /\ load.kind = "distributed"
    BY <1>14
  <2>2. id(j) \in DOMAIN base.elements
    <3>1. id(j) \in {id(i) : i \in 1..n}
      OBVIOUS
    <3> HIDE DEF id
    <3>2. QED
      BY <1>6, <1>10, <1>12, <3>1
  <2> HIDE DEF load, id, Value
  <2>3. /\ DOMAIN x = ShapeFields \cup {"on"} /\ x.kind = "distributed"
        /\ x.on = id(j) /\ x.case = None
    BY <2>1 DEF ShapeFields
  <2> HIDE DEF x
  <2>4. CasesAreKept => CaseOf(x) \in base.cases
    <3> SUFFICES ASSUME CasesAreKept PROVE CaseOf(x) \in base.cases
      OBVIOUS
    <3>1. CaseOf(load) = 1
      BY <1>14 DEF load, Plain
    <3>2. CaseOf(load) \in m.cases
      BY <1>13, <1>14 DEF load, Load
    <3>3. CaseOf(x) = 1
      BY <2>3 DEF CaseOf
    <3>4. QED
      BY <1>12, <3>1, <3>2, <3>3
  <2>5. Load(x, DOMAIN base.nodes, DOMAIN base.elements \cup {}, DOMAIN base.quads, base.cases)
    BY <2>2, <2>3, <2>4 DEF Load, OnBars
  <2>6. QED
    BY <2>5 DEF x, load
<1> DEFINE S == {Segment(m.loads[k], j) : k \in some, j \in 1..n}
<1>17. \A l \in S : Load(l, DOMAIN base.nodes, DOMAIN base.elements \cup {}, DOMAIN base.quads,
                         base.cases)
  <2> HIDE DEF Segment, some
  <2>1. QED
    BY <1>16
<1>18. FlattenSeq(seqs) \in Seq(S)
  <2> HIDE DEF Segment, some
  <2> DEFINE T == Seq(S)
  <2>1. ASSUME NEW k \in 1..Len(spread) PROVE seqs[k] \in T
    <3>1. seqs[k] = [j \in 1..n |-> Segment(m.loads[spread[k]], j)]
      OBVIOUS
    <3>2. \A j \in 1..n : Segment(m.loads[spread[k]], j) \in S
      BY <1>15
    <3>3. seqs[k] \in [1..n -> S]
      BY <3>1, <3>2
    <3> HIDE DEF seqs, S
    <3>4. QED
      BY <1>4, <3>3, SeqDef
  <2>2. seqs \in [1..Len(spread) -> T]
    <3> HIDE DEF T
    <3>1. seqs = [k \in 1..Len(spread) |-> seqs[k]]
      OBVIOUS
    <3> HIDE DEF seqs
    <3>2. QED
      BY <2>1, <3>1
  <2> HIDE DEF T, seqs
  <2>3. seqs \in Seq(T)
    BY <1>15, <2>2, SeqDef
  <2> HIDE DEF S
  <2>4. QED
    BY <2>3, FlattenedIsASequence DEF T
<1> HIDE DEF seqs, S
<1>19. BearersAreKept =>
           /\ \A k \in (DOMAIN base.loads) \ gone :
                  base.loads[k].kind \in OnBars => base.loads[k].on \in DOMAIN base.elements \cup {}
           /\ \A f \in DOMAIN base.footings :
                  base.footings[f].column \in DOMAIN base.elements \cup {} \cup {None}
  BY <1>12 DEF Sound, SoundBut, Referring, LoadsIn, Load, FootingsIn, Footing
<1>20. SoundBut(base, {})
  BY <1>12 DEF Sound
<1> HIDE DEF gone
<1>21. SoundBut(Replaced(base, gone, FlattenSeq(seqs)), {})
  BY <1>17, <1>18, <1>19, <1>20, ReplacedIsSound
<1>22. QED
  BY <1>1, <1>21 DEF Sound

-----------------------------------------------------------------------------
(***************************************************************************)
(* Something changes, and the ids of what others name stay.                *)
(***************************************************************************)

Suits(m, G, f, v) ==
    LET N == DOMAIN m.nodes  E == DOMAIN m.elements \cup G
    IN  /\ f = "nodes" => DOMAIN v = N /\ NodesIn(v, m.nextId.nodes)
        /\ f = "elements" => /\ DOMAIN v = DOMAIN m.elements
                             /\ BarsIn(v, m.nextId.elements, N, m.materials)
        /\ f = "supports" => SupportsIn(v, m.nextId.supports, N)
        /\ f = "loads" => LoadsIn(v, m.nextId.loads, N, E, DOMAIN m.quads, m.cases)
        /\ f = "quads" => DOMAIN v = DOMAIN m.quads /\ QuadsIn(v, m.nextId.quads, m.materials)
        /\ f = "connectors" => ConnectorsIn(v, m.nextId.connectors, N)
        /\ f = "footings" => FootingsIn(v, m.nextId.footings, N, E, ToSet(m.profiles))
        /\ f = "combinations" => CombinationsIn(v, m.nextId.combinations, m.cases)
        /\ f = "constraints" => v \in Seq(Ties(N))
        /\ f = "defaultProfile" => ProfilesIn(m.profiles, m.nextId.profiles, v)
        /\ f = "materials" => /\ Ids(v, m.nextId.materials)
                              /\ BarsIn(m.elements, m.nextId.elements, N, v)
                              /\ QuadsIn(m.quads, m.nextId.quads, v)

LEMMA ChangedIsSound ==
    ASSUME NEW m, NEW G, SoundBut(m, G), NEW v,
           NEW f \in Fields \ {"nextId", "profiles", "cases"}, Suits(m, G, f, v),
           NEW u, u = [m EXCEPT ![f] = v]
    PROVE  SoundBut(u, G)
<1> DEFINE N == DOMAIN m.nodes
           E == DOMAIN m.elements \cup G
           Q == DOMAIN m.quads
<1>1. /\ Shaped(m) /\ NodesIn(m.nodes, m.nextId.nodes)
      /\ Referring(m, N, E, Q, m.materials, m.cases, ToSet(m.profiles))
      /\ ProfilesIn(m.profiles, m.nextId.profiles, m.defaultProfile)
      /\ Ids(m.materials, m.nextId.materials) /\ Ids(m.cases, m.nextId.cases)
  BY DEF SoundBut
<1>2. /\ DOMAIN u = Fields
      /\ u[f] = v
      /\ \A g \in Fields \ {f} : u[g] = m[g]
  BY <1>1 DEF Shaped
<1>3. u.nextId = m.nextId /\ u.profiles = m.profiles /\ u.cases = m.cases
  BY <1>2 DEF Fields, Counters, Kinds
<1>4. /\ f = "nodes" => DOMAIN v = N /\ NodesIn(v, m.nextId.nodes)
      /\ f = "elements" =>
             DOMAIN v = DOMAIN m.elements /\ BarsIn(v, m.nextId.elements, N, m.materials)
      /\ f = "supports" => SupportsIn(v, m.nextId.supports, N)
      /\ f = "loads" => LoadsIn(v, m.nextId.loads, N, E, Q, m.cases)
      /\ f = "quads" => DOMAIN v = Q /\ QuadsIn(v, m.nextId.quads, m.materials)
      /\ f = "connectors" => ConnectorsIn(v, m.nextId.connectors, N)
      /\ f = "footings" => FootingsIn(v, m.nextId.footings, N, E, ToSet(m.profiles))
      /\ f = "combinations" => CombinationsIn(v, m.nextId.combinations, m.cases)
      /\ f = "constraints" => v \in Seq(Ties(N))
      /\ f = "defaultProfile" => ProfilesIn(m.profiles, m.nextId.profiles, v)
      /\ f = "materials" => /\ Ids(v, m.nextId.materials)
                            /\ BarsIn(m.elements, m.nextId.elements, N, v)
                            /\ QuadsIn(m.quads, m.nextId.quads, v)
  BY DEF Suits
<1>5. DOMAIN u.nodes = N
  <2>1. CASE f = "nodes"
    BY <1>2, <1>4, <2>1
  <2>2. CASE f # "nodes"
    BY <1>2, <2>2 DEF Fields, Counters, Kinds
  <2>3. QED
    BY <2>1, <2>2
<1>6. DOMAIN u.elements = DOMAIN m.elements
  <2>1. CASE f = "elements"
    BY <1>2, <1>4, <2>1
  <2>2. CASE f # "elements"
    BY <1>2, <2>2 DEF Fields, Counters, Kinds
  <2>3. QED
    BY <2>1, <2>2
<1>7. DOMAIN u.quads = Q
  <2>1. CASE f = "quads"
    BY <1>2, <1>4, <2>1
  <2>2. CASE f # "quads"
    BY <1>2, <2>2 DEF Fields, Counters, Kinds
  <2>3. QED
    BY <2>1, <2>2
<1> HIDE DEF N, E, Q
<1>8. /\ NodesIn(m.nodes, m.nextId.nodes)
      /\ BarsIn(m.elements, m.nextId.elements, N, m.materials)
      /\ SupportsIn(m.supports, m.nextId.supports, N)
      /\ LoadsIn(m.loads, m.nextId.loads, N, E, Q, m.cases)
      /\ QuadsIn(m.quads, m.nextId.quads, m.materials)
      /\ ConnectorsIn(m.connectors, m.nextId.connectors, N)
      /\ FootingsIn(m.footings, m.nextId.footings, N, E, ToSet(m.profiles))
      /\ CombinationsIn(m.combinations, m.nextId.combinations, m.cases)
      /\ m.constraints \in Seq(Ties(N))
  BY <1>1 DEF Referring
<1>9. \A g \in Fields : g # f => u[g] = m[g]
  BY <1>2
<1>10. /\ "nodes" \in Fields /\ "elements" \in Fields /\ "supports" \in Fields
       /\ "loads" \in Fields /\ "quads" \in Fields /\ "connectors" \in Fields
       /\ "footings" \in Fields /\ "combinations" \in Fields /\ "constraints" \in Fields
       /\ "defaultProfile" \in Fields /\ "materials" \in Fields
  BY DEF Fields, Counters, Kinds
<1>11. /\ NodesIn(u.nodes, u.nextId.nodes)
       /\ SupportsIn(u.supports, u.nextId.supports, N)
       /\ ConnectorsIn(u.connectors, u.nextId.connectors, N)
       /\ u.constraints \in Seq(Ties(N))
  <2>1. NodesIn(u.nodes, u.nextId.nodes)
    BY <1>2, <1>3, <1>4, <1>8, <1>9, <1>10
  <2>2. SupportsIn(u.supports, u.nextId.supports, N)
    BY <1>2, <1>3, <1>4, <1>8, <1>9, <1>10
  <2>3. ConnectorsIn(u.connectors, u.nextId.connectors, N)
    BY <1>2, <1>3, <1>4, <1>8, <1>9, <1>10
  <2>4. u.constraints \in Seq(Ties(N))
    BY <1>2, <1>4, <1>8, <1>9, <1>10
  <2>5. QED
    BY <2>1, <2>2, <2>3, <2>4
<1>12. LoadsIn(u.loads, u.nextId.loads, N, E, Q, u.cases)
  BY <1>2, <1>3, <1>4, <1>8, <1>9, <1>10
<1>13. FootingsIn(u.footings, u.nextId.footings, N, E, ToSet(u.profiles))
  BY <1>2, <1>3, <1>4, <1>8, <1>9, <1>10
<1>14. CombinationsIn(u.combinations, u.nextId.combinations, u.cases)
  BY <1>2, <1>3, <1>4, <1>8, <1>9, <1>10
<1>15. ProfilesIn(u.profiles, u.nextId.profiles, u.defaultProfile)
  BY <1>1, <1>2, <1>3, <1>4, <1>9, <1>10
<1>16. /\ BarsIn(u.elements, u.nextId.elements, N, u.materials)
       /\ QuadsIn(u.quads, u.nextId.quads, u.materials)
       /\ Ids(u.materials, u.nextId.materials)
  <2>1. CASE f = "elements"
    BY <1>1, <1>2, <1>3, <1>4, <1>8, <1>9, <1>10, <2>1
  <2>2. CASE f = "quads"
    BY <1>1, <1>2, <1>3, <1>4, <1>8, <1>9, <1>10, <2>2
  <2>3. CASE f = "materials"
    BY <1>1, <1>2, <1>3, <1>4, <1>8, <1>9, <1>10, <2>3
  <2>4. CASE f \notin {"elements", "quads", "materials"}
    BY <1>1, <1>3, <1>8, <1>9, <1>10, <2>4
  <2>5. QED
    BY <2>1, <2>2, <2>3, <2>4
<1>17. Referring(u, N, E, Q, u.materials, u.cases, ToSet(u.profiles))
  BY <1>11, <1>12, <1>13, <1>14, <1>16 DEF Referring
<1>18. QED
  BY <1>1, <1>2, <1>3, <1>5, <1>6, <1>7, <1>11, <1>15, <1>16, <1>17
     DEF SoundBut, Shaped, N, E, Q

-----------------------------------------------------------------------------
(***************************************************************************)
(* The edits, one by one: first what is added.                             *)
(***************************************************************************)

\* What is said of the parts of a sound structure.
LEMMA SoundParts ==
    ASSUME NEW m, Sound(m)
    PROVE  /\ SoundBut(m, {}) /\ Shaped(m)
           /\ NodesIn(m.nodes, m.nextId.nodes)
           /\ BarsIn(m.elements, m.nextId.elements, DOMAIN m.nodes, m.materials)
           /\ SupportsIn(m.supports, m.nextId.supports, DOMAIN m.nodes)
           /\ LoadsIn(m.loads, m.nextId.loads, DOMAIN m.nodes, DOMAIN m.elements \cup {},
                      DOMAIN m.quads, m.cases)
           /\ QuadsIn(m.quads, m.nextId.quads, m.materials)
           /\ ConnectorsIn(m.connectors, m.nextId.connectors, DOMAIN m.nodes)
           /\ FootingsIn(m.footings, m.nextId.footings, DOMAIN m.nodes, DOMAIN m.elements \cup {},
                         ToSet(m.profiles))
           /\ CombinationsIn(m.combinations, m.nextId.combinations, m.cases)
           /\ m.constraints \in Seq(Ties(DOMAIN m.nodes))
           /\ ProfilesIn(m.profiles, m.nextId.profiles, m.defaultProfile)
           /\ Ids(m.materials, m.nextId.materials) /\ Ids(m.cases, m.nextId.cases)
BY DEF Sound, SoundBut, Referring

LEMMA AddsFitting ==
    ASSUME Sound(model), NEW map \in Kinds, NEW entry, Fits(model, {}, map, entry),
           Becomes(Added(model, map, entry))
    PROVE  Sound(model')
<1>1. SoundBut(model, {})
  BY DEF Sound
<1>2. SoundBut(Added(model, map, entry), {})
  BY <1>1, AddedIsSound
<1>3. QED
  BY <1>2 DEF Becomes, Sound

LEMMA ChangesSuiting ==
    ASSUME Sound(model), NEW v, NEW f \in Fields \ {"nextId", "profiles", "cases"},
           Suits(model, {}, f, v), Becomes([model EXCEPT ![f] = v])
    PROVE  Sound(model')
<1>1. SoundBut(model, {})
  BY DEF Sound
<1>2. SoundBut([model EXCEPT ![f] = v], {})
  BY <1>1, ChangedIsSound
<1>3. QED
  BY <1>2 DEF Becomes, Sound

LEMMA AddNodeKeeps == ASSUME Sound(model), addNode PROVE Sound(model')
<1>1. PICK x \in 0..Reach : Becomes(Added(model, "nodes", x))
  BY DEF addNode
<1>2. "nodes" \in Kinds /\ Fits(model, {}, "nodes", x)
  BY DEF Kinds, Fits
<1>3. QED
  BY <1>1, <1>2, AddsFitting

LEMMA AddElementKeeps == ASSUME Sound(model), addElement PROVE Sound(model')
<1>1. PICK i \in DOMAIN model.nodes, j \in DOMAIN model.nodes :
          /\ 1 \in model.materials \/ "firstOne" \in Races
          /\ Becomes(Added(model, "elements", [i |-> i, j |-> j, material |-> 1, hinges |-> {}]))
  BY DEF addElement
<1> DEFINE bar == [i |-> i, j |-> j, material |-> 1, hinges |-> {}]
<1>2. Bar(bar, DOMAIN model.nodes, model.materials)
  BY <1>1 DEF Bar, MaterialsAreKept
<1> HIDE DEF bar
<1>3. "elements" \in Kinds /\ Fits(model, {}, "elements", bar)
  BY <1>2 DEF Kinds, Fits
<1>4. Becomes(Added(model, "elements", bar))
  BY <1>1 DEF bar
<1>5. QED
  BY <1>3, <1>4, AddsFitting

LEMMA AddSupportKeeps == ASSUME Sound(model), addSupport PROVE Sound(model')
<1>1. PICK n \in DOMAIN model.nodes : Becomes(Supported(model, n))
  BY DEF addSupport
<1> DEFINE rest == Keep(model.supports, LAMBDA s : s # n)
           m == [model EXCEPT !["supports"] = rest]
<1>2. SupportsIn(model.supports, model.nextId.supports, DOMAIN model.nodes) /\ SoundBut(model, {})
  BY SoundParts
<1>3. /\ IsRestriction(rest, model.supports)
      /\ \A s \in DOMAIN rest : rest[s] # n
  BY DEF Keep, Restrict, IsRestriction
<1> HIDE DEF rest
<1>4. SupportsIn(rest, model.nextId.supports, DOMAIN model.nodes)
  BY <1>2, <1>3, FewerEntries
<1>5. "supports" \in Fields \ {"nextId", "profiles", "cases"} /\ Suits(model, {}, "supports", rest)
  BY <1>4 DEF Suits, Fields, Counters, Kinds
<1>6. SoundBut(m, {})
  BY <1>2, <1>5, ChangedIsSound
<1>7. m.supports = rest /\ m.nodes = model.nodes
  BY <1>2 DEF SoundBut, Shaped, Fields, Counters, Kinds
<1>8. Supported(model, n) = Added(m, "supports", n)
  BY DEF Supported, rest
<1> HIDE DEF m
<1>9. "supports" \in Kinds /\ Fits(m, {}, "supports", n)
  BY <1>3, <1>7 DEF Kinds, Fits
<1>10. SoundBut(Added(m, "supports", n), {})
  BY <1>6, <1>9, AddedIsSound
<1>11. QED
  BY <1>1, <1>8, <1>10 DEF Becomes, Sound

LEMMA AddLoadKeeps == ASSUME Sound(model), addLoad PROVE Sound(model')
<1> DEFINE Bearers(s) == CASE s.kind = "nodal" -> DOMAIN model.nodes
                           [] s.kind = "surface" -> DOMAIN model.quads
                           [] OTHER -> DOMAIN model.elements
<1>1. PICK s \in Shapes : \E on \in Bearers(s) :
          /\ CaseOf(s) \in model.cases \/ "firstOne" \in Races
          /\ Becomes(Added(model, "loads", Set(s, "on", on)))
  BY DEF addLoad
<1>2. PICK on \in Bearers(s) :
          /\ CaseOf(s) \in model.cases \/ "firstOne" \in Races
          /\ Becomes(Added(model, "loads", Set(s, "on", on)))
  BY <1>1
<1> DEFINE load == Set(s, "on", on)
<1>3. DOMAIN s = ShapeFields /\ s.kind \in OnBars \cup {"nodal", "surface"}
  BY ShapesAssumption DEF Shape
<1>4. /\ DOMAIN load = ShapeFields \cup {"on"}
      /\ load.on = on /\ load.kind = s.kind /\ load.case = s.case
  BY <1>3 DEF Set, ShapeFields
<1>5. /\ s.kind = "nodal" => on \in DOMAIN model.nodes
      /\ s.kind = "surface" => on \in DOMAIN model.quads
      /\ s.kind \in OnBars => on \in DOMAIN model.elements
  BY DEF OnBars
<1> HIDE DEF load
<1>6. CasesAreKept => CaseOf(load) \in model.cases
  BY <1>2, <1>4 DEF CaseOf, CasesAreKept
<1>7. Load(load, DOMAIN model.nodes, DOMAIN model.elements \cup {}, DOMAIN model.quads, model.cases)
  BY <1>3, <1>4, <1>5, <1>6 DEF Load
<1>8. "loads" \in Kinds /\ Fits(model, {}, "loads", load)
  BY <1>7 DEF Kinds, Fits
<1>9. Becomes(Added(model, "loads", load))
  BY <1>2 DEF load
<1>10. QED
  BY <1>8, <1>9, AddsFitting

LEMMA AddQuadKeeps == ASSUME Sound(model), addQuad PROVE Sound(model')
<1>1. PICK corners \in (SUBSET DOMAIN model.nodes) \ {{}}, mat \in model.materials :
          Becomes(Added(model, "quads", [corners |-> corners, material |-> mat]))
  BY DEF addQuad
<1> DEFINE quad == [corners |-> corners, material |-> mat]
<1>2. Quad(quad, model.materials)
  BY DEF Quad
<1> HIDE DEF quad
<1>3. "quads" \in Kinds /\ Fits(model, {}, "quads", quad)
  BY <1>2 DEF Kinds, Fits
<1>4. Becomes(Added(model, "quads", quad))
  BY <1>1 DEF quad
<1>5. QED
  BY <1>3, <1>4, AddsFitting

LEMMA AddConnectorKeeps == ASSUME Sound(model), addConnector PROVE Sound(model')
<1>1. PICK i \in DOMAIN model.nodes, j \in DOMAIN model.nodes :
          Becomes(Added(model, "connectors", [i |-> i, j |-> j]))
  BY DEF addConnector
<1> DEFINE spring == [i |-> i, j |-> j]
<1>2. spring.i \in DOMAIN model.nodes /\ spring.j \in DOMAIN model.nodes
  OBVIOUS
<1> HIDE DEF spring
<1>3. "connectors" \in Kinds /\ Fits(model, {}, "connectors", spring)
  BY <1>2 DEF Kinds, Fits
<1>4. Becomes(Added(model, "connectors", spring))
  BY <1>1 DEF spring
<1>5. QED
  BY <1>3, <1>4, AddsFitting

LEMMA AddFootingKeeps == ASSUME Sound(model), addFooting PROVE Sound(model')
<1>1. PICK n \in DOMAIN model.nodes : Becomes(Added(model, "footings",
          [node |-> n, column |-> None, soil |-> model.defaultProfile, revision |-> 0]))
  BY DEF addFooting
<1> DEFINE f == [node |-> n, column |-> None, soil |-> model.defaultProfile, revision |-> 0]
<1>2. model.defaultProfile \in ToSet(model.profiles) \cup {None}
  BY SoundParts DEF ProfilesIn
<1>3. Footing(f, DOMAIN model.nodes, DOMAIN model.elements \cup {}, ToSet(model.profiles))
  BY <1>2 DEF Footing
<1> HIDE DEF f
<1>4. "footings" \in Kinds /\ Fits(model, {}, "footings", f)
  BY <1>3 DEF Kinds, Fits
<1>5. Becomes(Added(model, "footings", f))
  BY <1>1 DEF f
<1>6. QED
  BY <1>4, <1>5, AddsFitting

LEMMA AddCombinationKeeps == ASSUME Sound(model), addCombination PROVE Sound(model')
<1>1. PICK factors \in SUBSET model.cases : Becomes(Added(model, "combinations", factors))
  BY DEF addCombination
<1>2. "combinations" \in Kinds /\ Fits(model, {}, "combinations", factors)
  BY DEF Kinds, Fits
<1>3. QED
  BY <1>1, <1>2, AddsFitting

LEMMA AddConstraintKeeps == ASSUME Sound(model), addConstraint PROVE Sound(model')
<1>1. PICK n \in DOMAIN model.nodes : \E others \in (SUBSET (DOMAIN model.nodes \ {n})) \ {{}},
             kind \in {"diaphragm", "equation"} :
          Becomes([model EXCEPT !.constraints = Append(@, Tie(kind, n, others))])
  BY DEF addConstraint
<1>2. PICK others \in (SUBSET (DOMAIN model.nodes \ {n})) \ {{}},
           kind \in {"diaphragm", "equation"} :
          Becomes([model EXCEPT !.constraints = Append(@, Tie(kind, n, others))])
  BY <1>1
<1> DEFINE v == Append(model.constraints, Tie(kind, n, others))
<1>3. Tie(kind, n, others) \in Ties(DOMAIN model.nodes)
  BY DEF Tie, Ties
<1>4. model.constraints \in Seq(Ties(DOMAIN model.nodes))
  BY SoundParts
<1>5. v \in Seq(Ties(DOMAIN model.nodes))
  BY <1>3, <1>4, AppendProperties
<1> HIDE DEF v
<1>6. /\ "constraints" \in Fields \ {"nextId", "profiles", "cases"}
      /\ Suits(model, {}, "constraints", v)
  BY <1>5 DEF Suits, Fields, Counters, Kinds
<1>7. Becomes([model EXCEPT !["constraints"] = v])
  BY <1>2 DEF v
<1>8. QED
  BY <1>6, <1>7, ChangesSuiting

\* All that others refer to is still there: strata, materials and cases may be more.
Grown(m, u) ==
    /\ Shaped(u)
    /\ \A map \in Kinds : u[map] = m[map] /\ u.nextId[map] = m.nextId[map]
    /\ u.constraints = m.constraints
    /\ m.materials \subseteq u.materials /\ Ids(u.materials, u.nextId.materials)
    /\ m.cases \subseteq u.cases /\ Ids(u.cases, u.nextId.cases)
    /\ ToSet(m.profiles) \subseteq ToSet(u.profiles)
    /\ ProfilesIn(u.profiles, u.nextId.profiles, u.defaultProfile)

LEMMA GrownIsSound ==
    ASSUME NEW m, Sound(m), NEW u, Grown(m, u)
    PROVE  Sound(u)
<1> DEFINE N == DOMAIN m.nodes
           E == DOMAIN m.elements \cup {}
           Q == DOMAIN m.quads
<1>1. /\ NodesIn(m.nodes, m.nextId.nodes)
      /\ Referring(m, N, E, Q, m.materials, m.cases, ToSet(m.profiles))
  BY DEF Sound, SoundBut
<1>2. Referring(m, N, E, Q, u.materials, u.cases, ToSet(u.profiles))
  <2> HIDE DEF N, E, Q
  <2>1. /\ N \subseteq N /\ E \subseteq E /\ Q \subseteq Q /\ m.materials \subseteq u.materials
        /\ m.cases \subseteq u.cases /\ ToSet(m.profiles) \subseteq ToSet(u.profiles)
    BY DEF Grown
  <2>2. QED
    BY <1>1, <2>1, MoreToReferTo
<1>3. /\ u.nodes = m.nodes /\ u.elements = m.elements /\ u.supports = m.supports
      /\ u.loads = m.loads /\ u.quads = m.quads /\ u.connectors = m.connectors
      /\ u.footings = m.footings /\ u.combinations = m.combinations
      /\ u.constraints = m.constraints
  BY DEF Grown, Kinds
<1>4. /\ u.nextId.nodes = m.nextId.nodes /\ u.nextId.elements = m.nextId.elements
      /\ u.nextId.supports = m.nextId.supports /\ u.nextId.loads = m.nextId.loads
      /\ u.nextId.quads = m.nextId.quads /\ u.nextId.connectors = m.nextId.connectors
      /\ u.nextId.footings = m.nextId.footings
      /\ u.nextId.combinations = m.nextId.combinations
  BY DEF Grown, Kinds
<1>5. Referring(u, N, E, Q, u.materials, u.cases, ToSet(u.profiles))
  <2> HIDE DEF N, E, Q
  <2>1. QED
    BY <1>2, <1>3, <1>4 DEF Referring
<1>6. NodesIn(u.nodes, u.nextId.nodes)
  BY <1>1, <1>3, <1>4
<1>7. QED
  BY <1>3, <1>5, <1>6 DEF Sound, SoundBut, Grown

LEMMA AddLoadCaseKeeps == ASSUME Sound(model), addLoadCase PROVE Sound(model')
<1>1. model' = [model EXCEPT !.cases = @ \cup {model.nextId.cases}, !.nextId.cases = @ + 1]
  BY DEF addLoadCase, Becomes
<1>2. /\ Shaped(model) /\ Ids(model.materials, model.nextId.materials)
      /\ Ids(model.cases, model.nextId.cases)
      /\ ProfilesIn(model.profiles, model.nextId.profiles, model.defaultProfile)
  BY SoundParts
<1>3. /\ Shaped(model')
      /\ \A f \in Fields \ {"cases", "nextId"} : model'[f] = model[f]
      /\ \A f \in Counters \ {"cases"} : model'.nextId[f] = model.nextId[f]
      /\ model'.cases = model.cases \cup {model.nextId.cases}
      /\ model'.nextId.cases = model.nextId.cases + 1
  BY <1>1, <1>2 DEF Shaped, Fields, Counters, Kinds
<1>4. Ids(model'.cases, model'.nextId.cases)
  BY <1>2, <1>3, NextId
<1>5. \A map \in Kinds : model'[map] = model[map] /\ model'.nextId[map] = model.nextId[map]
  BY <1>3 DEF Fields, Counters, Kinds
<1>6. /\ model'.constraints = model.constraints /\ model'.materials = model.materials
      /\ model'.profiles = model.profiles /\ model'.defaultProfile = model.defaultProfile
      /\ model'.nextId.profiles = model.nextId.profiles
      /\ model'.nextId.materials = model.nextId.materials
  BY <1>3 DEF Fields, Counters, Kinds
<1>7. Grown(model, model')
  BY <1>2, <1>3, <1>4, <1>5, <1>6 DEF Grown
<1>8. QED
  BY <1>7, GrownIsSound

LEMMA AddMaterialKeeps == ASSUME Sound(model), addMaterial PROVE Sound(model')
<1>1. model' = [model EXCEPT !.materials = @ \cup {model.nextId.materials},
                             !.nextId.materials = @ + 1]
  BY DEF addMaterial, Becomes
<1>2. /\ Shaped(model) /\ Ids(model.materials, model.nextId.materials)
      /\ Ids(model.cases, model.nextId.cases)
      /\ ProfilesIn(model.profiles, model.nextId.profiles, model.defaultProfile)
  BY SoundParts
<1>3. /\ Shaped(model')
      /\ \A f \in Fields \ {"materials", "nextId"} : model'[f] = model[f]
      /\ \A f \in Counters \ {"materials"} : model'.nextId[f] = model.nextId[f]
      /\ model'.materials = model.materials \cup {model.nextId.materials}
      /\ model'.nextId.materials = model.nextId.materials + 1
  BY <1>1, <1>2 DEF Shaped, Fields, Counters, Kinds
<1>4. Ids(model'.materials, model'.nextId.materials)
  BY <1>2, <1>3, NextId
<1>5. \A map \in Kinds : model'[map] = model[map] /\ model'.nextId[map] = model.nextId[map]
  BY <1>3 DEF Fields, Counters, Kinds
<1>6. /\ model'.constraints = model.constraints /\ model'.cases = model.cases
      /\ model'.profiles = model.profiles /\ model'.defaultProfile = model.defaultProfile
      /\ model'.nextId.profiles = model.nextId.profiles
      /\ model'.nextId.cases = model.nextId.cases
  BY <1>3 DEF Fields, Counters, Kinds
<1>7. Grown(model, model')
  BY <1>2, <1>3, <1>4, <1>5, <1>6 DEF Grown
<1>8. QED
  BY <1>7, GrownIsSound

LEMMA AppendedEntries ==
    ASSUME NEW s \in Seq(Nat), NEW x \in Nat
    PROVE  Append(s, x) \in Seq(Nat) /\ ToSet(Append(s, x)) = ToSet(s) \cup {x}
<1>1. /\ Append(s, x) \in Seq(Nat) /\ Len(s) \in Nat /\ DOMAIN s = 1..Len(s)
      /\ Len(Append(s, x)) = Len(s) + 1
      /\ \A i \in 1..Len(s) : Append(s, x)[i] = s[i]
      /\ Append(s, x)[Len(s) + 1] = x
  BY AppendProperties, LenProperties
<1>2. DOMAIN Append(s, x) = 1..(Len(s) + 1)
  BY <1>1, LenProperties
<1>3. 1..(Len(s) + 1) = 1..Len(s) \cup {Len(s) + 1}
  BY <1>1
<1> DEFINE t == Append(s, x)
<1> HIDE DEF t
<1>4. /\ DOMAIN t = 1..Len(s) \cup {Len(s) + 1}
      /\ \A i \in 1..Len(s) : t[i] = s[i]
      /\ t[Len(s) + 1] = x
  BY <1>1, <1>2, <1>3 DEF t
<1>5. ToSet(t) = ToSet(s) \cup {x}
  BY <1>1, <1>4 DEF ToSet
<1>6. QED
  BY <1>1, <1>5 DEF t

LEMMA AddSoilProfileKeeps == ASSUME Sound(model), addSoilProfile PROVE Sound(model')
<1> DEFINE id == model.nextId.profiles
           default == IF model.defaultProfile = None THEN id ELSE model.defaultProfile
<1>1. model' = [model EXCEPT !.profiles = Append(@, id), !.defaultProfile = default,
                             !.nextId.profiles = @ + 1]
  BY DEF addSoilProfile, Becomes
<1>2. /\ Shaped(model) /\ Ids(model.materials, model.nextId.materials)
      /\ Ids(model.cases, model.nextId.cases)
      /\ ProfilesIn(model.profiles, model.nextId.profiles, model.defaultProfile)
  BY SoundParts
<1> HIDE DEF default
<1>3. /\ Shaped(model')
      /\ \A f \in Fields \ {"profiles", "defaultProfile", "nextId"} : model'[f] = model[f]
      /\ \A f \in Counters \ {"profiles"} : model'.nextId[f] = model.nextId[f]
      /\ model'.profiles = Append(model.profiles, id)
      /\ model'.defaultProfile = default
      /\ model'.nextId.profiles = id + 1
  BY <1>1, <1>2 DEF Shaped, Fields, Counters, Kinds
<1>4. id \in Nat /\ Ids(ToSet(model.profiles) \cup {id}, id + 1)
  <2> HIDE DEF id
  <2>1. Ids(ToSet(model.profiles), id)
    BY <1>2 DEF ProfilesIn, id
  <2>2. QED
    BY <2>1, NextId DEF Ids
<1>5. /\ model'.profiles \in Seq(Nat)
      /\ ToSet(model'.profiles) = ToSet(model.profiles) \cup {id}
  <2>1. model.profiles \in Seq(Nat)
    BY <1>2 DEF ProfilesIn
  <2>2. QED
    BY <1>3, <1>4, <2>1, AppendedEntries
<1>6. default \in ToSet(model'.profiles) \cup {None}
  BY <1>2, <1>5 DEF ProfilesIn, default
<1>7. ProfilesIn(model'.profiles, model'.nextId.profiles, model'.defaultProfile)
  BY <1>3, <1>4, <1>5, <1>6 DEF ProfilesIn
<1>8. \A map \in Kinds : model'[map] = model[map] /\ model'.nextId[map] = model.nextId[map]
  BY <1>3 DEF Fields, Counters, Kinds
<1>9. /\ model'.constraints = model.constraints
      /\ model'.cases = model.cases /\ model'.materials = model.materials
      /\ model'.nextId.materials = model.nextId.materials
      /\ model'.nextId.cases = model.nextId.cases
  BY <1>3 DEF Fields, Counters, Kinds
<1>10. Grown(model, model')
  BY <1>2, <1>3, <1>5, <1>7, <1>8, <1>9 DEF Grown
<1>11. QED
  BY <1>10, GrownIsSound

-----------------------------------------------------------------------------
(***************************************************************************)
(* Then what goes.                                                         *)
(***************************************************************************)

\* Entries of a map that nothing refers to.
LEMMA DropsEntries ==
    ASSUME Sound(model), NEW f \in {"supports", "loads", "connectors", "footings", "combinations"},
           NEW v, IsRestriction(v, model[f]), Becomes([model EXCEPT ![f] = v])
    PROVE  Sound(model')
<1> DEFINE N == DOMAIN model.nodes
           E == DOMAIN model.elements \cup {}
           Q == DOMAIN model.quads
           P == ToSet(model.profiles)
<1>1. /\ SupportsIn(model.supports, model.nextId.supports, N)
      /\ LoadsIn(model.loads, model.nextId.loads, N, E, Q, model.cases)
      /\ ConnectorsIn(model.connectors, model.nextId.connectors, N)
      /\ FootingsIn(model.footings, model.nextId.footings, N, E, P)
      /\ CombinationsIn(model.combinations, model.nextId.combinations, model.cases)
  BY SoundParts
<1> HIDE DEF N, E, Q, P
<1>2. /\ f = "supports" => SupportsIn(v, model.nextId.supports, N)
      /\ f = "loads" => LoadsIn(v, model.nextId.loads, N, E, Q, model.cases)
      /\ f = "connectors" => ConnectorsIn(v, model.nextId.connectors, N)
      /\ f = "footings" => FootingsIn(v, model.nextId.footings, N, E, P)
      /\ f = "combinations" => CombinationsIn(v, model.nextId.combinations, model.cases)
  <2>1. f = "supports" => SupportsIn(v, model.nextId.supports, N)
    BY <1>1, FewerEntries
  <2>2. f = "loads" => LoadsIn(v, model.nextId.loads, N, E, Q, model.cases)
    BY <1>1, FewerEntries
  <2>3. f = "connectors" => ConnectorsIn(v, model.nextId.connectors, N)
    BY <1>1, FewerEntries
  <2>4. f = "footings" => FootingsIn(v, model.nextId.footings, N, E, P)
    BY <1>1, FewerEntries
  <2>5. f = "combinations" => CombinationsIn(v, model.nextId.combinations, model.cases)
    BY <1>1, FewerEntries
  <2>6. QED
    BY <2>1, <2>2, <2>3, <2>4, <2>5
<1>3. Suits(model, {}, f, v)
  BY <1>2 DEF Suits, N, E, Q, P
<1>4. f \in Fields \ {"nextId", "profiles", "cases"}
  BY DEF Fields, Counters, Kinds
<1>5. QED
  BY <1>3, <1>4, ChangesSuiting

LEMMA WithoutRestricts == \A f, gone : IsRestriction(Without(f, gone), f)
BY DEF Without, Restrict, IsRestriction

LEMMA RemoveSupportKeeps == ASSUME Sound(model), removeSupport PROVE Sound(model')
<1>1. PICK s \in DOMAIN model.supports :
          Becomes([model EXCEPT !["supports"] = Without(model["supports"], {s})])
  BY DEF removeSupport
<1>2. IsRestriction(Without(model["supports"], {s}), model["supports"])
  BY WithoutRestricts
<1>3. QED
  BY <1>1, <1>2, DropsEntries

LEMMA RemoveLoadKeeps == ASSUME Sound(model), removeLoad PROVE Sound(model')
<1>1. PICK l \in DOMAIN model.loads :
          Becomes([model EXCEPT !["loads"] = Without(model["loads"], {l})])
  BY DEF removeLoad
<1>2. IsRestriction(Without(model["loads"], {l}), model["loads"])
  BY WithoutRestricts
<1>3. QED
  BY <1>1, <1>2, DropsEntries

LEMMA RemoveConnectorKeeps == ASSUME Sound(model), removeConnector PROVE Sound(model')
<1>1. PICK gone \in {DOMAIN model.connectors} \cup {{k} : k \in DOMAIN model.connectors} :
          Becomes([model EXCEPT !["connectors"] = Without(model["connectors"], gone)])
  BY DEF removeConnector
<1>2. IsRestriction(Without(model["connectors"], gone), model["connectors"])
  BY WithoutRestricts
<1>3. QED
  BY <1>1, <1>2, DropsEntries

LEMMA RemoveFootingKeeps == ASSUME Sound(model), removeFooting PROVE Sound(model')
<1>1. PICK gone \in {DOMAIN model.footings} \cup {{k} : k \in DOMAIN model.footings} :
          Becomes([model EXCEPT !["footings"] = Without(model["footings"], gone)])
  BY DEF removeFooting
<1>2. IsRestriction(Without(model["footings"], gone), model["footings"])
  BY WithoutRestricts
<1>3. QED
  BY <1>1, <1>2, DropsEntries

LEMMA RemoveCombinationKeeps == ASSUME Sound(model), removeCombination PROVE Sound(model')
<1>1. PICK c \in DOMAIN model.combinations :
          Becomes([model EXCEPT !["combinations"] = Without(model["combinations"], {c})])
  BY DEF removeCombination
<1>2. IsRestriction(Without(model["combinations"], {c}), model["combinations"])
  BY WithoutRestricts
<1>3. QED
  BY <1>1, <1>2, DropsEntries

LEMMA RemoveConstraintKeeps == ASSUME Sound(model), removeConstraint PROVE Sound(model')
<1> DEFINE c == model.constraints
           T == Ties(DOMAIN model.nodes)
<1>1. c \in Seq(T) /\ Len(c) \in Nat /\ DOMAIN c = 1..Len(c)
  <2>1. c \in Seq(T)
    BY SoundParts
  <2>2. QED
    BY <2>1, LenProperties
<1>2. PICK kept \in {<<>>} \cup {RemoveAt(c, k) : k \in DOMAIN c} :
          Becomes([model EXCEPT !["constraints"] = kept])
  BY DEF removeConstraint
<1> HIDE DEF T
<1>3. kept \in Seq(T)
  <2>1. CASE kept = <<>>
    BY <2>1
  <2>2. CASE kept # <<>>
    <3>1. PICK k \in DOMAIN c : kept = RemoveAt(c, k)
      BY <2>2
    <3> HIDE DEF c
    <3>2. k \in Int /\ 1 <= k /\ k <= Len(c) /\ Len(c) \in Int
      BY <1>1
    <3>3. \A i \in 1..(k - 1) : c[i] \in T
      BY <1>1, <3>2, ElementOfSeq
    <3>4. \A i \in (k + 1)..Len(c) : c[i] \in T
      BY <1>1, <3>2, ElementOfSeq
    <3>5. 1 \in Int /\ k - 1 \in Int /\ k + 1 \in Int /\ Len(c) \in Int
      BY <3>2
    <3>6. SubSeq(c, 1, k - 1) \in Seq(T)
      BY <3>3, <3>5, SubSeqProperties
    <3>7. SubSeq(c, k + 1, Len(c)) \in Seq(T)
      BY <3>4, <3>5, SubSeqProperties
    <3>8. SubSeq(c, 1, k - 1) \o SubSeq(c, k + 1, Len(c)) \in Seq(T)
      BY <3>6, <3>7, ConcatProperties
    <3>9. QED
      BY <3>1, <3>8 DEF RemoveAt
  <2>3. QED
    BY <2>1, <2>2
<1>4. /\ "constraints" \in Fields \ {"nextId", "profiles", "cases"}
      /\ Suits(model, {}, "constraints", kept)
  BY <1>3 DEF Suits, T, Fields, Counters, Kinds
<1>5. QED
  BY <1>2, <1>4, ChangesSuiting

LEMMA RemoveMaterialKeeps == ASSUME Sound(model), removeMaterial PROVE Sound(model')
<1>1. PICK id \in model.materials :
          /\ Unused(model, id)
          /\ \/ \A q \in DOMAIN model.quads : model.quads[q].material # id
             \/ "shell" \in Races
          /\ Becomes([model EXCEPT !["materials"] = model.materials \ {id}])
  BY DEF removeMaterial
<1> DEFINE left == model.materials \ {id}
<1>2. /\ BarsIn(model.elements, model.nextId.elements, DOMAIN model.nodes, model.materials)
      /\ QuadsIn(model.quads, model.nextId.quads, model.materials)
      /\ Ids(model.materials, model.nextId.materials)
  BY SoundParts
<1>3. BarsIn(model.elements, model.nextId.elements, DOMAIN model.nodes, left)
  BY <1>1, <1>2 DEF BarsIn, Bar, Unused
<1>4. QuadsIn(model.quads, model.nextId.quads, left)
  BY <1>1, <1>2 DEF QuadsIn, Quad, MaterialsAreKept
<1>5. Ids(left, model.nextId.materials)
  BY <1>2 DEF Ids
<1> HIDE DEF left
<1>6. /\ "materials" \in Fields \ {"nextId", "profiles", "cases"}
      /\ Suits(model, {}, "materials", left)
  BY <1>3, <1>4, <1>5 DEF Suits, Fields, Counters, Kinds
<1>7. QED
  BY <1>1, <1>6, ChangesSuiting DEF left

LEMMA DeleteEntitiesKeeps == ASSUME Sound(model), deleteEntities PROVE Sound(model')
<1>1. PICK nodes \in SUBSET DOMAIN model.nodes, bars \in SUBSET DOMAIN model.elements,
           shells \in SUBSET DOMAIN model.quads :
          LET m == NodesRemoved(model, nodes)
          IN  /\ "cascade" \in Races \/ Unloaded(nodes)
              /\ Becomes(QuadsRemoved(ElementsRemoved(m, bars \cap DOMAIN m.elements), shells))
  BY DEF deleteEntities
<1> DEFINE m == NodesRemoved(model, nodes)
           lost == {} \cup ((DOMAIN model.elements) \ (DOMAIN m.elements))
           less == ElementsRemoved(m, bars \cap DOMAIN m.elements)
           left == QuadsRemoved(less, shells)
<1>2. SoundBut(model, {})
  BY SoundParts
<1>3. /\ SoundBut(m, lost)
      /\ DOMAIN m.elements = Apart(model, nodes)
      /\ IsRestriction(m.loads, model.loads) /\ IsRestriction(m.footings, model.footings)
  <2>1. /\ m = NodesRemoved(model, nodes)
        /\ lost = {} \cup ((DOMAIN model.elements) \ (DOMAIN m.elements))
    OBVIOUS
  <2> HIDE DEF m, lost, less, left
  <2>2. SoundBut(m, lost)
    BY <1>2, <2>1, NodesRemovedIsSound
  <2>3. DOMAIN m.elements = Apart(model, nodes)
    BY <1>2, <2>1, NodesRemovedIsSound
  <2>4. IsRestriction(m.loads, model.loads) /\ IsRestriction(m.footings, model.footings)
    BY <1>2, <2>1, NodesRemovedIsSound
  <2>5. QED
    BY <2>2, <2>3, <2>4
<1> HIDE DEF m
<1>4. ASSUME BearersAreKept
      PROVE  /\ \A k \in DOMAIN m.loads : m.loads[k].kind \in OnBars => m.loads[k].on \notin lost
             /\ \A f \in DOMAIN m.footings : m.footings[f].column \notin lost
  <2>1. Unloaded(nodes)
    BY <1>1, <1>4 DEF BearersAreKept
  <2>2. \A e \in lost : /\ e \in DOMAIN model.elements
                        /\ {model.elements[e].i, model.elements[e].j} \cap nodes # {}
    BY <1>3 DEF Apart
  <2> HIDE DEF lost
  <2>3. \A e \in lost : /\ LoadsOn(model, e) = {}
                        /\ \A f \in DOMAIN model.footings : model.footings[f].column # e
    BY <2>1, <2>2 DEF Unloaded
  <2>4. /\ DOMAIN m.loads \subseteq DOMAIN model.loads
        /\ \A k \in DOMAIN m.loads : m.loads[k] = model.loads[k]
        /\ DOMAIN m.footings \subseteq DOMAIN model.footings
        /\ \A k \in DOMAIN m.footings : m.footings[k] = model.footings[k]
    BY <1>3 DEF IsRestriction
  <2>5. QED
    BY <2>3, <2>4 DEF LoadsOn
<1> HIDE DEF lost
<1>5. SoundBut(m, {})
  BY <1>3, <1>4, NothingNamesThem DEF Sound
<1>6. SoundBut(less, {} \ (bars \cap DOMAIN m.elements))
  BY <1>5, ElementsRemovedIsSound
<1>7. SoundBut(less, {})
  <2>1. {} \ (bars \cap DOMAIN m.elements) = {}
    OBVIOUS
  <2> HIDE DEF less
  <2>2. QED
    BY <1>6, <2>1
<1> HIDE DEF less
<1>8. SoundBut(left, {})
  BY <1>7, QuadsRemovedIsSound
<1>9. Becomes(left)
  BY <1>1 DEF m, less
<1>10. QED
  BY <1>8, <1>9 DEF Becomes, Sound

LEMMA CutKeeps == ASSUME Sound(model), Cut PROVE Sound(model')
<1>1. PICK nodes \in SUBSET DOMAIN model.nodes :
          Becomes(ElementsRemoved(NodesRemoved(model, nodes),
                      {e \in DOMAIN model.elements :
                           {model.elements[e].i, model.elements[e].j} \cap nodes # {}}))
  BY DEF Cut
<1> DEFINE m == NodesRemoved(model, nodes)
           touched == {e \in DOMAIN model.elements :
                           {model.elements[e].i, model.elements[e].j} \cap nodes # {}}
           lost == {} \cup ((DOMAIN model.elements) \ (DOMAIN m.elements))
           left == ElementsRemoved(m, touched)
<1>2. SoundBut(model, {})
  BY SoundParts
<1>3. /\ SoundBut(m, lost)
      /\ DOMAIN m.elements = Apart(model, nodes)
  <2>1. /\ m = NodesRemoved(model, nodes)
        /\ lost = {} \cup ((DOMAIN model.elements) \ (DOMAIN m.elements))
    OBVIOUS
  <2> HIDE DEF m, lost
  <2>2. QED
    BY <1>2, <2>1, NodesRemovedIsSound
<1> HIDE DEF m
<1>4. lost \ touched = {}
  BY <1>3 DEF Apart
<1> HIDE DEF lost, touched
<1>5. SoundBut(left, lost \ touched)
  BY <1>3, ElementsRemovedIsSound
<1> HIDE DEF left
<1>6. SoundBut(left, {})
  BY <1>4, <1>5
<1>7. QED
  BY <1>1, <1>6 DEF Becomes, Sound, left, m, touched

LEMMA RemoveSoilProfileKeeps == ASSUME Sound(model), removeSoilProfile PROVE Sound(model')
<1> DEFINE N == DOMAIN model.nodes
           E == DOMAIN model.elements \cup {}
           P == ToSet(model.profiles)
           Each(id) == [k \in DOMAIN model.profiles |->
                           IF model.profiles[k] = id THEN <<>> ELSE <<model.profiles[k]>>]
           Default(id, left) == IF model.defaultProfile # id THEN model.defaultProfile
                                ELSE IF left = <<>> THEN None ELSE Head(left)
           Cleared(id) == [k \in DOMAIN model.footings |-> SoilCleared(model.footings[k], id)]
<1>1. PICK id \in P :
          model' = [model EXCEPT !.profiles = FlattenSeq(Each(id)),
                                 !.defaultProfile = Default(id, FlattenSeq(Each(id))),
                                 !.footings = Cleared(id)]
  BY DEF removeSoilProfile, Becomes
<1> DEFINE each == Each(id)
           left == FlattenSeq(each)
           default == Default(id, left)
           cleared == Cleared(id)
<1>2. /\ Shaped(model) /\ SoundBut(model, {})
      /\ ProfilesIn(model.profiles, model.nextId.profiles, model.defaultProfile)
      /\ FootingsIn(model.footings, model.nextId.footings, N, E, P)
  BY SoundParts
<1>3. /\ model.profiles \in Seq(Nat) /\ P \subseteq Nat
      /\ Len(model.profiles) \in Nat /\ DOMAIN model.profiles = 1..Len(model.profiles)
      /\ \A k \in 1..Len(model.profiles) : model.profiles[k] \in P
  <2>1. model.profiles \in Seq(Nat) /\ P \subseteq Nat
    BY <1>2 DEF ProfilesIn, Ids
  <2>2. Len(model.profiles) \in Nat /\ DOMAIN model.profiles = 1..Len(model.profiles)
    BY <2>1, LenProperties
  <2>3. QED
    BY <2>1, <2>2 DEF ToSet
<1>4. each \in Seq(Seq(P \ {id})) /\ Len(each) = Len(model.profiles)
  <2> DEFINE n == Len(model.profiles)
             T == Seq(P \ {id})
  <2>1. \A k \in 1..n : (IF model.profiles[k] = id THEN <<>> ELSE <<model.profiles[k]>>) \in T
    <3>1. <<>> \in T
      BY EmptySeq
    <3>2. ASSUME NEW k \in 1..n, model.profiles[k] # id PROVE <<model.profiles[k]>> \in T
      <4>1. model.profiles[k] \in P \ {id}
        BY <1>3, <3>2
      <4> HIDE DEF P
      <4>2. QED
        BY <4>1
    <3>3. QED
      BY <3>1, <3>2
  <2>2. each \in [1..n -> T]
    BY <1>3, <2>1
  <2> HIDE DEF each, T
  <2>3. each \in Seq(T)
    <3>1. n \in Nat
      BY <1>3
    <3> HIDE DEF n
    <3>2. QED
      BY <2>2, <3>1, SeqDef
  <2>4. DOMAIN each = 1..n /\ Len(each) \in Nat /\ DOMAIN each = 1..Len(each)
    BY <2>2, <2>3, LenProperties
  <2>5. Len(each) = n
    BY <1>3, <2>4
  <2>6. QED
    BY <2>3, <2>5 DEF T
<1>5. \A k \in 1..Len(model.profiles) : model.profiles[k] # id => each[k] = <<model.profiles[k]>>
  BY <1>3
<1> HIDE DEF each
<1>6. left \in Seq(P \ {id})
  BY <1>4, FlattenedIsASequence
<1>7. left \in Seq(Nat) /\ ToSet(left) \subseteq P \ {id}
  <2> HIDE DEF left, P
  <2>1. left \in Seq(Nat)
    <3> DEFINE R == P \ {id}
    <3>1. R \subseteq Nat
      BY <1>3
    <3> HIDE DEF R
    <3>2. left \in Seq(R)
      BY <1>6 DEF R
    <3>3. Len(left) \in Nat /\ left \in [1..Len(left) -> R]
      BY <3>2, LenProperties
    <3>4. left \in [1..Len(left) -> Nat]
      BY <3>1, <3>3
    <3>5. QED
      BY <3>3, <3>4, SeqDef
  <2>2. \A k \in DOMAIN left : left[k] \in P \ {id}
    BY <1>6, LenProperties, ElementOfSeq
  <2>3. QED
    BY <2>1, <2>2 DEF ToSet
<1>8. P \ {id} \subseteq ToSet(left)
  <2> SUFFICES ASSUME NEW x \in P \ {id} PROVE x \in ToSet(left)
    OBVIOUS
  <2>1. PICK k \in 1..Len(model.profiles) : model.profiles[k] = x
    BY <1>3 DEF ToSet
  <2>2. x \in ToSet(each[k])
    <3>1. each[k] = <<x>>
      BY <1>5, <2>1
    <3>2. QED
      BY <3>1 DEF ToSet
  <2>3. k \in 1..Len(each)
    BY <1>4
  <2>4. ToSet(each[k]) \subseteq ToSet(left)
    BY <1>4, <2>3, FlattenedKeepsEntries
  <2>5. QED
    BY <2>2, <2>4
<1> HIDE DEF left, P
<1>9. ToSet(left) = P \ {id}
  BY <1>7, <1>8
<1>10. default \in ToSet(left) \cup {None}
  <2>1. left # <<>> => Head(left) \in ToSet(left)
    <3>1. Len(left) \in Nat /\ DOMAIN left = 1..Len(left)
      BY <1>7, LenProperties
    <3>2. left # <<>> => Len(left) # 0
      BY <1>7, EmptySeq
    <3>3. left # <<>> => 1 \in DOMAIN left
      BY <3>1, <3>2
    <3>4. QED
      BY <3>3 DEF ToSet
  <2>2. model.defaultProfile \in P \cup {None}
    BY <1>2 DEF ProfilesIn, P
  <2>3. QED
    BY <1>9, <2>1, <2>2
<1>11. FootingsIn(cleared, model.nextId.footings, N, E, ToSet(left))
  <2>1. ASSUME NEW k \in DOMAIN model.footings
        PROVE  Footing(SoilCleared(model.footings[k], id), N, E, ToSet(left))
    <3>1. Footing(model.footings[k], N, E, P)
      BY <1>2 DEF FootingsIn
    <3> HIDE DEF N, E
    <3>2. QED
      BY <1>9, <3>1 DEF Footing, SoilCleared
  <2>2. QED
    BY <1>2, <2>1 DEF FootingsIn
<1> HIDE DEF default, cleared
<1>12. model' = [model EXCEPT !.profiles = left, !.defaultProfile = default, !.footings = cleared]
  BY <1>1 DEF left, each, default, cleared
<1>13. /\ Shaped(model')
       /\ model'.profiles = left /\ model'.defaultProfile = default
       /\ model'.footings = cleared
       /\ model'.nodes = model.nodes /\ model'.elements = model.elements
       /\ model'.supports = model.supports /\ model'.loads = model.loads
       /\ model'.quads = model.quads /\ model'.connectors = model.connectors
       /\ model'.combinations = model.combinations
       /\ model'.constraints = model.constraints /\ model'.materials = model.materials
       /\ model'.cases = model.cases /\ model'.nextId = model.nextId
  BY <1>2, <1>12 DEF Shaped, Fields, Counters, Kinds
<1>14. ProfilesIn(model'.profiles, model'.nextId.profiles, model'.defaultProfile)
  <2>1. Ids(ToSet(left), model.nextId.profiles)
    BY <1>2, <1>9 DEF ProfilesIn, Ids, P
  <2>2. QED
    BY <1>7, <1>10, <1>13, <2>1 DEF ProfilesIn
<1>15. Referring(model', N, E, DOMAIN model'.quads, model'.materials, model'.cases,
                 ToSet(model'.profiles))
  <2>1. Referring(model, N, E, DOMAIN model.quads, model.materials, model.cases, P)
    BY <1>2 DEF SoundBut, P
  <2> HIDE DEF N, E
  <2>2. QED
    BY <1>11, <1>13, <2>1 DEF Referring
<1>16. SoundBut(model', {})
  BY <1>2, <1>13, <1>14, <1>15 DEF SoundBut
<1>17. QED
  BY <1>16 DEF Sound

LEMMA RemoveLoadCaseKeeps == ASSUME Sound(model), removeLoadCase PROVE Sound(model')
<1> DEFINE N == DOMAIN model.nodes
           E == DOMAIN model.elements \cup {}
           Q == DOMAIN model.quads
           Others(id) == Keep(model.loads, LAMBDA l : ~IsOfCase(l, id))
           Factors(id) == [k \in DOMAIN model.combinations |-> model.combinations[k] \ {id}]
<1>1. PICK id \in model.cases :
          model' = [model EXCEPT !.cases = @ \ {id}, !.loads = Others(id),
                                 !.combinations = Factors(id)]
  BY DEF removeLoadCase, Becomes
<1> DEFINE others == Others(id)
           factors == Factors(id)
<1>2. /\ Shaped(model) /\ SoundBut(model, {}) /\ Ids(model.cases, model.nextId.cases)
      /\ LoadsIn(model.loads, model.nextId.loads, N, E, Q, model.cases)
      /\ CombinationsIn(model.combinations, model.nextId.combinations, model.cases)
  BY SoundParts
<1>3. /\ DOMAIN others = {k \in DOMAIN model.loads : CaseOf(model.loads[k]) # id}
      /\ \A k \in DOMAIN others : others[k] = model.loads[k]
  BY DEF Keep, Restrict, IsOfCase
<1>4. /\ DOMAIN factors = DOMAIN model.combinations
      /\ \A k \in DOMAIN factors : factors[k] = model.combinations[k] \ {id}
  OBVIOUS
<1> HIDE DEF others, factors, N, E, Q
<1>5. LoadsIn(others, model.nextId.loads, N, E, Q, model.cases \ {id})
  BY <1>2, <1>3 DEF LoadsIn, Load, Ids
<1>6. CombinationsIn(factors, model.nextId.combinations, model.cases \ {id})
  BY <1>2, <1>4 DEF CombinationsIn
<1>7. model' = [model EXCEPT !.cases = @ \ {id}, !.loads = others, !.combinations = factors]
  BY <1>1 DEF others, factors
<1>8. /\ Shaped(model')
      /\ model'.cases = model.cases \ {id} /\ model'.loads = others
      /\ model'.combinations = factors
      /\ model'.nodes = model.nodes /\ model'.elements = model.elements
      /\ model'.supports = model.supports /\ model'.quads = model.quads
      /\ model'.connectors = model.connectors /\ model'.footings = model.footings
      /\ model'.constraints = model.constraints /\ model'.materials = model.materials
      /\ model'.profiles = model.profiles /\ model'.defaultProfile = model.defaultProfile
      /\ model'.nextId = model.nextId
  BY <1>2, <1>7 DEF Shaped, Fields, Counters, Kinds
<1>9. Ids(model'.cases, model'.nextId.cases)
  BY <1>2, <1>8 DEF Ids
<1>10. Referring(model', N, E, Q, model'.materials, model'.cases, ToSet(model'.profiles))
  <2>1. Referring(model, N, E, Q, model.materials, model.cases, ToSet(model.profiles))
    BY <1>2 DEF SoundBut, N, E, Q
  <2>2. QED
    BY <1>5, <1>6, <1>8, <2>1 DEF Referring
<1>11. SoundBut(model', {})
  BY <1>2, <1>8, <1>9, <1>10 DEF SoundBut, N, E, Q
<1>12. QED
  BY <1>11 DEF Sound

LEMMA ClearKeeps == ASSUME Sound(model), clear PROVE Sound(model')
<1> DEFINE first == [k \in DOMAIN model.nextId |->
                        CASE k = "materials" -> 2
                          [] k \in {"cases", "combinations"} -> 5
                          [] OTHER -> 1]
           basic == <<{1, 2}, {1}, {1, 2, 3}, {1, 2, 4}>>
<1>1. model' = [model EXCEPT
          !.nodes = <<>>, !.elements = <<>>, !.supports = <<>>, !.loads = <<>>, !.quads = <<>>,
          !.constraints = <<>>, !.connectors = <<>>, !.footings = <<>>,
          !.profiles = <<>>, !.defaultProfile = None,
          !.materials = {1}, !.cases = 1..4, !.combinations = basic, !.nextId = first]
  BY DEF clear, Becomes
<1>2. Shaped(model)
  BY SoundParts
<1>3. /\ DOMAIN first = Counters
      /\ first.nodes = 1 /\ first.elements = 1 /\ first.supports = 1 /\ first.loads = 1
      /\ first.quads = 1 /\ first.connectors = 1 /\ first.footings = 1 /\ first.profiles = 1
      /\ first.materials = 2 /\ first.cases = 5 /\ first.combinations = 5
  BY <1>2 DEF Shaped, Counters, Kinds
<1>4. CombinationsIn(basic, 5, 1..4)
  <2>1. DOMAIN basic = 1..4
    OBVIOUS
  <2>2. \A c \in 1..4 : basic[c] \subseteq 1..4
    OBVIOUS
  <2> HIDE DEF basic
  <2>3. QED
    BY <2>1, <2>2 DEF CombinationsIn, Ids
<1> HIDE DEF first, basic
<1>5. /\ Shaped(model')
      /\ model'.nodes = <<>> /\ model'.elements = <<>> /\ model'.supports = <<>>
      /\ model'.loads = <<>> /\ model'.quads = <<>> /\ model'.connectors = <<>>
      /\ model'.footings = <<>> /\ model'.constraints = <<>>
      /\ model'.profiles = <<>> /\ model'.defaultProfile = None
      /\ model'.materials = {1} /\ model'.cases = 1..4
      /\ model'.combinations = basic /\ model'.nextId = first
  BY <1>1, <1>2, <1>3 DEF Shaped, Fields, Counters, Kinds
<1>6. DOMAIN <<>> = {} /\ ToSet(<<>>) = {}
  BY DEF ToSet
<1>7. ASSUME NEW N, NEW E, NEW Q, NEW M, NEW C, NEW P
      PROVE  /\ NodesIn(<<>>, 1) /\ BarsIn(<<>>, 1, N, M) /\ SupportsIn(<<>>, 1, N)
             /\ LoadsIn(<<>>, 1, N, E, Q, C) /\ QuadsIn(<<>>, 1, M) /\ ConnectorsIn(<<>>, 1, N)
             /\ FootingsIn(<<>>, 1, N, E, P)
  BY <1>6 DEF NodesIn, BarsIn, SupportsIn, LoadsIn, QuadsIn, ConnectorsIn, FootingsIn, Ids,
              IsInjective
<1>8. ASSUME NEW N, NEW E, NEW Q, NEW P
      PROVE  Referring(model', N, E, Q, model'.materials, model'.cases, P)
  <2>1. /\ BarsIn(<<>>, 1, N, model'.materials) /\ SupportsIn(<<>>, 1, N)
        /\ LoadsIn(<<>>, 1, N, E, Q, model'.cases) /\ QuadsIn(<<>>, 1, model'.materials)
        /\ ConnectorsIn(<<>>, 1, N) /\ FootingsIn(<<>>, 1, N, E, P)
    BY <1>7
  <2>2. CombinationsIn(model'.combinations, model'.nextId.combinations, model'.cases)
    BY <1>3, <1>4, <1>5
  <2>3. model'.constraints \in Seq(Ties(N))
    BY <1>5, EmptySeq
  <2>4. QED
    BY <1>3, <1>5, <2>1, <2>2, <2>3 DEF Referring
<1>9. NodesIn(model'.nodes, model'.nextId.nodes)
  BY <1>3, <1>5, <1>7
<1>10. /\ ProfilesIn(model'.profiles, model'.nextId.profiles, model'.defaultProfile)
       /\ Ids(model'.materials, model'.nextId.materials)
       /\ Ids(model'.cases, model'.nextId.cases)
  <2>1. ProfilesIn(<<>>, 1, None)
    BY <1>6, EmptySeq DEF ProfilesIn, Ids
  <2>2. Ids({1}, 2) /\ Ids(1..4, 5)
    BY DEF Ids
  <2>3. QED
    BY <1>3, <1>5, <2>1, <2>2
<1>11. QED
  BY <1>5, <1>8, <1>9, <1>10 DEF Sound, SoundBut

-----------------------------------------------------------------------------
(***************************************************************************)
(* Then what changes, and what is cut.                                     *)
(***************************************************************************)

LEMMA UpdateSupportKeeps == ASSUME Sound(model), updateSupport PROVE Sound(model')
<1>1. PICK s \in DOMAIN model.supports, n \in DOMAIN model.nodes :
          Becomes([model EXCEPT !["supports"] =
                      Set(Keep(model.supports, LAMBDA at : at # n), s, n)])
  BY DEF updateSupport
<1> DEFINE others == Keep(model.supports, LAMBDA at : at # n)
           v == Set(others, s, n)
<1>2. SupportsIn(model.supports, model.nextId.supports, DOMAIN model.nodes)
  BY SoundParts
<1>3. /\ DOMAIN others = {t \in DOMAIN model.supports : model.supports[t] # n}
      /\ \A t \in DOMAIN others : others[t] = model.supports[t]
  BY DEF Keep, Restrict
<1> HIDE DEF others
<1>4. /\ DOMAIN v = DOMAIN others \cup {s}
      /\ \A t \in DOMAIN v : v[t] = IF t = s THEN n ELSE model.supports[t]
  BY <1>3 DEF Set
<1> HIDE DEF v
<1>5. Ids(DOMAIN v, model.nextId.supports)
  BY <1>2, <1>3, <1>4 DEF SupportsIn, Ids
<1>6. \A t \in DOMAIN v : v[t] \in DOMAIN model.nodes
  BY <1>2, <1>3, <1>4 DEF SupportsIn
<1>7. \A t, w \in DOMAIN v : v[t] = v[w] => t = w
  BY <1>2, <1>3, <1>4 DEF SupportsIn, IsInjective
<1>8. /\ "supports" \in Fields \ {"nextId", "profiles", "cases"}
      /\ Suits(model, {}, "supports", v)
  BY <1>5, <1>6, <1>7 DEF Suits, SupportsIn, IsInjective, Fields, Counters, Kinds
<1>9. QED
  BY <1>1, <1>8, ChangesSuiting DEF v, others

LEMMA UpdateLoadKeeps == ASSUME Sound(model), updateLoad PROVE Sound(model')
<1>1. PICK k \in DOMAIN model.loads, s \in Shapes :
          /\ s.kind = model.loads[k].kind
          /\ CaseOf(s) \in model.cases \/ "firstOne" \in Races
          /\ Becomes([model EXCEPT !["loads"] =
                         [model.loads EXCEPT ![k] = Restated(model, model.loads[k], s)]])
  BY DEF updateLoad
<1> DEFINE N == DOMAIN model.nodes
           E == DOMAIN model.elements \cup {}
           Q == DOMAIN model.quads
           old == model.loads[k]
           new == Restated(model, old, s)
           v == [model.loads EXCEPT ![k] = new]
<1>2. LoadsIn(model.loads, model.nextId.loads, N, E, Q, model.cases)
  BY SoundParts
<1>3. Load(old, N, E, Q, model.cases)
  BY <1>2 DEF LoadsIn
<1>4. /\ DOMAIN new = ShapeFields \cup {"on"}
      /\ new.kind = old.kind /\ new.on = old.on
      /\ new.case = IF s.case = None THEN old.case ELSE s.case
  <2>1. DOMAIN old = ShapeFields \cup {"on"}
    BY <1>3 DEF Load
  <2> HIDE DEF old
  <2>2. QED
    BY <2>1 DEF Restated, ShapeFields
<1> HIDE DEF new, N, E, Q
<1>5. CasesAreKept => CaseOf(new) \in model.cases
  BY <1>1, <1>3, <1>4 DEF CasesAreKept, CaseOf, Load
<1>6. Load(new, N, E, Q, model.cases)
  BY <1>3, <1>4, <1>5 DEF Load
<1> HIDE DEF old
<1>7. /\ DOMAIN v = DOMAIN model.loads
      /\ \A j \in DOMAIN v : v[j] = IF j = k THEN new ELSE model.loads[j]
  OBVIOUS
<1> HIDE DEF v
<1>8. LoadsIn(v, model.nextId.loads, N, E, Q, model.cases)
  BY <1>2, <1>6, <1>7 DEF LoadsIn
<1>9. "loads" \in Fields \ {"nextId", "profiles", "cases"} /\ Suits(model, {}, "loads", v)
  BY <1>8 DEF Suits, N, E, Q, Fields, Counters, Kinds
<1>10. Becomes([model EXCEPT !["loads"] = v])
  BY <1>1 DEF v, new, old
<1>11. QED
  BY <1>9, <1>10, ChangesSuiting

LEMMA UpdateFootingKeeps == ASSUME Sound(model), updateFooting PROVE Sound(model')
<1>1. PICK k \in DOMAIN model.footings, column \in DOMAIN model.elements \cup {None},
           soil \in ToSet(model.profiles) \cup {None} :
          Becomes([model EXCEPT !["footings"] =
                      [model.footings EXCEPT ![k] = Refounded(model.footings[k], column, soil)]])
  BY DEF updateFooting
<1> DEFINE N == DOMAIN model.nodes
           E == DOMAIN model.elements \cup {}
           P == ToSet(model.profiles)
           old == model.footings[k]
           new == Refounded(old, column, soil)
           v == [model.footings EXCEPT ![k] = new]
<1>2. FootingsIn(model.footings, model.nextId.footings, N, E, P)
  BY SoundParts
<1>3. Footing(old, N, E, P)
  BY <1>2 DEF FootingsIn
<1>4. column \in E \cup {None} /\ soil \in P \cup {None}
  OBVIOUS
<1> HIDE DEF N, E, P
<1>5. Footing(new, N, E, P)
  <2> HIDE DEF old
  <2>1. QED
    BY <1>3, <1>4 DEF Footing, Refounded
<1> HIDE DEF new, old
<1>6. /\ DOMAIN v = DOMAIN model.footings
      /\ \A f \in DOMAIN v : v[f] = IF f = k THEN new ELSE model.footings[f]
  OBVIOUS
<1> HIDE DEF v
<1>7. FootingsIn(v, model.nextId.footings, N, E, P)
  BY <1>2, <1>5, <1>6 DEF FootingsIn
<1>8. /\ "footings" \in Fields \ {"nextId", "profiles", "cases"}
      /\ Suits(model, {}, "footings", v)
  BY <1>7 DEF Suits, N, E, P, Fields, Counters, Kinds
<1>9. Becomes([model EXCEPT !["footings"] = v])
  BY <1>1 DEF v, new, old
<1>10. QED
  BY <1>8, <1>9, ChangesSuiting

LEMMA SetDefaultSoilProfileKeeps == ASSUME Sound(model), setDefaultSoilProfile PROVE Sound(model')
<1>1. PICK id \in ToSet(model.profiles) \cup {None} :
          Becomes([model EXCEPT !["defaultProfile"] = id])
  BY DEF setDefaultSoilProfile
<1>2. ProfilesIn(model.profiles, model.nextId.profiles, id)
  BY SoundParts DEF ProfilesIn
<1>3. /\ "defaultProfile" \in Fields \ {"nextId", "profiles", "cases"}
      /\ Suits(model, {}, "defaultProfile", id)
  BY <1>2 DEF Suits, Fields, Counters, Kinds
<1>4. QED
  BY <1>1, <1>3, ChangesSuiting

LEMMA UpdateCombinationKeeps == ASSUME Sound(model), updateCombination PROVE Sound(model')
<1>1. PICK c \in DOMAIN model.combinations, factors \in SUBSET model.cases :
          Becomes([model EXCEPT !["combinations"] = [model.combinations EXCEPT ![c] = factors]])
  BY DEF updateCombination
<1> DEFINE v == [model.combinations EXCEPT ![c] = factors]
<1>2. CombinationsIn(model.combinations, model.nextId.combinations, model.cases)
  BY SoundParts
<1>3. CombinationsIn(v, model.nextId.combinations, model.cases)
  BY <1>2 DEF CombinationsIn
<1> HIDE DEF v
<1>4. /\ "combinations" \in Fields \ {"nextId", "profiles", "cases"}
      /\ Suits(model, {}, "combinations", v)
  BY <1>3 DEF Suits, Fields, Counters, Kinds
<1>5. QED
  BY <1>1, <1>4, ChangesSuiting DEF v

LEMMA UpdateMaterialOfKeeps == ASSUME Sound(model), updateMaterialOf PROVE Sound(model')
<1>1. PICK material \in model.materials :
          \/ \E e \in DOMAIN model.elements :
                 Becomes([model EXCEPT !["elements"] =
                             [model.elements EXCEPT ![e].material = material]])
          \/ \E q \in DOMAIN model.quads :
                 Becomes([model EXCEPT !["quads"] =
                             [model.quads EXCEPT ![q].material = material]])
  BY DEF updateMaterialOf
<1>2. /\ BarsIn(model.elements, model.nextId.elements, DOMAIN model.nodes, model.materials)
      /\ QuadsIn(model.quads, model.nextId.quads, model.materials)
  BY SoundParts
<1>3. ASSUME NEW e \in DOMAIN model.elements, NEW v,
             v = [model.elements EXCEPT ![e].material = material],
             Becomes([model EXCEPT !["elements"] = v])
      PROVE  Sound(model')
  <2>1. /\ DOMAIN v = DOMAIN model.elements
        /\ \A k \in DOMAIN v : Bar(v[k], DOMAIN model.nodes, model.materials)
    BY <1>2, <1>3 DEF BarsIn, Bar
  <2>2. /\ "elements" \in Fields \ {"nextId", "profiles", "cases"}
        /\ Suits(model, {}, "elements", v)
    BY <1>2, <2>1 DEF Suits, BarsIn, Fields, Counters, Kinds
  <2>3. QED
    BY <1>3, <2>2, ChangesSuiting
<1>4. ASSUME NEW q \in DOMAIN model.quads, NEW v,
             v = [model.quads EXCEPT ![q].material = material],
             Becomes([model EXCEPT !["quads"] = v])
      PROVE  Sound(model')
  <2>1. DOMAIN v = DOMAIN model.quads /\ \A k \in DOMAIN v : Quad(v[k], model.materials)
    BY <1>2, <1>4 DEF QuadsIn, Quad
  <2>2. /\ "quads" \in Fields \ {"nextId", "profiles", "cases"}
        /\ Suits(model, {}, "quads", v)
    BY <1>2, <2>1 DEF Suits, QuadsIn, Fields, Counters, Kinds
  <2>3. QED
    BY <1>4, <2>2, ChangesSuiting
<1>5. QED
  BY <1>1, <1>3, <1>4

\* The nodes are elsewhere on the line.
LEMMA MovedIsSound ==
    ASSUME NEW m, Sound(m), NEW nodes, DOMAIN nodes = DOMAIN m.nodes,
           \A n \in DOMAIN nodes : nodes[n] \in 0..Reach, NEW u, u = [m EXCEPT !["nodes"] = nodes]
    PROVE  Sound(u)
<1>1. NodesIn(m.nodes, m.nextId.nodes) /\ SoundBut(m, {})
  BY SoundParts
<1>2. NodesIn(nodes, m.nextId.nodes)
  BY <1>1 DEF NodesIn
<1>3. /\ "nodes" \in Fields \ {"nextId", "profiles", "cases"}
      /\ Suits(m, {}, "nodes", nodes)
  BY <1>2 DEF Suits, Fields, Counters, Kinds
<1>4. QED
  BY <1>1, <1>3, ChangedIsSound DEF Sound

LEMMA UpdateNodeKeeps == ASSUME Sound(model), updateNode PROVE Sound(model')
<1>1. PICK n \in DOMAIN model.nodes, x \in 0..Reach :
          LET m     == [model EXCEPT !.nodes[n] = x]
              bars  == {e \in DOMAIN m.elements : n \in {m.elements[e].i, m.elements[e].j}}
          IN  Becomes([m EXCEPT !.loads = [k \in DOMAIN @ |->
                  IF \E e \in bars : k \in LoadsOn(m, e) THEN Clamped(m, @[k]) ELSE @[k]]])
  BY DEF updateNode
<1> DEFINE nodes == [model.nodes EXCEPT ![n] = x]
           m == [model EXCEPT !["nodes"] = nodes]
           bars == {e \in DOMAIN m.elements : n \in {m.elements[e].i, m.elements[e].j}}
           v == [k \in DOMAIN m.loads |->
                    IF \E e \in bars : k \in LoadsOn(m, e) THEN Clamped(m, m.loads[k])
                    ELSE m.loads[k]]
           N == DOMAIN m.nodes
           E == DOMAIN m.elements \cup {}
           Q == DOMAIN m.quads
<1>2. Becomes([m EXCEPT !["loads"] = v])
  BY <1>1
<1>3. Sound(m)
  <2>1. NodesIn(model.nodes, model.nextId.nodes)
    BY SoundParts
  <2>2. DOMAIN nodes = DOMAIN model.nodes /\ \A k \in DOMAIN nodes : nodes[k] \in 0..Reach
    BY <2>1 DEF NodesIn
  <2> HIDE DEF nodes
  <2>3. QED
    BY <2>2, MovedIsSound
<1> HIDE DEF m
<1>4. LoadsIn(m.loads, m.nextId.loads, N, E, Q, m.cases) /\ SoundBut(m, {})
  BY <1>3, SoundParts
<1>5. ASSUME NEW l, Load(l, N, E, Q, m.cases)
      PROVE  Load(Clamped(m, l), N, E, Q, m.cases)
  <2>1. DOMAIN l = ShapeFields \cup {"on"}
    BY <1>5 DEF Load
  <2>2. /\ DOMAIN Clamped(m, l) = ShapeFields \cup {"on"}
        /\ Clamped(m, l).kind = l.kind /\ Clamped(m, l).on = l.on /\ Clamped(m, l).case = l.case
    BY <2>1 DEF Clamped, ShapeFields
  <2> HIDE DEF N, E, Q
  <2>3. QED
    BY <1>5, <2>2 DEF Load, CaseOf
<1>6. LoadsIn(v, m.nextId.loads, N, E, Q, m.cases)
  <2>1. DOMAIN v = DOMAIN m.loads
    OBVIOUS
  <2>2. \A k \in DOMAIN v : v[k] \in {m.loads[k], Clamped(m, m.loads[k])}
    OBVIOUS
  <2> HIDE DEF v, N, E, Q
  <2>3. QED
    BY <1>4, <1>5, <2>1, <2>2 DEF LoadsIn
<1> HIDE DEF v
<1>7. "loads" \in Fields \ {"nextId", "profiles", "cases"} /\ Suits(m, {}, "loads", v)
  BY <1>6 DEF Suits, Fields, Counters, Kinds
<1>8. SoundBut([m EXCEPT !["loads"] = v], {})
  BY <1>4, <1>7, ChangedIsSound
<1>9. QED
  BY <1>2, <1>8 DEF Becomes, Sound

LEMMA MirrorNodesKeeps == ASSUME Sound(model), mirrorNodes PROVE Sound(model')
<1>1. PICK chosen \in SUBSET DOMAIN model.nodes :
          LET sum      == MapThenSumSet(LAMBDA n : model.nodes[n], chosen)
              place(n) == (2 * sum) \div Cardinality(chosen) - model.nodes[n]
          IN  /\ \A n \in chosen : place(n) \in 0..Reach
              /\ Becomes([model EXCEPT !.nodes =
                             [n \in DOMAIN @ |-> IF n \in chosen THEN place(n) ELSE @[n]]])
  BY DEF mirrorNodes
<1> DEFINE sum == MapThenSumSet(LAMBDA n : model.nodes[n], chosen)
<1> HIDE DEF sum
<1> DEFINE place(n) == (2 * sum) \div Cardinality(chosen) - model.nodes[n]
           nodes == [n \in DOMAIN model.nodes |-> IF n \in chosen THEN place(n) ELSE model.nodes[n]]
<1>2. /\ \A n \in chosen : place(n) \in 0..Reach
      /\ Becomes([model EXCEPT !["nodes"] = nodes])
  BY <1>1 DEF sum
<1> HIDE DEF place
<1>3. NodesIn(model.nodes, model.nextId.nodes)
  BY SoundParts
<1>4. DOMAIN nodes = DOMAIN model.nodes /\ \A k \in DOMAIN nodes : nodes[k] \in 0..Reach
  BY <1>2, <1>3 DEF NodesIn
<1> HIDE DEF nodes
<1>5. Sound([model EXCEPT !["nodes"] = nodes])
  BY <1>4, MovedIsSound
<1>6. QED
  BY <1>2, <1>5 DEF Becomes

LEMMA SplitKeeps == ASSUME Sound(model), splitElementAtPoint PROVE Sound(model')
<1>1. PICK e \in DOMAIN model.elements : \E c \in 1..(Length(model, e) - 1) :
          /\ \/ "split3d" \in Races
             \/ /\ \A k \in LoadsOn(model, e) : model.loads[k].kind # "bar3d"
                /\ \A f \in DOMAIN model.footings : model.footings[f].column # e
          /\ Becomes(Split(model, e, c))
  BY DEF splitElementAtPoint
<1>2. PICK c \in 1..(Length(model, e) - 1) :
          /\ \/ "split3d" \in Races
             \/ /\ \A k \in LoadsOn(model, e) : model.loads[k].kind # "bar3d"
                /\ \A f \in DOMAIN model.footings : model.footings[f].column # e
          /\ Becomes(Split(model, e, c))
  BY <1>1
<1>3. BearersAreKept => /\ \A k \in LoadsOn(model, e) : model.loads[k].kind # "bar3d"
                        /\ \A f \in DOMAIN model.footings : model.footings[f].column # e
  BY <1>2 DEF BearersAreKept
<1>4. Sound(Split(model, e, c))
  BY <1>3, SplitIsSound
<1>5. QED
  BY <1>2, <1>4 DEF Becomes

LEMMA SubdivideKeeps == ASSUME Sound(model), subdivideElement PROVE Sound(model')
<1>1. PICK e \in DOMAIN model.elements :
          \E n \in {k \in 2..20 : k <= Length(model, e) /\ Length(model, e) % k = 0} :
              /\ "subdivide" \in Races \/ \A k \in LoadsOn(model, e) : Plain(model.loads[k])
              /\ Becomes(Subdivided(model, e, n))
  BY DEF subdivideElement
<1>2. PICK n \in {k \in 2..20 : k <= Length(model, e) /\ Length(model, e) % k = 0} :
          /\ "subdivide" \in Races \/ \A k \in LoadsOn(model, e) : Plain(model.loads[k])
          /\ Becomes(Subdivided(model, e, n))
  BY <1>1
<1>3. n \in 2..20 /\ Length(model, e) % n = 0
  OBVIOUS
<1>4. CasesAreKept => \A k \in LoadsOn(model, e) : Plain(model.loads[k])
  BY <1>2 DEF CasesAreKept
<1>5. Sound(Subdivided(model, e, n))
  BY <1>3, <1>4, SubdividedIsSound
<1>6. QED
  BY <1>2, <1>5 DEF Becomes

-----------------------------------------------------------------------------
(***************************************************************************)
(* The theorems.                                                           *)
(***************************************************************************)

LEMMA EditsCount == ASSUME Next PROVE edits' = edits + 1
<1>1. addNode => edits' = edits + 1
  BY DEF addNode, Becomes
<1>2. addElement => edits' = edits + 1
  BY DEF addElement, Becomes
<1>3. addSupport => edits' = edits + 1
  BY DEF addSupport, Becomes
<1>4. addLoad => edits' = edits + 1
  BY DEF addLoad, Becomes
<1>5. addQuad => edits' = edits + 1
  BY DEF addQuad, Becomes
<1>6. addConstraint => edits' = edits + 1
  BY DEF addConstraint, Becomes
<1>7. addConnector => edits' = edits + 1
  BY DEF addConnector, Becomes
<1>8. addFooting => edits' = edits + 1
  BY DEF addFooting, Becomes
<1>9. addSoilProfile => edits' = edits + 1
  BY DEF addSoilProfile, Becomes
<1>10. addLoadCase => edits' = edits + 1
  BY DEF addLoadCase, Becomes
<1>11. addCombination => edits' = edits + 1
  BY DEF addCombination, Becomes
<1>12. addMaterial => edits' = edits + 1
  BY DEF addMaterial, Becomes
<1>13. deleteEntities => edits' = edits + 1
  BY DEF deleteEntities, Becomes
<1>14. Cut => edits' = edits + 1
  BY DEF Cut, Becomes
<1>15. removeSupport => edits' = edits + 1
  BY DEF removeSupport, Becomes
<1>16. removeLoad => edits' = edits + 1
  BY DEF removeLoad, Becomes
<1>17. removeConstraint => edits' = edits + 1
  BY DEF removeConstraint, Becomes
<1>18. removeConnector => edits' = edits + 1
  BY DEF removeConnector, Becomes
<1>19. removeFooting => edits' = edits + 1
  BY DEF removeFooting, Becomes
<1>20. removeSoilProfile => edits' = edits + 1
  BY DEF removeSoilProfile, Becomes
<1>21. removeLoadCase => edits' = edits + 1
  BY DEF removeLoadCase, Becomes
<1>22. removeCombination => edits' = edits + 1
  BY DEF removeCombination, Becomes
<1>23. removeMaterial => edits' = edits + 1
  BY DEF removeMaterial, Becomes
<1>24. clear => edits' = edits + 1
  BY DEF clear, Becomes
<1>25. updateSupport => edits' = edits + 1
  BY DEF updateSupport, Becomes
<1>26. updateLoad => edits' = edits + 1
  BY DEF updateLoad, Becomes
<1>27. updateFooting => edits' = edits + 1
  BY DEF updateFooting, Becomes
<1>28. setDefaultSoilProfile => edits' = edits + 1
  BY DEF setDefaultSoilProfile, Becomes
<1>29. updateCombination => edits' = edits + 1
  BY DEF updateCombination, Becomes
<1>30. updateMaterialOf => edits' = edits + 1
  BY DEF updateMaterialOf, Becomes
<1>31. updateNode => edits' = edits + 1
  BY DEF updateNode, Becomes
<1>32. mirrorNodes => edits' = edits + 1
  BY DEF mirrorNodes, Becomes
<1>33. splitElementAtPoint => edits' = edits + 1
  BY DEF splitElementAtPoint, Becomes
<1>34. subdivideElement => edits' = edits + 1
  BY DEF subdivideElement, Becomes
<1>35. QED
  BY <1>1, <1>2, <1>3, <1>4, <1>5, <1>6, <1>7, <1>8, <1>9, <1>10, <1>11,
     <1>12, <1>13, <1>14, <1>15, <1>16, <1>17, <1>18, <1>19, <1>20, <1>21,
     <1>22, <1>23, <1>24, <1>25, <1>26, <1>27, <1>28, <1>29, <1>30, <1>31,
     <1>32, <1>33, <1>34 DEF Next

LEMMA InvInductive == ASSUME Inv, [Next]_vars PROVE Inv'
<1>1. CASE Next
  <2>1. edits' \in 0..MaxEdits
    <3>1. edits < MaxEdits /\ edits \in 0..MaxEdits
      BY <1>1 DEF Next, Inv
    <3>2. QED
      BY <1>1, <3>1, EditsCount, BoundsAssumption
  <2>2. Sound(model')
    <3>1. Sound(model)
      BY DEF Inv
    <3>2. CASE addNode
      BY <3>1, <3>2, AddNodeKeeps
    <3>3. CASE addElement
      BY <3>1, <3>3, AddElementKeeps
    <3>4. CASE addSupport
      BY <3>1, <3>4, AddSupportKeeps
    <3>5. CASE addLoad
      BY <3>1, <3>5, AddLoadKeeps
    <3>6. CASE addQuad
      BY <3>1, <3>6, AddQuadKeeps
    <3>7. CASE addConstraint
      BY <3>1, <3>7, AddConstraintKeeps
    <3>8. CASE addConnector
      BY <3>1, <3>8, AddConnectorKeeps
    <3>9. CASE addFooting
      BY <3>1, <3>9, AddFootingKeeps
    <3>10. CASE addSoilProfile
      BY <3>1, <3>10, AddSoilProfileKeeps
    <3>11. CASE addLoadCase
      BY <3>1, <3>11, AddLoadCaseKeeps
    <3>12. CASE addCombination
      BY <3>1, <3>12, AddCombinationKeeps
    <3>13. CASE addMaterial
      BY <3>1, <3>13, AddMaterialKeeps
    <3>14. CASE deleteEntities
      BY <3>1, <3>14, DeleteEntitiesKeeps
    <3>15. CASE Cut
      BY <3>1, <3>15, CutKeeps
    <3>16. CASE removeSupport
      BY <3>1, <3>16, RemoveSupportKeeps
    <3>17. CASE removeLoad
      BY <3>1, <3>17, RemoveLoadKeeps
    <3>18. CASE removeConstraint
      BY <3>1, <3>18, RemoveConstraintKeeps
    <3>19. CASE removeConnector
      BY <3>1, <3>19, RemoveConnectorKeeps
    <3>20. CASE removeFooting
      BY <3>1, <3>20, RemoveFootingKeeps
    <3>21. CASE removeSoilProfile
      BY <3>1, <3>21, RemoveSoilProfileKeeps
    <3>22. CASE removeLoadCase
      BY <3>1, <3>22, RemoveLoadCaseKeeps
    <3>23. CASE removeCombination
      BY <3>1, <3>23, RemoveCombinationKeeps
    <3>24. CASE removeMaterial
      BY <3>1, <3>24, RemoveMaterialKeeps
    <3>25. CASE clear
      BY <3>1, <3>25, ClearKeeps
    <3>26. CASE updateSupport
      BY <3>1, <3>26, UpdateSupportKeeps
    <3>27. CASE updateLoad
      BY <3>1, <3>27, UpdateLoadKeeps
    <3>28. CASE updateFooting
      BY <3>1, <3>28, UpdateFootingKeeps
    <3>29. CASE setDefaultSoilProfile
      BY <3>1, <3>29, SetDefaultSoilProfileKeeps
    <3>30. CASE updateCombination
      BY <3>1, <3>30, UpdateCombinationKeeps
    <3>31. CASE updateMaterialOf
      BY <3>1, <3>31, UpdateMaterialOfKeeps
    <3>32. CASE updateNode
      BY <3>1, <3>32, UpdateNodeKeeps
    <3>33. CASE mirrorNodes
      BY <3>1, <3>33, MirrorNodesKeeps
    <3>34. CASE splitElementAtPoint
      BY <3>1, <3>34, SplitKeeps
    <3>35. CASE subdivideElement
      BY <3>1, <3>35, SubdivideKeeps
    <3>36. QED
      BY <1>1, <3>2, <3>3, <3>4, <3>5, <3>6, <3>7, <3>8, <3>9, <3>10, <3>11, <3>12,
         <3>13, <3>14, <3>15, <3>16, <3>17, <3>18, <3>19, <3>20, <3>21, <3>22,
         <3>23, <3>24, <3>25, <3>26, <3>27, <3>28, <3>29, <3>30, <3>31, <3>32,
         <3>33, <3>34, <3>35 DEF Next
  <2>3. QED
    BY <2>1, <2>2 DEF Inv
<1>2. CASE UNCHANGED vars
  BY <1>2 DEF vars, Inv
<1>3. QED
  BY <1>1, <1>2

LEMMA InvHolds == Spec => []Inv
<1>1. Init => Inv
  BY StartAssumption, BoundsAssumption DEF Init, Inv
<1>2. Inv /\ [Next]_vars => Inv'
  BY InvInductive
<1>3. QED
  BY <1>1, <1>2, PTL DEF Spec

\* Whatever is added, deleted, moved, cut or cleared, in any order, no map holds an id at or past
\* the next one of its kind, so that what is added replaces nothing; nodes stay on the line and
\* the count of changes of a footing a natural (the counters of model.svelte.ts).
THEOREM ModelTypeCorrect == Spec => []TypeOK
<1>1. ASSUME Inv PROVE TypeOK
  <2>1. /\ SoundBut(model, {}) /\ Shaped(model)
        /\ NodesIn(model.nodes, model.nextId.nodes)
        /\ BarsIn(model.elements, model.nextId.elements, DOMAIN model.nodes, model.materials)
        /\ SupportsIn(model.supports, model.nextId.supports, DOMAIN model.nodes)
        /\ LoadsIn(model.loads, model.nextId.loads, DOMAIN model.nodes,
                   DOMAIN model.elements \cup {}, DOMAIN model.quads, model.cases)
        /\ QuadsIn(model.quads, model.nextId.quads, model.materials)
        /\ ConnectorsIn(model.connectors, model.nextId.connectors, DOMAIN model.nodes)
        /\ FootingsIn(model.footings, model.nextId.footings, DOMAIN model.nodes,
                      DOMAIN model.elements \cup {}, ToSet(model.profiles))
        /\ CombinationsIn(model.combinations, model.nextId.combinations, model.cases)
        /\ ProfilesIn(model.profiles, model.nextId.profiles, model.defaultProfile)
        /\ Ids(model.materials, model.nextId.materials) /\ Ids(model.cases, model.nextId.cases)
    BY <1>1, SoundParts DEF Inv
  <2>2. edits \in 0..MaxEdits
    BY <1>1 DEF Inv
  <2>3. \A kind \in Kinds : Ids(DOMAIN model[kind], model.nextId[kind])
    BY <2>1 DEF Kinds, NodesIn, BarsIn, SupportsIn, LoadsIn, QuadsIn, ConnectorsIn, FootingsIn,
                CombinationsIn
  <2>4. \A kind \in Kinds : \A id \in DOMAIN model[kind] : id < model.nextId[kind]
    BY <2>3 DEF Ids
  <2>5. \A kind \in {"cases", "materials"} : \A id \in model[kind] : id < model.nextId[kind]
    BY <2>1 DEF Ids
  <2>6. \A id \in ToSet(model.profiles) : id < model.nextId.profiles
    BY <2>1 DEF ProfilesIn, Ids
  <2>7. \A n \in DOMAIN model.nodes : model.nodes[n] \in 0..Reach
    BY <2>1 DEF NodesIn
  <2>8. \A f \in DOMAIN model.footings : model.footings[f].revision \in Nat
    BY <2>1 DEF FootingsIn, Footing
  <2>9. \A k \in DOMAIN model.loads : model.loads[k].kind \in OnBars \cup {"nodal", "surface"}
    BY <2>1 DEF LoadsIn, Load
  <2>10. QED
    BY <2>2, <2>4, <2>5, <2>6, <2>7, <2>8, <2>9 DEF TypeOK
<1>2. QED
  BY <1>1, InvHolds, PTL

\* Whatever is deleted, moved, cut or cleared, in any order, every bar, support, nodal load,
\* connector, constraint and footing is on nodes there are, loads and combinations are of cases
\* there are, bars and shells of materials there are, and no node is held twice: as long as the
\* first material and case are still there when something starts with them, no material goes
\* that only shells use, and subdivided bars carry plain loads (removeNode, removeLoadCase,
\* removeMaterial, addSupport, updateSupport and every edit that adds or moves).
THEOREM ModelStaysCoherent ==
    ASSUME MaterialsAreKept, CasesAreKept
    PROVE  Spec => []ModelIsCoherent
<1>1. ASSUME Inv PROVE ModelIsCoherent
  <2>1. /\ BarsIn(model.elements, model.nextId.elements, DOMAIN model.nodes, model.materials)
        /\ SupportsIn(model.supports, model.nextId.supports, DOMAIN model.nodes)
        /\ LoadsIn(model.loads, model.nextId.loads, DOMAIN model.nodes,
                   DOMAIN model.elements \cup {}, DOMAIN model.quads, model.cases)
        /\ QuadsIn(model.quads, model.nextId.quads, model.materials)
        /\ ConnectorsIn(model.connectors, model.nextId.connectors, DOMAIN model.nodes)
        /\ FootingsIn(model.footings, model.nextId.footings, DOMAIN model.nodes,
                      DOMAIN model.elements \cup {}, ToSet(model.profiles))
        /\ CombinationsIn(model.combinations, model.nextId.combinations, model.cases)
        /\ model.constraints \in Seq(Ties(DOMAIN model.nodes))
    BY <1>1, SoundParts DEF Inv
  <2>2. EndsExist
    <3>1. \A e \in Range(model.elements) : {e.i, e.j} \subseteq DOMAIN model.nodes
      BY <2>1 DEF BarsIn, Bar, Range
    <3>2. \A c \in Range(model.connectors) : {c.i, c.j} \subseteq DOMAIN model.nodes
      BY <2>1 DEF ConnectorsIn, Range
    <3>3. Range(model.supports) \subseteq DOMAIN model.nodes
      BY <2>1 DEF SupportsIn, Range
    <3>4. \A l \in Range(model.loads) : l.kind = "nodal" => l.on \in DOMAIN model.nodes
      BY <2>1 DEF LoadsIn, Load, Range
    <3>5. \A f \in Range(model.footings) : f.node \in DOMAIN model.nodes
      BY <2>1 DEF FootingsIn, Footing, Range
    <3>6. \A c \in ToSet(model.constraints) :
              c.slaves # {} /\ c.slaves \cup {c.master} \subseteq DOMAIN model.nodes
      <4>1. \A c \in ToSet(model.constraints) : c \in Ties(DOMAIN model.nodes)
        BY <2>1, LenProperties, ElementOfSeq DEF ToSet
      <4>2. QED
        BY <4>1 DEF Ties
    <3>7. QED
      BY <3>1, <3>2, <3>3, <3>4, <3>5, <3>6 DEF EndsExist
  <2>3. CasesAndMaterialsExist
    <3>1. \A l \in Range(model.loads) : CaseOf(l) \in model.cases
      BY <2>1 DEF LoadsIn, Load, Range
    <3>2. \A c \in Range(model.combinations) : c \subseteq model.cases
      BY <2>1 DEF CombinationsIn, Range
    <3>3. \A b \in Range(model.elements) : b.material \in model.materials
      BY <2>1 DEF BarsIn, Bar, Range
    <3>4. \A q \in Range(model.quads) : q.material \in model.materials
      BY <2>1 DEF QuadsIn, Quad, Range
    <3>5. QED
      BY <3>1, <3>2, <3>3, <3>4 DEF CasesAndMaterialsExist
  <2>4. IsInjective(model.supports)
    BY <2>1 DEF SupportsIn
  <2>5. QED
    BY <2>2, <2>3, <2>4 DEF ModelIsCoherent
<1>2. QED
  BY <1>1, InvHolds, PTL

\* Every load on a bar or a shell is on one that there is, whatever was deleted, split or
\* subdivided: as long as no node goes whose bars carry loads, and no bar is split that carries
\* 3D loads (removeElement, removeQuad, splitElementAtPoint, subdivideElement).
THEOREM LoadsKeepABearer ==
    ASSUME BearersAreKept
    PROVE  Spec => []LoadsHaveABearer
<1>1. ASSUME Inv PROVE LoadsHaveABearer
  <2>1. LoadsIn(model.loads, model.nextId.loads, DOMAIN model.nodes,
                DOMAIN model.elements \cup {}, DOMAIN model.quads, model.cases)
    BY <1>1, SoundParts DEF Inv
  <2>2. QED
    BY <2>1 DEF LoadsIn, Load, LoadsHaveABearer, Range
<1>2. QED
  BY <1>1, InvHolds, PTL

\* A footing names only a column and a stratum that there are, and the project only a default
\* stratum that there is, so that no later bar becomes the column of a footing by its id: as long
\* as no node goes, and no bar is split, that a footing names a bar of (removeElement,
\* removeSoilProfile, updateFooting).
THEOREM FootingsKeepTheirGround ==
    ASSUME BearersAreKept
    PROVE  Spec => []FootingsKnowTheirGround
<1>1. ASSUME Inv PROVE FootingsKnowTheirGround
  <2>1. /\ FootingsIn(model.footings, model.nextId.footings, DOMAIN model.nodes,
                      DOMAIN model.elements \cup {}, ToSet(model.profiles))
        /\ ProfilesIn(model.profiles, model.nextId.profiles, model.defaultProfile)
    BY <1>1, SoundParts DEF Inv
  <2>2. \A f \in DOMAIN model.footings :
            /\ model.footings[f].column \in DOMAIN model.elements \cup {None}
            /\ model.footings[f].soil \in ToSet(model.profiles) \cup {None}
    BY <2>1 DEF FootingsIn, Footing
  <2>3. model.defaultProfile # None => model.defaultProfile \in ToSet(model.profiles)
    BY <2>1 DEF ProfilesIn
  <2>4. QED
    BY <2>2, <2>3 DEF FootingsKnowTheirGround, Range
<1>2. QED
  BY <1>1, InvHolds, PTL

=============================================================================
