---------------------------- MODULE AiBuildProofs ----------------------------
(***************************************************************************)
(* Proofs about the build conversation: for any two projects whose nodes,  *)
(* bars, supports, loads and sections fit together, any measures and names *)
(* the server answers with, anything create_model is called with, any      *)
(* limit of the history and any number of requests, no structure the user  *)
(* can come back to refers to what is not there, the server doubles        *)
(* nothing, and cancelling a draft brings back what it replaced.           *)
(***************************************************************************)
EXTENDS AiBuild, SequenceTheorems, FiniteSetTheorems, WellFoundedInduction, TLAPS

\* The circumstances a theorem leaves out.
CasesAreNew == "newCase" \notin Races
NothingIsDoubled == "doubles" \notin Races
LoadedNodesStay == "loadedNode" \notin Races
DraftIsLeftAlone == {"editDraft", "reopened"} \cap Races = {}

-----------------------------------------------------------------------------
(***************************************************************************)
(* A frame, map by map.  N, E and S are the nodes, bars and sections there *)
(* are.                                                                    *)
(***************************************************************************)

Kinds == {"nodes", "elements", "supports", "loads", "sections"}

\* The ids of a map are below the next one.
Ids(ids, next) == next \in Nat /\ \A id \in ids : id \in Nat /\ id < next

NodesIn(nodes, next) ==
    /\ Ids(DOMAIN nodes, next)
    /\ \A n \in DOMAIN nodes : nodes[n].x \in Int /\ nodes[n].y \in Int
    /\ NothingIsDoubled => IsInjective(nodes)

Bar(bar, N, S) ==
    /\ DOMAIN bar = {"i", "j", "section"}
    /\ bar.i \in N /\ bar.j \in N /\ bar.section \in S
    /\ NothingIsDoubled => bar.i # bar.j

Ends(bar) == {bar.i, bar.j}

IsAMap(m) == m = [id \in DOMAIN m |-> m[id]]

BarsIn(elements, next, N, S) ==
    /\ IsAMap(elements) /\ Ids(DOMAIN elements, next)
    /\ \A e \in DOMAIN elements : Bar(elements[e], N, S)
    /\ NothingIsDoubled =>
          \A d, e \in DOMAIN elements : Ends(elements[d]) = Ends(elements[e]) => d = e

SupportsIn(supports, next, N) ==
    /\ Ids(DOMAIN supports, next)
    /\ \A s \in DOMAIN supports : DOMAIN supports[s] = {"node", "type"} /\ supports[s].node \in N
    /\ NothingIsDoubled =>
          \A r, s \in DOMAIN supports : supports[r].node = supports[s].node => r = s

Load(load, N, E) ==
    /\ load.kind \in {"nodal", "distributed"}
    /\ LoadedNodesStay => load.on \in IF load.kind = "nodal" THEN N ELSE E

LoadsIn(loads, next, N, E) ==
    Ids(DOMAIN loads, next) /\ \A l \in DOMAIN loads : Load(loads[l], N, E)

SectionsIn(sections, next) ==
    /\ Ids(DOMAIN sections, next) /\ 1 \in DOMAIN sections
    /\ NothingIsDoubled => IsInjective(sections)

Shaped(f) ==
    DOMAIN f = Kinds \cup {"cases", "nextId"} /\ DOMAIN f.nextId = Kinds \cup {"cases"}

\* The cases of a structure on the canvas.
CasesIn(cases, next) ==
    /\ cases \in Seq(Nat) /\ next \in Nat
    /\ CasesAreNew => IsInjective(cases)

\* What an answer may say of load cases, which is nothing as a rule.
CasesMaybe(f) ==
    \/ f.cases = None /\ f.nextId.cases = None
    \/ CasesIn(f.cases, f.nextId.cases)

\* A frame without its cases.
Framed(f) ==
    /\ Shaped(f)
    /\ NodesIn(f.nodes, f.nextId.nodes)
    /\ BarsIn(f.elements, f.nextId.elements, DOMAIN f.nodes, DOMAIN f.sections)
    /\ SupportsIn(f.supports, f.nextId.supports, DOMAIN f.nodes)
    /\ LoadsIn(f.loads, f.nextId.loads, DOMAIN f.nodes, DOMAIN f.elements)
    /\ SectionsIn(f.sections, f.nextId.sections)

\* An answer of the server, and a structure on the canvas.
Whole(f) == Framed(f) /\ CasesMaybe(f)
Settled(f) == Framed(f) /\ CasesIn(f.cases, f.nextId.cases)

\* In both projects everything fits together.
ASSUME StartAssumption == Settled(Start) /\ Settled(Other)

-----------------------------------------------------------------------------
(***************************************************************************)
(* The invariant.                                                          *)
(***************************************************************************)

IsStack(s) == s \in Seq(ToSet(s))

\* Undo and redo take from each other what they give.
StacksFit(u, r) == IsStack(u) /\ IsStack(r) /\ Len(u) + Len(r) <= MaxHistory

StackIsSettled(s) == \A f \in ToSet(s) : Settled(f)

\* A structure on the canvas and its history.
Held(c, u, r) ==
    StacksFit(u, r) /\ Settled(c) /\ StackIsSettled(u) /\ StackIsSettled(r)

CanvasInv == Held(canvas, undo, redo)
OtherInv == Held(other.canvas, other.undo, other.redo)

\* A request carries the structure it was sent with, if it has bars; one at most is waited for.
RequestsInv ==
    /\ \A r \in requests :
           /\ DOMAIN r = {"id", "kind", "live", "snapshot"} /\ r.live \in BOOLEAN
           /\ r.snapshot # None => Settled(r.snapshot) /\ HasModel(r.snapshot)
    /\ \A r, s \in requests : r.live /\ s.live => r = s

\* What cancelling brings back is on top of the history, and no answer can bury it.
DraftInv ==
    /\ \A r \in requests : r.live
    /\ draft => requests = {} /\ undo # <<>> /\ Last(undo) = before

TypeInv ==
    /\ draft \in BOOLEAN /\ solving \in BOOLEAN /\ applied \in BOOLEAN
    /\ sent \in 0..MaxRequests /\ edits \in 0..MaxEdits

Inv ==
    /\ TypeInv /\ CanvasInv /\ OtherInv /\ RequestsInv
    /\ DraftIsLeftAlone => DraftInv

-----------------------------------------------------------------------------
(***************************************************************************)
(* Numbers: the least, the greatest, and all of them in order.             *)
(***************************************************************************)

LEMMA LeastOf ==
    ASSUME NEW S, S \subseteq Nat, S # {}
    PROVE  Min(S) \in S /\ \A y \in S : Min(S) <= y
<1> DEFINE Less == {z \in Nat \X Nat : z[1] < z[2]}
<1>1. IsWellFoundedOn(Less, Nat)
  BY NatLessThanWellFounded DEF OpToRel
<1>2. PICK x \in S : \A y \in S : ~(<<y, x>> \in Less)
  <2> HIDE DEF Less
  <2>1. QED
    BY <1>1, WFMin
<1>3. \A y \in S : x <= y
  <2> SUFFICES ASSUME NEW y \in S, ~(x <= y) PROVE FALSE
    OBVIOUS
  <2>1. x \in Nat /\ y \in Nat /\ y < x
    OBVIOUS
  <2>2. <<y, x>> \in Nat \X Nat /\ <<y, x>>[1] < <<y, x>>[2]
    BY <2>1
  <2>3. <<y, x>> \in Less
    BY <2>2
  <2>4. QED
    BY <1>2, <2>3
<1>4. \E z \in S : \A y \in S : z <= y
  BY <1>3
<1>5. QED
  BY <1>4 DEF Min

LEMMA IdsAreFinite ==
    ASSUME NEW ids, NEW next, Ids(ids, next), NEW some, some \subseteq ids
    PROVE  IsFiniteSet(some)
<1>1. next \in Nat /\ some \subseteq 0..next
  BY DEF Ids
<1>2. IsFiniteSet(0..next)
  BY <1>1, FS_Interval
<1>3. QED
  BY <1>1, <1>2, FS_Subset

\* How many of S are less.
Rank(S, n) == Cardinality({m \in S : m < n})

\* Every place in the order of S is taken, once.
LEMMA EveryRankIsTaken ==
    ASSUME NEW S, S \subseteq Int, IsFiniteSet(S)
    PROVE  /\ Cardinality(S) \in Nat
           /\ \A n \in S : Rank(S, n) \in 0..(Cardinality(S) - 1)
           /\ \A n, m \in S : Rank(S, n) = Rank(S, m) => n = m
           /\ \A k \in 0..(Cardinality(S) - 1) : \E n \in S : Rank(S, n) = k
<1> DEFINE c == Cardinality(S)
           Below(n) == {m \in S : m < n}
           rank == [n \in S |-> Rank(S, n)]
<1>1. c \in Nat
  BY FS_CardinalityType
<1>2. \A n \in S : IsFiniteSet(Below(n)) /\ Cardinality(Below(n)) \in Nat
  BY FS_Subset, FS_CardinalityType
<1>3. ASSUME NEW n \in S PROVE Rank(S, n) \in 0..(c - 1)
  <2>1. IsFiniteSet(S \ {n}) /\ Cardinality(S \ {n}) = c - 1
    BY FS_RemoveElement
  <2>2. Below(n) \subseteq S \ {n}
    OBVIOUS
  <2>3. Cardinality(Below(n)) <= Cardinality(S \ {n})
    BY <2>1, <2>2, FS_Subset
  <2>4. QED
    BY <1>1, <1>2, <2>1, <2>3 DEF Rank
<1>4. ASSUME NEW n \in S, NEW m \in S, n < m PROVE Rank(S, n) < Rank(S, m)
  <2>1. Below(n) \cup {n} \subseteq Below(m) /\ n \notin Below(n)
    <3>1. n \in Int /\ m \in Int /\ ~(n < n)
      OBVIOUS
    <3>2. \A k \in S : k < n => k < m
      BY <1>4, <3>1
    <3>3. QED
      BY <1>4, <3>1, <3>2
  <2>2. Cardinality(Below(n) \cup {n}) = Cardinality(Below(n)) + 1
    BY <1>2, <2>1, FS_AddElement
  <2>3. Cardinality(Below(n) \cup {n}) <= Cardinality(Below(m))
    BY <1>2, <2>1, FS_Subset
  <2>4. QED
    BY <1>2, <2>2, <2>3 DEF Rank
<1>5. \A n, m \in S : Rank(S, n) = Rank(S, m) => n = m
  <2> SUFFICES ASSUME NEW n \in S, NEW m \in S, Rank(S, n) = Rank(S, m), n # m PROVE FALSE
    OBVIOUS
  <2>1. n < m \/ m < n
    OBVIOUS
  <2>2. Rank(S, n) \in 0..(c - 1) /\ Rank(S, m) \in 0..(c - 1)
    BY <1>3
  <2>3. QED
    BY <1>1, <1>4, <2>1, <2>2
<1>6. rank \in Injection(S, 0..(c - 1))
  BY <1>3, <1>5 DEF Injection, IsInjective
<1>7. IsFiniteSet(0..(c - 1)) /\ Cardinality(0..(c - 1)) = c
  <2> HIDE DEF c
  <2>1. \A a, b \in Int :
            IsFiniteSet(a..b) /\ Cardinality(a..b) = IF a > b THEN 0 ELSE b - a + 1
    BY ONLY FS_Interval
  <2>2. PICK top \in Int : top = c - 1
    BY <1>1
  <2>3. PICK zero \in Int : zero = 0
    OBVIOUS
  <2>4. IsFiniteSet(zero..top)
        /\ Cardinality(zero..top) = IF zero > top THEN 0 ELSE top - zero + 1
    BY ONLY <2>1
  <2>5. (IF zero > top THEN 0 ELSE top - zero + 1) = c
    BY ONLY <1>1, <2>2, <2>3
  <2>6. IsFiniteSet(zero..top) /\ Cardinality(zero..top) = c
    BY ONLY <2>4, <2>5
  <2>7. QED
    BY <2>2, <2>3, <2>6
<1>8. rank \in Surjection(S, 0..(c - 1))
  <2> DEFINE T == 0..(c - 1)
  <2>1. rank \in Injection(S, T) /\ IsFiniteSet(T) /\ Cardinality(T) = Cardinality(S)
    BY <1>6, <1>7
  <2> HIDE DEF T
  <2>2. rank \in Surjection(S, T)
    BY ONLY <2>1, <1>1, FS_Injection
  <2>3. QED
    BY <2>2 DEF T
<1>9. \A k \in 0..(c - 1) : \E n \in S : rank[n] = k
  BY <1>8 DEF Surjection
<1>10. QED
  BY <1>1, <1>3, <1>5, <1>9

LEMMA AscendingOf ==
    ASSUME NEW S, S \subseteq Int, IsFiniteSet(S)
    PROVE  /\ Cardinality(S) \in Nat /\ DOMAIN Ascending(S) = 1..Cardinality(S)
           /\ Ascending(S) \in Seq(S) /\ Len(Ascending(S)) = Cardinality(S)
           /\ \A k \in 1..Cardinality(S) : Ascending(S)[k] \in S
           /\ \A k, l \in 1..Cardinality(S) : Ascending(S)[k] = Ascending(S)[l] => k = l
<1> DEFINE c == Cardinality(S)
           s == Ascending(S)
<1>1. c \in Nat
  BY EveryRankIsTaken
<1>2. ASSUME NEW k \in 1..c PROVE s[k] \in S /\ Rank(S, s[k]) = k - 1
  <2>1. k - 1 \in 0..(c - 1)
    BY <1>1
  <2>2. \E n \in S : Rank(S, n) = k - 1
    BY <2>1, EveryRankIsTaken
  <2>3. s[k] = CHOOSE n \in S : Rank(S, n) = k - 1
    BY DEF Ascending, Rank
  <2>4. QED
    BY <2>2, <2>3
<1>3. s \in [1..c -> S]
  BY <1>2 DEF Ascending
<1>4. s \in Seq(S) /\ Len(s) = c
  BY <1>1, <1>3, SeqDef
<1>5. ASSUME NEW k \in 1..c, NEW l \in 1..c, s[k] = s[l] PROVE k = l
  <2>1. k - 1 = l - 1
    BY <1>2, <1>5
  <2>2. QED
    BY <1>1, <2>1
<1>6. QED
  BY <1>1, <1>2, <1>3, <1>4, <1>5

LEMMA LeastAndGreatest ==
    ASSUME NEW S, S \subseteq Int, IsFiniteSet(S), S # {}
    PROVE  /\ Min(S) \in S /\ \A n \in S : Min(S) <= n
           /\ Max(S) \in S /\ \A n \in S : Max(S) >= n
<1> DEFINE c == Cardinality(S)
           Below(n) == {m \in S : m < n}
<1>1. c \in Nat /\ c # 0
  BY FS_CardinalityType, FS_EmptySet
<1>2. 0 \in 0..(c - 1) /\ c - 1 \in 0..(c - 1)
  BY <1>1
<1>3. PICK least \in S : Rank(S, least) = 0
  BY <1>2, EveryRankIsTaken
<1>4. PICK greatest \in S : Rank(S, greatest) = c - 1
  BY <1>2, EveryRankIsTaken
<1>5. \A n \in S : least <= n
  <2>1. IsFiniteSet(Below(least)) /\ Cardinality(Below(least)) = 0
    BY <1>3, FS_Subset DEF Rank
  <2>2. Below(least) = {}
    BY <2>1, FS_EmptySet
  <2>3. QED
    BY <2>2
<1>6. \A n \in S : greatest >= n
  <2>1. IsFiniteSet(S \ {greatest}) /\ Cardinality(S \ {greatest}) = c - 1
    BY FS_RemoveElement
  <2>2. Below(greatest) \in SUBSET (S \ {greatest})
    OBVIOUS
  <2>3. Cardinality(S \ {greatest}) = Cardinality(Below(greatest))
    BY <1>4, <2>1 DEF Rank
  <2>4. Below(greatest) = S \ {greatest}
    BY <2>1, <2>2, <2>3, FS_Subset
  <2>5. QED
    BY <2>4
<1>7. QED
  BY <1>5, <1>6 DEF Min, Max

-----------------------------------------------------------------------------
(***************************************************************************)
(* Sequences laid end to end.                                              *)
(***************************************************************************)

\* The sequences seqs, laid end to end, up to each of them.
EndToEnd(f, seqs, n) == f = [i \in 1..n |-> IF i = 1 THEN seqs[i] ELSE f[i - 1] \o seqs[i]]

LEMMA EndToEndStep ==
    ASSUME NEW seqs, NEW n \in Nat, NEW f, EndToEnd(f, seqs, n)
    PROVE  \E g : EndToEnd(g, seqs, n + 1)
<1> DEFINE Longer(i) == IF n = 0 THEN seqs[i] ELSE f[n] \o seqs[i]
           g == [i \in 1..(n + 1) |-> IF i = n + 1 THEN Longer(i) ELSE f[i]]
           h == [i \in 1..(n + 1) |-> IF i = 1 THEN seqs[i] ELSE g[i - 1] \o seqs[i]]
<1>1. \A i \in 1..(n + 1) : g[i] = IF i = 1 THEN seqs[i] ELSE g[i - 1] \o seqs[i]
  <2> SUFFICES ASSUME NEW i \in 1..(n + 1)
               PROVE  g[i] = IF i = 1 THEN seqs[i] ELSE g[i - 1] \o seqs[i]
    OBVIOUS
  <2>1. CASE i = n + 1 /\ n = 0
    BY <2>1
  <2>2. CASE i = n + 1 /\ n # 0
    <3>1. i # 1 /\ i - 1 \in 1..(n + 1) /\ i - 1 # n + 1 /\ i - 1 = n
      BY <2>2
    <3>2. g[i - 1] = f[n] /\ g[i] = f[n] \o seqs[i]
      BY <2>2, <3>1
    <3>3. QED
      BY <3>1, <3>2
  <2>3. CASE i # n + 1 /\ i = 1
    <3>1. g[i] = f[i] /\ i \in 1..n
      BY <2>3
    <3>2. f[i] = seqs[i]
      BY <2>3, <3>1 DEF EndToEnd
    <3>3. QED
      BY <2>3, <3>1, <3>2
  <2>4. CASE i # n + 1 /\ i # 1
    <3>1. i - 1 \in 1..(n + 1) /\ i - 1 # n + 1 /\ i \in 1..n
      BY <2>4
    <3>2. g[i] = f[i] /\ g[i - 1] = f[i - 1]
      BY <2>4, <3>1
    <3> HIDE DEF g
    <3>3. f[i] = f[i - 1] \o seqs[i]
      BY <2>4, <3>1 DEF EndToEnd
    <3>4. QED
      BY <2>4, <3>2, <3>3
  <2>5. QED
    BY <2>1, <2>2, <2>3, <2>4
<1>2. DOMAIN g = 1..(n + 1) /\ g = [i \in 1..(n + 1) |-> g[i]]
  OBVIOUS
<1> HIDE DEF g
<1>3. h = g
  BY <1>1, <1>2
<1>4. QED
  BY <1>3 DEF EndToEnd

LEMMA EndToEndExists == \A seqs : \A n \in Nat : \E f : EndToEnd(f, seqs, n)
<1> SUFFICES ASSUME NEW seqs PROVE \A n \in Nat : \E f : EndToEnd(f, seqs, n)
  OBVIOUS
<1> DEFINE Bad == {n \in Nat : ~\E f : EndToEnd(f, seqs, n)}
<1>1. Bad \subseteq Nat
  OBVIOUS
<1>2. CASE Bad # {}
  <2>1. PICK n \in Bad : \A k \in Bad : n <= k
    <3> HIDE DEF Bad
    <3>1. QED
      BY <1>1, <1>2, LeastOf
  <2>2. n # 0
    <3> DEFINE f == [i \in 1..0 |-> seqs[i]]
    <3>1. f = [i \in 1..0 |-> IF i = 1 THEN seqs[i] ELSE f[i - 1] \o seqs[i]]
      OBVIOUS
    <3> HIDE DEF f
    <3>2. EndToEnd(f, seqs, 0)
      BY <3>1 DEF EndToEnd
    <3>3. QED
      BY <3>2
  <2>3. n - 1 \in Nat /\ n - 1 \notin Bad /\ (n - 1) + 1 = n
    BY <2>1, <2>2
  <2>4. PICK f : EndToEnd(f, seqs, n - 1)
    BY <2>3
  <2>5. \E g : EndToEnd(g, seqs, n)
    BY <2>3, <2>4, EndToEndStep
  <2>6. QED
    BY <2>5
<1>3. QED
  BY <1>2

LEMMA EndToEndEntries ==
    ASSUME NEW S, NEW seqs \in Seq(Seq(S)), NEW f, EndToEnd(f, seqs, Len(seqs))
    PROVE  \A i \in 1..Len(seqs) : f[i] \in Seq(S)
<1> DEFINE n == Len(seqs)
           Bad == {i \in 1..n : f[i] \notin Seq(S)}
<1>1. n \in Nat /\ \A i \in 1..n : seqs[i] \in Seq(S)
  BY LenProperties, ElementOfSeq
<1>2. Bad \subseteq Nat
  BY <1>1
<1>3. CASE Bad # {}
  <2>1. PICK i \in Bad : \A k \in Bad : i <= k
    <3> HIDE DEF Bad
    <3>1. QED
      BY <1>2, <1>3, LeastOf
  <2>2. i \in 1..n /\ f[i] \notin Seq(S) /\ seqs[i] \in Seq(S)
    BY <1>1, <2>1
  <2>3. f[i] = IF i = 1 THEN seqs[i] ELSE f[i - 1] \o seqs[i]
    BY <2>2 DEF EndToEnd
  <2>4. i # 1
    BY <2>2, <2>3
  <2>5. i - 1 \in 1..n /\ ~(i <= i - 1)
    BY <1>1, <2>2, <2>4
  <2>6. f[i - 1] \in Seq(S)
    BY <2>1, <2>5
  <2> HIDE DEF n, Bad
  <2>7. f[i - 1] \o seqs[i] \in Seq(S)
    BY <2>2, <2>6, ConcatProperties
  <2>8. QED
    BY <2>2, <2>3, <2>4, <2>7
<1>4. QED
  BY <1>3

LEMMA FlattenedIsTheLast ==
    ASSUME NEW S, NEW seqs \in Seq(Seq(S)), Len(seqs) # 0
    PROVE  \E f : EndToEnd(f, seqs, Len(seqs)) /\ FlattenSeq(seqs) = f[Len(seqs)]
<1> DEFINE n == Len(seqs)
           f == CHOOSE f : EndToEnd(f, seqs, n)
<1>1. FlattenSeq(seqs) = f[n]
  BY DEF FlattenSeq, EndToEnd
<1>2. EndToEnd(f, seqs, n)
  <2>1. n \in Nat
    BY LenProperties
  <2>2. \E g : EndToEnd(g, seqs, n)
    BY <2>1, EndToEndExists
  <2> HIDE DEF EndToEnd, n
  <2>3. QED
    BY <2>2
<1>3. QED
  BY <1>1, <1>2

LEMMA FlattenedIsASequence ==
    ASSUME NEW S, NEW seqs \in Seq(Seq(S))
    PROVE  FlattenSeq(seqs) \in Seq(S)
<1>1. CASE Len(seqs) = 0
  <2>1. FlattenSeq(seqs) = seqs /\ seqs = <<>>
    BY <1>1, LenProperties DEF FlattenSeq
  <2>2. QED
    BY <2>1
<1>2. CASE Len(seqs) # 0
  <2>1. PICK f : EndToEnd(f, seqs, Len(seqs)) /\ FlattenSeq(seqs) = f[Len(seqs)]
    BY <1>2, FlattenedIsTheLast
  <2>2. Len(seqs) \in 1..Len(seqs)
    BY <1>2, LenProperties
  <2>3. QED
    BY <2>1, <2>2, EndToEndEntries
<1>3. QED
  BY <1>1, <1>2

\* Nothing is twice in what is laid end to end, if nothing is twice in one or in two of them.
LEMMA FlattenedOnce ==
    ASSUME NEW S, NEW seqs \in Seq(Seq(S)),
           \A k \in 1..Len(seqs) : IsInjective(seqs[k]),
           \A k, l \in 1..Len(seqs) : \A a \in DOMAIN seqs[k], b \in DOMAIN seqs[l] :
               seqs[k][a] = seqs[l][b] => k = l
    PROVE  /\ FlattenSeq(seqs) \in Seq(S) /\ IsInjective(FlattenSeq(seqs))
           /\ \A a \in DOMAIN FlattenSeq(seqs) :
                  \E k \in 1..Len(seqs) : \E b \in DOMAIN seqs[k] : FlattenSeq(seqs)[a] = seqs[k][b]
<1> DEFINE n == Len(seqs)
<1>1. CASE n = 0
  <2>1. FlattenSeq(seqs) = seqs /\ seqs = <<>> /\ DOMAIN seqs = {}
    BY <1>1, LenProperties DEF FlattenSeq
  <2>2. QED
    BY <2>1 DEF IsInjective
<1>2. CASE n # 0
  <2>1. n \in Nat /\ n \in 1..n /\ \A i \in 1..n : seqs[i] \in Seq(S)
    BY <1>2, LenProperties, ElementOfSeq
  <2>2. PICK f : EndToEnd(f, seqs, n) /\ FlattenSeq(seqs) = f[n]
    BY <1>2, FlattenedIsTheLast
  <2>3. \A i \in 1..n : f[i] \in Seq(S)
    BY <2>2, EndToEndEntries
  <2>4. \A i \in 1..n : f[i] = IF i = 1 THEN seqs[i] ELSE f[i - 1] \o seqs[i]
    BY <2>2 DEF EndToEnd
  <2> DEFINE From(i) == \A a \in DOMAIN f[i] : \E k \in 1..i : \E b \in DOMAIN seqs[k] :
                           f[i][a] = seqs[k][b]
             Bad == {i \in 1..n : ~(IsInjective(f[i]) /\ From(i))}
  <2>5. CASE Bad # {}
    <3>1. Bad \subseteq Nat
      BY <2>1
    <3>2. PICK i \in Bad : \A j \in Bad : i <= j
      <4> HIDE DEF Bad
      <4>1. QED
        BY <2>5, <3>1, LeastOf
    <3>3. i \in 1..n /\ i \in Nat
      BY <2>1, <3>2
    <3>4. i # 1
      <4> SUFFICES ASSUME i = 1 PROVE FALSE
        OBVIOUS
      <4>1. f[i] = seqs[i] /\ IsInjective(f[i])
        BY <2>4, <3>3
      <4>2. From(i)
        BY <4>1
      <4>3. QED
        BY <3>2, <4>1, <4>2
    <3>5. /\ i - 1 \in 1..n /\ i - 1 \notin Bad /\ i \in 1..i /\ i \notin 1..(i - 1)
          /\ \A k \in 1..(i - 1) : k \in 1..i /\ k \in 1..n
      <4> HIDE DEF Bad, n
      <4>1. i - 1 \in 1..n /\ ~(i <= i - 1)
        BY <2>1, <3>3, <3>4
      <4>2. i - 1 \notin Bad
        BY <3>2, <4>1
      <4>3. i \in 1..i /\ i \notin 1..(i - 1)
        BY <3>3
      <4>4. \A k \in 1..(i - 1) : k \in 1..i /\ k \in 1..n
        BY <2>1, <3>3
      <4>5. QED
        BY <4>1, <4>2, <4>3, <4>4
    <3>6. IsInjective(f[i - 1]) /\ From(i - 1)
      BY <3>5
    <3> DEFINE s == f[i - 1]  t == seqs[i]
    <3>7. s \in Seq(S) /\ t \in Seq(S) /\ f[i] = s \o t
      BY <2>1, <2>3, <2>4, <3>3, <3>4, <3>5
    <3>8. /\ Len(s) \in Nat /\ DOMAIN s = 1..Len(s) /\ Len(t) \in Nat /\ DOMAIN t = 1..Len(t)
          /\ DOMAIN f[i] = 1..(Len(s) + Len(t))
          /\ \A a \in 1..(Len(s) + Len(t)) :
                 f[i][a] = IF a <= Len(s) THEN s[a] ELSE t[a - Len(s)]
      <4> HIDE DEF s, t
      <4>1. s \o t \in Seq(S) /\ Len(s \o t) = Len(s) + Len(t)
        BY <3>7, ConcatProperties
      <4>2. DOMAIN (s \o t) = 1..(Len(s) + Len(t))
        BY <4>1, LenProperties
      <4>3. QED
        BY <3>7, <4>2, LenProperties, ConcatProperties
    <3>9. From(i)
      <4> SUFFICES ASSUME NEW a \in DOMAIN f[i]
                   PROVE  \E k \in 1..i : \E b \in DOMAIN seqs[k] : f[i][a] = seqs[k][b]
        OBVIOUS
      <4>1. CASE a <= Len(s)
        <5> HIDE DEF s, t
        <5>1. a \in DOMAIN s /\ f[i][a] = s[a]
          BY <3>8, <4>1
        <5>2. PICK k \in 1..(i - 1) : \E b \in DOMAIN seqs[k] : s[a] = seqs[k][b]
          BY <3>6, <5>1 DEF s
        <5>3. QED
          BY <3>5, <5>1, <5>2
      <4>2. CASE ~(a <= Len(s))
        <5> HIDE DEF s, t
        <5>1. a - Len(s) \in DOMAIN t /\ f[i][a] = t[a - Len(s)]
          BY <3>8, <4>2
        <5>2. QED
          BY <3>5, <5>1 DEF t
      <4>3. QED
        BY <4>1, <4>2
    <3>10. ASSUME NEW a \in DOMAIN s, NEW b \in DOMAIN t PROVE s[a] # t[b]
      <4>1. PICK k \in 1..(i - 1) : \E c \in DOMAIN seqs[k] : s[a] = seqs[k][c]
        BY <3>6
      <4>2. k \in 1..n /\ k # i
        BY <3>5
      <4>3. QED
        BY <3>3, <4>1, <4>2
    <3>11. IsInjective(f[i])
      <4> SUFFICES ASSUME NEW a \in 1..(Len(s) + Len(t)), NEW b \in 1..(Len(s) + Len(t)),
                          f[i][a] = f[i][b]
                   PROVE  a = b
        BY <3>8 DEF IsInjective
      <4> HIDE DEF s, t
      <4>1. CASE a <= Len(s) /\ b <= Len(s)
        <5>1. a \in DOMAIN s /\ b \in DOMAIN s /\ s[a] = s[b]
          BY <3>8, <4>1
        <5>2. IsInjective(s)
          BY <3>6 DEF s
        <5>3. QED
          BY <5>1, <5>2 DEF IsInjective
      <4>2. CASE ~(a <= Len(s)) /\ ~(b <= Len(s))
        <5>1. a - Len(s) \in DOMAIN t /\ b - Len(s) \in DOMAIN t /\ t[a - Len(s)] = t[b - Len(s)]
          <6>1. f[i][a] = t[a - Len(s)] /\ f[i][b] = t[b - Len(s)]
            BY <3>8, <4>2
          <6>2. a - Len(s) \in 1..Len(t) /\ b - Len(s) \in 1..Len(t)
            <7>1. \A p, q \in Nat : \A d \in 1..(p + q) : ~(d <= p) => d - p \in 1..q
              OBVIOUS
            <7>2. QED
              BY <3>8, <4>2, <7>1
          <6>3. QED
            BY <3>8, <6>1, <6>2
        <5>2. IsInjective(t)
          BY <3>3 DEF t
        <5>3. a - Len(s) = b - Len(s)
          BY <5>1, <5>2 DEF IsInjective
        <5>4. QED
          BY <3>8, <5>3
      <4>3. CASE a <= Len(s) /\ ~(b <= Len(s))
        <5>1. a \in DOMAIN s /\ b - Len(s) \in DOMAIN t /\ s[a] = t[b - Len(s)]
          BY <3>8, <4>3
        <5>2. QED
          BY <3>10, <5>1
      <4>4. CASE ~(a <= Len(s)) /\ b <= Len(s)
        <5>1. b \in DOMAIN s /\ a - Len(s) \in DOMAIN t /\ s[b] = t[a - Len(s)]
          BY <3>8, <4>4
        <5>2. QED
          BY <3>10, <5>1
      <4>5. QED
        BY <4>1, <4>2, <4>3, <4>4
    <3>12. QED
      BY <3>2, <3>9, <3>11
  <2>6. CASE Bad = {}
    <3>1. n \notin Bad
      BY <2>6
    <3>2. IsInjective(f[n]) /\ From(n)
      BY <2>1, <3>1
    <3>3. QED
      BY <2>1, <2>2, <2>3, <3>2
  <2>7. QED
    BY <2>5, <2>6
<1>3. QED
  BY <1>1, <1>2

-----------------------------------------------------------------------------
(***************************************************************************)
(* Something is added to a frame.                                          *)
(***************************************************************************)

\* A map has what it had, and the entries from the id first on.
Grows(m, more, first, entries) ==
    /\ IsAMap(more) /\ DOMAIN more = DOMAIN m \cup first..(first + Len(entries) - 1)
    /\ \A id \in DOMAIN m : more[id] = m[id]
    /\ \A k \in 1..Len(entries) :
           first + k - 1 \in DOMAIN more \ DOMAIN m /\ more[first + k - 1] = entries[k]
    /\ \A id \in DOMAIN more : id \in DOMAIN m \/ \E k \in 1..Len(entries) : id = first + k - 1

Gains(f, g, map, entries) ==
    /\ Shaped(g)
    /\ \A name \in (Kinds \cup {"cases"}) \ {map} :
           g[name] = f[name] /\ g.nextId[name] = f.nextId[name]
    /\ Grows(f[map], g[map], f.nextId[map], entries)
    /\ g.nextId[map] = f.nextId[map] + Len(entries)
    /\ Ids(DOMAIN g[map], g.nextId[map])

LEMMA AppendedGains ==
    ASSUME NEW f, Shaped(f), NEW map \in Kinds, Ids(DOMAIN f[map], f.nextId[map]),
           NEW S, NEW entries \in Seq(S)
    PROVE  Gains(f, Appended(f, map, entries), map, entries)
<1> DEFINE g == Appended(f, map, entries)
           first == f.nextId[map]
           n == Len(entries)
           ids == DOMAIN f[map]
           more == Extended(f[map], first, entries)
           next == [f.nextId EXCEPT ![map] = @ + n]
<1>1. n \in Nat /\ first \in Nat /\ \A id \in ids : id \in Nat /\ id < first
  BY LenProperties DEF Ids
<1>2. map \in DOMAIN f /\ map # "nextId" /\ map # "cases" /\ "nextId" \in DOMAIN f
      /\ map \in DOMAIN f.nextId
  BY DEF Shaped, Kinds
<1>3. g = [f EXCEPT ![map] = more, !.nextId = next]
  BY <1>2 DEF Appended
<1>4. /\ Shaped(g)
      /\ \A name \in (Kinds \cup {"cases"}) \ {map} :
             g[name] = f[name] /\ g.nextId[name] = f.nextId[name]
      /\ g.nextId[map] = first + n
      /\ g[map] = [id \in ids \cup first..(first + n - 1) |->
                      IF id \in ids THEN f[map][id] ELSE entries[id - first + 1]]
  <2> HIDE DEF g, more
  <2>1. DOMAIN next = DOMAIN f.nextId /\ next[map] = first + n
        /\ \A name \in DOMAIN f.nextId \ {map} : next[name] = f.nextId[name]
    BY <1>2
  <2> HIDE DEF next, first, n, ids
  <2>2. g.nextId = next /\ g[map] = more /\ DOMAIN g = DOMAIN f
        /\ \A name \in DOMAIN f \ {map, "nextId"} : g[name] = f[name]
    BY <1>2, <1>3
  <2>3. QED
    BY <1>2, <2>1, <2>2 DEF Shaped, Kinds, more, Extended, n, ids
<1> HIDE DEF g, first, n, ids, more, next
<1>5. DOMAIN g[map] = ids \cup first..(first + n - 1)
  BY <1>4
<1>6. \A id \in ids : g[map][id] = f[map][id]
  BY <1>4
<1>7. ASSUME NEW k \in 1..n
      PROVE  first + k - 1 \in DOMAIN g[map] \ ids /\ g[map][first + k - 1] = entries[k]
  <2>1. first + k - 1 \in first..(first + n - 1) /\ first + k - 1 \notin ids
        /\ (first + k - 1) - first + 1 = k
    BY <1>1
  <2>2. QED
    BY <1>4, <1>5, <2>1
<1>8. ASSUME NEW id \in DOMAIN g[map], id \notin ids
      PROVE  \E k \in 1..n : id = first + k - 1
  <2>1. id \in first..(first + n - 1)
    BY <1>5, <1>8
  <2>2. id - first + 1 \in 1..n /\ id = first + (id - first + 1) - 1
    BY <1>1, <2>1
  <2>3. QED
    BY <2>2
<1>9. Ids(DOMAIN g[map], first + n)
  BY <1>1, <1>5 DEF Ids
<1>10. Grows(f[map], g[map], first, entries)
  <2>1. IsAMap(g[map])
    BY <1>4 DEF IsAMap
  <2>2. QED
    BY <1>5, <1>6, <1>7, <1>8, <2>1 DEF Grows, n, ids
<1>11. QED
  BY <1>4, <1>9, <1>10 DEF Gains, g, first, n

LEMMA NodesGained ==
    ASSUME NEW f, Framed(f), NEW entries, NEW g, Gains(f, g, "nodes", entries),
           \A k \in 1..Len(entries) : entries[k].x \in Int /\ entries[k].y \in Int,
           NothingIsDoubled =>
               /\ \A k, l \in 1..Len(entries) : entries[k] = entries[l] => k = l
               /\ \A k \in 1..Len(entries) : \A n \in DOMAIN f.nodes : entries[k] # f.nodes[n]
    PROVE  Framed(g)
<1>1. /\ g.elements = f.elements /\ g.nextId.elements = f.nextId.elements
      /\ g.supports = f.supports /\ g.nextId.supports = f.nextId.supports
      /\ g.loads = f.loads /\ g.nextId.loads = f.nextId.loads
      /\ g.sections = f.sections /\ g.nextId.sections = f.nextId.sections
  BY DEF Gains, Kinds
<1>2. Grows(f.nodes, g.nodes, f.nextId.nodes, entries) /\ Ids(DOMAIN g.nodes, g.nextId.nodes)
  BY DEF Gains
<1>3. DOMAIN f.nodes \subseteq DOMAIN g.nodes
  BY <1>2 DEF Grows
<1>4. NodesIn(g.nodes, g.nextId.nodes)
  <2>1. ASSUME NEW n \in DOMAIN g.nodes PROVE g.nodes[n].x \in Int /\ g.nodes[n].y \in Int
    <3>1. CASE n \in DOMAIN f.nodes
      <4>1. g.nodes[n] = f.nodes[n]
        BY <1>2, <3>1 DEF Grows
      <4>2. f.nodes[n].x \in Int /\ f.nodes[n].y \in Int
        BY <3>1 DEF Framed, NodesIn
      <4>3. QED
        BY <4>1, <4>2
    <3>2. CASE n \notin DOMAIN f.nodes
      <4>1. PICK k \in 1..Len(entries) : n = f.nextId.nodes + k - 1
        BY <1>2, <3>2 DEF Grows
      <4>2. g.nodes[n] = entries[k]
        BY <1>2, <4>1 DEF Grows
      <4>3. QED
        BY <4>2
    <3>3. QED
      BY <3>1, <3>2
  <2>2. ASSUME NothingIsDoubled,
               NEW m \in DOMAIN g.nodes, NEW n \in DOMAIN g.nodes, g.nodes[m] = g.nodes[n]
        PROVE  m = n
    <3>1. CASE m \in DOMAIN f.nodes /\ n \in DOMAIN f.nodes
      BY <1>2, <2>2, <3>1 DEF Grows, Framed, NodesIn, IsInjective
    <3>2. CASE m \in DOMAIN f.nodes /\ n \notin DOMAIN f.nodes
      BY <1>2, <2>2, <3>2 DEF Grows
    <3>3. CASE m \notin DOMAIN f.nodes /\ n \in DOMAIN f.nodes
      BY <1>2, <2>2, <3>3 DEF Grows
    <3>4. CASE m \notin DOMAIN f.nodes /\ n \notin DOMAIN f.nodes
      BY <1>2, <2>2, <3>4 DEF Grows
    <3>5. QED
      BY <3>1, <3>2, <3>3, <3>4
  <2>3. QED
    BY <1>2, <2>1, <2>2 DEF NodesIn, IsInjective
<1>5. BarsIn(f.elements, f.nextId.elements, DOMAIN g.nodes, DOMAIN f.sections)
  BY <1>3 DEF Framed, BarsIn, Bar
<1>6. SupportsIn(f.supports, f.nextId.supports, DOMAIN g.nodes)
  BY <1>3 DEF Framed, SupportsIn
<1>7. LoadsIn(f.loads, f.nextId.loads, DOMAIN g.nodes, DOMAIN f.elements)
  BY <1>3 DEF Framed, LoadsIn, Load
<1>8. QED
  BY <1>1, <1>4, <1>5, <1>6, <1>7 DEF Framed, Gains

LEMMA BarsGained ==
    ASSUME NEW f, Framed(f), NEW entries, NEW g, Gains(f, g, "elements", entries),
           \A k \in 1..Len(entries) : Bar(entries[k], DOMAIN f.nodes, DOMAIN f.sections),
           NothingIsDoubled =>
               /\ \A k, l \in 1..Len(entries) : Ends(entries[k]) = Ends(entries[l]) => k = l
               /\ \A k \in 1..Len(entries) : \A e \in DOMAIN f.elements :
                      Ends(entries[k]) # Ends(f.elements[e])
    PROVE  Framed(g)
<1>1. /\ g.nodes = f.nodes /\ g.nextId.nodes = f.nextId.nodes
      /\ g.supports = f.supports /\ g.nextId.supports = f.nextId.supports
      /\ g.loads = f.loads /\ g.nextId.loads = f.nextId.loads
      /\ g.sections = f.sections /\ g.nextId.sections = f.nextId.sections
  BY DEF Gains, Kinds
<1>2. /\ Grows(f.elements, g.elements, f.nextId.elements, entries)
      /\ Ids(DOMAIN g.elements, g.nextId.elements)
  BY DEF Gains
<1>3. DOMAIN f.elements \subseteq DOMAIN g.elements
  BY <1>2 DEF Grows
<1>4. BarsIn(g.elements, g.nextId.elements, DOMAIN f.nodes, DOMAIN f.sections)
  <2>1. \A e \in DOMAIN g.elements : Bar(g.elements[e], DOMAIN f.nodes, DOMAIN f.sections)
    BY <1>2 DEF Grows, Framed, BarsIn
  <2>2. ASSUME NothingIsDoubled, NEW d \in DOMAIN g.elements, NEW e \in DOMAIN g.elements,
               Ends(g.elements[d]) = Ends(g.elements[e])
        PROVE  d = e
    <3>1. CASE d \in DOMAIN f.elements /\ e \in DOMAIN f.elements
      BY <1>2, <2>2, <3>1 DEF Grows, Framed, BarsIn
    <3>2. CASE d \in DOMAIN f.elements /\ e \notin DOMAIN f.elements
      BY <1>2, <2>2, <3>2 DEF Grows
    <3>3. CASE d \notin DOMAIN f.elements /\ e \in DOMAIN f.elements
      BY <1>2, <2>2, <3>3 DEF Grows
    <3>4. CASE d \notin DOMAIN f.elements /\ e \notin DOMAIN f.elements
      BY <1>2, <2>2, <3>4 DEF Grows
    <3>5. QED
      BY <3>1, <3>2, <3>3, <3>4
  <2>3. QED
    BY <1>2, <2>1, <2>2 DEF BarsIn, Grows
<1>5. LoadsIn(f.loads, f.nextId.loads, DOMAIN f.nodes, DOMAIN g.elements)
  BY <1>3 DEF Framed, LoadsIn, Load
<1>6. QED
  BY <1>1, <1>4, <1>5 DEF Framed, Gains

LEMMA SupportsGained ==
    ASSUME NEW f, Framed(f), NEW entries, NEW g, Gains(f, g, "supports", entries),
           \A k \in 1..Len(entries) :
               DOMAIN entries[k] = {"node", "type"} /\ entries[k].node \in DOMAIN f.nodes,
           \A k, l \in 1..Len(entries) : entries[k].node = entries[l].node => k = l,
           \A k \in 1..Len(entries) : \A s \in DOMAIN f.supports :
               entries[k].node # f.supports[s].node
    PROVE  Framed(g)
<1>1. /\ g.nodes = f.nodes /\ g.nextId.nodes = f.nextId.nodes
      /\ g.elements = f.elements /\ g.nextId.elements = f.nextId.elements
      /\ g.loads = f.loads /\ g.nextId.loads = f.nextId.loads
      /\ g.sections = f.sections /\ g.nextId.sections = f.nextId.sections
  BY DEF Gains, Kinds
<1>2. /\ Grows(f.supports, g.supports, f.nextId.supports, entries)
      /\ Ids(DOMAIN g.supports, g.nextId.supports)
  BY DEF Gains
<1>3. SupportsIn(g.supports, g.nextId.supports, DOMAIN f.nodes)
  <2>1. ASSUME NEW s \in DOMAIN g.supports
        PROVE  DOMAIN g.supports[s] = {"node", "type"} /\ g.supports[s].node \in DOMAIN f.nodes
    <3>1. CASE s \in DOMAIN f.supports
      <4>1. SupportsIn(f.supports, f.nextId.supports, DOMAIN f.nodes)
        BY DEF Framed
      <4>2. g.supports[s] = f.supports[s]
        BY <1>2, <3>1 DEF Grows
      <4>3. QED
        BY <3>1, <4>1, <4>2 DEF SupportsIn
    <3>2. CASE s \notin DOMAIN f.supports
      <4>1. PICK k \in 1..Len(entries) : s = f.nextId.supports + k - 1
        BY <1>2, <3>2 DEF Grows
      <4>2. g.supports[s] = entries[k]
        BY <1>2, <4>1 DEF Grows
      <4>3. QED
        BY <4>2
    <3>3. QED
      BY <3>1, <3>2
  <2>2. ASSUME NothingIsDoubled, NEW r \in DOMAIN g.supports, NEW s \in DOMAIN g.supports,
               g.supports[r].node = g.supports[s].node
        PROVE  r = s
    <3>1. CASE r \in DOMAIN f.supports /\ s \in DOMAIN f.supports
      BY <1>2, <2>2, <3>1 DEF Grows, Framed, SupportsIn
    <3>2. CASE r \in DOMAIN f.supports /\ s \notin DOMAIN f.supports
      <4>1. PICK k \in 1..Len(entries) : s = f.nextId.supports + k - 1
        BY <1>2, <3>2 DEF Grows
      <4>2. g.supports[s] = entries[k] /\ g.supports[r] = f.supports[r]
        BY <1>2, <3>2, <4>1 DEF Grows
      <4>3. QED
        BY <2>2, <3>2, <4>2 DEF Range
    <3>3. CASE r \notin DOMAIN f.supports /\ s \in DOMAIN f.supports
      <4>1. PICK k \in 1..Len(entries) : r = f.nextId.supports + k - 1
        BY <1>2, <3>3 DEF Grows
      <4>2. g.supports[r] = entries[k] /\ g.supports[s] = f.supports[s]
        BY <1>2, <3>3, <4>1 DEF Grows
      <4>3. QED
        <5>1. entries[k].node # f.supports[s].node
          BY <3>3
        <5>2. QED
          BY <2>2, <4>2, <5>1
    <3>4. CASE r \notin DOMAIN f.supports /\ s \notin DOMAIN f.supports
      <4>1. PICK k \in 1..Len(entries) : r = f.nextId.supports + k - 1
        BY <1>2, <3>4 DEF Grows
      <4>2. PICK j \in 1..Len(entries) : s = f.nextId.supports + j - 1
        BY <1>2, <3>4 DEF Grows
      <4>3. g.supports[r] = entries[k] /\ g.supports[s] = entries[j]
        BY <1>2, <4>1, <4>2 DEF Grows
      <4>4. QED
        BY <2>2, <4>1, <4>2, <4>3
    <3>5. QED
      BY <3>1, <3>2, <3>3, <3>4
  <2>3. QED
    BY <1>2, <2>1, <2>2 DEF SupportsIn
<1>4. QED
  BY <1>1, <1>3 DEF Framed, Gains

LEMMA LoadsGained ==
    ASSUME NEW f, Framed(f), NEW entries, NEW g, Gains(f, g, "loads", entries),
           \A k \in 1..Len(entries) : Load(entries[k], DOMAIN f.nodes, DOMAIN f.elements)
    PROVE  Framed(g)
<1>1. /\ g.nodes = f.nodes /\ g.nextId.nodes = f.nextId.nodes
      /\ g.elements = f.elements /\ g.nextId.elements = f.nextId.elements
      /\ g.supports = f.supports /\ g.nextId.supports = f.nextId.supports
      /\ g.sections = f.sections /\ g.nextId.sections = f.nextId.sections
  BY DEF Gains, Kinds
<1>2. /\ Grows(f.loads, g.loads, f.nextId.loads, entries)
      /\ Ids(DOMAIN g.loads, g.nextId.loads)
  BY DEF Gains
<1>3. LoadsIn(g.loads, g.nextId.loads, DOMAIN f.nodes, DOMAIN f.elements)
  BY <1>2 DEF Grows, Framed, LoadsIn
<1>4. QED
  BY <1>1, <1>3 DEF Framed, Gains

LEMMA SectionsGained ==
    ASSUME NEW f, Framed(f), NEW entries, NEW g, Gains(f, g, "sections", entries),
           \A k, l \in 1..Len(entries) : entries[k] = entries[l] => k = l,
           \A k \in 1..Len(entries) : entries[k] \notin Range(f.sections)
    PROVE  Framed(g) /\ DOMAIN f.sections \subseteq DOMAIN g.sections
<1>1. /\ g.nodes = f.nodes /\ g.nextId.nodes = f.nextId.nodes
      /\ g.elements = f.elements /\ g.nextId.elements = f.nextId.elements
      /\ g.supports = f.supports /\ g.nextId.supports = f.nextId.supports
      /\ g.loads = f.loads /\ g.nextId.loads = f.nextId.loads
  BY DEF Gains, Kinds
<1>2. /\ Grows(f.sections, g.sections, f.nextId.sections, entries)
      /\ Ids(DOMAIN g.sections, g.nextId.sections)
  BY DEF Gains
<1>3. DOMAIN f.sections \subseteq DOMAIN g.sections
  BY <1>2 DEF Grows
<1>4. SectionsIn(g.sections, g.nextId.sections)
  <2>1. ASSUME NothingIsDoubled, NEW r \in DOMAIN g.sections, NEW s \in DOMAIN g.sections,
               g.sections[r] = g.sections[s]
        PROVE  r = s
    <3>1. CASE r \in DOMAIN f.sections /\ s \in DOMAIN f.sections
      BY <1>2, <2>1, <3>1 DEF Grows, Framed, SectionsIn, IsInjective
    <3>2. CASE r \in DOMAIN f.sections /\ s \notin DOMAIN f.sections
      <4>1. PICK k \in 1..Len(entries) : s = f.nextId.sections + k - 1
        BY <1>2, <3>2 DEF Grows
      <4>2. g.sections[s] = entries[k] /\ g.sections[r] = f.sections[r]
        BY <1>2, <3>2, <4>1 DEF Grows
      <4>3. QED
        BY <2>1, <3>2, <4>2 DEF Range
    <3>3. CASE r \notin DOMAIN f.sections /\ s \in DOMAIN f.sections
      <4>1. PICK k \in 1..Len(entries) : r = f.nextId.sections + k - 1
        BY <1>2, <3>3 DEF Grows
      <4>2. g.sections[r] = entries[k] /\ g.sections[s] = f.sections[s]
        BY <1>2, <3>3, <4>1 DEF Grows
      <4>3. QED
        <5>1. entries[k] # f.sections[s]
          BY <3>3 DEF Range
        <5>2. QED
          BY <2>1, <4>2, <5>1
    <3>4. CASE r \notin DOMAIN f.sections /\ s \notin DOMAIN f.sections
      <4>1. PICK k \in 1..Len(entries) : r = f.nextId.sections + k - 1
        BY <1>2, <3>4 DEF Grows
      <4>2. PICK j \in 1..Len(entries) : s = f.nextId.sections + j - 1
        BY <1>2, <3>4 DEF Grows
      <4>3. g.sections[r] = entries[k] /\ g.sections[s] = entries[j]
        BY <1>2, <4>1, <4>2 DEF Grows
      <4>4. QED
        BY <2>1, <4>1, <4>2, <4>3
    <3>5. QED
      BY <3>1, <3>2, <3>3, <3>4
  <2>2. QED
    BY <1>2, <1>3, <2>1 DEF SectionsIn, IsInjective, Framed
<1>5. BarsIn(f.elements, f.nextId.elements, DOMAIN f.nodes, DOMAIN g.sections)
  BY <1>3 DEF Framed, BarsIn, Bar
<1>6. QED
  BY <1>1, <1>3, <1>4, <1>5 DEF Framed, Gains

-----------------------------------------------------------------------------
(***************************************************************************)
(* What a frame is asked for: its lines and levels, the node at a place,   *)
(* and the section of a name.                                              *)
(***************************************************************************)

LEMMA MeasuresAre ==
    ASSUME NEW f, Framed(f)
    PROVE  /\ IsFiniteSet(DOMAIN f.nodes) /\ DOMAIN f.nodes \subseteq Nat
           /\ Xs(f) \subseteq Int /\ IsFiniteSet(Xs(f))
           /\ Ys(f) \subseteq Int /\ IsFiniteSet(Ys(f))
           /\ \A n \in DOMAIN f.nodes : f.nodes[n].x \in Xs(f) /\ f.nodes[n].y \in Ys(f)
<1>1. /\ Ids(DOMAIN f.nodes, f.nextId.nodes)
      /\ \A n \in DOMAIN f.nodes : f.nodes[n].x \in Int /\ f.nodes[n].y \in Int
  BY DEF Framed, NodesIn
<1>2. IsFiniteSet(DOMAIN f.nodes) /\ DOMAIN f.nodes \subseteq Nat
  BY <1>1, IdsAreFinite DEF Ids
<1>3. Xs(f) = {f.nodes[n].x : n \in DOMAIN f.nodes} /\ Ys(f) = {f.nodes[n].y : n \in DOMAIN f.nodes}
  BY DEF Xs, Ys, Range
<1>4. [n \in DOMAIN f.nodes |-> f.nodes[n].x] \in Surjection(DOMAIN f.nodes, Xs(f))
  BY <1>3 DEF Surjection
<1>5. [n \in DOMAIN f.nodes |-> f.nodes[n].y] \in Surjection(DOMAIN f.nodes, Ys(f))
  BY <1>3 DEF Surjection
<1>6. IsFiniteSet(Xs(f)) /\ IsFiniteSet(Ys(f))
  BY <1>2, <1>4, <1>5, FS_Surjection
<1>7. QED
  BY <1>1, <1>2, <1>3, <1>6

LEMMA NodeAtIsThere ==
    ASSUME NEW f, Framed(f), NEW x, NEW y, NodesAt(f, x, y) # {}
    PROVE  NodeAt(f, x, y) \in DOMAIN f.nodes
<1>1. NodesAt(f, x, y) \subseteq Nat /\ NodesAt(f, x, y) \subseteq DOMAIN f.nodes
  BY MeasuresAre DEF NodesAt
<1>2. QED
  BY <1>1, LeastOf DEF NodeAt

\* The same but for sections, of which there may be more.
Widens(f, g) ==
    /\ Framed(g)
    /\ \A map \in {"nodes", "elements", "supports", "loads"} :
           g[map] = f[map] /\ g.nextId[map] = f.nextId[map]
    /\ g.cases = f.cases /\ g.nextId.cases = f.nextId.cases
    /\ DOMAIN f.sections \subseteq DOMAIN g.sections
    /\ Range(f.sections) \subseteq Range(g.sections)

LEMMA WithSectionWidens ==
    ASSUME NEW f, Framed(f), NEW name
    PROVE  /\ Widens(f, WithSection(f, name))
           /\ name = None \/ name \in Range(WithSection(f, name).sections)
<1> DEFINE g == WithSection(f, name)
<1>1. CASE name = None \/ name \in Range(f.sections)
  BY <1>1 DEF WithSection, Widens
<1>2. CASE ~(name = None \/ name \in Range(f.sections))
  <2>1. g = Appended(f, "sections", <<name>>)
    BY <1>2 DEF WithSection
  <2>2. <<name>> \in Seq({name}) /\ Len(<<name>>) = 1 /\ <<name>>[1] = name
    OBVIOUS
  <2> HIDE DEF g
  <2>3. Gains(f, g, "sections", <<name>>)
    BY <2>1, <2>2, AppendedGains DEF Framed, SectionsIn, Kinds
  <2>4. Framed(g) /\ DOMAIN f.sections \subseteq DOMAIN g.sections
    BY <1>2, <2>2, <2>3, SectionsGained
  <2>5. /\ \A id \in DOMAIN f.sections : g.sections[id] = f.sections[id]
        /\ \E id \in DOMAIN g.sections : g.sections[id] = name
    <3>1. Grows(f.sections, g.sections, f.nextId.sections, <<name>>) /\ 1 \in 1..Len(<<name>>)
      BY <2>2, <2>3 DEF Gains
    <3>2. QED
      BY <2>2, <3>1 DEF Grows
  <2>6. Range(f.sections) \subseteq Range(g.sections) /\ name \in Range(g.sections)
    BY <2>4, <2>5 DEF Range
  <2>7. Widens(f, g)
    BY <2>3, <2>4, <2>6 DEF Widens, Gains, Kinds
  <2>8. QED
    BY <2>6, <2>7 DEF g
<1>3. QED
  BY <1>1, <1>2

LEMMA SectionIdIsThere ==
    ASSUME NEW g, Framed(g), DOMAIN g.sections # {}, NEW name,
           name = None \/ name \in Range(g.sections)
    PROVE  SectionId(g, name) \in DOMAIN g.sections
<1> DEFINE named == {s \in DOMAIN g.sections : g.sections[s] = name}
<1>1. DOMAIN g.sections \subseteq Nat
  BY DEF Framed, SectionsIn, Ids
<1>2. CASE name = None
  BY <1>1, <1>2, LeastOf DEF SectionId
<1>3. CASE name # None
  <2>1. named # {} /\ named \subseteq Nat
    BY <1>1, <1>3 DEF Range
  <2>2. SectionId(g, name) = Min(named)
    BY <1>3 DEF SectionId
  <2> HIDE DEF named
  <2>3. Min(named) \in named
    BY <2>1, LeastOf
  <2>4. QED
    BY <2>2, <2>3 DEF named
<1>4. QED
  BY <1>2, <1>3

\* The frame an edit with two names starts from, and the ids of their sections.
LEMMA WithTwoSections ==
    ASSUME NEW f, Framed(f), DOMAIN f.sections # {}, NEW beam, NEW column,
           NEW g, g = WithSection(WithSection(f, beam), column)
    PROVE  /\ Widens(f, g)
           /\ SectionId(g, beam) \in DOMAIN g.sections
           /\ SectionId(g, column) \in DOMAIN g.sections
<1> DEFINE h == WithSection(f, beam)
<1>1. Widens(f, h) /\ (beam = None \/ beam \in Range(h.sections))
  BY WithSectionWidens
<1>2. Widens(h, g) /\ (column = None \/ column \in Range(g.sections))
  <2> HIDE DEF h
  <2>1. Framed(h)
    BY <1>1 DEF Widens
  <2>2. g = WithSection(h, column)
    BY DEF h
  <2>3. QED
    BY <2>1, <2>2, WithSectionWidens
<1> HIDE DEF h
<1>3. Widens(f, g)
  BY <1>1, <1>2 DEF Widens
<1>4. Framed(g) /\ DOMAIN g.sections # {} /\ (beam = None \/ beam \in Range(g.sections))
  BY <1>1, <1>2, <1>3 DEF Widens
<1>5. QED
  BY <1>2, <1>3, <1>4, SectionIdIsThere

-----------------------------------------------------------------------------
(***************************************************************************)
(* A bay or a storey more.  The nodes of the new line are new, and every   *)
(* new bar ends at one of them.                                            *)
(***************************************************************************)

BarSet(N, S) == [i : N, j : N, section : S]

\* The nodes of a new line: of N, none of those of Old, none twice.
NewLine(node, n, N, Old) ==
    /\ \A k \in 1..n : node[k] \in N \ Old
    /\ \A k, l \in 1..n : node[k] = node[l] => k = l

IsASequence(s) == \E S : s \in Seq(S)

\* What an edit makes of a frame: a frame, with the same load cases.
Edited(f, h) == Framed(h) /\ h.cases = f.cases /\ h.nextId.cases = f.nextId.cases

\* Bars to nodes of N that are none of those of Old, with no two between the same nodes.
NewBars(bars, Old, N, S) ==
    /\ IsASequence(bars)
    /\ \A a \in 1..Len(bars) : Bar(bars[a], N, S) /\ bars[a].j \notin Old
    /\ \A a, b \in 1..Len(bars) : Ends(bars[a]) = Ends(bars[b]) => a = b

\* Places beside or above a frame, and the ids of the nodes that go there.
NewPlaces(f, n, places, node) ==
    /\ IsASequence(places) /\ n \in Nat /\ Len(places) = n
    /\ \A k \in 1..n :
           /\ places[k].x \in Int /\ places[k].y \in Int
           /\ places[k].x \notin Xs(f) \/ places[k].y \notin Ys(f)
           /\ node[k] = f.nextId.nodes + k - 1
    /\ \A k, l \in 1..n : places[k] = places[l] => k = l

LEMMA PairOf ==
    ASSUME NEW S, NEW a \in S, NEW b \in S
    PROVE  /\ <<a>> \o <<b>> \in Seq(S) /\ DOMAIN (<<a>> \o <<b>>) = {1, 2}
           /\ (<<a>> \o <<b>>)[1] = a /\ (<<a>> \o <<b>>)[2] = b
           /\ <<a>> \o <<>> = <<a>> /\ <<a>> \in Seq(S) /\ DOMAIN <<a>> = {1}
<1>1. <<a>> \in Seq(S) /\ <<b>> \in Seq(S) /\ Len(<<a>>) = 1 /\ Len(<<b>>) = 1
      /\ <<a>>[1] = a /\ <<b>>[1] = b
  OBVIOUS
<1>2. <<a>> \o <<b>> \in Seq(S) /\ Len(<<a>> \o <<b>>) = 2
      /\ \A i \in 1..2 : (<<a>> \o <<b>>)[i] = IF i <= 1 THEN <<a>>[i] ELSE <<b>>[i - 1]
  BY <1>1, ConcatProperties
<1>3. DOMAIN (<<a>> \o <<b>>) = 1..2 /\ DOMAIN <<a>> = 1..1
  BY <1>1, <1>2, LenProperties
<1>4. <<a>> \o <<>> = <<a>>
  BY <1>1, ConcatEmptySeq
<1>5. 1 \in 1..2 /\ 2 \in 1..2 /\ 1..2 = {1, 2} /\ 1..1 = {1}
  OBVIOUS
<1>6. (<<a>> \o <<b>>)[1] = a /\ (<<a>> \o <<b>>)[2] = b
  BY <1>1, <1>2, <1>5
<1>7. QED
  BY <1>1, <1>2, <1>3, <1>4, <1>5, <1>6

LEMMA BayBarsAre ==
    ASSUME NEW f, Framed(f), NEW N, DOMAIN f.nodes \subseteq N, NEW S,
           NEW beside, NEW floors, Len(floors) \in Nat, NEW node,
           NewLine(node, Len(floors), N, DOMAIN f.nodes),
           NEW beam \in S, NEW column \in S,
           NEW bars, bars = BayBars(f, beside, floors, node, beam, column)
    PROVE  NewBars(bars, DOMAIN f.nodes, N, S)
<1> DEFINE n == Len(floors)
           Beamed(k) == NodesAt(f, beside, floors[k + 1]) # {}
           col(k) == Frame(node[k], node[k + 1], column)
           bm(k) == Frame(NodeAt(f, beside, floors[k + 1]), node[k + 1], beam)
           piece(k) == <<col(k)>> \o (IF NodesAt(f, beside, floors[k + 1]) = {} THEN <<>> ELSE <<bm(k)>>)
           seqs == [k \in 1..(n - 1) |-> piece(k)]
<1>1. bars = FlattenSeq(seqs)
  BY DEF BayBars
<1>2. ASSUME NEW k \in 1..(n - 1)
      PROVE  /\ k \in 1..n /\ k + 1 \in 1..n
             /\ node[k] \in N \ DOMAIN f.nodes /\ node[k + 1] \in N \ DOMAIN f.nodes
             /\ node[k] # node[k + 1]
  <2>1. k \in 1..n /\ k + 1 \in 1..n /\ k # k + 1
    OBVIOUS
  <2>2. QED
    BY <2>1 DEF NewLine
<1>3. ASSUME NEW k \in 1..(n - 1)
      PROVE  /\ col(k) \in BarSet(N, S) /\ col(k).i = node[k] /\ col(k).j = node[k + 1]
             /\ Bar(col(k), N, S)
  BY <1>2 DEF Frame, BarSet, Bar
<1>4. ASSUME NEW k \in 1..(n - 1), Beamed(k)
      PROVE  /\ bm(k) \in BarSet(N, S) /\ bm(k).i \in DOMAIN f.nodes /\ bm(k).j = node[k + 1]
             /\ Bar(bm(k), N, S)
  <2>1. NodeAt(f, beside, floors[k + 1]) \in DOMAIN f.nodes
    BY <1>4, NodeAtIsThere
  <2>2. QED
    BY <1>2, <2>1 DEF Frame, BarSet, Bar
<1> HIDE DEF col, bm
<1>5. ASSUME NEW k \in 1..(n - 1)
      PROVE  /\ piece(k) \in Seq(BarSet(N, S)) /\ IsInjective(piece(k))
             /\ \A a \in DOMAIN piece(k) : piece(k)[a] = col(k) \/ (Beamed(k) /\ piece(k)[a] = bm(k))
  <2>1. CASE Beamed(k)
    <3>1. piece(k) = <<col(k)>> \o <<bm(k)>>
      BY <2>1
    <3>2. col(k) # bm(k)
      BY <1>2, <1>3, <1>4, <2>1
    <3> HIDE DEF piece, Beamed
    <3>3. col(k) \in BarSet(N, S) /\ bm(k) \in BarSet(N, S)
      BY <1>3, <1>4, <2>1
    <3>4. piece(k) \in Seq(BarSet(N, S)) /\ DOMAIN piece(k) = {1, 2}
          /\ piece(k)[1] = col(k) /\ piece(k)[2] = bm(k)
      <4> DEFINE c == col(k)  b == bm(k)
      <4>1. c \in BarSet(N, S) /\ b \in BarSet(N, S) /\ piece(k) = <<c>> \o <<b>>
        BY <3>1, <3>3
      <4> HIDE DEF c, b
      <4>2. piece(k) \in Seq(BarSet(N, S)) /\ DOMAIN piece(k) = {1, 2}
            /\ piece(k)[1] = c /\ piece(k)[2] = b
        BY <4>1, PairOf
      <4>3. QED
        BY <4>2 DEF c, b
    <3>5. QED
      BY <2>1, <3>2, <3>4 DEF IsInjective
  <2>2. CASE ~Beamed(k)
    <3>1. piece(k) = <<col(k)>> \o <<>>
      BY <2>2
    <3> HIDE DEF piece, Beamed
    <3>2. piece(k) \in Seq(BarSet(N, S)) /\ DOMAIN piece(k) = {1} /\ piece(k)[1] = col(k)
      <4> DEFINE c == col(k)
      <4>1. c \in BarSet(N, S) /\ piece(k) = <<c>> \o <<>>
        BY <1>3, <3>1
      <4> HIDE DEF c
      <4>2. piece(k) = <<c>>
        BY <4>1, PairOf
      <4>3. piece(k) \in Seq(BarSet(N, S)) /\ DOMAIN piece(k) = {1} /\ piece(k)[1] = c
        BY <4>1, <4>2
      <4>4. QED
        BY <4>3 DEF c
    <3>3. QED
      BY <3>2 DEF IsInjective
  <2>3. QED
    BY <2>1, <2>2
<1> HIDE DEF piece, Beamed
<1>6. ASSUME NEW k \in 1..(n - 1), NEW a \in DOMAIN piece(k)
      PROVE  /\ Bar(piece(k)[a], N, S) /\ piece(k)[a].j = node[k + 1]
             /\ piece(k)[a].i = node[k] \/ piece(k)[a].i \in DOMAIN f.nodes
             /\ piece(k)[a].i = node[k] => piece(k)[a] = col(k)
             /\ piece(k)[a].i \in DOMAIN f.nodes => piece(k)[a] = bm(k)
  BY <1>2, <1>3, <1>4, <1>5
<1>7. n \in Nat /\ (n - 1 \in Nat \/ n = 0)
  OBVIOUS
<1>8. seqs \in Seq(Seq(BarSet(N, S))) /\ DOMAIN seqs = 1..(n - 1) /\ 1..Len(seqs) = 1..(n - 1)
  <2>1. PICK m \in Nat : 1..m = 1..(n - 1)
    <3>1. CASE n = 0
      <4>1. 0 \in Nat /\ 1..0 = 1..(n - 1)
        BY <3>1
      <4>2. QED
        BY <4>1
    <3>2. CASE n # 0
      BY <1>7, <3>2
    <3>3. QED
      BY <3>1, <3>2
  <2>2. seqs \in [1..m -> Seq(BarSet(N, S))] /\ DOMAIN seqs = 1..(n - 1)
    BY <1>5, <2>1
  <2>3. seqs \in Seq(Seq(BarSet(N, S)))
    BY <2>2, SeqDef
  <2> HIDE DEF seqs, n
  <2>4. DOMAIN seqs = 1..Len(seqs)
    BY <2>3, LenProperties
  <2>5. QED
    BY <2>2, <2>3, <2>4
<1>9. \A k \in 1..(n - 1) : seqs[k] = piece(k)
  OBVIOUS
<1> HIDE DEF seqs, n
<1>10. \A k, l \in 1..(n - 1) : node[k + 1] = node[l + 1] => k = l
  <2> SUFFICES ASSUME NEW k \in 1..(n - 1), NEW l \in 1..(n - 1), node[k + 1] = node[l + 1]
               PROVE  k = l
    OBVIOUS
  <2>1. k + 1 = l + 1
    BY <1>2 DEF NewLine, n
  <2>2. QED
    BY <1>7, <2>1
<1>11. \A k, l \in 1..(n - 1) : \A a \in DOMAIN seqs[k], b \in DOMAIN seqs[l] :
           seqs[k][a] = seqs[l][b] => k = l
  BY <1>6, <1>9, <1>10
<1>12. /\ FlattenSeq(seqs) \in Seq(BarSet(N, S)) /\ IsInjective(FlattenSeq(seqs))
       /\ \A a \in DOMAIN FlattenSeq(seqs) :
              \E k \in 1..(n - 1) : \E b \in DOMAIN seqs[k] : FlattenSeq(seqs)[a] = seqs[k][b]
  <2>1. \A k \in 1..Len(seqs) : IsInjective(seqs[k])
    BY <1>5, <1>8, <1>9
  <2>2. QED
    BY <1>8, <1>11, <2>1, FlattenedOnce
<1>13. bars \in Seq(BarSet(N, S)) /\ DOMAIN bars = 1..Len(bars) /\ IsInjective(bars)
  BY <1>1, <1>12, LenProperties
<1>14. ASSUME NEW a \in 1..Len(bars)
       PROVE  \E k \in 1..(n - 1) : \E b \in DOMAIN piece(k) : bars[a] = piece(k)[b]
  BY <1>1, <1>9, <1>12, <1>13
<1>15. ASSUME NEW a \in 1..Len(bars)
       PROVE  Bar(bars[a], N, S) /\ bars[a].j \notin DOMAIN f.nodes
  BY <1>2, <1>6, <1>14
<1>16. ASSUME NEW a \in 1..Len(bars), NEW b \in 1..Len(bars), Ends(bars[a]) = Ends(bars[b])
       PROVE  a = b
  <2>1. PICK k \in 1..(n - 1) : \E x \in DOMAIN piece(k) : bars[a] = piece(k)[x]
    BY <1>14
  <2>2. PICK l \in 1..(n - 1) : \E x \in DOMAIN piece(l) : bars[b] = piece(l)[x]
    BY <1>14
  <2>3. /\ bars[a].j = node[k + 1] /\ (bars[a].i = node[k] \/ bars[a].i \in DOMAIN f.nodes)
        /\ bars[a].i = node[k] => bars[a] = col(k)
        /\ bars[a].i \in DOMAIN f.nodes => bars[a] = bm(k)
    BY <1>6, <2>1
  <2>4. /\ bars[b].j = node[l + 1] /\ (bars[b].i = node[l] \/ bars[b].i \in DOMAIN f.nodes)
        /\ bars[b].i = node[l] => bars[b] = col(l)
        /\ bars[b].i \in DOMAIN f.nodes => bars[b] = bm(l)
    BY <1>6, <2>2
  <2>5. {bars[a].i, bars[a].j} = {bars[b].i, bars[b].j}
    BY <1>16 DEF Ends
  <2>6. /\ node[k] \notin DOMAIN f.nodes /\ node[k + 1] \notin DOMAIN f.nodes
        /\ node[l] \notin DOMAIN f.nodes /\ node[l + 1] \notin DOMAIN f.nodes
    BY <1>2
  <2>7. CASE bars[a].i \in DOMAIN f.nodes
    <3>1. bars[b].i \in DOMAIN f.nodes /\ bars[b].j = bars[a].j
      BY <2>3, <2>4, <2>5, <2>6, <2>7
    <3>2. k = l
      BY <1>10, <2>3, <2>4, <3>1
    <3>3. bars[a] = bars[b]
      BY <2>3, <2>4, <2>7, <3>1, <3>2
    <3>4. QED
      BY <1>13, <3>3 DEF IsInjective
  <2>8. CASE bars[a].i \notin DOMAIN f.nodes
    <3>1. bars[a].i = node[k] /\ bars[b].i = node[l]
      BY <2>3, <2>4, <2>5, <2>6, <2>8
    <3>2. {node[k], node[k + 1]} = {node[l], node[l + 1]}
      BY <2>3, <2>4, <2>5, <3>1
    <3>3. k = l
      <4>1. k \in 1..n /\ k + 1 \in 1..n /\ l \in 1..n /\ l + 1 \in 1..n
        BY <1>2
      <4>2. (node[k] = node[l] /\ k = l) \/ (node[k] = node[l + 1] /\ node[k + 1] = node[l])
        BY <3>2, <4>1 DEF NewLine, n
      <4>3. ~(k = l + 1 /\ k + 1 = l)
        BY <1>7
      <4>4. QED
        BY <4>1, <4>2, <4>3 DEF NewLine, n
    <3>4. bars[a] = bars[b]
      BY <2>3, <2>4, <3>1, <3>3
    <3>5. QED
      BY <1>13, <3>4 DEF IsInjective
  <2>9. QED
    BY <2>7, <2>8
<1>17. QED
  BY <1>13, <1>15, <1>16 DEF NewBars, IsASequence

\* Nodes go on a line, one at each of some places.
LEMMA LineOfNodes ==
    ASSUME NEW f, Framed(f), NEW g, Widens(f, g), NEW n, NEW places, NEW node,
           NewPlaces(f, n, places, node),
           NEW raised, raised = Appended(g, "nodes", places)
    PROVE  /\ Framed(raised) /\ DOMAIN f.nodes \subseteq DOMAIN raised.nodes
           /\ NewLine(node, n, DOMAIN raised.nodes, DOMAIN f.nodes)
           /\ raised.elements = f.elements /\ raised.supports = f.supports
           /\ raised.sections = g.sections
           /\ raised.cases = f.cases /\ raised.nextId.cases = f.nextId.cases
<1>1. /\ IsASequence(places) /\ n \in Nat /\ Len(places) = n
      /\ \A k \in 1..n : places[k].x \in Int /\ places[k].y \in Int
      /\ \A k \in 1..n : places[k].x \notin Xs(f) \/ places[k].y \notin Ys(f)
      /\ \A k \in 1..n : node[k] = f.nextId.nodes + k - 1
      /\ \A k, l \in 1..n : places[k] = places[l] => k = l
  BY DEF NewPlaces
<1>2. /\ Framed(g) /\ g.nodes = f.nodes /\ g.nextId.nodes = f.nextId.nodes
      /\ g.elements = f.elements /\ g.supports = f.supports
      /\ g.cases = f.cases /\ g.nextId.cases = f.nextId.cases
  BY DEF Widens
<1>3. Gains(g, raised, "nodes", places)
  BY <1>1, <1>2, AppendedGains DEF Framed, NodesIn, Kinds, IsASequence
<1>4. \A k \in 1..n : \A m \in DOMAIN g.nodes : places[k] # g.nodes[m]
  <2>1. \A m \in DOMAIN f.nodes : f.nodes[m].x \in Xs(f) /\ f.nodes[m].y \in Ys(f)
    BY MeasuresAre
  <2>2. QED
    BY <1>1, <1>2, <2>1
<1>5. Framed(raised)
  <2>1. /\ \A k \in 1..Len(places) : places[k].x \in Int /\ places[k].y \in Int
        /\ \A k, l \in 1..Len(places) : places[k] = places[l] => k = l
        /\ \A k \in 1..Len(places) : \A m \in DOMAIN g.nodes : places[k] # g.nodes[m]
    BY <1>1, <1>4
  <2>2. Framed(g) /\ Gains(g, raised, "nodes", places)
    BY <1>2, <1>3
  <2>3. QED
    BY ONLY <2>1, <2>2, NodesGained
<1>6. Grows(f.nodes, raised.nodes, f.nextId.nodes, places)
  BY <1>2, <1>3 DEF Gains
<1>7. f.nextId.nodes \in Nat
  BY DEF Framed, NodesIn, Ids
<1>8. NewLine(node, n, DOMAIN raised.nodes, DOMAIN f.nodes)
  <2>1. ASSUME NEW k \in 1..n
        PROVE  node[k] = f.nextId.nodes + k - 1 /\ node[k] \in DOMAIN raised.nodes \ DOMAIN f.nodes
    BY <1>1, <1>6 DEF Grows
  <2>2. ASSUME NEW k \in 1..n, NEW l \in 1..n, node[k] = node[l] PROVE k = l
    BY <1>7, <2>1, <2>2
  <2>3. QED
    BY <2>1, <2>2 DEF NewLine
<1>9. DOMAIN f.nodes \subseteq DOMAIN raised.nodes
  BY <1>6 DEF Grows
<1>10. QED
  BY <1>2, <1>3, <1>5, <1>8, <1>9 DEF Gains, Kinds

\* Bars go to a frame, each with an end that no bar had.
LEMMA BarsToNewNodes ==
    ASSUME NEW f, Framed(f), NEW Old,
           \A e \in DOMAIN f.elements : Ends(f.elements[e]) \subseteq Old,
           NEW bars, NewBars(bars, Old, DOMAIN f.nodes, DOMAIN f.sections),
           NEW h, h = Appended(f, "elements", bars)
    PROVE  /\ Framed(h) /\ h.nodes = f.nodes /\ h.supports = f.supports /\ h.sections = f.sections
           /\ h.cases = f.cases /\ h.nextId.cases = f.nextId.cases
           /\ Grows(f.elements, h.elements, f.nextId.elements, bars)
<1>1. Gains(f, h, "elements", bars)
  BY AppendedGains DEF Framed, BarsIn, Kinds, NewBars, IsASequence
<1>2. /\ \A a \in 1..Len(bars) : Bar(bars[a], DOMAIN f.nodes, DOMAIN f.sections)
      /\ \A a, b \in 1..Len(bars) : Ends(bars[a]) = Ends(bars[b]) => a = b
      /\ \A a \in 1..Len(bars) : bars[a].j \in Ends(bars[a]) /\ bars[a].j \notin Old
  BY DEF NewBars, Ends
<1>3. \A a \in 1..Len(bars) : \A e \in DOMAIN f.elements : Ends(bars[a]) # Ends(f.elements[e])
  BY <1>2
<1>4. Framed(h)
  BY <1>1, <1>2, <1>3, BarsGained
<1>5. QED
  BY <1>1, <1>4 DEF Gains, Kinds

LEMMA AddBayIsFramed ==
    ASSUME NEW f, Framed(f), DOMAIN f.sections # {}, CanAddBay(f), NEW width \in Nat \ {0},
           NEW side, NEW beam, NEW column, NEW h, h = AddBay(f, width, side, beam, column)
    PROVE  Edited(f, h)
<1> DEFINE floors == Ascending(Ys(f))
           n == Cardinality(Ys(f))
           beside == IF side = "left" THEN Min(Xs(f)) ELSE Max(Xs(f))
           x == IF side = "left" THEN beside - width ELSE beside + width
           node == [k \in DOMAIN floors |-> f.nextId.nodes + k - 1]
           g == WithSection(WithSection(f, beam), column)
           bars == BayBars(f, beside, floors, node, SectionId(g, beam), SectionId(g, column))
           places == [k \in DOMAIN floors |-> [x |-> x, y |-> floors[k]]]
           raised == Appended(g, "nodes", places)
           joined == Appended(raised, "elements", bars)
<1>1. h = Appended(joined, "supports", <<Fixed(node[1])>>)
  BY DEF AddBay
<1>2. /\ n \in Nat /\ n >= 2 /\ DOMAIN floors = 1..n /\ Len(floors) = n
      /\ \A k \in 1..n : floors[k] \in Int
      /\ \A k, l \in 1..n : floors[k] = floors[l] => k = l
  <2>1. Ys(f) \subseteq Int /\ IsFiniteSet(Ys(f)) /\ n >= 2
    BY MeasuresAre DEF CanAddBay
  <2>2. /\ n \in Nat /\ DOMAIN floors = 1..n /\ Len(floors) = n
        /\ \A k \in 1..n : floors[k] \in Ys(f)
        /\ \A k, l \in 1..n : floors[k] = floors[l] => k = l
    BY <2>1, AscendingOf
  <2>3. QED
    BY <2>1, <2>2
<1>3. x \in Int /\ x \notin Xs(f)
  <2>1. Ys(f) # {}
    <3>1. Cardinality(Ys(f)) # 0
      BY <1>2
    <3>2. QED
      BY ONLY <3>1, FS_EmptySet
  <2>2. Xs(f) # {}
    BY <2>1, MeasuresAre DEF Xs, Ys, Range
  <2>3. /\ Min(Xs(f)) \in Xs(f) /\ \A y \in Xs(f) : Min(Xs(f)) <= y
        /\ Max(Xs(f)) \in Xs(f) /\ \A y \in Xs(f) : Max(Xs(f)) >= y
        /\ Xs(f) \subseteq Int
    BY <2>2, MeasuresAre, LeastAndGreatest
  <2>4. CASE side = "left"
    <3>1. x = Min(Xs(f)) - width
      BY <2>4
    <3> HIDE DEF x
    <3>2. QED
      BY <2>3, <3>1
  <2>5. CASE side # "left"
    <3>1. x = Max(Xs(f)) + width
      BY <2>5
    <3> HIDE DEF x
    <3>2. QED
      BY <2>3, <3>1
  <2>6. QED
    BY <2>4, <2>5
<1>4. /\ Widens(f, g) /\ SectionId(g, beam) \in DOMAIN g.sections
      /\ SectionId(g, column) \in DOMAIN g.sections
  BY WithTwoSections
<1> HIDE DEF x, g, beside
<1>5. /\ \A k \in 1..n : places[k] = [x |-> x, y |-> floors[k]]
      /\ places \in [1..n -> {[x |-> x, y |-> floors[k]] : k \in 1..n}]
      /\ \A k \in 1..n : node[k] = f.nextId.nodes + k - 1
  BY <1>2, <1>3
<1> HIDE DEF places, floors, n, node
<1>6. NewPlaces(f, n, places, node)
  <2>1. IsASequence(places) /\ Len(places) = n
    <3>1. PICK P : places \in [1..n -> P]
      BY <1>5
    <3>2. places \in Seq(P) /\ DOMAIN places = 1..n
      BY <1>2, <3>1, SeqDef
    <3>3. QED
      BY <1>2, <3>2, LenProperties DEF IsASequence
  <2>2. ASSUME NEW k \in 1..n
        PROVE  places[k].x = x /\ places[k].y = floors[k]
    BY <1>5
  <2>3. \A k \in 1..n :
            /\ places[k].x \in Int /\ places[k].y \in Int
            /\ places[k].x \notin Xs(f) \/ places[k].y \notin Ys(f)
    BY <1>2, <1>3, <2>2
  <2>4. \A k, l \in 1..n : places[k] = places[l] => k = l
    <3> SUFFICES ASSUME NEW k \in 1..n, NEW l \in 1..n, places[k] = places[l] PROVE k = l
      OBVIOUS
    <3>1. floors[k] = floors[l]
      BY <2>2
    <3>2. QED
      BY <1>2, <3>1
  <2>5. QED
    BY <1>2, <1>5, <2>1, <2>3, <2>4 DEF NewPlaces
<1>7. /\ Framed(raised) /\ DOMAIN f.nodes \subseteq DOMAIN raised.nodes
      /\ NewLine(node, n, DOMAIN raised.nodes, DOMAIN f.nodes)
      /\ raised.elements = f.elements /\ raised.supports = f.supports
      /\ raised.sections = g.sections
      /\ raised.cases = f.cases /\ raised.nextId.cases = f.nextId.cases
  <2>1. Framed(f) /\ Widens(f, g) /\ raised = Appended(g, "nodes", places)
    BY <1>4
  <2> HIDE DEF raised
  <2>2. QED
    BY ONLY <1>6, <2>1, LineOfNodes
<1> HIDE DEF raised
<1>8. NewBars(bars, DOMAIN f.nodes, DOMAIN raised.nodes, DOMAIN raised.sections)
  <2>1. /\ bars = BayBars(f, beside, floors, node, SectionId(g, beam), SectionId(g, column))
        /\ Framed(f) /\ DOMAIN f.nodes \subseteq DOMAIN raised.nodes
        /\ Len(floors) \in Nat /\ NewLine(node, Len(floors), DOMAIN raised.nodes, DOMAIN f.nodes)
        /\ SectionId(g, beam) \in DOMAIN raised.sections
        /\ SectionId(g, column) \in DOMAIN raised.sections
    BY <1>2, <1>4, <1>7
  <2> HIDE DEF bars
  <2>2. QED
    BY ONLY <2>1, BayBarsAre
<1> HIDE DEF bars
<1>9. \A e \in DOMAIN raised.elements : Ends(raised.elements[e]) \subseteq DOMAIN f.nodes
  BY <1>7 DEF Framed, BarsIn, Bar, Ends
<1>10. /\ Framed(joined) /\ joined.nodes = raised.nodes /\ joined.supports = f.supports
       /\ joined.cases = f.cases /\ joined.nextId.cases = f.nextId.cases
  <2>1. joined = Appended(raised, "elements", bars) /\ Framed(raised)
    BY <1>7
  <2> HIDE DEF joined
  <2>2. /\ Framed(joined) /\ joined.nodes = raised.nodes /\ joined.supports = raised.supports
        /\ joined.cases = raised.cases /\ joined.nextId.cases = raised.nextId.cases
    BY ONLY <1>8, <1>9, <2>1, BarsToNewNodes
  <2>3. QED
    BY <1>7, <2>2
<1> HIDE DEF joined
<1>11. node[1] \in DOMAIN joined.nodes /\ node[1] \notin DOMAIN f.nodes
  BY <1>2, <1>7, <1>10 DEF NewLine
<1> DEFINE new == <<Fixed(node[1])>>
<1>12. /\ new \in Seq({Fixed(node[1])}) /\ Len(new) = 1 /\ new[1] = Fixed(node[1])
       /\ DOMAIN new[1] = {"node", "type"} /\ new[1].node = node[1]
  BY DEF Fixed
<1> HIDE DEF new
<1>13. Gains(joined, h, "supports", new)
  <2>1. h = Appended(joined, "supports", new)
    BY <1>1 DEF new
  <2>2. Shaped(joined) /\ "supports" \in Kinds
        /\ Ids(DOMAIN joined.supports, joined.nextId.supports)
    BY <1>10 DEF Framed, SupportsIn, Kinds
  <2>3. QED
    BY <1>12, <2>1, <2>2, AppendedGains
<1>14. \A s \in DOMAIN joined.supports : node[1] # joined.supports[s].node
  BY <1>10, <1>11 DEF Framed, SupportsIn
<1>15. Framed(h)
  BY <1>10, <1>11, <1>12, <1>13, <1>14, SupportsGained
<1>16. QED
  BY <1>10, <1>13, <1>15 DEF Gains, Kinds, Edited

LEMMA Listed ==
    ASSUME NEW m \in Int, NEW s, IsAMap(s), DOMAIN s = 1..m, NEW P, \A k \in 1..m : s[k] \in P
    PROVE  s \in Seq(P) /\ IsASequence(s) /\ 1..Len(s) = 1..m
<1>1. PICK l \in Nat : 1..l = 1..m
  <2>1. CASE m < 0
    <3>1. 0 \in Nat /\ 1..0 = 1..m
      BY <2>1
    <3>2. QED
      BY <3>1
  <2>2. CASE ~(m < 0)
    BY <2>2
  <2>3. QED
    BY <2>1, <2>2
<1>2. s \in [1..l -> P]
  BY <1>1 DEF IsAMap
<1>3. s \in Seq(P)
  BY <1>2, SeqDef
<1>4. 1..Len(s) = 1..m
  BY <1>3, LenProperties
<1>5. QED
  BY <1>3, <1>4 DEF IsASequence

LEMMA StoryColumnsAre ==
    ASSUME NEW f, Framed(f), NEW N, DOMAIN f.nodes \subseteq N, NEW S,
           NEW n \in Nat, NEW lines, DOMAIN lines = 1..n, NEW top, NEW node,
           NewLine(node, n, N, DOMAIN f.nodes), NEW column \in S,
           NEW bars, bars = StoryColumns(f, lines, top, node, column)
    PROVE  NewBars(bars, DOMAIN f.nodes, N, S)
           /\ \A a \in 1..Len(bars) : bars[a].i \in DOMAIN f.nodes
<1> DEFINE Met(k) == NodesAt(f, lines[k], top) # {}
           col(k) == Frame(NodeAt(f, lines[k], top), node[k], column)
           piece(k) == IF NodesAt(f, lines[k], top) = {} THEN <<>> ELSE <<col(k)>>
           seqs == [k \in DOMAIN lines |-> piece(k)]
           B == BarSet(N, S)
<1>1. bars = FlattenSeq(seqs)
  BY DEF StoryColumns
<1>2. ASSUME NEW k \in 1..n, Met(k)
      PROVE  /\ col(k) \in B /\ col(k).i \in DOMAIN f.nodes /\ col(k).j = node[k]
             /\ Bar(col(k), N, S) /\ node[k] \notin DOMAIN f.nodes
  <2>1. NodeAt(f, lines[k], top) \in DOMAIN f.nodes
    BY <1>2, NodeAtIsThere
  <2>2. node[k] \in N \ DOMAIN f.nodes
    BY DEF NewLine
  <2>3. QED
    BY <2>1, <2>2 DEF Frame, BarSet, Bar
<1> HIDE DEF col
<1>3. ASSUME NEW k \in 1..n
      PROVE  /\ piece(k) \in Seq(B) /\ IsInjective(piece(k))
             /\ \A a \in DOMAIN piece(k) : Met(k) /\ piece(k)[a] = col(k)
  <2> DEFINE c == col(k)
  <2>1. CASE Met(k)
    <3>1. c \in B /\ piece(k) = <<c>>
      BY <1>2, <2>1
    <3> HIDE DEF c, B, piece
    <3>2. piece(k) \in Seq(B) /\ DOMAIN piece(k) = {1} /\ piece(k)[1] = c
      BY <3>1, PairOf
    <3>3. QED
      BY <2>1, <3>2 DEF IsInjective, c
  <2>2. CASE ~Met(k)
    BY <2>2 DEF IsInjective
  <2>3. QED
    BY <2>1, <2>2
<1> HIDE DEF piece, Met, B
<1>4. seqs \in Seq(Seq(B)) /\ 1..Len(seqs) = 1..n /\ \A k \in 1..n : seqs[k] = piece(k)
  <2>1. IsAMap(seqs) /\ DOMAIN seqs = 1..n /\ \A k \in 1..n : seqs[k] = piece(k)
    BY DEF IsAMap
  <2>2. \A k \in 1..n : seqs[k] \in Seq(B)
    BY <1>3, <2>1
  <2> HIDE DEF seqs
  <2>3. seqs \in Seq(Seq(B)) /\ 1..Len(seqs) = 1..n
    BY <2>1, <2>2, Listed
  <2>4. QED
    BY <2>1, <2>3
<1> HIDE DEF seqs
<1>5. \A k, l \in 1..n : node[k] = node[l] => k = l
  BY DEF NewLine
<1>6. \A k, l \in 1..n : \A a \in DOMAIN seqs[k], b \in DOMAIN seqs[l] :
          seqs[k][a] = seqs[l][b] => k = l
  <2> SUFFICES ASSUME NEW k \in 1..n, NEW l \in 1..n,
                      NEW a \in DOMAIN seqs[k], NEW b \in DOMAIN seqs[l],
                      seqs[k][a] = seqs[l][b]
               PROVE  k = l
    OBVIOUS
  <2>1. Met(k) /\ Met(l) /\ col(k) = col(l)
    <3>1. a \in DOMAIN piece(k) /\ b \in DOMAIN piece(l) /\ piece(k)[a] = piece(l)[b]
      BY <1>4
    <3>2. QED
      BY <1>3, <3>1
  <2>2. node[k] = node[l]
    BY <1>2, <2>1
  <2>3. QED
    BY <1>5, <2>2
<1>7. /\ FlattenSeq(seqs) \in Seq(B) /\ IsInjective(FlattenSeq(seqs))
      /\ \A a \in DOMAIN FlattenSeq(seqs) :
             \E k \in 1..Len(seqs) : \E b \in DOMAIN seqs[k] : FlattenSeq(seqs)[a] = seqs[k][b]
  <2>1. \A k \in 1..Len(seqs) : IsInjective(seqs[k])
    BY <1>3, <1>4
  <2>2. \A k, l \in 1..Len(seqs) : \A a \in DOMAIN seqs[k], b \in DOMAIN seqs[l] :
            seqs[k][a] = seqs[l][b] => k = l
    BY <1>4, <1>6
  <2>3. seqs \in Seq(Seq(B))
    BY <1>4
  <2>4. QED
    BY ONLY <2>1, <2>2, <2>3, FlattenedOnce
<1>8. bars \in Seq(B) /\ DOMAIN bars = 1..Len(bars) /\ IsInjective(bars)
  BY <1>1, <1>7, LenProperties
<1>9. ASSUME NEW a \in 1..Len(bars) PROVE \E k \in 1..n : Met(k) /\ bars[a] = col(k)
  <2>1. PICK k \in 1..Len(seqs) : \E b \in DOMAIN seqs[k] : bars[a] = seqs[k][b]
    BY <1>1, <1>7, <1>8
  <2>2. k \in 1..n /\ \E b \in DOMAIN piece(k) : bars[a] = piece(k)[b]
    BY <1>4, <2>1
  <2>3. Met(k) /\ bars[a] = col(k)
    BY <1>3, <2>2
  <2>4. QED
    BY <2>2, <2>3
<1>10. ASSUME NEW a \in 1..Len(bars)
       PROVE  Bar(bars[a], N, S) /\ bars[a].i \in DOMAIN f.nodes /\ bars[a].j \notin DOMAIN f.nodes
  BY <1>2, <1>9
<1>11. ASSUME NEW a \in 1..Len(bars), NEW b \in 1..Len(bars), Ends(bars[a]) = Ends(bars[b])
       PROVE  a = b
  <2>1. PICK k \in 1..n : Met(k) /\ bars[a] = col(k)
    BY <1>9
  <2>2. PICK l \in 1..n : Met(l) /\ bars[b] = col(l)
    BY <1>9
  <2>3. bars[a].j = bars[b].j
    BY <1>10, <1>11 DEF Ends
  <2>4. k = l
    BY <1>2, <1>5, <2>1, <2>2, <2>3
  <2>5. QED
    BY <1>8, <2>1, <2>2, <2>4 DEF IsInjective
<1>12. QED
  BY <1>8, <1>10, <1>11 DEF NewBars, IsASequence

LEMMA StoryBeamsAre ==
    ASSUME NEW n \in Nat, NEW node, Len(node) = n, NEW N, NEW Old, NewLine(node, n, N, Old),
           NEW S, NEW beam \in S, NEW bars, bars = StoryBeams(node, beam)
    PROVE  NewBars(bars, Old, N, S) /\ \A a \in 1..Len(bars) : bars[a].i \notin Old
<1>1. /\ IsAMap(bars) /\ DOMAIN bars = 1..(n - 1) /\ n - 1 \in Int
      /\ \A k \in 1..(n - 1) : bars[k] = Frame(node[k], node[k + 1], beam)
  BY DEF StoryBeams, IsAMap
<1>2. ASSUME NEW k \in 1..(n - 1)
      PROVE  /\ k \in 1..n /\ k + 1 \in 1..n /\ node[k] # node[k + 1]
             /\ node[k] \in N \ Old /\ node[k + 1] \in N \ Old
             /\ bars[k].i = node[k] /\ bars[k].j = node[k + 1] /\ Bar(bars[k], N, S)
  <2>1. k \in 1..n /\ k + 1 \in 1..n /\ k # k + 1
    OBVIOUS
  <2>2. node[k] # node[k + 1] /\ node[k] \in N \ Old /\ node[k + 1] \in N \ Old
    BY <2>1 DEF NewLine
  <2>3. QED
    BY <1>1, <2>1, <2>2 DEF Frame, Bar
<1>3. IsASequence(bars) /\ 1..Len(bars) = 1..(n - 1)
  <2> DEFINE P == {bars[k] : k \in 1..(n - 1)}
  <2>1. \A k \in 1..(n - 1) : bars[k] \in P
    OBVIOUS
  <2> HIDE DEF P
  <2>2. QED
    BY <1>1, <2>1, Listed
<1>4. ASSUME NEW k \in 1..(n - 1), NEW l \in 1..(n - 1), Ends(bars[k]) = Ends(bars[l])
      PROVE  k = l
  <2>1. {node[k], node[k + 1]} = {node[l], node[l + 1]}
    BY <1>2, <1>4 DEF Ends
  <2>2. (node[k] = node[l]) \/ (node[k] = node[l + 1] /\ node[k + 1] = node[l])
    BY <2>1
  <2>3. k \in 1..n /\ k + 1 \in 1..n /\ l \in 1..n /\ l + 1 \in 1..n
    BY <1>2
  <2>4. k = l \/ (k = l + 1 /\ k + 1 = l)
    BY <2>2, <2>3 DEF NewLine
  <2>5. QED
    BY <2>3, <2>4
<1>5. QED
  BY <1>2, <1>3, <1>4 DEF NewBars

LEMMA ModelsHaveSections ==
    ASSUME NEW f, Framed(f), HasModel(f)
    PROVE  DOMAIN f.elements # {} /\ DOMAIN f.nodes # {} /\ DOMAIN f.sections # {}
<1>1. DOMAIN f.elements # {}
  <2> SUFFICES ASSUME DOMAIN f.elements = {} PROVE FALSE
    OBVIOUS
  <2>1. IsAMap(f.elements)
    BY DEF Framed, BarsIn
  <2>2. f.elements = <<>>
    BY <2>1 DEF IsAMap
  <2>3. QED
    BY <2>2 DEF HasModel
<1>2. PICK e \in DOMAIN f.elements : TRUE
  BY <1>1
<1>3. f.elements[e].i \in DOMAIN f.nodes /\ f.elements[e].section \in DOMAIN f.sections
  BY DEF Framed, BarsIn, Bar
<1>4. QED
  BY <1>2, <1>3

LEMMA AddStoryIsFramed ==
    ASSUME NEW f, Framed(f), DOMAIN f.sections # {}, DOMAIN f.nodes # {}, NEW height \in Nat \ {0},
           NEW beam, NEW column, NEW h, h = AddStory(f, height, beam, column)
    PROVE  Edited(f, h)
<1> DEFINE g == WithSection(WithSection(f, beam), column)
           lines == Ascending(Xs(f))
           n == Cardinality(Xs(f))
           top == Max(Ys(f))
           y == top + height
           node == [k \in DOMAIN lines |-> f.nextId.nodes + k - 1]
           columns == StoryColumns(f, lines, top, node, SectionId(g, column))
           beams == StoryBeams(node, SectionId(g, beam))
           places == [k \in DOMAIN lines |-> [x |-> lines[k], y |-> y]]
           raised == Appended(g, "nodes", places)
           joined == Appended(raised, "elements", columns)
<1>1. h = Appended(joined, "elements", beams)
  BY DEF AddStory
<1>2. /\ n \in Nat /\ DOMAIN lines = 1..n /\ Len(lines) = n
      /\ \A k \in 1..n : lines[k] \in Int
      /\ \A k, l \in 1..n : lines[k] = lines[l] => k = l
  <2>1. Xs(f) \subseteq Int /\ IsFiniteSet(Xs(f))
    BY MeasuresAre
  <2>2. /\ n \in Nat /\ DOMAIN lines = 1..n /\ Len(lines) = n
        /\ \A k \in 1..n : lines[k] \in Xs(f)
        /\ \A k, l \in 1..n : lines[k] = lines[l] => k = l
    BY <2>1, AscendingOf
  <2>3. QED
    BY <2>1, <2>2
<1>3. y \in Int /\ y \notin Ys(f)
  <2>1. Ys(f) # {} /\ Ys(f) \subseteq Int
    BY MeasuresAre
  <2>2. Max(Ys(f)) \in Ys(f) /\ \A z \in Ys(f) : Max(Ys(f)) >= z
    BY <2>1, MeasuresAre, LeastAndGreatest
  <2>3. QED
    BY <2>1, <2>2
<1>4. /\ Widens(f, g) /\ SectionId(g, beam) \in DOMAIN g.sections
      /\ SectionId(g, column) \in DOMAIN g.sections
  BY WithTwoSections
<1> HIDE DEF y, g
<1>5. /\ \A k \in 1..n : places[k] = [x |-> lines[k], y |-> y]
      /\ IsAMap(places) /\ DOMAIN places = 1..n
      /\ \A k \in 1..n : node[k] = f.nextId.nodes + k - 1
      /\ IsAMap(node) /\ DOMAIN node = 1..n
  BY <1>2, <1>3 DEF IsAMap
<1> HIDE DEF places, lines, n, node
<1>6. NewPlaces(f, n, places, node) /\ Len(node) = n
  <2>1. ASSUME NEW s, IsAMap(s), DOMAIN s = 1..n
        PROVE  IsASequence(s) /\ Len(s) = n
    <3>1. PICK P : \A k \in 1..n : s[k] \in P
      <4>1. \A k \in 1..n : s[k] \in {s[l] : l \in 1..n}
        OBVIOUS
      <4>2. QED
        BY <4>1
    <3>2. s \in Seq(P) /\ 1..Len(s) = 1..n
      BY <1>2, <2>1, <3>1, Listed
    <3>3. QED
      BY <1>2, <3>2, LenProperties DEF IsASequence
  <2>2. ASSUME NEW k \in 1..n
        PROVE  places[k].x = lines[k] /\ places[k].y = y
    BY <1>5
  <2>3. \A k \in 1..n :
            /\ places[k].x \in Int /\ places[k].y \in Int
            /\ places[k].x \notin Xs(f) \/ places[k].y \notin Ys(f)
    BY <1>2, <1>3, <2>2
  <2>4. \A k, l \in 1..n : places[k] = places[l] => k = l
    <3> SUFFICES ASSUME NEW k \in 1..n, NEW l \in 1..n, places[k] = places[l] PROVE k = l
      OBVIOUS
    <3>1. lines[k] = lines[l]
      BY <2>2
    <3>2. QED
      BY <1>2, <3>1
  <2>5. QED
    BY <1>2, <1>5, <2>1, <2>3, <2>4 DEF NewPlaces
<1>7. /\ Framed(raised) /\ DOMAIN f.nodes \subseteq DOMAIN raised.nodes
      /\ NewLine(node, n, DOMAIN raised.nodes, DOMAIN f.nodes)
      /\ raised.elements = f.elements /\ raised.supports = f.supports
      /\ raised.sections = g.sections
      /\ raised.cases = f.cases /\ raised.nextId.cases = f.nextId.cases
  <2>1. Framed(f) /\ Widens(f, g) /\ raised = Appended(g, "nodes", places)
    BY <1>4
  <2> HIDE DEF raised
  <2>2. QED
    BY ONLY <1>6, <2>1, LineOfNodes
<1> HIDE DEF raised
<1>8. /\ NewBars(columns, DOMAIN f.nodes, DOMAIN raised.nodes, DOMAIN raised.sections)
      /\ \A a \in 1..Len(columns) : columns[a].i \in DOMAIN f.nodes
  <2>1. /\ columns = StoryColumns(f, lines, top, node, SectionId(g, column))
        /\ Framed(f) /\ DOMAIN f.nodes \subseteq DOMAIN raised.nodes
        /\ n \in Nat /\ DOMAIN lines = 1..n /\ NewLine(node, n, DOMAIN raised.nodes, DOMAIN f.nodes)
        /\ SectionId(g, column) \in DOMAIN raised.sections
    BY <1>2, <1>4, <1>7
  <2> HIDE DEF columns, top
  <2>2. QED
    BY ONLY <2>1, StoryColumnsAre
<1>9. /\ NewBars(beams, DOMAIN f.nodes, DOMAIN raised.nodes, DOMAIN raised.sections)
      /\ \A a \in 1..Len(beams) : beams[a].i \notin DOMAIN f.nodes
  <2>1. /\ beams = StoryBeams(node, SectionId(g, beam)) /\ n \in Nat /\ Len(node) = n
        /\ NewLine(node, n, DOMAIN raised.nodes, DOMAIN f.nodes)
        /\ SectionId(g, beam) \in DOMAIN raised.sections
    BY <1>2, <1>4, <1>6, <1>7
  <2> HIDE DEF beams
  <2>2. QED
    BY ONLY <2>1, StoryBeamsAre
<1> HIDE DEF columns, beams
<1>10. \A e \in DOMAIN raised.elements : Ends(raised.elements[e]) \subseteq DOMAIN f.nodes
  BY <1>7 DEF Framed, BarsIn, Bar, Ends
<1>11. /\ Framed(joined) /\ joined.nodes = raised.nodes /\ joined.sections = raised.sections
       /\ joined.cases = f.cases /\ joined.nextId.cases = f.nextId.cases
       /\ Grows(raised.elements, joined.elements, raised.nextId.elements, columns)
  <2>1. joined = Appended(raised, "elements", columns) /\ Framed(raised)
    BY <1>7
  <2>2. NewBars(columns, DOMAIN f.nodes, DOMAIN raised.nodes, DOMAIN raised.sections)
    BY <1>8
  <2> HIDE DEF joined
  <2>3. /\ Framed(joined) /\ joined.nodes = raised.nodes /\ joined.sections = raised.sections
        /\ joined.cases = raised.cases /\ joined.nextId.cases = raised.nextId.cases
        /\ Grows(raised.elements, joined.elements, raised.nextId.elements, columns)
    BY ONLY <1>10, <2>1, <2>2, BarsToNewNodes
  <2>4. QED
    BY <1>7, <2>3
<1> HIDE DEF joined
<1>12. \A e \in DOMAIN joined.elements : Ends(joined.elements[e]) \cap DOMAIN f.nodes # {}
  <2> SUFFICES ASSUME NEW e \in DOMAIN joined.elements
               PROVE  joined.elements[e].i \in DOMAIN f.nodes
    BY DEF Ends
  <2>1. CASE e \in DOMAIN raised.elements
    BY <1>10, <1>11, <2>1 DEF Grows, Ends
  <2>2. CASE e \notin DOMAIN raised.elements
    BY <1>8, <1>11, <2>2 DEF Grows
  <2>3. QED
    BY <2>1, <2>2
<1>13. Gains(joined, h, "elements", beams)
  <2>1. Shaped(joined) /\ "elements" \in Kinds
        /\ Ids(DOMAIN joined.elements, joined.nextId.elements)
    BY <1>11 DEF Framed, BarsIn, Kinds
  <2>2. PICK S : beams \in Seq(S)
    BY <1>9 DEF NewBars, IsASequence
  <2>3. QED
    BY <1>1, <2>1, <2>2, AppendedGains
<1>14. /\ \A k \in 1..Len(beams) : Bar(beams[k], DOMAIN joined.nodes, DOMAIN joined.sections)
       /\ \A k, l \in 1..Len(beams) : Ends(beams[k]) = Ends(beams[l]) => k = l
       /\ \A k \in 1..Len(beams) : \A e \in DOMAIN joined.elements :
              Ends(beams[k]) # Ends(joined.elements[e])
  <2>1. \A k \in 1..Len(beams) : Ends(beams[k]) \cap DOMAIN f.nodes = {}
    BY <1>9 DEF NewBars, Ends
  <2>2. \A k \in 1..Len(beams) : \A e \in DOMAIN joined.elements :
            Ends(beams[k]) # Ends(joined.elements[e])
    BY <1>12, <2>1
  <2>3. QED
    BY <1>9, <1>11, <2>2 DEF NewBars
<1>15. Framed(h)
  <2>1. Framed(joined)
    BY <1>11
  <2>2. QED
    BY ONLY <1>13, <1>14, <2>1, BarsGained
<1>16. QED
  BY <1>11, <1>13, <1>15 DEF Gains, Kinds, Edited

-----------------------------------------------------------------------------
(***************************************************************************)
(* The other edits.                                                        *)
(***************************************************************************)

LEMMA ChangeSectionIsFramed ==
    ASSUME NEW f, Framed(f), DOMAIN f.sections # {}, NEW name, NEW bars,
           NEW h, h = ChangeSection(f, name, bars)
    PROVE  Edited(f, h)
<1> DEFINE g == WithSection(f, name)
           id == SectionId(g, name)
           elements == [e \in DOMAIN g.elements |->
               IF e \in bars THEN [g.elements[e] EXCEPT !.section = id] ELSE g.elements[e]]
<1>1. Widens(f, g) /\ (name = None \/ name \in Range(g.sections))
  BY WithSectionWidens
<1>2. h = [g EXCEPT !.elements = elements]
  BY DEF ChangeSection
<1> HIDE DEF g
<1>3. Framed(g) /\ id \in DOMAIN g.sections
  BY <1>1, SectionIdIsThere DEF Widens
<1> HIDE DEF id
<1>4. ASSUME NEW e \in DOMAIN g.elements
      PROVE  /\ Bar(elements[e], DOMAIN g.nodes, DOMAIN g.sections)
             /\ Ends(elements[e]) = Ends(g.elements[e])
  <2>1. Bar(g.elements[e], DOMAIN g.nodes, DOMAIN g.sections)
    BY <1>3 DEF Framed, BarsIn
  <2>2. CASE e \in bars
    BY <1>3, <2>1, <2>2 DEF Bar, Ends
  <2>3. CASE e \notin bars
    BY <2>1, <2>3
  <2>4. QED
    BY <2>2, <2>3
<1>5. DOMAIN elements = DOMAIN g.elements /\ IsAMap(elements)
  BY DEF IsAMap
<1> HIDE DEF elements
<1>6. BarsIn(elements, g.nextId.elements, DOMAIN g.nodes, DOMAIN g.sections)
  BY <1>3, <1>4, <1>5 DEF Framed, BarsIn
<1>7. /\ h.elements = elements /\ DOMAIN h = DOMAIN g
      /\ \A map \in (Kinds \cup {"cases", "nextId"}) \ {"elements"} : h[map] = g[map]
  BY <1>2, <1>3 DEF Framed, Shaped, Kinds
<1>8. Framed(h)
  BY <1>3, <1>5, <1>6, <1>7 DEF Framed, Shaped, Kinds
<1>9. QED
  BY <1>1, <1>7, <1>8 DEF Edited, Widens

LEMMA SetAllSupportsIsFramed ==
    ASSUME NEW f, Framed(f), NEW type, NEW h, h = SetAllSupports(f, type)
    PROVE  Edited(f, h)
<1> DEFINE supports == [s \in DOMAIN f.supports |-> [f.supports[s] EXCEPT !.type = type]]
<1>1. h = [f EXCEPT !.supports = supports]
  BY DEF SetAllSupports
<1>2. ASSUME NEW s \in DOMAIN f.supports
      PROVE  DOMAIN supports[s] = {"node", "type"} /\ supports[s].node = f.supports[s].node
  BY DEF Framed, SupportsIn
<1>3. DOMAIN supports = DOMAIN f.supports
  OBVIOUS
<1> HIDE DEF supports
<1>4. SupportsIn(supports, f.nextId.supports, DOMAIN f.nodes)
  BY <1>2, <1>3 DEF Framed, SupportsIn
<1>5. /\ h.supports = supports /\ DOMAIN h = DOMAIN f
      /\ \A map \in (Kinds \cup {"cases", "nextId"}) \ {"supports"} : h[map] = f[map]
  BY <1>1 DEF Framed, Shaped, Kinds
<1>6. QED
  BY <1>4, <1>5 DEF Edited, Framed, Shaped, Kinds

LEMMA LoadsAppended ==
    ASSUME NEW f, Framed(f), NEW loads, IsASequence(loads),
           \A k \in 1..Len(loads) : Load(loads[k], DOMAIN f.nodes, DOMAIN f.elements),
           NEW h, h = Appended(f, "loads", loads)
    PROVE  Edited(f, h)
<1>1. Gains(f, h, "loads", loads)
  BY AppendedGains DEF Framed, LoadsIn, Kinds, IsASequence
<1>2. Framed(h)
  BY <1>1, LoadsGained
<1>3. QED
  BY <1>1, <1>2 DEF Gains, Kinds, Edited

LEMMA FewerLoads ==
    ASSUME NEW f, Framed(f), NEW some, some \subseteq DOMAIN f.loads,
           NEW h, h = [f EXCEPT !.loads = Restrict(@, some)]
    PROVE  Edited(f, h) /\ h.nodes = f.nodes /\ h.elements = f.elements
<1>1. /\ h.loads = [l \in some |-> f.loads[l]] /\ DOMAIN h = DOMAIN f
      /\ \A map \in (Kinds \cup {"cases", "nextId"}) \ {"loads"} : h[map] = f[map]
  BY DEF Framed, Shaped, Kinds, Restrict
<1>2. LoadsIn(h.loads, f.nextId.loads, DOMAIN f.nodes, DOMAIN f.elements)
  BY <1>1 DEF Framed, LoadsIn, Ids
<1>3. QED
  BY <1>1, <1>2 DEF Edited, Framed, Shaped, Kinds

LEMMA ElementsAreFinite ==
    ASSUME NEW f, Framed(f)
    PROVE  IsFiniteSet(DOMAIN f.elements) /\ DOMAIN f.elements \subseteq Int
<1>1. Ids(DOMAIN f.elements, f.nextId.elements)
  BY DEF Framed, BarsIn
<1>2. IsFiniteSet(DOMAIN f.elements)
  BY <1>1, IdsAreFinite
<1>3. QED
  BY <1>1, <1>2 DEF Ids

LEMMA SetAllBeamLoadsIsFramed ==
    ASSUME NEW f, Framed(f), NEW q, NEW h, h = SetAllBeamLoads(f, q)
    PROVE  Edited(f, h)
<1> DEFINE bars == Ascending(DOMAIN f.elements)
           n == Cardinality(DOMAIN f.elements)
           others == {l \in DOMAIN f.loads : f.loads[l].kind # "distributed"}
           g == [f EXCEPT !.loads = Restrict(@, others)]
           loads == [k \in DOMAIN bars |-> Distributed(bars[k], q)]
<1>1. h = Appended(g, "loads", loads)
  BY DEF SetAllBeamLoads
<1>2. Edited(f, g) /\ g.nodes = f.nodes /\ g.elements = f.elements
  <2>1. others \subseteq DOMAIN f.loads /\ g = [f EXCEPT !.loads = Restrict(@, others)]
    OBVIOUS
  <2> HIDE DEF others, g
  <2>2. QED
    BY <2>1, FewerLoads
<1> HIDE DEF g
<1>3. n \in Nat /\ DOMAIN bars = 1..n /\ \A k \in 1..n : bars[k] \in DOMAIN f.elements
  <2>1. IsFiniteSet(DOMAIN f.elements) /\ DOMAIN f.elements \subseteq Int
    BY ElementsAreFinite
  <2>2. QED
    BY ONLY <2>1, AscendingOf
<1> HIDE DEF n, bars
<1>4. /\ IsAMap(loads) /\ DOMAIN loads = 1..n
      /\ \A k \in 1..n : loads[k] = Distributed(bars[k], q)
  BY <1>3 DEF IsAMap
<1> HIDE DEF loads
<1>5. IsASequence(loads) /\ 1..Len(loads) = 1..n
  <2> DEFINE P == {loads[k] : k \in 1..n}
  <2>1. \A k \in 1..n : loads[k] \in P
    OBVIOUS
  <2> HIDE DEF P
  <2>2. n \in Int /\ IsAMap(loads) /\ DOMAIN loads = 1..n
    BY <1>3, <1>4
  <2>3. QED
    BY ONLY <2>1, <2>2, Listed
<1>6. \A k \in 1..Len(loads) : Load(loads[k], DOMAIN g.nodes, DOMAIN g.elements)
  BY <1>2, <1>3, <1>4, <1>5 DEF Load, Distributed
<1>7. Edited(g, h)
  BY <1>1, <1>2, <1>5, <1>6, LoadsAppended DEF Edited
<1>8. QED
  BY <1>2, <1>7 DEF Edited

LEMMA AddLateralLoadsIsFramed ==
    ASSUME NEW f, Framed(f), NEW q, NEW h, h = AddLateralLoads(f, q)
    PROVE  Edited(f, h)
<1> DEFINE left == Min(Xs(f))
           above == {y \in Ys(f) \ {Min(Ys(f))} : NodesAt(f, left, y) # {}}
           levels == Ascending(above)
           n == Cardinality(above)
           loads == [k \in DOMAIN levels |-> Nodal(NodeAt(f, left, levels[k]), q)]
<1>1. h = Appended(f, "loads", loads)
  BY DEF AddLateralLoads
<1>2. above \subseteq Int /\ IsFiniteSet(above) /\ \A y \in above : NodesAt(f, left, y) # {}
  <2>1. above \subseteq Ys(f) /\ \A y \in above : NodesAt(f, left, y) # {}
    OBVIOUS
  <2>2. Ys(f) \subseteq Int /\ IsFiniteSet(Ys(f))
    BY MeasuresAre
  <2> HIDE DEF above
  <2>3. QED
    BY <2>1, <2>2, FS_Subset
<1> HIDE DEF above
<1>3. n \in Nat /\ DOMAIN levels = 1..n /\ \A k \in 1..n : levels[k] \in above
  BY <1>2, AscendingOf
<1> HIDE DEF n, levels, left
<1>4. /\ IsAMap(loads) /\ DOMAIN loads = 1..n
      /\ \A k \in 1..n : loads[k] = Nodal(NodeAt(f, left, levels[k]), q)
  BY <1>3 DEF IsAMap
<1> HIDE DEF loads
<1>5. IsASequence(loads) /\ 1..Len(loads) = 1..n
  <2> DEFINE P == {loads[k] : k \in 1..n}
  <2>1. \A k \in 1..n : loads[k] \in P
    OBVIOUS
  <2> HIDE DEF P
  <2>2. n \in Int /\ IsAMap(loads) /\ DOMAIN loads = 1..n
    BY <1>3, <1>4
  <2>3. QED
    BY ONLY <2>1, <2>2, Listed
<1>6. \A k \in 1..n : NodeAt(f, left, levels[k]) \in DOMAIN f.nodes
  BY <1>2, <1>3, NodeAtIsThere
<1>7. \A k \in 1..Len(loads) : Load(loads[k], DOMAIN f.nodes, DOMAIN f.elements)
  <2> SUFFICES ASSUME NEW k \in 1..n PROVE Load(loads[k], DOMAIN f.nodes, DOMAIN f.elements)
    BY <1>5
  <2> DEFINE m == NodeAt(f, left, levels[k])
  <2>1. m \in DOMAIN f.nodes /\ loads[k] = Nodal(m, q)
    BY <1>4, <1>6
  <2> HIDE DEF m
  <2>2. QED
    BY <2>1 DEF Load, Nodal
<1>8. QED
  BY <1>1, <1>5, <1>7, LoadsAppended

LEMMA AddLoadIsFramed ==
    ASSUME NEW f, Framed(f), NEW load, Load(load, DOMAIN f.nodes, DOMAIN f.elements),
           NEW h, h = Appended(f, "loads", <<load>>)
    PROVE  Edited(f, h)
<1> DEFINE loads == <<load>>
<1>1. loads \in Seq({load}) /\ Len(loads) = 1 /\ loads[1] = load
  OBVIOUS
<1>2. h = Appended(f, "loads", loads)
  OBVIOUS
<1> HIDE DEF loads
<1>3. IsASequence(loads) /\ \A k \in 1..Len(loads) : Load(loads[k], DOMAIN f.nodes, DOMAIN f.elements)
  BY <1>1 DEF IsASequence
<1>4. QED
  BY <1>2, <1>3, LoadsAppended

PartOf(m, n) == DOMAIN m \subseteq DOMAIN n /\ \A id \in DOMAIN m : m[id] = n[id]

\* Some of a frame is gone, and with it whatever referred to it.
Thinned(f, h) ==
    /\ DOMAIN h = DOMAIN f /\ h.nextId = f.nextId /\ h.sections = f.sections /\ h.cases = f.cases
    /\ PartOf(h.nodes, f.nodes) /\ PartOf(h.elements, f.elements)
    /\ PartOf(h.supports, f.supports) /\ PartOf(h.loads, f.loads)
    /\ IsAMap(h.elements)
    /\ \A e \in DOMAIN h.elements : Ends(f.elements[e]) \subseteq DOMAIN h.nodes
    /\ \A s \in DOMAIN h.supports : f.supports[s].node \in DOMAIN h.nodes
    /\ \A l \in DOMAIN h.loads : Load(f.loads[l], DOMAIN h.nodes, DOMAIN h.elements)

LEMMA ThinnedIsFramed ==
    ASSUME NEW f, Framed(f), NEW h, Thinned(f, h)
    PROVE  Edited(f, h)
<1>1. /\ DOMAIN h.nodes \subseteq DOMAIN f.nodes /\ \A n \in DOMAIN h.nodes : h.nodes[n] = f.nodes[n]
      /\ DOMAIN h.elements \subseteq DOMAIN f.elements
      /\ \A e \in DOMAIN h.elements : h.elements[e] = f.elements[e]
      /\ DOMAIN h.supports \subseteq DOMAIN f.supports
      /\ \A s \in DOMAIN h.supports : h.supports[s] = f.supports[s]
      /\ DOMAIN h.loads \subseteq DOMAIN f.loads /\ \A l \in DOMAIN h.loads : h.loads[l] = f.loads[l]
  BY DEF Thinned, PartOf
<1>2. h.nextId = f.nextId /\ h.sections = f.sections /\ h.cases = f.cases /\ Shaped(h)
  BY DEF Thinned, Framed, Shaped
<1>3. NodesIn(h.nodes, h.nextId.nodes)
  BY <1>1, <1>2 DEF Framed, NodesIn, Ids, IsInjective
<1>4. BarsIn(h.elements, h.nextId.elements, DOMAIN h.nodes, DOMAIN h.sections)
  <2>1. /\ IsAMap(h.elements)
        /\ \A e \in DOMAIN h.elements : Ends(f.elements[e]) \subseteq DOMAIN h.nodes
    BY DEF Thinned
  <2>2. BarsIn(f.elements, f.nextId.elements, DOMAIN f.nodes, DOMAIN f.sections)
    BY DEF Framed
  <2>3. Ids(DOMAIN h.elements, h.nextId.elements)
    BY <1>1, <1>2, <2>2 DEF BarsIn, Ids
  <2>4. \A e \in DOMAIN h.elements : Bar(h.elements[e], DOMAIN h.nodes, DOMAIN h.sections)
    BY <1>1, <1>2, <2>1, <2>2 DEF BarsIn, Bar, Ends
  <2>5. NothingIsDoubled =>
           \A d, e \in DOMAIN h.elements : Ends(h.elements[d]) = Ends(h.elements[e]) => d = e
    BY <1>1, <2>2 DEF BarsIn
  <2>6. QED
    BY <2>1, <2>3, <2>4, <2>5 DEF BarsIn
<1>5. SupportsIn(h.supports, h.nextId.supports, DOMAIN h.nodes)
  BY <1>1, <1>2 DEF Framed, SupportsIn, Ids, Thinned
<1>6. LoadsIn(h.loads, h.nextId.loads, DOMAIN h.nodes, DOMAIN h.elements)
  BY <1>1, <1>2 DEF Framed, LoadsIn, Ids, Thinned
<1>7. QED
  BY <1>2, <1>3, <1>4, <1>5, <1>6 DEF Edited, Framed

LEMMA DeleteElementIsFramed ==
    ASSUME NEW f, Framed(f), NEW e, NEW h, h = DeleteElement(f, e)
    PROVE  Edited(f, h)
<1>1. /\ DOMAIN h = DOMAIN f /\ h.nextId = f.nextId /\ h.sections = f.sections /\ h.cases = f.cases
      /\ h.nodes = f.nodes /\ h.supports = f.supports
      /\ h.elements = [d \in DOMAIN f.elements \ {e} |-> f.elements[d]]
      /\ h.loads = [l \in {k \in DOMAIN f.loads :
                              ~(f.loads[k].kind = "distributed" /\ f.loads[k].on = e)} |-> f.loads[l]]
  BY DEF DeleteElement, Restrict, Framed, Shaped, Kinds
<1>2. IsAMap(h.elements) /\ DOMAIN h.elements = DOMAIN f.elements \ {e}
      /\ \A d \in DOMAIN h.elements : h.elements[d] = f.elements[d]
  BY <1>1 DEF IsAMap
<1>3. /\ DOMAIN h.loads \subseteq DOMAIN f.loads
      /\ \A l \in DOMAIN h.loads :
             /\ h.loads[l] = f.loads[l]
             /\ ~(f.loads[l].kind = "distributed" /\ f.loads[l].on = e)
  BY <1>1
<1>4. \A l \in DOMAIN h.loads : Load(f.loads[l], DOMAIN h.nodes, DOMAIN h.elements)
  <2> SUFFICES ASSUME NEW l \in DOMAIN h.loads
               PROVE  Load(f.loads[l], DOMAIN h.nodes, DOMAIN h.elements)
    OBVIOUS
  <2>1. Load(f.loads[l], DOMAIN f.nodes, DOMAIN f.elements)
    BY <1>3 DEF Framed, LoadsIn
  <2>2. QED
    BY <1>1, <1>2, <1>3, <2>1 DEF Load
<1>5. \A d \in DOMAIN h.elements : Ends(f.elements[d]) \subseteq DOMAIN h.nodes
  BY <1>1, <1>2 DEF Framed, BarsIn, Bar, Ends
<1>6. \A s \in DOMAIN h.supports : f.supports[s].node \in DOMAIN h.nodes
  BY <1>1 DEF Framed, SupportsIn
<1>7. /\ PartOf(h.nodes, f.nodes) /\ PartOf(h.elements, f.elements)
      /\ PartOf(h.supports, f.supports) /\ PartOf(h.loads, f.loads)
  BY <1>1, <1>2, <1>3 DEF PartOf
<1>8. Thinned(f, h)
  BY ONLY <1>1, <1>2, <1>4, <1>5, <1>6, <1>7 DEF Thinned
<1>9. QED
  BY <1>8, ThinnedIsFramed

LEMMA DeleteLoadIsFramed ==
    ASSUME NEW f, Framed(f), NEW l, NEW h, h = DeleteLoad(f, l)
    PROVE  Edited(f, h)
<1>1. h = [f EXCEPT !.loads = Restrict(@, DOMAIN f.loads \ {l})]
  BY DEF DeleteLoad
<1>2. DOMAIN f.loads \ {l} \subseteq DOMAIN f.loads
  OBVIOUS
<1>3. QED
  BY <1>1, <1>2, FewerLoads

\* removeNode.
LEMMA RemovedNodeIsFramed ==
    ASSUME NEW f, Framed(f), NEW n \in DOMAIN f.nodes, NEW gone,
           gone = {e \in DOMAIN f.elements : n \in {f.elements[e].i, f.elements[e].j}},
           LoadedNodesStay =>
               \A l \in Range(f.loads) : l.kind = "distributed" => l.on \notin gone,
           NEW h, h = [f EXCEPT
               !.nodes = Restrict(@, DOMAIN @ \ {n}),
               !.elements = Restrict(@, DOMAIN @ \ gone),
               !.supports = Restrict(@, {s \in DOMAIN @ : @[s].node # n}),
               !.loads = Restrict(@, {l \in DOMAIN @ : ~(@[l].kind = "nodal" /\ @[l].on = n)})]
    PROVE  Edited(f, h)
<1>1. /\ DOMAIN h = DOMAIN f /\ h.nextId = f.nextId /\ h.sections = f.sections /\ h.cases = f.cases
      /\ h.nodes = [m \in DOMAIN f.nodes \ {n} |-> f.nodes[m]]
      /\ h.elements = [e \in DOMAIN f.elements \ gone |-> f.elements[e]]
      /\ h.supports = [s \in {r \in DOMAIN f.supports : f.supports[r].node # n} |-> f.supports[s]]
      /\ h.loads = [l \in {k \in DOMAIN f.loads :
                              ~(f.loads[k].kind = "nodal" /\ f.loads[k].on = n)} |-> f.loads[l]]
  BY DEF Restrict, Framed, Shaped, Kinds
<1>2. /\ IsAMap(h.elements) /\ DOMAIN h.elements = DOMAIN f.elements \ gone
      /\ \A e \in DOMAIN h.elements : h.elements[e] = f.elements[e]
  BY ONLY <1>1 DEF IsAMap
<1>3. /\ DOMAIN h.loads \subseteq DOMAIN f.loads
      /\ \A l \in DOMAIN h.loads :
             /\ h.loads[l] = f.loads[l]
             /\ ~(f.loads[l].kind = "nodal" /\ f.loads[l].on = n)
  BY ONLY <1>1
<1>4. /\ DOMAIN h.nodes = DOMAIN f.nodes \ {n} /\ \A m \in DOMAIN h.nodes : h.nodes[m] = f.nodes[m]
      /\ DOMAIN h.supports \subseteq DOMAIN f.supports
      /\ \A s \in DOMAIN h.supports : h.supports[s] = f.supports[s] /\ f.supports[s].node # n
  BY ONLY <1>1
<1>5. \A l \in DOMAIN h.loads : Load(f.loads[l], DOMAIN h.nodes, DOMAIN h.elements)
  <2> SUFFICES ASSUME NEW l \in DOMAIN h.loads
               PROVE  Load(f.loads[l], DOMAIN h.nodes, DOMAIN h.elements)
    OBVIOUS
  <2>1. Load(f.loads[l], DOMAIN f.nodes, DOMAIN f.elements)
    BY <1>3 DEF Framed, LoadsIn
  <2>2. LoadedNodesStay /\ f.loads[l].kind = "distributed" => f.loads[l].on \notin gone
    BY <1>3 DEF Range
  <2>3. QED
    BY <1>2, <1>3, <1>4, <2>1, <2>2 DEF Load
<1>6. \A e \in DOMAIN h.elements : Ends(f.elements[e]) \subseteq DOMAIN h.nodes
  BY <1>2, <1>4 DEF Framed, BarsIn, Bar, Ends
<1>7. \A s \in DOMAIN h.supports : f.supports[s].node \in DOMAIN h.nodes
  BY <1>4 DEF Framed, SupportsIn
<1>8. /\ PartOf(h.nodes, f.nodes) /\ PartOf(h.elements, f.elements)
      /\ PartOf(h.supports, f.supports) /\ PartOf(h.loads, f.loads)
  BY ONLY <1>2, <1>3, <1>4 DEF PartOf
<1>9. Thinned(f, h)
  BY ONLY <1>1, <1>2, <1>5, <1>6, <1>7, <1>8 DEF Thinned
<1>10. QED
  BY ONLY <1>9, Framed(f), ThinnedIsFramed

-----------------------------------------------------------------------------
(***************************************************************************)
(* The generated frames.                                                   *)
(***************************************************************************)

\* What a generated frame is made of.
Parts(nodes, bars, supports, loads, sections) ==
    /\ IsASequence(nodes) /\ IsASequence(bars) /\ IsASequence(supports)
    /\ IsASequence(loads) /\ IsASequence(sections)
    /\ \A k \in 1..Len(nodes) : nodes[k].x \in Int /\ nodes[k].y \in Int
    /\ \A k, l \in 1..Len(nodes) : nodes[k] = nodes[l] => k = l
    /\ \A k \in 1..Len(bars) : Bar(bars[k], 1..Len(nodes), 1..Len(sections))
    /\ \A k, l \in 1..Len(bars) : Ends(bars[k]) = Ends(bars[l]) => k = l
    /\ \A k \in 1..Len(supports) :
           DOMAIN supports[k] = {"node", "type"} /\ supports[k].node \in 1..Len(nodes)
    /\ \A k, l \in 1..Len(supports) : supports[k].node = supports[l].node => k = l
    /\ \A k \in 1..Len(loads) : Load(loads[k], 1..Len(nodes), 1..Len(bars))
    /\ 1 \in 1..Len(sections)
    /\ \A k, l \in 1..Len(sections) : sections[k] = sections[l] => k = l

\* Nothing is wrong with no frame but that it has no section.
LEMMA NoFrameIsEmpty ==
    /\ Shaped(NoFrame) /\ Ids(DOMAIN NoFrame.sections, NoFrame.nextId.sections)
    /\ NodesIn(NoFrame.nodes, NoFrame.nextId.nodes)
    /\ \A S : BarsIn(NoFrame.elements, NoFrame.nextId.elements, DOMAIN NoFrame.nodes, S)
    /\ SupportsIn(NoFrame.supports, NoFrame.nextId.supports, DOMAIN NoFrame.nodes)
    /\ LoadsIn(NoFrame.loads, NoFrame.nextId.loads, DOMAIN NoFrame.nodes, DOMAIN NoFrame.elements)
<1>1. Shaped(NoFrame)
  BY DEF NoFrame, Shaped, Kinds
<1>2. IsAMap(<<>>) /\ DOMAIN <<>> = {}
  BY DEF IsAMap
<1>3. /\ DOMAIN NoFrame.nodes = {} /\ DOMAIN NoFrame.elements = {} /\ DOMAIN NoFrame.supports = {}
      /\ DOMAIN NoFrame.loads = {} /\ DOMAIN NoFrame.sections = {} /\ IsAMap(NoFrame.elements)
      /\ NoFrame.nextId.nodes \in Nat /\ NoFrame.nextId.elements \in Nat
      /\ NoFrame.nextId.supports \in Nat /\ NoFrame.nextId.loads \in Nat
      /\ NoFrame.nextId.sections \in Nat
  BY <1>2 DEF NoFrame
<1>4. QED
  BY <1>1, <1>3 DEF NodesIn, BarsIn, SupportsIn, LoadsIn, Ids, IsInjective

\* The first entries of a map have the first ids.
LEMMA FirstOfAll ==
    ASSUME NEW m, DOMAIN m = {}, NEW more, NEW entries, IsASequence(entries),
           Grows(m, more, 1, entries)
    PROVE  /\ DOMAIN more = 1..Len(entries)
           /\ \A k \in 1..Len(entries) : more[k] = entries[k]
<1>1. Len(entries) \in Nat
  BY LenProperties DEF IsASequence
<1>2. 1 + Len(entries) - 1 = Len(entries) /\ \A k \in 1..Len(entries) : 1 + k - 1 = k
  BY <1>1
<1>3. QED
  BY <1>2 DEF Grows

LEMMA GeneratedIsFramed ==
    ASSUME NEW nodes, NEW bars, NEW supports, NEW loads, NEW sections,
           Parts(nodes, bars, supports, loads, sections),
           NEW f, f = Generated(nodes, bars, supports, loads, sections)
    PROVE  Framed(f) /\ f.cases = None /\ f.nextId.cases = None
<1> DEFINE f0 == NoFrame
           f1 == Appended(f0, "sections", sections)
           f2 == Appended(f1, "nodes", nodes)
           f3 == Appended(f2, "elements", bars)
           f4 == Appended(f3, "supports", supports)
           f5 == Appended(f4, "loads", loads)
<1>1. f = f5
  BY DEF Generated
<1>2. /\ IsASequence(nodes) /\ IsASequence(bars) /\ IsASequence(supports)
      /\ IsASequence(loads) /\ IsASequence(sections)
  BY DEF Parts
<1>3. /\ Shaped(f0) /\ Ids(DOMAIN f0.sections, f0.nextId.sections)
      /\ DOMAIN f0.nodes = {} /\ DOMAIN f0.elements = {} /\ DOMAIN f0.supports = {}
      /\ DOMAIN f0.loads = {} /\ DOMAIN f0.sections = {}
      /\ f0.nextId.nodes = 1 /\ f0.nextId.elements = 1 /\ f0.nextId.sections = 1
      /\ f0.cases = None /\ f0.nextId.cases = None
  <2>1. DOMAIN <<>> = {}
    OBVIOUS
  <2>2. QED
    BY <2>1, NoFrameIsEmpty DEF NoFrame
<1> HIDE DEF f0, f1, f2, f3, f4, f5
<1>4. Gains(f0, f1, "sections", sections)
  BY <1>2, <1>3, AppendedGains DEF f1, IsASequence, Kinds
<1>5. Framed(f1) /\ DOMAIN f1.sections = 1..Len(sections)
  <2>1. /\ \A k, l \in 1..Len(sections) : sections[k] = sections[l] => k = l
        /\ 1 \in 1..Len(sections)
    BY DEF Parts
  <2>2. Grows(f0.sections, f1.sections, 1, sections) /\ Ids(DOMAIN f1.sections, f1.nextId.sections)
    BY <1>3, <1>4 DEF Gains
  <2>3. /\ DOMAIN f1.sections = 1..Len(sections)
        /\ \A k \in 1..Len(sections) : f1.sections[k] = sections[k]
    <3>1. DOMAIN f0.sections = {} /\ IsASequence(sections) /\ Grows(f0.sections, f1.sections, 1, sections)
      BY <1>2, <1>3, <2>2
    <3>2. QED
      BY ONLY <3>1, FirstOfAll
  <2>4. SectionsIn(f1.sections, f1.nextId.sections)
    <3>1. IsInjective(f1.sections)
      BY ONLY <2>1, <2>3 DEF IsInjective
    <3>2. 1 \in DOMAIN f1.sections
      BY ONLY <2>1, <2>3
    <3>3. QED
      BY ONLY <2>2, <3>1, <3>2 DEF SectionsIn
  <2>5. /\ Shaped(f1)
        /\ f1.nodes = f0.nodes /\ f1.nextId.nodes = f0.nextId.nodes
        /\ f1.elements = f0.elements /\ f1.nextId.elements = f0.nextId.elements
        /\ f1.supports = f0.supports /\ f1.nextId.supports = f0.nextId.supports
        /\ f1.loads = f0.loads /\ f1.nextId.loads = f0.nextId.loads
    BY <1>4 DEF Gains, Kinds
  <2>6. /\ NodesIn(f0.nodes, f0.nextId.nodes)
        /\ \A S : BarsIn(f0.elements, f0.nextId.elements, DOMAIN f0.nodes, S)
        /\ SupportsIn(f0.supports, f0.nextId.supports, DOMAIN f0.nodes)
        /\ LoadsIn(f0.loads, f0.nextId.loads, DOMAIN f0.nodes, DOMAIN f0.elements)
    BY NoFrameIsEmpty DEF f0
  <2>7. Framed(f1)
    BY ONLY <2>4, <2>5, <2>6 DEF Framed
  <2>8. QED
    BY <2>3, <2>7
<1>6. /\ f1.nodes = f0.nodes /\ f1.elements = f0.elements /\ f1.supports = f0.supports
      /\ f1.loads = f0.loads
      /\ f1.nextId.nodes = 1 /\ f1.nextId.elements = 1
      /\ f1.cases = None /\ f1.nextId.cases = None
  BY <1>3, <1>4 DEF Gains, Kinds
<1>7. Gains(f1, f2, "nodes", nodes)
  BY <1>2, <1>5, AppendedGains DEF f2, IsASequence, Framed, NodesIn, Kinds
<1>8. Framed(f2) /\ DOMAIN f2.nodes = 1..Len(nodes)
  <2>1. /\ \A k \in 1..Len(nodes) : nodes[k].x \in Int /\ nodes[k].y \in Int
        /\ \A k, l \in 1..Len(nodes) : nodes[k] = nodes[l] => k = l
        /\ \A k \in 1..Len(nodes) : \A n \in DOMAIN f1.nodes : nodes[k] # f1.nodes[n]
    BY <1>3, <1>6 DEF Parts
  <2>2. Grows(f1.nodes, f2.nodes, 1, nodes) /\ DOMAIN f1.nodes = {}
    BY <1>3, <1>6, <1>7 DEF Gains
  <2>3. DOMAIN f2.nodes = 1..Len(nodes)
    BY <1>2, <2>2, FirstOfAll
  <2>4. Framed(f1)
    BY <1>5
  <2>5. Framed(f2)
    BY ONLY <1>7, <2>1, <2>4, NodesGained
  <2>6. QED
    BY <2>3, <2>5
<1>9. /\ f2.elements = f0.elements /\ f2.supports = f0.supports /\ f2.loads = f0.loads
      /\ f2.sections = f1.sections /\ f2.nextId.elements = 1
      /\ f2.cases = None /\ f2.nextId.cases = None
  BY <1>6, <1>7 DEF Gains, Kinds
<1>10. Gains(f2, f3, "elements", bars)
  BY <1>2, <1>8, AppendedGains DEF f3, IsASequence, Framed, BarsIn, Kinds
<1>11. Framed(f3) /\ DOMAIN f3.elements = 1..Len(bars)
  <2>1. /\ \A k \in 1..Len(bars) : Bar(bars[k], DOMAIN f2.nodes, DOMAIN f2.sections)
        /\ \A k, l \in 1..Len(bars) : Ends(bars[k]) = Ends(bars[l]) => k = l
        /\ \A k \in 1..Len(bars) : \A e \in DOMAIN f2.elements :
               Ends(bars[k]) # Ends(f2.elements[e])
    BY <1>3, <1>5, <1>8, <1>9 DEF Parts
  <2>2. Grows(f2.elements, f3.elements, 1, bars) /\ DOMAIN f2.elements = {}
    BY <1>3, <1>9, <1>10 DEF Gains
  <2>3. DOMAIN f3.elements = 1..Len(bars)
    BY <1>2, <2>2, FirstOfAll
  <2>4. Framed(f2)
    BY <1>8
  <2>5. Framed(f3)
    BY ONLY <1>10, <2>1, <2>4, BarsGained
  <2>6. QED
    BY <2>3, <2>5
<1>12. /\ f3.nodes = f2.nodes /\ f3.supports = f0.supports
       /\ f3.cases = None /\ f3.nextId.cases = None
  BY <1>9, <1>10 DEF Gains, Kinds
<1>13. Gains(f3, f4, "supports", supports)
  BY <1>2, <1>11, AppendedGains DEF f4, IsASequence, Framed, SupportsIn, Kinds
<1>14. Framed(f4)
  <2>1. /\ \A k \in 1..Len(supports) :
               DOMAIN supports[k] = {"node", "type"} /\ supports[k].node \in DOMAIN f3.nodes
        /\ \A k, l \in 1..Len(supports) : supports[k].node = supports[l].node => k = l
        /\ \A k \in 1..Len(supports) : \A s \in DOMAIN f3.supports :
               supports[k].node # f3.supports[s].node
    BY <1>3, <1>8, <1>12 DEF Parts
  <2>2. Framed(f3)
    BY <1>11
  <2>3. QED
    BY ONLY <1>13, <2>1, <2>2, SupportsGained
<1>15. /\ f4.nodes = f2.nodes /\ f4.elements = f3.elements
       /\ f4.cases = None /\ f4.nextId.cases = None
  BY <1>12, <1>13 DEF Gains, Kinds
<1>16. \A k \in 1..Len(loads) : Load(loads[k], DOMAIN f4.nodes, DOMAIN f4.elements)
  BY <1>8, <1>11, <1>15 DEF Parts
<1>17. Edited(f4, f)
  <2>1. f = Appended(f4, "loads", loads) /\ Framed(f4)
    BY <1>1, <1>14 DEF f5
  <2>2. QED
    BY <1>2, <1>16, <2>1, LoadsAppended
<1>18. QED
  BY <1>15, <1>17 DEF Edited

LEMMA OneOrNone ==
    ASSUME NEW S, NEW a \in S, NEW none \in BOOLEAN, NEW s, s = IF none THEN <<>> ELSE <<a>>
    PROVE  s \in Seq(S)
OBVIOUS

LEMMA PortalFrameIsFramed ==
    ASSUME NEW width \in Nat \ {0}, NEW height \in Nat \ {0}, NEW q, NEW h,
           NEW f, f = PortalFrame(width, height, q, h)
    PROVE  Framed(f) /\ f.cases = None /\ f.nextId.cases = None
<1> DEFINE nodes == <<[x |-> 0, y |-> 0], [x |-> 0, y |-> height],
                      [x |-> width, y |-> height], [x |-> width, y |-> 0]>>
           bars == <<Frame(1, 2, 2), Frame(2, 3, 1), Frame(4, 3, 2)>>
           supports == <<Fixed(1), Fixed(4)>>
           onBeam == IF q = 0 THEN <<>> ELSE <<Distributed(2, q)>>
           onNode == IF h = 0 THEN <<>> ELSE <<Nodal(2, h)>>
           loads == onBeam \o onNode
           sections == <<"beam", "column">>
<1>1. f = Generated(nodes, bars, supports, loads, sections)
  BY DEF PortalFrame
<1>2. /\ IsASequence(nodes) /\ Len(nodes) = 4
      /\ \A k \in 1..4 : nodes[k].x \in Int /\ nodes[k].y \in Int
      /\ \A k, l \in 1..4 : nodes[k] = nodes[l] => k = l
  <2> DEFINE P == {[x |-> 0, y |-> 0], [x |-> 0, y |-> height],
                   [x |-> width, y |-> height], [x |-> width, y |-> 0]}
  <2>1. nodes \in Seq(P) /\ Len(nodes) = 4
    OBVIOUS
  <2>2. /\ nodes[1].x = 0 /\ nodes[1].y = 0 /\ nodes[2].x = 0 /\ nodes[2].y = height
        /\ nodes[3].x = width /\ nodes[3].y = height /\ nodes[4].x = width /\ nodes[4].y = 0
    OBVIOUS
  <2> HIDE DEF nodes, P
  <2>3. \A k \in 1..4 : k = 1 \/ k = 2 \/ k = 3 \/ k = 4
    OBVIOUS
  <2>4. \A k \in 1..4 : nodes[k].x \in Int /\ nodes[k].y \in Int
    BY <2>2, <2>3
  <2>5. \A k, l \in 1..4 : nodes[k].x = nodes[l].x /\ nodes[k].y = nodes[l].y => k = l
    BY <2>2, <2>3
  <2>6. \A k, l \in 1..4 : nodes[k] = nodes[l] => k = l
    BY <2>5
  <2>7. QED
    BY <2>1, <2>4, <2>6 DEF IsASequence
<1>3. /\ IsASequence(sections) /\ Len(sections) = 2
      /\ \A k, l \in 1..2 : sections[k] = sections[l] => k = l
  <2>1. sections \in Seq({"beam", "column"}) /\ Len(sections) = 2
        /\ sections[1] = "beam" /\ sections[2] = "column"
    OBVIOUS
  <2>2. \A k \in 1..2 : k = 1 \/ k = 2
    OBVIOUS
  <2> HIDE DEF sections
  <2>3. QED
    BY <2>1, <2>2 DEF IsASequence
<1>4. /\ IsASequence(bars) /\ Len(bars) = 3
      /\ \A k \in 1..3 : Bar(bars[k], 1..4, 1..2)
      /\ \A k, l \in 1..3 : Ends(bars[k]) = Ends(bars[l]) => k = l
  <2>1. bars \in Seq({Frame(1, 2, 2), Frame(2, 3, 1), Frame(4, 3, 2)}) /\ Len(bars) = 3
        /\ bars[1] = Frame(1, 2, 2) /\ bars[2] = Frame(2, 3, 1) /\ bars[3] = Frame(4, 3, 2)
    OBVIOUS
  <2>2. \A k \in 1..3 : k = 1 \/ k = 2 \/ k = 3
    OBVIOUS
  <2> HIDE DEF bars
  <2>3. Ends(bars[1]) = {1, 2} /\ Ends(bars[2]) = {2, 3} /\ Ends(bars[3]) = {4, 3}
    BY <2>1 DEF Ends, Frame
  <2>4. Bar(bars[1], 1..4, 1..2) /\ Bar(bars[2], 1..4, 1..2) /\ Bar(bars[3], 1..4, 1..2)
    BY <2>1 DEF Bar, Frame
  <2>5. /\ Ends(bars[1]) # Ends(bars[2]) /\ Ends(bars[1]) # Ends(bars[3])
        /\ Ends(bars[2]) # Ends(bars[3])
    <3>1. 1 \in {1, 2} /\ 1 \notin {2, 3} /\ 1 \notin {4, 3} /\ 2 \in {2, 3} /\ 2 \notin {4, 3}
      OBVIOUS
    <3>2. QED
      BY <2>3, <3>1
  <2>6. \A k \in 1..3 : Bar(bars[k], 1..4, 1..2)
    BY <2>2, <2>4
  <2>7. \A k, l \in 1..3 : Ends(bars[k]) = Ends(bars[l]) => k = l
    BY <2>2, <2>5
  <2>8. QED
    BY <2>1, <2>6, <2>7 DEF IsASequence
<1>5. /\ IsASequence(supports) /\ Len(supports) = 2
      /\ \A k \in 1..2 : DOMAIN supports[k] = {"node", "type"} /\ supports[k].node \in 1..4
      /\ \A k, l \in 1..2 : supports[k].node = supports[l].node => k = l
  <2>1. supports \in Seq({Fixed(1), Fixed(4)}) /\ Len(supports) = 2
        /\ supports[1] = Fixed(1) /\ supports[2] = Fixed(4)
    OBVIOUS
  <2>2. \A k \in 1..2 : k = 1 \/ k = 2
    OBVIOUS
  <2> HIDE DEF supports
  <2>3. QED
    BY <2>1, <2>2 DEF IsASequence, Fixed
<1>6. IsASequence(loads) /\ \A k \in 1..Len(loads) : Load(loads[k], 1..4, 1..3)
  <2> DEFINE P == {Distributed(2, q), Nodal(2, h)}
  <2>1. onBeam \in Seq(P) /\ onNode \in Seq(P)
    <3> DEFINE a == Distributed(2, q)  b == Nodal(2, h)
    <3>1. a \in P /\ b \in P /\ (q = 0) \in BOOLEAN /\ (h = 0) \in BOOLEAN
      OBVIOUS
    <3>2. onBeam = (IF q = 0 THEN <<>> ELSE <<a>>) /\ onNode = (IF h = 0 THEN <<>> ELSE <<b>>)
      OBVIOUS
    <3> HIDE DEF a, b, P, onBeam, onNode
    <3>3. QED
      BY <3>1, <3>2, OneOrNone
  <2>2. \A load \in P : Load(load, 1..4, 1..3)
    BY DEF Distributed, Nodal, Load
  <2> HIDE DEF P, onBeam, onNode
  <2>3. loads \in Seq(P)
    BY <2>1, ConcatProperties
  <2> HIDE DEF loads
  <2>4. \A k \in 1..Len(loads) : loads[k] \in P
    BY <2>3, ElementOfSeq
  <2>5. QED
    BY <2>2, <2>3, <2>4 DEF IsASequence
<1> HIDE DEF nodes, bars, supports, loads, sections
<1>7. Parts(nodes, bars, supports, loads, sections)
  BY <1>2, <1>3, <1>4, <1>5, <1>6 DEF Parts
<1>8. QED
  BY <1>1, <1>7, GeneratedIsFramed

\* Two bays and a storey.
LEMMA MultiStoryFrameIsFramed ==
    ASSUME NEW width \in Nat \ {0}, NEW f, f = MultiStoryFrame(2, 1, width, 1, 0, 1)
    PROVE  Framed(f) /\ f.cases = None /\ f.nextId.cases = None
<1> DEFINE node(l, c) == l * (2 + 1) + c + 1
           columns == [k \in 1..(1 * (2 + 1)) |-> Frame(k, k + 2 + 1, 2)]
           beams == [k \in 1..(1 * 2) |->
                       LET l == (k - 1) \div 2 + 1  c == (k - 1) % 2
                       IN  Frame(node(l, c), node(l, c + 1), 1)]
           nodes == [k \in 1..((1 + 1) * (2 + 1)) |->
                [x |-> ((k - 1) % (2 + 1)) * width, y |-> ((k - 1) \div (2 + 1)) * 1]]
           bars == columns \o beams
           supports == [c \in 1..(2 + 1) |-> Fixed(node(0, c - 1))]
           loads == <<>> \o [l \in 1..1 |-> Nodal(node(l, 0), 1)]
           sections == <<"beam", "column">>
<1>1. f = Generated(nodes, bars, supports, loads, sections)
  BY DEF MultiStoryFrame
<1>2. /\ IsASequence(nodes) /\ 1..Len(nodes) = 1..6
      /\ \A k \in 1..6 : nodes[k].x \in Int /\ nodes[k].y \in Int
      /\ \A k, l \in 1..6 : nodes[k] = nodes[l] => k = l
  <2>1. IsAMap(nodes) /\ DOMAIN nodes = 1..6
        /\ \A k \in 1..6 : nodes[k] = [x |-> ((k - 1) % 3) * width, y |-> (k - 1) \div 3]
    BY DEF IsAMap
  <2> HIDE DEF nodes
  <2>2. IsASequence(nodes) /\ 1..Len(nodes) = 1..6
    <3> DEFINE P == {nodes[k] : k \in 1..6}
    <3>1. 6 \in Int /\ \A k \in 1..6 : nodes[k] \in P
      OBVIOUS
    <3> HIDE DEF P
    <3>2. QED
      BY ONLY <2>1, <3>1, Listed
  <2>3. ASSUME NEW k \in 1..6
        PROVE  /\ nodes[k].x = ((k - 1) % 3) * width /\ nodes[k].y = (k - 1) \div 3
    BY <2>1
  <2>4. /\ \A k \in 1..6 : (k - 1) % 3 \in 0..2 /\ (k - 1) \div 3 \in 0..1
        /\ \A k, l \in 1..6 :
               (k - 1) % 3 = (l - 1) % 3 /\ (k - 1) \div 3 = (l - 1) \div 3 => k = l
    <3>1. \A k \in 1..6 : (k - 1) % 3 \in 0..2 /\ (k - 1) \div 3 \in 0..1
      OBVIOUS
    <3>2. /\ (1 - 1) % 3 = 0 /\ (1 - 1) \div 3 = 0 /\ (2 - 1) % 3 = 1 /\ (2 - 1) \div 3 = 0
          /\ (3 - 1) % 3 = 2 /\ (3 - 1) \div 3 = 0 /\ (4 - 1) % 3 = 0 /\ (4 - 1) \div 3 = 1
          /\ (5 - 1) % 3 = 1 /\ (5 - 1) \div 3 = 1 /\ (6 - 1) % 3 = 2 /\ (6 - 1) \div 3 = 1
      OBVIOUS
    <3>3. \A k \in 1..6 : k = 1 \/ k = 2 \/ k = 3 \/ k = 4 \/ k = 5 \/ k = 6
      OBVIOUS
    <3>4. QED
      BY <3>1, <3>2, <3>3
  <2>5. \A c, d \in 0..2 : c * width \in Int /\ (c * width = d * width => c = d)
    <3> SUFFICES ASSUME NEW c \in 0..2, NEW d \in 0..2
                 PROVE  c * width \in Int /\ (c * width = d * width => c = d)
      OBVIOUS
    <3>1. (c = 0 \/ c = 1 \/ c = 2) /\ (d = 0 \/ d = 1 \/ d = 2)
      OBVIOUS
    <3>2. 0 * width = 0 /\ 1 * width = width /\ 2 * width = width + width
      OBVIOUS
    <3>3. QED
      BY <3>1, <3>2
  <2>6. \A k \in 1..6 : nodes[k].x \in Int /\ nodes[k].y \in Int
    BY <2>3, <2>4, <2>5
  <2>7. ASSUME NEW k \in 1..6, NEW l \in 1..6, nodes[k] = nodes[l] PROVE k = l
    <3>1. ((k - 1) % 3) * width = ((l - 1) % 3) * width /\ (k - 1) \div 3 = (l - 1) \div 3
      BY <2>3, <2>7
    <3>2. (k - 1) % 3 = (l - 1) % 3
      BY <2>4, <2>5, <3>1
    <3>3. QED
      BY <2>4, <3>1, <3>2
  <2>8. QED
    BY <2>2, <2>6, <2>7
<1>3. /\ IsASequence(sections) /\ Len(sections) = 2
      /\ \A k, l \in 1..2 : sections[k] = sections[l] => k = l
  <2>1. sections \in Seq({"beam", "column"}) /\ Len(sections) = 2
        /\ sections[1] = "beam" /\ sections[2] = "column"
    OBVIOUS
  <2>2. \A k \in 1..2 : k = 1 \/ k = 2
    OBVIOUS
  <2> HIDE DEF sections
  <2>3. QED
    BY <2>1, <2>2 DEF IsASequence
<1>4. /\ IsASequence(bars) /\ Len(bars) = 5
      /\ \A k \in 1..5 : Bar(bars[k], 1..6, 1..2)
      /\ \A k, l \in 1..5 : Ends(bars[k]) = Ends(bars[l]) => k = l
  <2> DEFINE B == BarSet(1..6, 1..2)
  <2>1. /\ IsAMap(columns) /\ DOMAIN columns = 1..3
        /\ \A k \in 1..3 : columns[k] = Frame(k, k + 3, 2) /\ columns[k] \in B
    BY DEF Frame, BarSet, IsAMap
  <2>2. /\ IsAMap(beams) /\ DOMAIN beams = 1..2 /\ \A k \in 1..2 : beams[k] \in B
        /\ beams[1] = Frame(4, 5, 1) /\ beams[2] = Frame(5, 6, 1)
    <3>1. /\ DOMAIN beams = 1..2 /\ IsAMap(beams)
          /\ \A k \in 1..2 : beams[k] = Frame(node((k - 1) \div 2 + 1, (k - 1) % 2),
                                             node((k - 1) \div 2 + 1, ((k - 1) % 2) + 1), 1)
      BY DEF IsAMap
    <3> HIDE DEF beams
    <3>2. beams[1] = Frame(4, 5, 1) /\ beams[2] = Frame(5, 6, 1)
      <4>1. /\ (1 - 1) \div 2 = 0 /\ (1 - 1) % 2 = 0 /\ (2 - 1) \div 2 = 0 /\ (2 - 1) % 2 = 1
            /\ 1 \in 1..2 /\ 2 \in 1..2
        OBVIOUS
      <4>2. /\ node(0 + 1, 0) = 4 /\ node(0 + 1, 0 + 1) = 5 /\ node(0 + 1, 1) = 5
            /\ node(0 + 1, 1 + 1) = 6
        OBVIOUS
      <4> HIDE DEF node
      <4>3. /\ beams[1] = Frame(node(0 + 1, 0), node(0 + 1, 0 + 1), 1)
            /\ beams[2] = Frame(node(0 + 1, 1), node(0 + 1, 1 + 1), 1)
        BY <3>1, <4>1
      <4>4. QED
        BY <4>2, <4>3
    <3>3. Frame(4, 5, 1) \in B /\ Frame(5, 6, 1) \in B
      BY DEF Frame, BarSet
    <3>4. \A k \in 1..2 : k = 1 \/ k = 2
      OBVIOUS
    <3> HIDE DEF B
    <3>5. \A k \in 1..2 : beams[k] \in B
      BY <3>2, <3>3, <3>4
    <3>6. QED
      BY <3>1, <3>2, <3>5
  <2>3. bars = columns \o beams
    OBVIOUS
  <2> HIDE DEF columns, beams, bars, B
  <2>4. columns \in Seq(B) /\ beams \in Seq(B) /\ Len(columns) = 3 /\ Len(beams) = 2
    <3>1. 3 \in Int /\ 2 \in Int
      OBVIOUS
    <3>2. columns \in Seq(B) /\ beams \in Seq(B)
      BY ONLY <2>1, <2>2, <3>1, Listed
    <3>3. /\ DOMAIN columns = 1..3 /\ DOMAIN columns = 1..Len(columns) /\ Len(columns) \in Nat
          /\ DOMAIN beams = 1..2 /\ DOMAIN beams = 1..Len(beams) /\ Len(beams) \in Nat
      BY <2>1, <2>2, <3>2, LenProperties
    <3>4. QED
      BY <3>2, <3>3
  <2>5. /\ bars \in Seq(B) /\ Len(bars) = 5
        /\ \A k \in 1..5 : bars[k] = IF k <= 3 THEN columns[k] ELSE beams[k - 3]
    <3>1. /\ columns \o beams \in Seq(B) /\ Len(columns \o beams) = Len(columns) + Len(beams)
          /\ \A k \in 1..(Len(columns) + Len(beams)) :
                 (columns \o beams)[k] =
                     IF k <= Len(columns) THEN columns[k] ELSE beams[k - Len(columns)]
      BY <2>4, ConcatProperties
    <3>2. QED
      BY <2>3, <2>4, <3>1
  <2>6. /\ bars[1] = Frame(1, 4, 2) /\ bars[2] = Frame(2, 5, 2) /\ bars[3] = Frame(3, 6, 2)
        /\ bars[4] = Frame(4, 5, 1) /\ bars[5] = Frame(5, 6, 1)
    BY <2>1, <2>2, <2>5
  <2>7. \A k \in 1..5 : k = 1 \/ k = 2 \/ k = 3 \/ k = 4 \/ k = 5
    OBVIOUS
  <2>8. \A k \in 1..5 : Bar(bars[k], 1..6, 1..2)
    <3>1. /\ Bar(bars[1], 1..6, 1..2) /\ Bar(bars[2], 1..6, 1..2) /\ Bar(bars[3], 1..6, 1..2)
          /\ Bar(bars[4], 1..6, 1..2) /\ Bar(bars[5], 1..6, 1..2)
      BY <2>6 DEF Bar, Frame
    <3>2. QED
      BY <2>7, <3>1
  <2>9. \A k, l \in 1..5 : Ends(bars[k]) = Ends(bars[l]) => k = l
    <3>1. /\ bars[1].i = 1 /\ bars[1].j = 4 /\ bars[2].i = 2 /\ bars[2].j = 5
          /\ bars[3].i = 3 /\ bars[3].j = 6 /\ bars[4].i = 4 /\ bars[4].j = 5
          /\ bars[5].i = 5 /\ bars[5].j = 6
      BY <2>6 DEF Frame
    <3>2. \A k \in 1..5 : bars[k].i \in Int /\ bars[k].j \in Int /\ bars[k].i < bars[k].j
      BY <2>7, <3>1
    <3>3. \A k, l \in 1..5 : bars[k].i = bars[l].i /\ bars[k].j = bars[l].j => k = l
      BY <2>7, <3>1
    <3>4. ASSUME NEW k \in 1..5, NEW l \in 1..5, Ends(bars[k]) = Ends(bars[l])
          PROVE  bars[k].i = bars[l].i /\ bars[k].j = bars[l].j
      <4>1. \/ bars[k].i = bars[l].i /\ bars[k].j = bars[l].j
            \/ bars[k].i = bars[l].j /\ bars[k].j = bars[l].i
        BY <3>4 DEF Ends
      <4>2. QED
        BY <3>2, <4>1
    <3>5. QED
      BY <3>3, <3>4
  <2>10. QED
    BY <2>5, <2>8, <2>9 DEF IsASequence
<1>5. /\ IsASequence(supports) /\ 1..Len(supports) = 1..3
      /\ \A k \in 1..3 : DOMAIN supports[k] = {"node", "type"} /\ supports[k].node \in 1..6
      /\ \A k, l \in 1..3 : supports[k].node = supports[l].node => k = l
  <2>1. IsAMap(supports) /\ DOMAIN supports = 1..3
        /\ \A k \in 1..3 : supports[k] = Fixed(k)
    <3>1. supports = [c \in 1..3 |-> Fixed(c)]
      OBVIOUS
    <3> HIDE DEF supports
    <3>2. QED
      BY <3>1 DEF IsAMap
  <2> HIDE DEF supports
  <2>2. IsASequence(supports) /\ 1..Len(supports) = 1..3
    <3> DEFINE P == {supports[k] : k \in 1..3}
    <3>1. 3 \in Int /\ \A k \in 1..3 : supports[k] \in P
      OBVIOUS
    <3> HIDE DEF P
    <3>2. QED
      BY ONLY <2>1, <3>1, Listed
  <2>3. QED
    BY <2>1, <2>2 DEF Fixed
<1>6. IsASequence(loads) /\ \A k \in 1..Len(loads) : Load(loads[k], 1..6, 1..5)
  <2> DEFINE rest == [l \in 1..1 |-> Nodal(node(l, 0), 1)]
             P == {Nodal(4, 1)}
  <2>1. rest \in [1..1 -> P] /\ 1 \in Nat
    OBVIOUS
  <2>2. loads = <<>> \o rest
    OBVIOUS
  <2>3. \A load \in P : Load(load, 1..6, 1..5)
    BY DEF Nodal, Load
  <2> HIDE DEF P, rest, loads
  <2>4. rest \in Seq(P)
    BY <2>1, SeqDef
  <2>5. loads \in Seq(P)
    BY <2>2, <2>4, ConcatProperties
  <2>6. \A k \in 1..Len(loads) : loads[k] \in P
    BY <2>5, ElementOfSeq
  <2>7. QED
    BY <2>3, <2>5, <2>6 DEF IsASequence
<1> HIDE DEF nodes, bars, supports, loads, sections
<1>7. Parts(nodes, bars, supports, loads, sections)
  <2>1. 1 \in 1..Len(sections)
    BY <1>3
  <2>2. QED
    BY <1>2, <1>3, <1>4, <1>5, <1>6, <2>1 DEF Parts
<1>8. QED
  BY <1>1, <1>7, GeneratedIsFramed

-----------------------------------------------------------------------------
(***************************************************************************)
(* Structures on the canvas, and the stacks of the history.                *)
(***************************************************************************)

\* What create_model was called with, where the drawer shows it.
LEMMA CreateModelIsFramed ==
    ASSUME NEW m \in Models, CanCreateModel(m), NothingIsDoubled => Single(m),
           NEW f, f = CreateModel(m), Shown(f)
    PROVE  Framed(f) /\ f.cases = None /\ f.nextId.cases = None
<1>1. /\ \A map \in Maps : IsFiniteSet(DOMAIN m[map]) /\ DOMAIN m[map] \subseteq Nat
      /\ \A n \in DOMAIN m.nodes : m.nodes[n] \in [x : Int, y : Int]
      /\ m.elements = [id \in DOMAIN m.elements |-> m.elements[id]]
      /\ \A e \in DOMAIN m.elements : DOMAIN m.elements[e] = {"i", "j", "section"}
      /\ \A s \in DOMAIN m.supports : DOMAIN m.supports[s] = {"node", "type"}
      /\ \A l \in DOMAIN m.loads : m.loads[l].kind \in {"nodal", "distributed"}
      /\ 1 \in DOMAIN m.sections /\ DOMAIN m.loads = 1..Cardinality(DOMAIN m.loads)
  <2>1. \A map \in {"elements", "supports"} : m[map] = [id \in DOMAIN m[map] |-> m[map][id]]
    BY ModelsAssumption
  <2>2. m.elements = [id \in DOMAIN m.elements |-> m.elements[id]]
    BY <2>1
  <2>3. QED
    BY <2>2, ModelsAssumption
<1>2. ASSUME NEW map \in Maps PROVE Ids(DOMAIN m[map], MaxId(m[map]) + 1)
  <2> DEFINE all == DOMAIN m[map] \cup {0}
  <2>1. all # {} /\ IsFiniteSet(all) /\ all \subseteq Nat /\ all \subseteq Int
    BY <1>1, FS_AddElement
  <2>2. MaxId(m[map]) = Max(all)
    BY DEF MaxId
  <2> HIDE DEF all
  <2>3. Max(all) \in all /\ \A id \in all : id <= Max(all)
    BY <2>1, LeastAndGreatest
  <2>4. MaxId(m[map]) \in Nat /\ \A id \in all : id \in Nat /\ id <= MaxId(m[map])
    BY <2>1, <2>2, <2>3
  <2>5. QED
    BY <2>4 DEF Ids, all
<1>3. /\ f.nodes = m.nodes /\ f.elements = m.elements /\ f.supports = m.supports
      /\ f.loads = m.loads /\ f.sections = m.sections
      /\ f.cases = None /\ f.nextId.cases = None
      /\ f.nextId.nodes = MaxId(m.nodes) + 1 /\ f.nextId.elements = MaxId(m.elements) + 1
      /\ f.nextId.supports = MaxId(m.supports) + 1 /\ f.nextId.sections = MaxId(m.sections) + 1
      /\ f.nextId.loads = Cardinality(DOMAIN m.loads) + 1
      /\ Shaped(f)
  BY DEF CreateModel, NextLoad, Shaped, Kinds
<1>4. /\ Ids(DOMAIN f.nodes, f.nextId.nodes) /\ Ids(DOMAIN f.elements, f.nextId.elements)
      /\ Ids(DOMAIN f.supports, f.nextId.supports) /\ Ids(DOMAIN f.sections, f.nextId.sections)
  BY <1>2, <1>3 DEF Maps
<1>5. Ids(DOMAIN f.loads, f.nextId.loads)
  <2> DEFINE n == Cardinality(DOMAIN m.loads)
  <2>1. n \in Nat
    BY <1>1, FS_CardinalityType DEF Maps
  <2>2. DOMAIN f.loads = 1..n /\ f.nextId.loads = n + 1
    BY <1>1, <1>3
  <2> HIDE DEF n
  <2>3. QED
    BY <2>1, <2>2 DEF Ids
<1>6. NodesIn(f.nodes, f.nextId.nodes)
  BY <1>1, <1>3, <1>4 DEF NodesIn, Single
<1>7. BarsIn(f.elements, f.nextId.elements, DOMAIN f.nodes, DOMAIN f.sections)
  <2>1. \A e \in DOMAIN m.elements :
            /\ {m.elements[e].i, m.elements[e].j} \subseteq DOMAIN m.nodes
            /\ m.elements[e].section \in DOMAIN m.sections
    BY DEF CanCreateModel, Range
  <2>2. ASSUME NothingIsDoubled
        PROVE  /\ \A e \in DOMAIN m.elements : m.elements[e].i # m.elements[e].j
               /\ \A d, e \in DOMAIN m.elements :
                      Ends(m.elements[d]) = Ends(m.elements[e]) => d = e
    <3> DEFINE joins == [e \in DOMAIN m.elements |-> {m.elements[e].i, m.elements[e].j}]
    <3>1. IsInjective(joins) /\ DOMAIN joins = DOMAIN m.elements
      BY <2>2 DEF Single
    <3>2. \A e \in DOMAIN m.elements : joins[e] = Ends(m.elements[e])
      BY DEF Ends
    <3>3. \A e \in DOMAIN m.elements : m.elements[e].i # m.elements[e].j
      BY <2>2 DEF Single, Range
    <3> HIDE DEF joins
    <3>4. QED
      BY <3>1, <3>2, <3>3 DEF IsInjective
  <2>3. \A e \in DOMAIN f.elements : Bar(f.elements[e], DOMAIN f.nodes, DOMAIN f.sections)
    BY <1>1, <1>3, <2>1, <2>2 DEF Bar
  <2>4. IsAMap(f.elements)
    BY <1>1, <1>3 DEF IsAMap
  <2>5. QED
    BY <1>3, <1>4, <2>2, <2>3, <2>4 DEF BarsIn
<1>8. SupportsIn(f.supports, f.nextId.supports, DOMAIN f.nodes)
  <2>1. \A s \in DOMAIN m.supports : m.supports[s].node \in DOMAIN m.nodes
    BY DEF CanCreateModel, Range
  <2>2. ASSUME NothingIsDoubled
        PROVE  \A r, s \in DOMAIN m.supports : m.supports[r].node = m.supports[s].node => r = s
    BY <2>2 DEF Single, IsInjective
  <2>3. QED
    BY <1>1, <1>3, <1>4, <2>1, <2>2 DEF SupportsIn
<1>9. LoadsIn(f.loads, f.nextId.loads, DOMAIN f.nodes, DOMAIN f.elements)
  <2>1. \A l \in DOMAIN f.loads :
            f.loads[l].on \in IF f.loads[l].kind = "nodal" THEN DOMAIN f.nodes ELSE DOMAIN f.elements
    BY DEF Shown, Range
  <2>2. QED
    BY <1>1, <1>3, <1>5, <2>1 DEF LoadsIn, Load
<1>10. SectionsIn(f.sections, f.nextId.sections)
  BY <1>1, <1>3, <1>4 DEF SectionsIn, Single
<1>11. QED
  BY <1>3, <1>6, <1>7, <1>8, <1>9, <1>10 DEF Framed

LEMMA EditedStaysWhole ==
    ASSUME NEW f, Settled(f), NEW h, Edited(f, h)
    PROVE  Settled(h) /\ Whole(h)
BY DEF Settled, Whole, Edited, CasesMaybe

LEMMA RestoredIsSettled ==
    ASSUME NEW f, Whole(f)
    PROVE  Settled(Restored(f))
<1> DEFINE g == Restored(f)
           four == <<1, 2, 3, 4>>
<1>1. /\ DOMAIN g = DOMAIN f /\ DOMAIN g.nextId = DOMAIN f.nextId
      /\ \A map \in Kinds : g[map] = f[map] /\ g.nextId[map] = f.nextId[map]
      /\ g.cases = IF f.cases = None THEN four ELSE f.cases
      /\ g.nextId.cases = IF f.nextId.cases = None THEN 3 ELSE f.nextId.cases
  BY DEF Restored, Whole, Framed, Shaped, Kinds
<1>2. four \in Seq(Nat) /\ IsInjective(four)
  <2>1. DOMAIN four = 1..4 /\ four[1] = 1 /\ four[2] = 2 /\ four[3] = 3 /\ four[4] = 4
        /\ four \in Seq(Nat)
    OBVIOUS
  <2>2. \A k \in 1..4 : k = 1 \/ k = 2 \/ k = 3 \/ k = 4
    OBVIOUS
  <2> HIDE DEF four
  <2>3. \A k, l \in 1..4 : four[k] = four[l] => k = l
    BY <2>1, <2>2
  <2>4. QED
    BY <2>1, <2>3 DEF IsInjective
<1> HIDE DEF g, four
<1>3. CasesIn(g.cases, g.nextId.cases)
  BY <1>1, <1>2 DEF Whole, CasesMaybe, CasesIn
<1>4. /\ g.nodes = f.nodes /\ g.nextId.nodes = f.nextId.nodes
      /\ g.elements = f.elements /\ g.nextId.elements = f.nextId.elements
      /\ g.supports = f.supports /\ g.nextId.supports = f.nextId.supports
      /\ g.loads = f.loads /\ g.nextId.loads = f.nextId.loads
      /\ g.sections = f.sections /\ g.nextId.sections = f.nextId.sections
  BY <1>1 DEF Kinds
<1>5. Framed(g)
  BY <1>1, <1>4 DEF Whole, Framed, Shaped
<1>6. QED
  BY <1>3, <1>5 DEF Settled, g

LEMMA ClearedIsSettled == Settled(Cleared)
<1> DEFINE four == <<1, 2, 3, 4>>
           one == <<"default">>
<1>1. /\ DOMAIN Cleared = DOMAIN NoFrame /\ DOMAIN Cleared.nextId = DOMAIN NoFrame.nextId
      /\ Cleared.nodes = NoFrame.nodes /\ Cleared.nextId.nodes = NoFrame.nextId.nodes
      /\ Cleared.elements = NoFrame.elements /\ Cleared.nextId.elements = NoFrame.nextId.elements
      /\ Cleared.supports = NoFrame.supports /\ Cleared.nextId.supports = NoFrame.nextId.supports
      /\ Cleared.loads = NoFrame.loads /\ Cleared.nextId.loads = NoFrame.nextId.loads
      /\ Cleared.sections = one /\ Cleared.nextId.sections = 2
      /\ Cleared.cases = four /\ Cleared.nextId.cases = 5
  BY DEF Cleared, NoFrame
<1>2. SectionsIn(one, 2)
  <2>1. DOMAIN one = 1..1
    OBVIOUS
  <2>2. QED
    BY <2>1 DEF SectionsIn, Ids, IsInjective
<1>3. CasesIn(four, 5)
  <2>1. DOMAIN four = 1..4 /\ four[1] = 1 /\ four[2] = 2 /\ four[3] = 3 /\ four[4] = 4
        /\ four \in Seq(Nat)
    OBVIOUS
  <2>2. \A k \in 1..4 : k = 1 \/ k = 2 \/ k = 3 \/ k = 4
    OBVIOUS
  <2> HIDE DEF four
  <2>3. \A k, l \in 1..4 : four[k] = four[l] => k = l
    BY <2>1, <2>2
  <2>4. QED
    BY <2>1, <2>3 DEF IsInjective, CasesIn
<1> HIDE DEF four, one
<1>5. BarsIn(Cleared.elements, Cleared.nextId.elements, DOMAIN Cleared.nodes, DOMAIN Cleared.sections)
  BY <1>1, NoFrameIsEmpty
<1>6. Framed(Cleared)
  <2>1. DOMAIN Cleared.nodes = DOMAIN NoFrame.nodes /\ DOMAIN Cleared.elements = DOMAIN NoFrame.elements
    BY <1>1
  <2>2. QED
    BY <1>1, <1>2, <1>5, <2>1, NoFrameIsEmpty DEF Framed, Shaped
<1>7. QED
  BY <1>1, <1>3, <1>6 DEF Settled

LEMMA SettledIsLinked ==
    ASSUME LoadedNodesStay, NEW f, Settled(f)
    PROVE  Linked(f)
<1>1. /\ NodesIn(f.nodes, f.nextId.nodes)
      /\ BarsIn(f.elements, f.nextId.elements, DOMAIN f.nodes, DOMAIN f.sections)
      /\ SupportsIn(f.supports, f.nextId.supports, DOMAIN f.nodes)
      /\ LoadsIn(f.loads, f.nextId.loads, DOMAIN f.nodes, DOMAIN f.elements)
      /\ SectionsIn(f.sections, f.nextId.sections)
  BY DEF Settled, Framed
<1>2. \A e \in Range(f.elements) :
          {e.i, e.j} \subseteq DOMAIN f.nodes /\ e.section \in DOMAIN f.sections
  BY <1>1 DEF BarsIn, Bar, Range
<1>3. \A s \in Range(f.supports) : s.node \in DOMAIN f.nodes
  BY <1>1 DEF SupportsIn, Range
<1>4. \A l \in Range(f.loads) :
          l.on \in IF l.kind = "nodal" THEN DOMAIN f.nodes ELSE DOMAIN f.elements
  BY <1>1 DEF LoadsIn, Load, Range
<1>5. \A map \in Maps : \A id \in DOMAIN f[map] : id < f.nextId[map]
  BY <1>1 DEF NodesIn, BarsIn, SupportsIn, LoadsIn, SectionsIn, Ids, Maps
<1>6. QED
  BY <1>2, <1>3, <1>4, <1>5 DEF Linked

LEMMA SettledIsSingle ==
    ASSUME NothingIsDoubled, NEW f, Settled(f)
    PROVE  Single(f)
<1>1. /\ NodesIn(f.nodes, f.nextId.nodes)
      /\ BarsIn(f.elements, f.nextId.elements, DOMAIN f.nodes, DOMAIN f.sections)
      /\ SupportsIn(f.supports, f.nextId.supports, DOMAIN f.nodes)
      /\ SectionsIn(f.sections, f.nextId.sections)
  BY DEF Settled, Framed
<1>2. \A e \in Range(f.elements) : e.i # e.j
  BY <1>1 DEF BarsIn, Bar, Range
<1>3. IsInjective(f.nodes) /\ IsInjective(f.sections)
  BY <1>1 DEF NodesIn, SectionsIn
<1>4. IsInjective([e \in DOMAIN f.elements |-> {f.elements[e].i, f.elements[e].j}])
  BY <1>1 DEF BarsIn, Ends, IsInjective
<1>5. IsInjective([s \in DOMAIN f.supports |-> f.supports[s].node])
  BY <1>1 DEF SupportsIn, IsInjective
<1>6. QED
  BY <1>2, <1>3, <1>4, <1>5 DEF Single

LEMMA CaseAdded ==
    ASSUME NEW f, Settled(f), f.nextId.cases \notin ToSet(f.cases) \/ ~CasesAreNew,
           NEW h, h = [f EXCEPT !.cases = Append(@, f.nextId.cases), !.nextId.cases = @ + 1]
    PROVE  Settled(h)
<1> DEFINE next == f.nextId.cases
           cases == Append(f.cases, next)
<1>1. /\ DOMAIN h = DOMAIN f /\ DOMAIN h.nextId = DOMAIN f.nextId
      /\ h.nodes = f.nodes /\ h.nextId.nodes = f.nextId.nodes
      /\ h.elements = f.elements /\ h.nextId.elements = f.nextId.elements
      /\ h.supports = f.supports /\ h.nextId.supports = f.nextId.supports
      /\ h.loads = f.loads /\ h.nextId.loads = f.nextId.loads
      /\ h.sections = f.sections /\ h.nextId.sections = f.nextId.sections
      /\ h.cases = cases /\ h.nextId.cases = next + 1
  BY DEF Settled, Framed, Shaped, Kinds
<1>2. Framed(h)
  BY ONLY <1>1, Settled(f) DEF Settled, Framed, Shaped
<1>3. f.cases \in Seq(Nat) /\ next \in Nat /\ next + 1 \in Nat
  BY DEF Settled, CasesIn
<1>4. CasesAreNew => IsInjective(cases)
  <2> SUFFICES ASSUME CasesAreNew PROVE IsInjective(cases)
    OBVIOUS
  <2>1. IsInjective(f.cases) /\ next \notin ToSet(f.cases)
    BY DEF Settled, CasesIn
  <2>2. /\ Len(f.cases) \in Nat /\ DOMAIN f.cases = 1..Len(f.cases)
        /\ DOMAIN cases = 1..(Len(f.cases) + 1)
        /\ \A k \in 1..Len(f.cases) : cases[k] = f.cases[k]
        /\ cases[Len(f.cases) + 1] = next
    BY <1>3, LenProperties, AppendProperties
  <2> HIDE DEF cases, next
  <2>3. ASSUME NEW k \in 1..(Len(f.cases) + 1), NEW l \in 1..(Len(f.cases) + 1), cases[k] = cases[l]
        PROVE  k = l
    <3>1. CASE k \in 1..Len(f.cases) /\ l \in 1..Len(f.cases)
      BY <2>1, <2>2, <2>3, <3>1 DEF IsInjective
    <3>2. CASE k = Len(f.cases) + 1 /\ l \in 1..Len(f.cases)
      BY <2>1, <2>2, <2>3, <3>2 DEF ToSet
    <3>3. CASE k \in 1..Len(f.cases) /\ l = Len(f.cases) + 1
      BY <2>1, <2>2, <2>3, <3>3 DEF ToSet
    <3>4. QED
      BY <2>2, <3>1, <3>2, <3>3
  <2>4. QED
    BY <2>2, <2>3 DEF IsInjective
<1>5. CasesIn(h.cases, h.nextId.cases)
  <2>1. cases \in Seq(Nat)
    BY <1>3, AppendProperties
  <2>2. QED
    BY <1>1, <1>3, <1>4, <2>1 DEF CasesIn
<1>6. QED
  BY <1>2, <1>5 DEF Settled

LEMMA StackOf ==
    ASSUME NEW S, NEW s \in Seq(S)
    PROVE  IsStack(s) /\ ToSet(s) \subseteq S /\ Len(s) \in Nat /\ DOMAIN s = 1..Len(s)
<1>1. Len(s) \in Nat /\ DOMAIN s = 1..Len(s) /\ \A i \in 1..Len(s) : s[i] \in S
  BY LenProperties, ElementOfSeq
<1>2. ToSet(s) \subseteq S /\ \A i \in 1..Len(s) : s[i] \in ToSet(s)
  BY <1>1 DEF ToSet
<1>3. s \in [1..Len(s) -> S]
  BY LenProperties
<1>4. s \in [1..Len(s) -> ToSet(s)]
  BY <1>2, <1>3
<1>5. s \in Seq(ToSet(s))
  BY <1>1, <1>4, SeqDef
<1>6. QED
  BY <1>1, <1>2, <1>5 DEF IsStack

LEMMA EmptyStack == IsStack(<<>>) /\ Len(<<>>) = 0 /\ ToSet(<<>>) = {}
<1>1. DOMAIN <<>> = {} /\ Len(<<>>) = 0
  OBVIOUS
<1>2. <<>> \in Seq(ToSet(<<>>))
  OBVIOUS
<1>3. QED
  BY <1>1, <1>2 DEF IsStack, ToSet

LEMMA StackAppended ==
    ASSUME NEW s, IsStack(s), NEW f, NEW t, t = Append(s, f)
    PROVE  /\ IsStack(t) /\ t # <<>> /\ Last(t) = f /\ Len(t) = Len(s) + 1
           /\ ToSet(t) \subseteq ToSet(s) \cup {f}
<1> DEFINE S == ToSet(s) \cup {f}
<1>1. s \in Seq(S)
  BY SeqMonotonic DEF IsStack
<1> HIDE DEF S
<1>2. f \in S
  BY DEF S
<1>3. t \in Seq(S) /\ t # <<>> /\ Len(t) = Len(s) + 1 /\ t[Len(s) + 1] = f
  BY <1>1, <1>2, AppendProperties
<1>4. QED
  BY <1>3, StackOf DEF Last, S

LEMMA StackPopped ==
    ASSUME NEW s, IsStack(s), s # <<>>
    PROVE  /\ IsStack(Front(s)) /\ Len(Front(s)) = Len(s) - 1 /\ Len(s) \in Nat
           /\ ToSet(Front(s)) \subseteq ToSet(s) /\ Last(s) \in ToSet(s)
<1> DEFINE S == ToSet(s)
<1>1. s \in Seq(S)
  BY DEF IsStack
<1> HIDE DEF S
<1>2. Len(s) \in Nat /\ Len(s) # 0 /\ \A i \in 1..Len(s) : s[i] \in S
  BY <1>1, LenProperties, ElementOfSeq, EmptySeq
<1>3. 1 \in Int /\ Len(s) - 1 \in Int /\ \A i \in 1..(Len(s) - 1) : s[i] \in S
  BY <1>2
<1> DEFINE n == Len(s) - 1
<1>4. Front(s) \in Seq(S) /\ Len(Front(s)) = IF 1 <= n THEN n - 1 + 1 ELSE 0
  <2>1. Front(s) = SubSeq(s, 1, n)
    BY DEF Front
  <2>2. n \in Int /\ 1 \in Int /\ \A i \in 1..n : s[i] \in S
    BY <1>3
  <2> HIDE DEF n
  <2>3. QED
    BY ONLY <2>1, <2>2, SubSeqProperties
<1>5. Len(Front(s)) = Len(s) - 1
  <2>1. Len(s) \in Nat /\ Len(s) # 0
    BY <1>2
  <2>2. Len(Front(s)) = IF 1 <= n THEN n - 1 + 1 ELSE 0
    BY <1>4
  <2>3. n = Len(s) - 1
    OBVIOUS
  <2> HIDE DEF n
  <2>4. CASE Len(s) = 1
    BY <2>2, <2>3, <2>4
  <2>5. CASE Len(s) # 1
    BY <2>1, <2>2, <2>3, <2>5
  <2>6. QED
    BY <2>4, <2>5
<1>6. Last(s) \in S
  BY <1>2 DEF Last
<1>7. QED
  BY <1>2, <1>4, <1>5, <1>6, StackOf DEF S

LEMMA StackPushed ==
    ASSUME NEW s, IsStack(s), Len(s) <= MaxHistory, NEW f, NEW t, t = Pushed(f, s)
    PROVE  /\ IsStack(t) /\ t # <<>> /\ Last(t) = f /\ Len(t) \in Nat /\ Len(t) <= MaxHistory
           /\ ToSet(t) \subseteq ToSet(s) \cup {f}
<1> DEFINE a == Append(s, f)
           S == ToSet(a)
<1>1. Len(s) \in Nat /\ MaxHistory \in Nat \ {0}
  BY StackOf, BoundsAssumption DEF IsStack
<1>2. /\ IsStack(a) /\ a # <<>> /\ Last(a) = f /\ Len(a) = Len(s) + 1
      /\ S \subseteq ToSet(s) \cup {f}
  BY StackAppended
<1>3. t = IF Len(a) > MaxHistory THEN Tail(a) ELSE a
  BY DEF Pushed
<1>4. a \in Seq(S)
  BY <1>2 DEF IsStack
<1> HIDE DEF a, S
<1>5. CASE Len(a) > MaxHistory
  <2>1. /\ Tail(a) \in Seq(S) /\ Len(Tail(a)) = Len(a) - 1
        /\ \A i \in 1..Len(Tail(a)) : Tail(a)[i] = a[i + 1]
    BY <1>2, <1>4, HeadTailProperties
  <2>2. t = Tail(a) /\ Len(t) = Len(s) /\ Len(t) = MaxHistory
    BY <1>1, <1>2, <1>3, <1>5, <2>1
  <2>3. Last(t) = f
    <3>1. Len(t) \in 1..Len(t) /\ Len(t) + 1 = Len(a)
      BY <1>1, <1>2, <2>2
    <3>2. t[Len(t)] = a[Len(a)]
      BY <2>1, <2>2, <3>1
    <3>3. QED
      BY <1>2, <3>2 DEF Last
  <2>4. t # <<>>
    BY <1>1, <2>2, EmptyStack
  <2>5. IsStack(t) /\ ToSet(t) \subseteq S
    BY <2>1, <2>2, StackOf
  <2>6. QED
    BY <1>1, <1>2, <2>2, <2>3, <2>4, <2>5
<1>6. CASE ~(Len(a) > MaxHistory)
  <2>1. t = a
    BY <1>3, <1>6
  <2>2. QED
    BY <1>1, <1>2, <1>6, <2>1 DEF S
<1>7. QED
  BY <1>5, <1>6

\* An edit of c becomes d.
LEMMA HeldPushed ==
    ASSUME NEW c, NEW u, NEW r, Held(c, u, r), NEW d, Settled(d)
    PROVE  /\ Held(d, Pushed(c, u), <<>>)
           /\ Pushed(c, u) # <<>> /\ Last(Pushed(c, u)) = c
<1> DEFINE t == Pushed(c, u)
<1>1. /\ IsStack(u) /\ IsStack(r) /\ Len(u) + Len(r) <= MaxHistory /\ Settled(c)
      /\ \A f \in ToSet(u) : Settled(f)
  BY DEF Held, StacksFit, StackIsSettled
<1>2. Len(u) \in Nat /\ Len(r) \in Nat /\ MaxHistory \in Nat
  BY <1>1, StackOf, BoundsAssumption DEF IsStack
<1>3. Len(u) <= MaxHistory
  BY <1>1, <1>2
<1>4. /\ IsStack(t) /\ t # <<>> /\ Last(t) = c /\ Len(t) \in Nat /\ Len(t) <= MaxHistory
      /\ ToSet(t) \subseteq ToSet(u) \cup {c}
  BY <1>1, <1>3, StackPushed
<1> HIDE DEF t
<1>5. StackIsSettled(t) /\ StackIsSettled(<<>>)
  BY <1>1, <1>4, EmptyStack DEF StackIsSettled
<1>6. StacksFit(t, <<>>)
  BY <1>2, <1>4, EmptyStack DEF StacksFit
<1>7. Held(d, t, <<>>)
  BY <1>5, <1>6 DEF Held
<1>8. QED
  BY <1>4, <1>7 DEF t

\* What is taken from one stack goes to the other.
LEMMA HeldMoved ==
    ASSUME NEW c, NEW u, NEW r, Held(c, u, r), u # <<>>
    PROVE  Held(Last(u), Front(u), Append(r, c)) /\ Held(Last(u), Append(r, c), Front(u))
<1> DEFINE left == Front(u)
           more == Append(r, c)
<1>1. /\ IsStack(u) /\ IsStack(r) /\ Len(u) + Len(r) <= MaxHistory /\ Settled(c)
      /\ \A f \in ToSet(u) : Settled(f)
      /\ \A f \in ToSet(r) : Settled(f)
  BY DEF Held, StacksFit, StackIsSettled
<1>2. Len(u) \in Nat /\ Len(r) \in Nat
  BY <1>1, StackOf DEF IsStack
<1>3. /\ IsStack(left) /\ Len(left) = Len(u) - 1 /\ ToSet(left) \subseteq ToSet(u)
      /\ Last(u) \in ToSet(u)
  BY <1>1, StackPopped
<1>4. IsStack(more) /\ Len(more) = Len(r) + 1 /\ ToSet(more) \subseteq ToSet(r) \cup {c}
  BY <1>1, StackAppended
<1> HIDE DEF left, more
<1>5. StacksFit(left, more) /\ StacksFit(more, left)
  BY <1>1, <1>2, <1>3, <1>4 DEF StacksFit
<1>6. StackIsSettled(left) /\ StackIsSettled(more)
  BY <1>1, <1>3, <1>4 DEF StackIsSettled
<1>7. Settled(Last(u))
  BY <1>1, <1>3
<1>8. QED
  BY <1>5, <1>6, <1>7 DEF Held, left, more

-----------------------------------------------------------------------------
(***************************************************************************)
(* Every action keeps the invariant.                                       *)
(***************************************************************************)

LEMMA InitInv == Init => Inv
<1> SUFFICES ASSUME Init PROVE Inv
  OBVIOUS
<1>1. StacksFit(<<>>, <<>>) /\ StackIsSettled(<<>>)
  BY EmptyStack, BoundsAssumption DEF StacksFit, StackIsSettled
<1>2. CanvasInv /\ OtherInv
  BY <1>1, StartAssumption DEF Init, CanvasInv, OtherInv, Held
<1>3. TypeInv /\ RequestsInv /\ DraftInv
  <2>1. requests = {} /\ draft = FALSE
    BY DEF Init
  <2>2. TypeInv
    <3>1. draft \in BOOLEAN /\ solving \in BOOLEAN /\ applied \in BOOLEAN
      BY DEF Init
    <3>2. sent = 0 /\ edits = 0 /\ MaxRequests \in Nat /\ MaxEdits \in Nat
      BY BoundsAssumption DEF Init
    <3>3. sent \in 0..MaxRequests /\ edits \in 0..MaxEdits
      BY ONLY <3>2
    <3>4. QED
      BY <3>1, <3>3 DEF TypeInv
  <2>3. QED
    BY <2>1, <2>2 DEF RequestsInv, DraftInv
<1>4. QED
  BY <1>2, <1>3 DEF Inv

LEMMA DrawnKeeps ==
    ASSUME Inv, NEW f, Settled(f), Drawn(f)
    PROVE  Inv'
<1>1. Held(canvas', undo', redo')
  BY HeldPushed DEF Inv, CanvasInv, Drawn
<1>2. TypeInv' /\ OtherInv' /\ RequestsInv'
  BY BoundsAssumption DEF Inv, TypeInv, OtherInv, RequestsInv, Drawn, drawer
<1>3. DraftIsLeftAlone => DraftInv'
  BY DEF Inv, DraftInv, DraftIsLeftAlone, Drawn, drawer, Free
<1>4. QED
  BY <1>1, <1>2, <1>3 DEF Inv, CanvasInv, DraftIsLeftAlone

LEMMA AddNodeKeeps ==
    ASSUME Inv, AddNode
    PROVE  Inv'
<1> DEFINE more(p) == Appended(canvas, "nodes", <<p>>)
<1>1. PICK p \in Points :
          /\ NothingIsDoubled => NodesAt(canvas, p.x, p.y) = {}
          /\ Drawn(more(p))
  BY DEF AddNode, NothingIsDoubled
<1>2. Settled(canvas) /\ Framed(canvas)
  BY DEF Inv, CanvasInv, Held, Settled
<1>3. p \in [x : Int, y : Int]
  BY PointsAssumption
<1>4. /\ <<p>> \in Seq({p}) /\ Len(<<p>>) = 1 /\ <<p>>[1] = p
      /\ \A k \in 1..1 : k = 1
  OBVIOUS
<1>5. Gains(canvas, more(p), "nodes", <<p>>)
  BY <1>2, <1>4, AppendedGains DEF Framed, NodesIn, Kinds
<1> HIDE DEF more
<1>6. \A k \in 1..Len(<<p>>) : <<p>>[k].x \in Int /\ <<p>>[k].y \in Int
  BY <1>3, <1>4
<1>7. NothingIsDoubled => \A n \in DOMAIN canvas.nodes : p # canvas.nodes[n]
  <2>1. p = [x |-> p.x, y |-> p.y]
    BY <1>3
  <2>2. QED
    BY <1>1, <2>1 DEF NodesAt
<1>8. NothingIsDoubled =>
          /\ \A k, l \in 1..Len(<<p>>) : <<p>>[k] = <<p>>[l] => k = l
          /\ \A k \in 1..Len(<<p>>) : \A n \in DOMAIN canvas.nodes : <<p>>[k] # canvas.nodes[n]
  BY <1>4, <1>7
<1>9. Framed(more(p))
  BY ONLY <1>2, <1>5, <1>6, <1>8, NodesGained
<1>10. Settled(more(p))
  BY <1>2, <1>5, <1>9 DEF Settled, Gains, Kinds
<1>11. QED
  BY <1>1, <1>10, DrawnKeeps

LEMMA AddElementKeeps ==
    ASSUME Inv, AddElement
    PROVE  Inv'
<1> DEFINE more(i, j) == Appended(canvas, "elements", <<Frame(i, j, 1)>>)
<1>1. PICK i \in DOMAIN canvas.nodes, j \in DOMAIN canvas.nodes :
          /\ i < j
          /\ NothingIsDoubled => ~Joined(canvas, i, j)
          /\ Drawn(more(i, j))
  BY DEF AddElement, NothingIsDoubled
<1>2. Settled(canvas) /\ Framed(canvas)
  BY DEF Inv, CanvasInv, Held, Settled
<1> DEFINE bar == Frame(i, j, 1)
<1>3. bar.i = i /\ bar.j = j /\ bar.section = 1 /\ DOMAIN bar = {"i", "j", "section"}
  BY DEF Frame
<1>4. i \in Nat /\ j \in Nat /\ 1 \in DOMAIN canvas.sections
  BY <1>2 DEF Framed, NodesIn, SectionsIn, Ids
<1>5. Bar(bar, DOMAIN canvas.nodes, DOMAIN canvas.sections)
  BY <1>1, <1>3, <1>4 DEF Bar
<1>6. NothingIsDoubled =>
          \A e \in DOMAIN canvas.elements : Ends(bar) # Ends(canvas.elements[e])
  BY <1>1, <1>3 DEF Ends, Joined, Range
<1>7. more(i, j) = Appended(canvas, "elements", <<bar>>)
  OBVIOUS
<1> HIDE DEF bar, more
<1>8. /\ <<bar>> \in Seq({bar}) /\ Len(<<bar>>) = 1 /\ <<bar>>[1] = bar
      /\ \A k \in 1..1 : k = 1
  OBVIOUS
<1>9. Gains(canvas, more(i, j), "elements", <<bar>>)
  BY <1>2, <1>7, <1>8, AppendedGains DEF Framed, BarsIn, Kinds
<1>10. \A k \in 1..Len(<<bar>>) : Bar(<<bar>>[k], DOMAIN canvas.nodes, DOMAIN canvas.sections)
  BY <1>5, <1>8
<1>11. NothingIsDoubled =>
          /\ \A k, l \in 1..Len(<<bar>>) : Ends(<<bar>>[k]) = Ends(<<bar>>[l]) => k = l
          /\ \A k \in 1..Len(<<bar>>) : \A e \in DOMAIN canvas.elements :
                 Ends(<<bar>>[k]) # Ends(canvas.elements[e])
  BY <1>6, <1>8
<1>12. Framed(more(i, j))
  BY ONLY <1>2, <1>9, <1>10, <1>11, BarsGained
<1>13. Settled(more(i, j))
  BY <1>2, <1>9, <1>12 DEF Settled, Gains, Kinds
<1>14. QED
  BY <1>1, <1>13, DrawnKeeps

LEMMA RemoveElementKeeps ==
    ASSUME Inv, RemoveElement
    PROVE  Inv'
<1>1. PICK e \in DOMAIN canvas.elements : Drawn(DeleteElement(canvas, e))
  BY DEF RemoveElement
<1>2. Settled(canvas) /\ Framed(canvas)
  BY DEF Inv, CanvasInv, Held, Settled
<1>3. Settled(DeleteElement(canvas, e))
  BY <1>2, DeleteElementIsFramed, EditedStaysWhole
<1>4. QED
  BY <1>1, <1>3, DrawnKeeps

LEMMA RemoveNodeKeeps ==
    ASSUME Inv, RemoveNode
    PROVE  Inv'
<1> DEFINE Gone(n) == {e \in DOMAIN canvas.elements :
                          n \in {canvas.elements[e].i, canvas.elements[e].j}}
           Without(n) == [canvas EXCEPT
               !.nodes = Restrict(@, DOMAIN @ \ {n}),
               !.elements = Restrict(@, DOMAIN @ \ Gone(n)),
               !.supports = Restrict(@, {s \in DOMAIN @ : @[s].node # n}),
               !.loads = Restrict(@, {l \in DOMAIN @ : ~(@[l].kind = "nodal" /\ @[l].on = n)})]
<1>1. PICK n \in DOMAIN canvas.nodes :
          /\ LoadedNodesStay =>
                 \A l \in Range(canvas.loads) : l.kind = "distributed" => l.on \notin Gone(n)
          /\ Drawn(Without(n))
  BY DEF RemoveNode, LoadedNodesStay
<1>2. Settled(canvas) /\ Framed(canvas)
  BY DEF Inv, CanvasInv, Held, Settled
<1>3. Edited(canvas, Without(n))
  BY <1>1, <1>2, RemovedNodeIsFramed
<1> HIDE DEF Without
<1>4. Settled(Without(n))
  BY <1>2, <1>3, EditedStaysWhole
<1>5. QED
  BY <1>1, <1>4, DrawnKeeps

LEMMA AddLoadCaseKeeps ==
    ASSUME Inv, AddLoadCase
    PROVE  Inv'
<1> DEFINE more == [canvas EXCEPT !.cases = Append(@, canvas.nextId.cases), !.nextId.cases = @ + 1]
<1>1. Drawn(more)
  BY DEF AddLoadCase
<1>2. canvas.nextId.cases \notin ToSet(canvas.cases) \/ ~CasesAreNew
  BY DEF AddLoadCase, CasesAreNew
<1>3. Settled(canvas)
  BY DEF Inv, CanvasInv, Held
<1>4. Settled(more)
  BY <1>2, <1>3, CaseAdded
<1> HIDE DEF more
<1>5. QED
  BY <1>1, <1>4, DrawnKeeps

\* Undo and redo, and a draft that is dropped.
LEMMA UndoneKeeps ==
    ASSUME CanvasInv, Undone
    PROVE  CanvasInv'
<1>1. CASE undo = <<>>
  BY <1>1 DEF Undone, CanvasInv
<1>2. CASE undo # <<>>
  <2>1. Held(Last(undo), Front(undo), Append(redo, canvas))
    BY <1>2, HeldMoved DEF CanvasInv
  <2>2. QED
    BY <1>2, <2>1 DEF Undone, CanvasInv
<1>3. QED
  BY <1>1, <1>2

LEMMA UndoKeeps ==
    ASSUME Inv, Undo
    PROVE  Inv'
<1>1. CanvasInv'
  BY UndoneKeeps DEF Inv, Undo
<1>2. TypeInv' /\ OtherInv' /\ RequestsInv'
  BY DEF Inv, TypeInv, OtherInv, RequestsInv, Undo, drawer
<1>3. DraftIsLeftAlone => DraftInv'
  BY DEF Inv, DraftInv, DraftIsLeftAlone, Undo, drawer, Free
<1>4. QED
  BY <1>1, <1>2, <1>3 DEF Inv, DraftIsLeftAlone

LEMMA RedoKeeps ==
    ASSUME Inv, Redo
    PROVE  Inv'
<1>1. Held(canvas, redo, undo)
  BY StackOf DEF Inv, CanvasInv, Held, StacksFit, IsStack
<1>2. CanvasInv'
  <2>1. Held(Last(redo), Append(undo, canvas), Front(redo))
    BY <1>1, HeldMoved DEF Redo
  <2>2. QED
    BY <2>1 DEF Redo, CanvasInv
<1>3. TypeInv' /\ OtherInv' /\ RequestsInv'
  BY DEF Inv, TypeInv, OtherInv, RequestsInv, Redo, drawer
<1>4. DraftIsLeftAlone => DraftInv'
  BY DEF Inv, DraftInv, DraftIsLeftAlone, Redo, drawer, Free
<1>5. QED
  BY <1>2, <1>3, <1>4 DEF Inv, DraftIsLeftAlone

LEMMA SwitchTabKeeps ==
    ASSUME Inv, SwitchTab
    PROVE  Inv'
<1>1. CanvasInv' /\ OtherInv'
  BY DEF Inv, CanvasInv, OtherInv, SwitchTab
<1>2. TypeInv' /\ RequestsInv'
  BY BoundsAssumption DEF Inv, TypeInv, RequestsInv, SwitchTab, drawer
<1>3. DraftIsLeftAlone => DraftInv'
  BY DEF Inv, DraftInv, DraftIsLeftAlone, SwitchTab, drawer, Free
<1>4. QED
  BY <1>1, <1>2, <1>3 DEF Inv, DraftIsLeftAlone

LEMMA OneMoreSent ==
    ASSUME TypeInv, sent < MaxRequests, sent' = sent + 1, edits' = edits,
           draft' \in BOOLEAN, solving' \in BOOLEAN, applied' \in BOOLEAN
    PROVE  TypeInv'
<1>1. sent \in 0..MaxRequests /\ edits \in 0..MaxEdits /\ MaxRequests \in Nat
  BY BoundsAssumption DEF TypeInv
<1>2. sent' \in 0..MaxRequests /\ edits' \in 0..MaxEdits
  BY ONLY <1>1, sent < MaxRequests, sent' = sent + 1, edits' = edits
<1>3. QED
  BY <1>2 DEF TypeInv

\* A request more, when none is waited for.
LEMMA Asked ==
    ASSUME RequestsInv, ~Busy, NEW kind, NEW f, Settled(f),
           requests' = requests \cup {Request(kind, f)}
    PROVE  RequestsInv'
<1> DEFINE new == Request(kind, f)
<1>1. /\ DOMAIN new = {"id", "kind", "live", "snapshot"} /\ new.live = TRUE
      /\ new.snapshot = IF HasModel(f) THEN f ELSE None
  BY DEF Request
<1>2. new.snapshot # None => Settled(new.snapshot) /\ HasModel(new.snapshot)
  BY <1>1
<1>3. requests' = requests \cup {new}
  OBVIOUS
<1> HIDE DEF new
<1>4. \A r \in requests : ~r.live
  BY DEF Busy
<1>5. ASSUME NEW r \in requests'
      PROVE  /\ DOMAIN r = {"id", "kind", "live", "snapshot"} /\ r.live \in BOOLEAN
             /\ r.snapshot # None => Settled(r.snapshot) /\ HasModel(r.snapshot)
  BY <1>1, <1>2, <1>3 DEF RequestsInv
<1>6. \A r, s \in requests' : r.live /\ s.live => r = s
  BY <1>3, <1>4
<1>7. QED
  BY <1>5, <1>6 DEF RequestsInv

LEMMA SendKeeps ==
    ASSUME Inv, Send \/ FixIssues
    PROVE  Inv'
<1>1. /\ ~Busy /\ draft = FALSE /\ draft' = FALSE /\ sent < MaxRequests /\ sent' = sent + 1
      /\ applied' = FALSE /\ UNCHANGED <<canvas, history, solving, edits>>
      /\ \E kind \in {"build", "fix"} : requests' = requests \cup {Request(kind, canvas)}
  BY DEF Send, FixIssues, Inv, TypeInv
<1>2. CanvasInv' /\ OtherInv'
  BY <1>1 DEF Inv, CanvasInv, OtherInv, history
<1>3. TypeInv'
  BY <1>1, OneMoreSent DEF Inv, TypeInv
<1>4. RequestsInv'
  <2>1. Settled(canvas) /\ RequestsInv
    BY DEF Inv, CanvasInv, Held
  <2>2. QED
    BY <1>1, <2>1, Asked
<1>5. DraftIsLeftAlone => DraftInv'
  <2>1. \A kind : Request(kind, canvas).live = TRUE
    BY DEF Request
  <2>2. QED
    BY <1>1, <2>1 DEF Inv, DraftInv
<1>6. QED
  BY <1>2, <1>3, <1>4, <1>5 DEF Inv, DraftIsLeftAlone

LEMMA SendClearKeeps ==
    ASSUME Inv, SendClear
    PROVE  Inv'
<1>1. CanvasInv'
  <2> DEFINE u == Pushed(canvas, undo)
  <2>1. Settled(canvas) /\ Held(canvas, undo, redo)
    BY DEF Inv, CanvasInv, Held
  <2>2. Held(canvas, u, <<>>)
    BY <2>1, HeldPushed
  <2>3. undo' = Pushed(canvas, u) /\ redo' = <<>> /\ canvas' = Cleared
    BY DEF SendClear
  <2> HIDE DEF u
  <2>4. Held(Cleared, Pushed(canvas, u), <<>>)
    BY <2>2, ClearedIsSettled, HeldPushed
  <2>5. QED
    BY <2>3, <2>4 DEF CanvasInv
<1>2. OtherInv' /\ RequestsInv'
  BY DEF Inv, OtherInv, RequestsInv, SendClear
<1>3. TypeInv'
  BY OneMoreSent DEF Inv, TypeInv, SendClear
<1>4. DraftIsLeftAlone => DraftInv'
  BY DEF Inv, DraftInv, SendClear
<1>5. QED
  BY <1>1, <1>2, <1>3, <1>4 DEF Inv, DraftIsLeftAlone

\* Fewer requests, and the rest as it was.
LEMMA RequestGone ==
    ASSUME Inv, NEW r, requests' = requests \ {r},
           UNCHANGED <<canvas, history, draft, before, solving, applied, sent, edits>>
    PROVE  Inv'
<1>1. CanvasInv' /\ OtherInv' /\ TypeInv'
  BY DEF Inv, CanvasInv, OtherInv, TypeInv, history
<1>2. RequestsInv'
  BY DEF Inv, RequestsInv
<1>3. DraftIsLeftAlone => DraftInv'
  BY DEF Inv, DraftInv, history
<1>4. QED
  BY <1>1, <1>2, <1>3 DEF Inv, DraftIsLeftAlone

LEMMA ApplyKeeps ==
    ASSUME Inv, Apply \/ ApplyEnds
    PROVE  Inv'
<1>1. /\ UNCHANGED <<canvas, history, requests, before, sent, edits>>
      /\ solving' \in BOOLEAN /\ draft' \in BOOLEAN /\ applied' \in BOOLEAN /\ (draft' => draft)
  BY DEF Inv, TypeInv, Apply, ApplyEnds
<1>2. CanvasInv' /\ OtherInv' /\ TypeInv' /\ RequestsInv'
  BY <1>1 DEF Inv, CanvasInv, OtherInv, TypeInv, RequestsInv, history
<1>3. DraftIsLeftAlone => DraftInv'
  BY <1>1 DEF Inv, DraftInv, history
<1>4. QED
  BY <1>2, <1>3 DEF Inv, DraftIsLeftAlone

LEMMA CancelKeeps ==
    ASSUME Inv, Cancel
    PROVE  Inv'
<1>1. CanvasInv'
  BY UndoneKeeps DEF Inv, Cancel
<1>2. OtherInv' /\ TypeInv' /\ RequestsInv'
  BY DEF Inv, OtherInv, TypeInv, RequestsInv, Cancel
<1>3. DraftIsLeftAlone => DraftInv'
  BY DEF Inv, DraftInv, Cancel
<1>4. QED
  BY <1>1, <1>2, <1>3 DEF Inv, DraftIsLeftAlone

LEMMA RetryKeeps ==
    ASSUME Inv, Retry
    PROVE  Inv'
<1>1. CanvasInv'
  BY UndoneKeeps DEF Inv, Retry
<1>2. OtherInv' /\ TypeInv'
  BY OneMoreSent DEF Inv, OtherInv, TypeInv, Retry
<1>3. RequestsInv'
  <2>1. PICK f : f = canvas'
    OBVIOUS
  <2>2. Settled(f) /\ requests' = requests \cup {Request("build", f)} /\ RequestsInv /\ ~Busy
    BY <1>1, <2>1 DEF CanvasInv, Held, Inv, Retry
  <2>3. QED
    BY <2>2, Asked
<1>4. DraftIsLeftAlone => DraftInv'
  <2>1. \A f : Request("build", f).live = TRUE
    BY DEF Request
  <2>2. QED
    BY <2>1 DEF Inv, DraftInv, Retry
<1>5. QED
  BY <1>1, <1>2, <1>3, <1>4 DEF Inv, DraftIsLeftAlone

LEMMA ReopenDrawerKeeps ==
    ASSUME Inv, ReopenDrawer
    PROVE  Inv'
<1>1. CanvasInv' /\ OtherInv' /\ TypeInv'
  BY DEF Inv, CanvasInv, OtherInv, TypeInv, ReopenDrawer, history
<1>2. RequestsInv'
  <2>1. requests' = {[r EXCEPT !.live = FALSE] : r \in requests}
    BY DEF ReopenDrawer
  <2>2. ASSUME NEW s \in requests'
        PROVE  /\ DOMAIN s = {"id", "kind", "live", "snapshot"} /\ s.live = FALSE
               /\ s.snapshot # None => Settled(s.snapshot) /\ HasModel(s.snapshot)
    <3>1. PICK r \in requests : s = [r EXCEPT !.live = FALSE]
      BY <2>1
    <3>2. /\ DOMAIN r = {"id", "kind", "live", "snapshot"}
          /\ r.snapshot # None => Settled(r.snapshot) /\ HasModel(r.snapshot)
      BY DEF Inv, RequestsInv
    <3>3. DOMAIN s = DOMAIN r /\ s.live = FALSE /\ s.snapshot = r.snapshot
      BY <3>1, <3>2
    <3>4. QED
      BY <3>2, <3>3
  <2>3. QED
    BY <2>2 DEF RequestsInv
<1>3. DraftIsLeftAlone => DraftInv'
  <2> SUFFICES ASSUME DraftIsLeftAlone PROVE DraftInv'
    OBVIOUS
  <2>1. requests = {}
    BY DEF Inv, DraftInv, DraftIsLeftAlone, ReopenDrawer, Busy
  <2>2. requests' = {} /\ draft' = FALSE
    BY <2>1 DEF ReopenDrawer
  <2>3. QED
    BY <2>2 DEF DraftInv
<1>4. QED
  BY <1>1, <1>2, <1>3 DEF Inv, DraftIsLeftAlone

LEMMA AnsweredKeeps ==
    ASSUME Inv, NEW r \in requests, NEW answers, \A f \in answers : Shown(f) => Whole(f),
           NEW grows, Answered(r, answers, grows)
    PROVE  Inv'
<1>1. PICK f \in answers :
          /\ Shown(f)
          /\ undo' = Pushed(canvas, undo) /\ redo' = <<>> /\ canvas' = Restored(f)
          /\ before' = (IF r.live THEN canvas ELSE before) /\ draft' = (r.live \/ draft)
          /\ requests' = requests \ {r}
          /\ UNCHANGED <<other, solving, applied, sent, edits>>
  BY DEF Answered, Replaces
<1>2. /\ Held(canvas', undo', redo') /\ undo' # <<>> /\ Last(undo') = canvas
  <2>1. Settled(Restored(f)) /\ Held(canvas, undo, redo)
    BY <1>1, RestoredIsSettled DEF Inv, CanvasInv
  <2>2. QED
    BY <1>1, <2>1, HeldPushed
<1>3. OtherInv' /\ RequestsInv'
  BY <1>1 DEF Inv, OtherInv, RequestsInv
<1>4. TypeInv'
  <2>1. r.live \in BOOLEAN /\ draft \in BOOLEAN
    BY DEF Inv, RequestsInv, TypeInv
  <2>2. draft' \in BOOLEAN
    BY <1>1, <2>1
  <2>3. QED
    BY <1>1, <2>2 DEF Inv, TypeInv
<1>5. DraftIsLeftAlone => DraftInv'
  <2> SUFFICES ASSUME DraftIsLeftAlone PROVE DraftInv'
    OBVIOUS
  <2>1. r.live /\ \A s \in requests : s.live
    BY DEF Inv, DraftInv
  <2>2. requests' = {} /\ before' = canvas
    BY <1>1, <2>1 DEF Inv, RequestsInv
  <2>3. QED
    BY <1>2, <2>2 DEF DraftInv
<1>6. QED
  BY <1>2, <1>3, <1>4, <1>5 DEF Inv, CanvasInv, DraftIsLeftAlone

LEMMA SnapshotsAre ==
    ASSUME Inv, NEW r \in Editable
    PROVE  /\ r \in requests /\ Settled(r.snapshot) /\ Framed(r.snapshot)
           /\ DOMAIN r.snapshot.elements # {} /\ DOMAIN r.snapshot.nodes # {}
           /\ DOMAIN r.snapshot.sections # {}
<1>1. r \in requests /\ Settled(r.snapshot) /\ HasModel(r.snapshot)
  BY DEF Editable, Inv, RequestsInv
<1>2. Framed(r.snapshot)
  BY <1>1 DEF Settled
<1>3. QED
  BY <1>1, <1>2, ModelsHaveSections

LEMMA AnswerCreateKeeps ==
    ASSUME Inv, AnswerCreate
    PROVE  Inv'
<1>1. PICK r \in requests, w \in Widths :
          Answered(r, {PortalFrame(w, 1, 1, 0), MultiStoryFrame(2, 1, w, 1, 0, 1)}, FALSE)
  BY DEF AnswerCreate
<1>2. w \in Nat \ {0} /\ 1 \in Nat \ {0}
  BY AnswersAssumption
<1>3. Whole(PortalFrame(w, 1, 1, 0))
  BY <1>2, PortalFrameIsFramed DEF Whole, CasesMaybe
<1>4. Whole(MultiStoryFrame(2, 1, w, 1, 0, 1))
  BY <1>2, MultiStoryFrameIsFramed DEF Whole, CasesMaybe
<1>5. QED
  BY <1>1, <1>3, <1>4, AnsweredKeeps

LEMMA AnswerCreateModelKeeps ==
    ASSUME Inv, AnswerCreateModel
    PROVE  Inv'
<1>1. PICK r \in requests : Answered(r, {CreateModel(m) : m \in Given}, FALSE)
  BY DEF AnswerCreateModel
<1> DEFINE answers == {CreateModel(m) : m \in Given}
<1>2. \A f \in answers : Shown(f) => Whole(f)
  <2> SUFFICES ASSUME NEW m \in Given, Shown(CreateModel(m)) PROVE Whole(CreateModel(m))
    OBVIOUS
  <2>1. m \in Models /\ CanCreateModel(m) /\ (NothingIsDoubled => Single(m))
    BY DEF Given, NothingIsDoubled
  <2>2. QED
    BY <2>1, CreateModelIsFramed DEF Whole, CasesMaybe
<1>3. Answered(r, answers, FALSE)
  BY <1>1
<1> HIDE DEF answers
<1>4. QED
  BY <1>2, <1>3, AnsweredKeeps

LEMMA AnswerAddBayKeeps ==
    ASSUME Inv, AnswerAddBay
    PROVE  Inv'
<1>1. PICK r \in Editable : CanAddBay(r.snapshot) /\ Answered(r, WithBays(r.snapshot), TRUE)
  BY DEF AnswerAddBay
<1> DEFINE f == r.snapshot
           answers == WithBays(f)
<1>2. r \in requests /\ Settled(f) /\ Framed(f) /\ DOMAIN f.sections # {} /\ CanAddBay(f)
  BY <1>1, SnapshotsAre
<1>3. Answered(r, answers, TRUE)
  BY <1>1
<1> HIDE DEF f
<1>4. ASSUME NEW w \in Widths, NEW side, NEW beam, NEW column
      PROVE  Whole(AddBay(f, w, side, beam, column))
  <2>1. w \in Nat \ {0}
    BY AnswersAssumption
  <2>2. Edited(f, AddBay(f, w, side, beam, column))
    BY <1>2, <2>1, AddBayIsFramed
  <2>3. QED
    BY <1>2, <2>2, EditedStaysWhole
<1>5. \A g \in answers : Whole(g)
  BY <1>4 DEF WithBays
<1> HIDE DEF answers
<1>6. QED
  BY <1>2, <1>3, <1>5, AnsweredKeeps

LEMMA AnswerAddStoryKeeps ==
    ASSUME Inv, AnswerAddStory
    PROVE  Inv'
<1>1. PICK r \in Editable : Answered(r, WithStories(r.snapshot), TRUE)
  BY DEF AnswerAddStory
<1> DEFINE f == r.snapshot
           answers == WithStories(f)
<1>2. r \in requests /\ Settled(f) /\ Framed(f) /\ DOMAIN f.sections # {} /\ DOMAIN f.nodes # {}
  BY SnapshotsAre
<1>3. Answered(r, answers, TRUE)
  BY <1>1
<1> HIDE DEF f
<1>4. ASSUME NEW h \in Widths, NEW beam, NEW column
      PROVE  Whole(AddStory(f, h, beam, column))
  <2>1. h \in Nat \ {0}
    BY AnswersAssumption
  <2>2. Edited(f, AddStory(f, h, beam, column))
    BY <1>2, <2>1, AddStoryIsFramed
  <2>3. QED
    BY <1>2, <2>2, EditedStaysWhole
<1>5. \A g \in answers : Whole(g)
  BY <1>4 DEF WithStories
<1> HIDE DEF answers
<1>6. QED
  BY <1>2, <1>3, <1>5, AnsweredKeeps

LEMMA AnswerChangeSectionKeeps ==
    ASSUME Inv, AnswerChangeSection
    PROVE  Inv'
<1>1. PICK r \in Editable, name \in Names :
          LET bars  == DOMAIN r.snapshot.elements
              beams == {e \in bars : IsHorizontal(r.snapshot, e)}
          IN  Answered(r, {ChangeSection(r.snapshot, name, chosen) :
                         chosen \in {beams, bars \ beams, bars} \cup {{e} : e \in bars}}, FALSE)
  BY DEF AnswerChangeSection
<1> DEFINE f == r.snapshot
           bars == DOMAIN f.elements
           beams == {e \in bars : IsHorizontal(f, e)}
           choices == {beams, bars \ beams, bars} \cup {{e} : e \in bars}
           answers == {ChangeSection(f, name, chosen) : chosen \in choices}
<1>2. r \in requests /\ Settled(f) /\ Framed(f) /\ DOMAIN f.sections # {}
  BY SnapshotsAre
<1>3. Answered(r, answers, FALSE)
  BY <1>1
<1> HIDE DEF f, choices
<1>4. ASSUME NEW chosen PROVE Whole(ChangeSection(f, name, chosen))
  BY <1>2, ChangeSectionIsFramed, EditedStaysWhole
<1>5. \A g \in answers : Whole(g)
  BY <1>4
<1> HIDE DEF answers
<1>6. QED
  BY <1>2, <1>3, <1>5, AnsweredKeeps

LEMMA AnswerSetAllKeeps ==
    ASSUME Inv, AnswerSetAll
    PROVE  Inv'
<1>1. PICK r \in Editable :
          Answered(r, {SetAllSupports(r.snapshot, "pinned"), SetAllBeamLoads(r.snapshot, 2)}, FALSE)
  BY DEF AnswerSetAll
<1> DEFINE f == r.snapshot
<1>2. r \in requests /\ Settled(f) /\ Framed(f)
  BY SnapshotsAre
<1> HIDE DEF f
<1>3. Whole(SetAllSupports(f, "pinned"))
  BY <1>2, SetAllSupportsIsFramed, EditedStaysWhole
<1>4. Whole(SetAllBeamLoads(f, 2))
  BY <1>2, SetAllBeamLoadsIsFramed, EditedStaysWhole
<1>5. Answered(r, {SetAllSupports(f, "pinned"), SetAllBeamLoads(f, 2)}, FALSE)
  BY <1>1 DEF f
<1>6. QED
  BY <1>2, <1>3, <1>4, <1>5, AnsweredKeeps

LEMMA AnswerAddLoadsKeeps ==
    ASSUME Inv, AnswerAddLoads
    PROVE  Inv'
<1>1. PICK r \in Editable :
          Answered(r,
            (IF Cardinality(Ys(r.snapshot)) >= 2 THEN {AddLateralLoads(r.snapshot, 3)} ELSE {})
            \cup {AddDistributedLoad(r.snapshot, e, 1) : e \in DOMAIN r.snapshot.elements}
            \cup {AddNodalLoad(r.snapshot, n, 1) : n \in DOMAIN r.snapshot.nodes}, FALSE)
  BY DEF AnswerAddLoads
<1> DEFINE f == r.snapshot
           answers == (IF Cardinality(Ys(f)) >= 2 THEN {AddLateralLoads(f, 3)} ELSE {})
                      \cup {AddDistributedLoad(f, e, 1) : e \in DOMAIN f.elements}
                      \cup {AddNodalLoad(f, n, 1) : n \in DOMAIN f.nodes}
<1>2. r \in requests /\ Settled(f) /\ Framed(f)
  BY SnapshotsAre
<1>3. Answered(r, answers, FALSE)
  BY <1>1
<1> HIDE DEF f
<1>4. Whole(AddLateralLoads(f, 3))
  BY <1>2, AddLateralLoadsIsFramed, EditedStaysWhole
<1>5. ASSUME NEW e \in DOMAIN f.elements PROVE Whole(AddDistributedLoad(f, e, 1))
  <2> DEFINE load == Distributed(e, 1)
  <2>1. Load(load, DOMAIN f.nodes, DOMAIN f.elements)
    BY DEF Load, Distributed
  <2>2. AddDistributedLoad(f, e, 1) = Appended(f, "loads", <<load>>)
    BY DEF AddDistributedLoad
  <2> HIDE DEF load
  <2>3. Edited(f, AddDistributedLoad(f, e, 1))
    BY <1>2, <2>1, <2>2, AddLoadIsFramed
  <2>4. QED
    BY <1>2, <2>3, EditedStaysWhole
<1>6. ASSUME NEW n \in DOMAIN f.nodes PROVE Whole(AddNodalLoad(f, n, 1))
  <2> DEFINE load == Nodal(n, 1)
  <2>1. Load(load, DOMAIN f.nodes, DOMAIN f.elements)
    BY DEF Load, Nodal
  <2>2. AddNodalLoad(f, n, 1) = Appended(f, "loads", <<load>>)
    BY DEF AddNodalLoad
  <2> HIDE DEF load
  <2>3. Edited(f, AddNodalLoad(f, n, 1))
    BY <1>2, <2>1, <2>2, AddLoadIsFramed
  <2>4. QED
    BY <1>2, <2>3, EditedStaysWhole
<1>7. \A g \in answers : Whole(g)
  BY <1>4, <1>5, <1>6
<1> HIDE DEF answers
<1>8. QED
  BY <1>2, <1>3, <1>7, AnsweredKeeps

LEMMA AnswerDeleteKeeps ==
    ASSUME Inv, AnswerDelete
    PROVE  Inv'
<1>1. PICK r \in Editable :
          Answered(r,
            {DeleteElement(r.snapshot, e) : e \in DOMAIN r.snapshot.elements}
            \cup {DeleteLoad(r.snapshot, l) : l \in DOMAIN r.snapshot.loads}, FALSE)
  BY DEF AnswerDelete
<1> DEFINE f == r.snapshot
           answers == {DeleteElement(f, e) : e \in DOMAIN f.elements}
                      \cup {DeleteLoad(f, l) : l \in DOMAIN f.loads}
<1>2. r \in requests /\ Settled(f) /\ Framed(f)
  BY SnapshotsAre
<1>3. Answered(r, answers, FALSE)
  BY <1>1
<1> HIDE DEF f
<1>4. ASSUME NEW e PROVE Whole(DeleteElement(f, e))
  BY <1>2, DeleteElementIsFramed, EditedStaysWhole
<1>5. ASSUME NEW l PROVE Whole(DeleteLoad(f, l))
  BY <1>2, DeleteLoadIsFramed, EditedStaysWhole
<1>6. \A g \in answers : Whole(g)
  BY <1>4, <1>5
<1> HIDE DEF answers
<1>7. QED
  BY <1>2, <1>3, <1>6, AnsweredKeeps

-----------------------------------------------------------------------------
(***************************************************************************)
(* The specification.                                                      *)
(***************************************************************************)

LEMMA InvInductive ==
    ASSUME Inv, [Next]_vars
    PROVE  Inv'
<1>1. CASE RemoveElement
  BY <1>1, RemoveElementKeeps
<1>2. CASE RemoveNode
  BY <1>2, RemoveNodeKeeps
<1>3. CASE AddLoadCase
  BY <1>3, AddLoadCaseKeeps
<1>4. CASE Undo
  BY <1>4, UndoKeeps
<1>5. CASE Redo
  BY <1>5, RedoKeeps
<1>6. CASE SwitchTab
  BY <1>6, SwitchTabKeeps
<1>7. CASE Send \/ FixIssues
  BY <1>7, SendKeeps
<1>8. CASE SendClear
  BY <1>8, SendClearKeeps
<1>9. CASE Abort
  BY <1>9, RequestGone DEF Abort
<1>10. CASE Apply \/ ApplyEnds
  BY <1>10, ApplyKeeps
<1>11. CASE Cancel
  BY <1>11, CancelKeeps
<1>12. CASE Retry
  BY <1>12, RetryKeeps
<1>13. CASE ReopenDrawer
  BY <1>13, ReopenDrawerKeeps
<1>14. CASE AnswerNothing
  BY <1>14, RequestGone DEF AnswerNothing
<1>15. CASE AnswerCreate
  BY <1>15, AnswerCreateKeeps
<1>16. CASE AnswerAddBay
  BY <1>16, AnswerAddBayKeeps
<1>17. CASE AnswerAddStory
  BY <1>17, AnswerAddStoryKeeps
<1>18. CASE AnswerChangeSection
  BY <1>18, AnswerChangeSectionKeeps
<1>19. CASE AnswerSetAll
  BY <1>19, AnswerSetAllKeeps
<1>20. CASE AnswerAddLoads
  BY <1>20, AnswerAddLoadsKeeps
<1>21. CASE AnswerDelete
  BY <1>21, AnswerDeleteKeeps
<1>22. CASE AddNode
  BY <1>22, AddNodeKeeps
<1>23. CASE AddElement
  BY <1>23, AddElementKeeps
<1>24. CASE AnswerCreateModel
  BY <1>24, AnswerCreateModelKeeps
<1>25. CASE UNCHANGED vars
  <2>1. CanvasInv' /\ OtherInv' /\ TypeInv' /\ RequestsInv'
    BY <1>25 DEF Inv, CanvasInv, OtherInv, TypeInv, RequestsInv, vars, history, drawer
  <2>2. DraftIsLeftAlone => DraftInv'
    BY <1>25 DEF Inv, DraftInv, vars, history, drawer
  <2>3. QED
    BY <2>1, <2>2 DEF Inv, DraftIsLeftAlone
<1>26. QED
  BY <1>1, <1>2, <1>3, <1>4, <1>5, <1>6, <1>7, <1>8, <1>9, <1>10, <1>11, <1>12, <1>13,
     <1>14, <1>15, <1>16, <1>17, <1>18, <1>19, <1>20, <1>21, <1>22, <1>23, <1>24, <1>25 DEF Next

LEMMA InvHolds == Spec => []Inv
  BY InitInv, InvInductive, PTL DEF Spec

\* The histories of both tabs stay within their limit, whatever is undone, made again or
\* answered, and the drawer never waits for two answers (pushState, handleSubmit).
THEOREM BuildTypeCorrect == Spec => []TypeOK
<1>1. ASSUME Inv PROVE TypeOK
  <2>1. Len(undo) <= MaxHistory /\ Len(other.undo) <= MaxHistory
    <3>1. /\ undo \in Seq(ToSet(undo)) /\ redo \in Seq(ToSet(redo))
          /\ Len(undo) + Len(redo) <= MaxHistory
          /\ other.undo \in Seq(ToSet(other.undo)) /\ other.redo \in Seq(ToSet(other.redo))
          /\ Len(other.undo) + Len(other.redo) <= MaxHistory
      BY <1>1 DEF Inv, CanvasInv, OtherInv, Held, StacksFit, IsStack
    <3>2. /\ Len(undo) \in Nat /\ Len(redo) \in Nat
          /\ Len(other.undo) \in Nat /\ Len(other.redo) \in Nat /\ MaxHistory \in Nat
      BY <3>1, LenProperties, BoundsAssumption
    <3>3. \A m, n, top \in Nat : m + n <= top => m <= top
      OBVIOUS
    <3>4. QED
      BY ONLY <3>1, <3>2, <3>3
  <2>2. Cardinality({r \in requests : r.live}) <= 1
    <3> DEFINE waited == {r \in requests : r.live}
    <3>1. \A r, s \in waited : r = s
      BY <1>1 DEF Inv, RequestsInv
    <3> HIDE DEF waited
    <3>2. Cardinality(waited) <= 1
      <4>1. CASE waited = {}
        BY <4>1, FS_EmptySet
      <4>2. CASE waited # {}
        <5>1. PICK r : waited = {r}
          BY <3>1, <4>2
        <5>2. Cardinality({r}) = 1
          BY FS_Singleton
        <5>3. QED
          BY ONLY <5>1, <5>2
      <4>3. QED
        BY <4>1, <4>2
    <3>3. QED
      BY <3>2 DEF waited
  <2>3. QED
    BY <1>1, <2>1, <2>2 DEF Inv, TypeInv, TypeOK
<1>2. QED
  BY <1>1, InvHolds, PTL

LEMMA FramesAreSettled ==
    ASSUME Inv
    PROVE  \A f \in Frames : Settled(f)
  BY DEF Inv, CanvasInv, OtherInv, Held, StackIsSettled, Frames

\* Whatever nodes, bars and load cases are drawn and removed by hand, whatever the server
\* generates, assembles of what create_model was called with, and edits, and however that is
\* undone, made again and switched to: every structure the user can come back to names only
\* nodes, bars and sections that there are, and no later id is one in use, also where nodes and
\* bars are doubled: as long as no node is removed whose bars carry loads (edit_executor.rs,
\* generators.rs, assemble_create_model, restore).
THEOREM FramesStayLinked ==
    ASSUME LoadedNodesStay
    PROVE  Spec => []FramesAreLinked
<1>1. ASSUME Inv PROVE FramesAreLinked
  BY <1>1, FramesAreSettled, SettledIsLinked DEF FramesAreLinked
<1>2. QED
  BY <1>1, InvHolds, PTL

\* No generator and no edit of the server puts a node on a node, a bar between two nodes that
\* have one, a second support under a node or a second section of a name, on whatever frame it
\* is asked to work: as long as neither the user nor create_model doubles anything, and no load
\* case is added to a frame that was answered (add_bay, add_story_2d, ensure_section).
THEOREM NothingIsDoubledByEdits ==
    ASSUME NothingIsDoubled, CasesAreNew
    PROVE  Spec => []NothingIsTwice
<1>1. ASSUME Inv PROVE NothingIsTwice
  <2>1. ASSUME NEW f \in Frames PROVE Single(f) /\ IsInjective(f.cases)
    BY <1>1, FramesAreSettled, SettledIsSingle DEF Settled, CasesIn
  <2>2. QED
    BY <2>1 DEF NothingIsTwice
<1>2. QED
  BY <1>1, InvHolds, PTL

\* Cancelling a draft, or asking for another, brings back the structure that the draft replaced,
\* however full the history was: as long as nothing is edited while a draft waits, and the drawer
\* is not reopened while an answer is due (handleCancel, handleRetry).
THEOREM CancelBringsBack ==
    ASSUME DraftIsLeftAlone
    PROVE  Spec => CancelRestores
<1>1. ASSUME Inv, Cancel \/ Retry PROVE canvas' = before
  <2>1. draft /\ Undone
    BY <1>1 DEF Cancel, Retry, Discardable
  <2>2. undo # <<>> /\ Last(undo) = before
    BY <1>1, <2>1 DEF Inv, DraftInv
  <2>3. QED
    BY <2>1, <2>2 DEF Undone
<1>2. Inv => [Cancel \/ Retry => canvas' = before]_vars
  BY <1>1
<1>3. QED
  BY <1>2, InvHolds, PTL DEF CancelRestores

=============================================================================
