-------------------------- MODULE ModelHistoryProofs --------------------------
(***************************************************************************)
(* Proofs about the history of the model: that an undo which writes one    *)
(* slice of a project brings back all of it, for any number of edits on    *)
(* any channel and any limit of the stacks, and that what is derived from  *)
(* the project is of the project on screen.                                *)
(***************************************************************************)
EXTENDS ModelHistory, SequenceTheorems, TLAPS

\* Nothing replaces the project while there is something to undo or redo.
NothingRestoredOver == "restoreOver" \notin Races

\* No structural step changes the foundations a document describes.
DocumentFollows == "keepsDocument" \notin Races

-----------------------------------------------------------------------------
(***************************************************************************)
(* Stacks.                                                                 *)
(***************************************************************************)

LEMMA FrontLast ==
    ASSUME NEW S, NEW s \in Seq(S), s # <<>>
    PROVE  /\ Len(s) \in Nat \ {0}
           /\ Front(s) \in Seq(S)
           /\ Len(Front(s)) = Len(s) - 1
           /\ \A i \in 1..(Len(s) - 1) : Front(s)[i] = s[i]
           /\ Last(s) = s[Len(s)]
           /\ Last(s) \in S
<1>1. Len(s) \in Nat \ {0} /\ s \in [1..Len(s) -> S]
  BY LenProperties, EmptySeq
<1>2. \A i \in 1..(Len(s) - 1) : s[i] \in S
  BY <1>1
<1>3. /\ SubSeq(s, 1, Len(s) - 1) \in Seq(S)
      /\ Len(SubSeq(s, 1, Len(s) - 1)) =
             IF 1 <= Len(s) - 1 THEN (Len(s) - 1) - 1 + 1 ELSE 0
      /\ \A i \in 1..((Len(s) - 1) - 1 + 1) : SubSeq(s, 1, Len(s) - 1)[i] = s[1 + i - 1]
  BY <1>1, <1>2, SubSeqProperties
<1>4. Len(Front(s)) = Len(s) - 1
  BY <1>1, <1>3 DEF Front
<1>5. ASSUME NEW i \in 1..(Len(s) - 1) PROVE Front(s)[i] = s[i]
  BY <1>5, <1>1, <1>3 DEF Front
<1>6. QED
  BY <1>1, <1>3, <1>4, <1>5 DEF Front, Last

LEMMA Appended ==
    ASSUME NEW S, NEW s \in Seq(S), NEW e \in S
    PROVE  /\ Append(s, e) \in Seq(S)
           /\ Len(s) \in Nat
           /\ Len(Append(s, e)) = Len(s) + 1
           /\ \A i \in 1..Len(s) : Append(s, e)[i] = s[i]
           /\ Append(s, e)[Len(s) + 1] = e
  OBVIOUS

\* A stack is trimmed by its oldest entry, and then holds the limit.
LEMMA TrimmedStack ==
    ASSUME NEW S, NEW s \in Seq(S), Len(s) <= MaxHistory + 1
    PROVE  /\ Trimmed(s) \in Seq(S)
           /\ Len(Trimmed(s)) <= MaxHistory
           /\ \/ Trimmed(s) = s
              \/ /\ s # <<>>
                 /\ Len(Trimmed(s)) = Len(s) - 1
                 /\ \A i \in 1..Len(Trimmed(s)) : Trimmed(s)[i] = s[i + 1]
<1>1. Len(s) \in Nat /\ MaxHistory \in Nat \ {0}
  BY BoundsAssumption
<1>2. CASE Len(s) > MaxHistory
  <2>1. s # <<>>
    BY <1>1, <1>2
  <2>2. Tail(s) \in Seq(S) /\ Len(Tail(s)) = Len(s) - 1
        /\ \A i \in 1..Len(Tail(s)) : Tail(s)[i] = s[i + 1]
    BY <2>1
  <2>3. Trimmed(s) = Tail(s)
    BY <1>2 DEF Trimmed
  <2>4. Len(s) - 1 <= MaxHistory
    BY <1>1
  <2>5. QED
    BY <2>1, <2>2, <2>3, <2>4
<1>3. CASE ~(Len(s) > MaxHistory)
  BY <1>1, <1>3 DEF Trimmed
<1>4. QED
  BY <1>2, <1>3

-----------------------------------------------------------------------------
(***************************************************************************)
(* Slices.                                                                 *)
(***************************************************************************)

LEMMA SlicesAreThree ==
    ASSUME NEW p \in Project, NEW q \in Project
    PROVE  Slices(p) = Slices(q) <=>
               /\ p.structure = q.structure
               /\ p.rebar = q.rebar
               /\ p.foundation = q.foundation
  BY DEF Slices, Project

\* What an entry of each kind leaves alone.
LEMMA SameButIs ==
    ASSUME NEW k \in Kinds, NEW p \in Project, NEW q \in Project
    PROVE  SameBut(k, p, q) <=>
               \/ k = "structural"
               \/ /\ k = "reinforcement"
                  /\ p.structure = q.structure /\ p.foundation = q.foundation
               \/ /\ k = "foundation"
                  /\ p.structure = q.structure /\ p.rebar = q.rebar
<1>1. [p EXCEPT !.rebar = q.rebar] \in Project /\ [p EXCEPT !.foundation = q.foundation] \in Project
  BY DEF Project
<1>2. Slices([p EXCEPT !.rebar = q.rebar]) = Slices(q) <=>
          p.structure = q.structure /\ p.foundation = q.foundation
  BY <1>1, SlicesAreThree DEF Project
<1>3. Slices([p EXCEPT !.foundation = q.foundation]) = Slices(q) <=>
          p.structure = q.structure /\ p.rebar = q.rebar
  BY <1>1, SlicesAreThree DEF Project
<1>4. QED
  BY <1>2, <1>3 DEF SameBut, Kinds

-----------------------------------------------------------------------------
(***************************************************************************)
(* One stack that is left for a project.                                   *)
(***************************************************************************)

LeftFor(stack, p) ==
    \A i \in DOMAIN stack :
        SameBut(stack[i].kind, stack[i].project,
                IF i = Len(stack) THEN p ELSE stack[i + 1].project)

LEMMA ChainedIs == Chained <=> LeftFor(undo, project) /\ LeftFor(redo, project)
  BY DEF Chained, LeftFor, After

\* The state being left goes on top.
LEMMA LeftForAppended ==
    ASSUME NEW s \in Seq(Entry), NEW k \in Kinds, NEW p \in Project, NEW q \in Project,
           LeftFor(s, p), SameBut(k, p, q)
    PROVE  LeftFor(Append(s, [kind |-> k, project |-> p]), q)
<1> DEFINE e == [kind |-> k, project |-> p]
<1>1. e \in Entry
  BY DEF Entry
<1> HIDE DEF e
<1>2. /\ Len(s) \in Nat /\ Len(Append(s, e)) = Len(s) + 1
      /\ \A i \in 1..Len(s) : Append(s, e)[i] = s[i]
      /\ Append(s, e)[Len(s) + 1] = e
      /\ DOMAIN s = 1..Len(s) /\ DOMAIN Append(s, e) = 1..(Len(s) + 1)
  BY <1>1, Appended
<1>3. ASSUME NEW i \in 1..(Len(s) + 1)
      PROVE  SameBut(Append(s, e)[i].kind, Append(s, e)[i].project,
                     IF i = Len(s) + 1 THEN q ELSE Append(s, e)[i + 1].project)
  <2>0. Len(s) \in Nat /\ i \in 1..(Len(s) + 1)
    BY <1>3, LenProperties
  <2>1. CASE i = Len(s) + 1
    BY <1>3, <1>2, <2>1 DEF e
  <2>2. CASE i = Len(s)
    <3>1. Append(s, e)[i] = s[i] /\ Append(s, e)[i + 1].project = p
      BY <1>3, <1>2, <2>2 DEF e
    <3>2. SameBut(s[i].kind, s[i].project, p)
      BY <1>3, <1>2, <2>2 DEF LeftFor
    <3>3. i # Len(s) + 1
      BY <2>0, <2>2
    <3>4. QED
      BY <3>1, <3>2, <3>3
  <2>3. CASE i < Len(s)
    <3>1. Append(s, e)[i] = s[i] /\ Append(s, e)[i + 1] = s[i + 1]
      BY <1>3, <1>2, <2>3
    <3>2. SameBut(s[i].kind, s[i].project, s[i + 1].project)
      BY <1>3, <1>2, <2>3 DEF LeftFor
    <3>3. i # Len(s) + 1
      BY <2>0, <2>3
    <3>4. QED
      BY <3>1, <3>2, <3>3
  <2>4. i = Len(s) + 1 \/ i = Len(s) \/ i < Len(s)
    BY <2>0
  <2>5. QED
    BY <2>1, <2>2, <2>3, <2>4
<1>4. LeftFor(Append(s, e), q)
  BY <1>2, <1>3 DEF LeftFor
<1>5. QED
  BY <1>4 DEF e

\* Dropping the oldest entry breaks no link.
LEMMA LeftForTrimmed ==
    ASSUME NEW s \in Seq(Entry), Len(s) <= MaxHistory + 1, NEW p, LeftFor(s, p)
    PROVE  LeftFor(Trimmed(s), p)
<1>1. CASE Trimmed(s) = s
  BY <1>1
<1>2. CASE /\ s # <<>>
           /\ Len(Trimmed(s)) = Len(s) - 1
           /\ \A i \in 1..Len(Trimmed(s)) : Trimmed(s)[i] = s[i + 1]
  <2> DEFINE t == Trimmed(s)
  <2>1. t \in Seq(Entry)
    BY TrimmedStack
  <2> HIDE DEF t
  <2>2. /\ DOMAIN s = 1..Len(s) /\ DOMAIN t = 1..Len(t) /\ Len(s) \in Nat /\ Len(t) \in Nat
        /\ Len(t) = Len(s) - 1
        /\ \A i \in 1..Len(t) : t[i] = s[i + 1]
    BY <1>2, <2>1 DEF t
  <2>3. ASSUME NEW i \in 1..Len(t)
        PROVE  SameBut(t[i].kind, t[i].project, IF i = Len(t) THEN p ELSE t[i + 1].project)
    <3>1. i + 1 \in DOMAIN s /\ t[i] = s[i + 1] /\ (i = Len(t) <=> i + 1 = Len(s))
      BY <2>3, <2>2
    <3>2. SameBut(s[i + 1].kind, s[i + 1].project,
                  IF i + 1 = Len(s) THEN p ELSE s[(i + 1) + 1].project)
      BY <2>3, <3>1 DEF LeftFor
    <3>0. Len(t) \in Nat /\ i \in 1..Len(t)
      BY <2>2, <2>3
    <3>3. i # Len(t) => i + 1 \in 1..Len(t)
      BY <3>0
    <3>4. i # Len(t) => t[i + 1] = s[(i + 1) + 1]
      BY <2>3, <2>2, <3>3
    <3>5. QED
      BY <3>1, <3>2, <3>4
  <2>4. LeftFor(t, p)
    BY <2>2, <2>3 DEF LeftFor
  <2>5. QED
    BY <2>4 DEF t
<1>3. QED
  BY <1>1, <1>2, TrimmedStack

\* The top entry goes when its project, by its slices, is on screen.
LEMMA LeftForFront ==
    ASSUME NEW s \in Seq(Entry), s # <<>>, NEW p, LeftFor(s, p),
           NEW q \in Project, Slices(q) = Slices(Last(s).project)
    PROVE  LeftFor(Front(s), q)
<1> DEFINE f == Front(s)
<1>1. /\ Len(s) \in Nat \ {0} /\ f \in Seq(Entry) /\ Len(f) = Len(s) - 1
      /\ \A i \in 1..(Len(s) - 1) : f[i] = s[i]
      /\ Last(s) = s[Len(s)]
      /\ DOMAIN s = 1..Len(s)
  BY FrontLast
<1> HIDE DEF f
<1>2. DOMAIN f = 1..Len(f)
  BY <1>1
<1>3. ASSUME NEW i \in 1..Len(f)
      PROVE  SameBut(f[i].kind, f[i].project, IF i = Len(f) THEN q ELSE f[i + 1].project)
  <2>1. i \in DOMAIN s /\ i # Len(s) /\ f[i] = s[i] /\ i + 1 \in 1..Len(s)
    BY <1>3, <1>1
  <2>2. SameBut(s[i].kind, s[i].project, s[i + 1].project)
    BY <1>3, <2>1 DEF LeftFor
  <2>3. CASE i = Len(f)
    <3>1. s[i + 1] = Last(s)
      BY <1>3, <1>1, <2>3
    <3>2. s[i] \in Entry /\ s[i + 1] \in Entry
      BY <1>3, <2>1
    <3>3. s[i].kind \in Kinds /\ s[i].project \in Project /\ s[i + 1].project \in Project
      BY <1>3, <3>2 DEF Entry
    <3>4. SameBut(s[i].kind, s[i].project, q)
      BY <1>3, <2>2, <3>1, <3>3, SameButIs, SlicesAreThree
    <3>5. QED
      BY <2>1, <2>3, <3>4
  <2>4. CASE i # Len(f)
    <3>1. f[i + 1] = s[i + 1]
      BY <1>3, <1>1, <2>4
    <3>2. QED
      BY <2>1, <2>2, <2>4, <3>1
  <2>5. QED
    BY <2>3, <2>4
<1>4. LeftFor(f, q)
  BY <1>2, <1>3 DEF LeftFor
<1>5. QED
  BY <1>4 DEF f

-----------------------------------------------------------------------------
(***************************************************************************)
(* What each kind of step does to the project, the stacks and the rest.    *)
(***************************************************************************)

DerivedTyped ==
    /\ results \in Structures \cup {None}
    /\ checked \in [rebar : Rebars, structure : Structures] \cup {None}
    /\ run \in [foundation : Foundation, fingerprint : [mat : Mats, footings : SUBSET (Nat \X Nat)]]
              \cup {None}
    /\ document \in Foundation \cup {None}

\* The hooks drop what is derived, or leave it.
Drops ==
    /\ results' \in {None, results}
    /\ checked' \in {None, checked}
    /\ run' = run
    /\ document' \in {None, document}

LEMMA HooksDrop ==
    /\ Mutated => Drops
    /\ ReinforcementCommitted => Drops
    /\ FoundationChanged => Drops
    /\ UNCHANGED derived => Drops
  BY DEF Mutated, ReinforcementCommitted, FoundationChanged, derived, Drops

LEMMA DropsTyped == DerivedTyped /\ Drops => DerivedTyped'
  BY DEF DerivedTyped, Drops

LEMMA UnfoundedTyped ==
    \A s \in Structures, r \in Rebars, m \in Mats : Unfounded(s, r, m) \in Project
  BY DEF Unfounded, Project, Foundation

LEMMA FootingRevised ==
    ASSUME NEW g \in Footing, NEW d \in Designs, NEW b \in BOOLEAN
    PROVE  /\ [g EXCEPT !.design = d, !.founded = b, !.revision = g.revision + 1] \in Footing
           /\ [g EXCEPT !.founded = FALSE, !.revision = g.revision + 1] \in Footing
<1>1. g.revision + 1 \in Nat
  BY DEF Footing
<1>2. \A h \in Footing, n \in Nat : [h EXCEPT !.revision = n] \in Footing
  BY DEF Footing
<1>3. \A h \in Footing : [h EXCEPT !.design = d] \in Footing
  BY DEF Footing
<1>4. [[g EXCEPT !.design = d] EXCEPT !.founded = b] \in Footing
  BY <1>3 DEF Footing
<1>5. [g EXCEPT !.founded = FALSE] \in Footing
  BY DEF Footing
<1>6. /\ [g EXCEPT !.design = d, !.founded = b, !.revision = g.revision + 1]
             = [[[g EXCEPT !.design = d] EXCEPT !.founded = b] EXCEPT !.revision = g.revision + 1]
      /\ [g EXCEPT !.founded = FALSE, !.revision = g.revision + 1]
             = [[g EXCEPT !.founded = FALSE] EXCEPT !.revision = g.revision + 1]
  BY Zenon
<1>7. QED
  BY <1>1, <1>2, <1>4, <1>5, <1>6

\* A step that pushes an entry of a kind changes the slice of that kind only.
EditsOne(k) ==
    /\ Push(k)
    /\ project' \in Project
    /\ SameBut(k, project, project')
    /\ Drops

\* Every edit of the structure is on the structural channel, whose entries keep all of it.
LEMMA StructuralEdit ==
    ASSUME project \in Project, project' \in Project, Push("structural"), Drops
    PROVE  EditsOne("structural")
  BY DEF EditsOne, SameBut

LEMMA ReinforcementEdit ==
    ASSUME project \in Project, NEW r \in Rebars, SetReinforcement(r)
    PROVE  EditsOne("reinforcement")
<1>1. project' = [project EXCEPT !.rebar = r] /\ project' \in Project
  BY DEF SetReinforcement, Project
<1>2. project.structure = project'.structure /\ project.foundation = project'.foundation
  BY <1>1 DEF Project
<1>3. QED
  BY <1>1, <1>2, SameButIs, HooksDrop DEF EditsOne, SetReinforcement, Kinds

LEMMA FoundationEdit ==
    ASSUME project \in Project, Push("foundation"), Drops,
           NEW f \in Foundation, NEW n \in Nat,
           project' = [project EXCEPT !.foundation = f, !.nextFooting = n]
    PROVE  EditsOne("foundation")
<1>1. project' \in Project
  BY DEF Project
<1>2. project.structure = project'.structure /\ project.rebar = project'.rebar
  BY DEF Project
<1>3. QED
  BY <1>1, <1>2, SameButIs DEF EditsOne, Kinds

LEMMA FoundEdits ==
    ASSUME project \in Project, NEW f \in Foundation, Found(f)
    PROVE  EditsOne("foundation")
<1>1. project' = [project EXCEPT !.foundation = f, !.nextFooting = project.nextFooting]
      /\ project.nextFooting \in Nat
  BY DEF Found, Project
<1>2. QED
  BY <1>1, FoundationEdit, HooksDrop DEF Found

\* Every edit, and the opening of a file, keeps to the slice it pushes for.
LEMMA EditKeepsToItsSlice ==
    ASSUME project \in Project, Edit
    PROVE  \E k \in Kinds : EditsOne(k)
<1> USE DEF Kinds
<1> DEFINE f == project.foundation
<1>0. f \in Foundation /\ project.nextFooting \in Nat
  BY DEF Project
<1>1. ASSUME NEW s \in Structures, EditStructure(s) PROVE EditsOne("structural")
  <2>1. project' \in Project
    BY <1>1 DEF EditStructure, Project
  <2>2. QED
    BY <1>1, <2>1, StructuralEdit, HooksDrop DEF EditStructure
<1>2. ASSUME NEW s \in Structures, RemoveNode(s) PROVE EditsOne("structural")
  <2>1. project' \in Project
    BY <1>2 DEF RemoveNode, Project, Foundation
  <2>2. QED
    BY <1>2, <2>1, StructuralEdit, HooksDrop DEF RemoveNode
<1>3. ASSUME NEW d \in Designs, AddFooting(d) PROVE EditsOne("foundation")
  <2> DEFINE g == [id |-> project.nextFooting, design |-> d, founded |-> f.default, revision |-> 1]
  <2>1. g \in Footing
    BY <1>0 DEF Footing, Foundation
  <2> HIDE DEF g
  <2>2. [f EXCEPT !.footing = g] \in Foundation
    BY <1>0, <2>1 DEF Foundation
  <2>3. project' = [project EXCEPT !.foundation = [f EXCEPT !.footing = g],
                                   !.nextFooting = project.nextFooting + 1]
    <3>1. project' = [project EXCEPT !.nextFooting = project.nextFooting + 1,
                                     !.foundation.footing = g]
      BY <1>3 DEF AddFooting, g
    <3>2. QED
      BY <3>1 DEF Project
  <2>4. Push("foundation") /\ Drops /\ project.nextFooting + 1 \in Nat
    BY <1>0, <1>3, HooksDrop DEF AddFooting
  <2>5. QED
    BY <2>2, <2>3, <2>4, FoundationEdit
<1>4. ASSUME NEW d \in Designs, NEW b \in BOOLEAN, UpdateFooting(d, b)
      PROVE  EditsOne("foundation")
  <2>1. CASE f.footing = None
    <3>1. Push("foundation") /\ project' = project /\ Drops
      BY <1>4, <2>1, HooksDrop DEF UpdateFooting
    <3>2. project' = [project EXCEPT !.foundation = f, !.nextFooting = project.nextFooting]
      BY <3>1 DEF Project
    <3>3. QED
      BY <1>0, <3>1, <3>2, FoundationEdit
  <2>2. CASE f.footing # None
    <3>1. f.footing \in Footing
      BY <1>0, <2>2 DEF Foundation
    <3> DEFINE g == [f.footing EXCEPT !.design = d, !.founded = b,
                                      !.revision = f.footing.revision + 1]
    <3>2. g \in Footing
      BY <3>1, FootingRevised
    <3>3. Found([f EXCEPT !.footing = g])
      BY <1>4, <2>2 DEF UpdateFooting
    <3> HIDE DEF g
    <3>4. [f EXCEPT !.footing = g] \in Foundation
      BY <1>0, <3>2 DEF Foundation
    <3>5. QED
      BY <3>3, <3>4, FoundEdits
  <2>3. QED
    BY <2>1, <2>2
<1>5. ASSUME RemoveFooting PROVE EditsOne("foundation")
  <2>1. [f EXCEPT !.footing = None] \in Foundation
    BY <1>0 DEF Foundation
  <2>2. QED
    BY <1>5, <2>1, FoundEdits DEF RemoveFooting
<1>6. ASSUME NEW m \in Mats, SetMat(m) PROVE EditsOne("foundation")
  <2>1. [f EXCEPT !.mat = m] \in Foundation
    BY <1>0 DEF Foundation
  <2>2. QED
    BY <1>6, <2>1, FoundEdits DEF SetMat
<1>7. ASSUME AddSoilProfile PROVE EditsOne("foundation")
  <2>1. [f EXCEPT !.ground = Unstated, !.default = TRUE] \in Foundation
    BY <1>0, SlicesAssumption DEF Foundation
  <2>2. QED
    BY <1>7, <2>1, FoundEdits DEF AddSoilProfile
<1>8. ASSUME NEW c \in Capacities, UpdateSoilProfile(c) PROVE EditsOne("foundation")
  <2>1. [f EXCEPT !.ground = c] \in Foundation
    BY <1>0 DEF Foundation
  <2>2. QED
    BY <1>8, <2>1, FoundEdits DEF UpdateSoilProfile
<1>9. ASSUME RemoveSoilProfile PROVE EditsOne("foundation")
  <2> DEFINE g == IF f.footing # None /\ f.footing.founded
                  THEN [f.footing EXCEPT !.founded = FALSE, !.revision = f.footing.revision + 1]
                  ELSE f.footing
  <2>1. g \in Footing \cup {None}
    <3>1. f.footing # None => f.footing \in Footing
      BY <1>0 DEF Foundation
    <3>2. \A h \in Footing :
              [h EXCEPT !.founded = FALSE, !.revision = h.revision + 1] \in Footing
      <4> SUFFICES ASSUME NEW h \in Footing
                   PROVE  [h EXCEPT !.founded = FALSE, !.revision = h.revision + 1] \in Footing
        OBVIOUS
      <4>1. h.design \in Designs
        BY DEF Footing
      <4>2. QED
        BY <4>1, FootingRevised
    <3>3. QED
      BY <3>1, <3>2
  <2>2. Found([f EXCEPT !.ground = None, !.default = FALSE, !.footing = g])
    BY <1>9 DEF RemoveSoilProfile
  <2> HIDE DEF g
  <2>3. [f EXCEPT !.ground = None, !.default = FALSE, !.footing = g] \in Foundation
    BY <1>0, <2>1 DEF Foundation
  <2>4. QED
    BY <2>2, <2>3, FoundEdits
<1>10. ASSUME NEW b \in BOOLEAN, SetDefaultSoilProfile(b) PROVE EditsOne("foundation")
  <2>1. [f EXCEPT !.default = b] \in Foundation
    BY <1>0 DEF Foundation
  <2>2. project' = [project EXCEPT !.foundation = [f EXCEPT !.default = b],
                                   !.nextFooting = project.nextFooting]
    BY <1>10 DEF SetDefaultSoilProfile, Project
  <2>3. QED
    BY <1>0, <1>10, <2>1, <2>2, FoundationEdit, HooksDrop DEF SetDefaultSoilProfile
<1>11. QED
  BY <1>1, <1>2, <1>3, <1>4, <1>5, <1>6, <1>7, <1>8, <1>9, <1>10, ReinforcementEdit DEF Edit

-----------------------------------------------------------------------------
(***************************************************************************)
(* The invariant: the types, and the chain.                                *)
(***************************************************************************)

StacksTyped ==
    /\ undo \in Seq(Entry) /\ redo \in Seq(Entry)
    /\ Len(undo) + Len(redo) <= MaxHistory

LEMMA TypeOKIs ==
    TypeOK <=> project \in Project /\ StacksTyped /\ DerivedTyped /\ edits \in Nat
  BY DEF TypeOK, StacksTyped, DerivedTyped

LEMMA PushStep ==
    ASSUME TypeOK, NEW k \in Kinds, EditsOne(k)
    PROVE  TypeOK' /\ (Chained => Chained')
<1> DEFINE e == [kind |-> k, project |-> project]
           s == Append(undo, e)
<1>1. /\ project \in Project /\ undo \in Seq(Entry) /\ redo \in Seq(Entry)
      /\ Len(undo) \in Nat /\ Len(redo) \in Nat /\ Len(undo) <= MaxHistory
      /\ MaxHistory \in Nat \ {0} /\ edits \in Nat
  BY LenProperties, BoundsAssumption DEF TypeOK
<1>2. e \in Entry
  BY <1>1 DEF Entry
<1>3. undo' = Trimmed(s) /\ redo' = <<>> /\ edits' = edits + 1
  BY DEF EditsOne, Push
<1>4. s \in Seq(Entry) /\ Len(s) <= MaxHistory + 1
  <2> HIDE DEF e
  <2> QED
    BY <1>1, <1>2, Appended
<1>5. project' \in Project /\ SameBut(k, project, project') /\ Drops
  BY DEF EditsOne
<1>6. TypeOK'
  <2> HIDE DEF s
  <2>1. undo' \in Seq(Entry) /\ Len(undo') <= MaxHistory
    BY <1>3, <1>4, TrimmedStack
  <2>2. redo' \in Seq(Entry) /\ Len(redo') = 0 /\ Len(undo') \in Nat
    BY <1>3, <2>1, EmptySeq, LenProperties
  <2>3. StacksTyped'
    BY <1>1, <2>1, <2>2 DEF StacksTyped
  <2>4. DerivedTyped'
    BY <1>5, DropsTyped, TypeOKIs
  <2>5. QED
    BY <1>1, <1>3, <1>5, <2>3, <2>4 DEF TypeOK, StacksTyped, DerivedTyped
<1>7. ASSUME Chained PROVE Chained'
  <2>1. LeftFor(undo, project)
    BY <1>7, ChainedIs
  <2>2. LeftFor(s, project')
    BY <1>1, <1>5, <2>1, LeftForAppended
  <2>3. LeftFor(undo', project')
    <3> HIDE DEF s
    <3> QED
      BY <1>3, <1>4, <2>2, LeftForTrimmed
  <2>4. LeftFor(redo', project')
    BY <1>3 DEF LeftFor
  <2>5. QED
    BY <2>3, <2>4 DEF Chained, LeftFor, After
<1>8. QED
  BY <1>6, <1>7

\* What restoring an entry puts on screen, whether or not the stacks are chained.
LEMMA EntryTyped ==
    ASSUME project \in Project, NEW e \in Entry, RestoreEntry(e)
    PROVE  project' \in Project /\ Drops
<1>1. e.project \in Project
  BY DEF Entry
<1>2. CASE restore(e.project)
  BY <1>1, <1>2, HooksDrop DEF restore
<1>3. CASE restoreReinforcementOnly(e.project)
  <2>1. project' = [project EXCEPT !.rebar = e.project.rebar]
    BY <1>3 DEF restoreReinforcementOnly
  <2>2. Drops
    BY <1>3, HooksDrop DEF restoreReinforcementOnly
  <2>3. QED
    BY <1>1, <2>1, <2>2 DEF Project
<1>4. CASE restoreFoundationOnly(e.project)
  <2>1. project' = [project EXCEPT !.foundation = e.project.foundation]
    BY <1>4 DEF restoreFoundationOnly
  <2>2. Drops
    BY <1>4, HooksDrop DEF restoreFoundationOnly
  <2>3. QED
    BY <1>1, <2>1, <2>2 DEF Project
<1>5. QED
  BY <1>2, <1>3, <1>4 DEF RestoreEntry

\* Where the chain holds, one slice is the whole project.
LEMMA EntryRestored ==
    ASSUME project \in Project, NEW e \in Entry, RestoreEntry(e),
           SameBut(e.kind, e.project, project)
    PROVE  Slices(project') = Slices(e.project) /\ SameBut(e.kind, project, project')
<1>1. e.kind \in Kinds /\ e.project \in Project /\ project' \in Project
  BY EntryTyped DEF Entry
<1>2. CASE e.kind = "structural"
  <2>1. project' = e.project
    BY <1>2 DEF RestoreEntry, restore
  <2>2. QED
    BY <1>2, <2>1 DEF SameBut
<1>3. CASE e.kind = "reinforcement"
  <2>1. project' = [project EXCEPT !.rebar = e.project.rebar]
    BY <1>3 DEF RestoreEntry, restoreReinforcementOnly
  <2>2. project'.structure = project.structure /\ project'.foundation = project.foundation
        /\ project'.rebar = e.project.rebar
    BY <2>1 DEF Project
  <2>3. e.project.structure = project.structure /\ e.project.foundation = project.foundation
    BY <1>1, <1>3, SameButIs
  <2>4. QED
    BY <1>1, <1>3, <2>2, <2>3, SameButIs, SlicesAreThree
<1>4. CASE e.kind = "foundation"
  <2>1. project' = [project EXCEPT !.foundation = e.project.foundation]
    BY <1>4 DEF RestoreEntry, restoreFoundationOnly
  <2>2. project'.structure = project.structure /\ project'.rebar = project.rebar
        /\ project'.foundation = e.project.foundation
    BY <2>1 DEF Project
  <2>3. e.project.structure = project.structure /\ e.project.rebar = project.rebar
    BY <1>1, <1>4, SameButIs
  <2>4. QED
    BY <1>1, <1>4, <2>2, <2>3, SameButIs, SlicesAreThree
<1>5. QED
  BY <1>1, <1>2, <1>3, <1>4 DEF Kinds

\* An entry goes from one stack to the other as the state that is left.
LEMMA MovedTyped ==
    ASSUME NEW from \in Seq(Entry), NEW to \in Seq(Entry), from # <<>>,
           Len(from) + Len(to) <= MaxHistory, NEW p \in Project
    PROVE  LET left == [kind |-> Last(from).kind, project |-> p]
           IN  /\ Front(from) \in Seq(Entry)
               /\ Append(to, left) \in Seq(Entry)
               /\ Len(Front(from)) + Len(Append(to, left)) <= MaxHistory
<1> DEFINE left == [kind |-> Last(from).kind, project |-> p]
<1>1. Last(from) \in Entry /\ Front(from) \in Seq(Entry) /\ Len(Front(from)) = Len(from) - 1
      /\ Len(from) \in Nat
  BY FrontLast
<1>2. left \in Entry
  BY <1>1 DEF Entry
<1> HIDE DEF left
<1>3. Append(to, left) \in Seq(Entry) /\ Len(Append(to, left)) = Len(to) + 1 /\ Len(to) \in Nat
  BY <1>2, Appended
<1>4. Len(Front(from)) + Len(Append(to, left)) <= MaxHistory
  BY <1>1, <1>3, BoundsAssumption
<1>5. QED
  BY <1>1, <1>3, <1>4 DEF left

LEMMA MovedChained ==
    ASSUME NEW from \in Seq(Entry), NEW to \in Seq(Entry), from # <<>>,
           NEW p \in Project, NEW q \in Project,
           LeftFor(from, p), LeftFor(to, p),
           Slices(q) = Slices(Last(from).project), SameBut(Last(from).kind, p, q)
    PROVE  /\ LeftFor(Front(from), q)
           /\ LeftFor(Append(to, [kind |-> Last(from).kind, project |-> p]), q)
<1>1. Last(from) \in Entry
  BY FrontLast
<1>2. Last(from).kind \in Kinds
  BY <1>1 DEF Entry
<1>3. QED
  BY <1>2, LeftForFront, LeftForAppended

\* The entry on top was left for the project on screen.
LEMMA TopWasLeftForThis ==
    ASSUME NEW s \in Seq(Entry), s # <<>>, NEW p, LeftFor(s, p)
    PROVE  Last(s) \in Entry /\ SameBut(Last(s).kind, Last(s).project, p)
<1>1. Len(s) \in DOMAIN s /\ Last(s) = s[Len(s)] /\ Last(s) \in Entry
  BY FrontLast
<1>2. QED
  BY <1>1 DEF LeftFor

LEMMA UndoStep ==
    ASSUME TypeOK, Undo
    PROVE  /\ TypeOK'
           /\ Chained => Chained' /\ Slices(project') = Slices(Last(undo).project)
<1>1. /\ project \in Project /\ undo \in Seq(Entry) /\ redo \in Seq(Entry) /\ undo # <<>>
      /\ Len(undo) + Len(redo) <= MaxHistory /\ edits \in Nat
  BY DEF TypeOK, Undo
<1>2. /\ undo' = Front(undo) /\ edits' = edits
      /\ redo' = Append(redo, [kind |-> Last(undo).kind, project |-> project])
      /\ RestoreEntry(Last(undo)) /\ Last(undo) \in Entry
  BY <1>1, FrontLast DEF Undo
<1>3. project' \in Project /\ Drops
  BY <1>1, <1>2, EntryTyped
<1>4. TypeOK'
  <2>1. /\ undo' \in Seq(Entry) /\ redo' \in Seq(Entry)
        /\ Len(undo') + Len(redo') <= MaxHistory
    BY <1>1, <1>2, MovedTyped
  <2>2. DerivedTyped'
    BY <1>3, DropsTyped, TypeOKIs
  <2>3. QED
    BY <1>1, <1>2, <1>3, <2>1, <2>2 DEF TypeOK, DerivedTyped
<1>5. ASSUME Chained PROVE Chained' /\ Slices(project') = Slices(Last(undo).project)
  <2>1. LeftFor(undo, project) /\ LeftFor(redo, project)
    BY <1>5, ChainedIs
  <2>2. SameBut(Last(undo).kind, Last(undo).project, project)
    BY <1>1, <2>1, TopWasLeftForThis
  <2>3. Slices(project') = Slices(Last(undo).project)
        /\ SameBut(Last(undo).kind, project, project')
    BY <1>1, <1>2, <2>2, EntryRestored
  <2>4. LeftFor(undo', project') /\ LeftFor(redo', project')
    BY <1>1, <1>2, <1>3, <2>1, <2>3, MovedChained
  <2>5. QED
    BY <2>3, <2>4 DEF Chained, LeftFor, After
<1>6. QED
  BY <1>4, <1>5

LEMMA RedoStep ==
    ASSUME TypeOK, Redo
    PROVE  /\ TypeOK'
           /\ Chained => Chained' /\ Slices(project') = Slices(Last(redo).project)
<1>1. /\ project \in Project /\ undo \in Seq(Entry) /\ redo \in Seq(Entry) /\ redo # <<>>
      /\ Len(redo) + Len(undo) <= MaxHistory /\ edits \in Nat
  <2>1. Len(undo) \in Nat /\ Len(redo) \in Nat
    BY LenProperties DEF TypeOK
  <2>2. QED
    BY <2>1, BoundsAssumption DEF TypeOK, Redo
<1>2. /\ redo' = Front(redo) /\ edits' = edits
      /\ undo' = Append(undo, [kind |-> Last(redo).kind, project |-> project])
      /\ RestoreEntry(Last(redo)) /\ Last(redo) \in Entry
  BY <1>1, FrontLast DEF Redo
<1>3. project' \in Project /\ Drops
  BY <1>1, <1>2, EntryTyped
<1>4. TypeOK'
  <2>1. /\ undo' \in Seq(Entry) /\ redo' \in Seq(Entry)
        /\ Len(redo') + Len(undo') <= MaxHistory
    BY <1>1, <1>2, MovedTyped
  <2>2. Len(undo') + Len(redo') <= MaxHistory
    BY <2>1, LenProperties, BoundsAssumption
  <2>3. DerivedTyped'
    BY <1>3, DropsTyped, TypeOKIs
  <2>4. QED
    BY <1>1, <1>2, <1>3, <2>1, <2>2, <2>3 DEF TypeOK, DerivedTyped
<1>5. ASSUME Chained PROVE Chained' /\ Slices(project') = Slices(Last(redo).project)
  <2>1. LeftFor(undo, project) /\ LeftFor(redo, project)
    BY <1>5, ChainedIs
  <2>2. SameBut(Last(redo).kind, Last(redo).project, project)
    BY <1>1, <2>1, TopWasLeftForThis
  <2>3. Slices(project') = Slices(Last(redo).project)
        /\ SameBut(Last(redo).kind, project, project')
    BY <1>1, <1>2, <2>2, EntryRestored
  <2>4. LeftFor(undo', project') /\ LeftFor(redo', project')
    BY <1>1, <1>2, <1>3, <2>1, <2>3, MovedChained
  <2>5. QED
    BY <2>3, <2>4 DEF Chained, LeftFor, After
<1>6. QED
  BY <1>4, <1>5

LEMMA ReplaceStep ==
    ASSUME TypeOK, Replace
    PROVE  /\ TypeOK'
           /\ NothingRestoredOver /\ Chained => Chained'
<1>1. PICK s \in Structures, r \in Rebars, m \in Mats :
          OpenFile(Unfounded(s, r, m)) \/ RestoreAutosave(Unfounded(s, r, m))
  BY DEF Replace
<1> DEFINE p == Unfounded(s, r, m)
<1>2. p \in Project
  BY UnfoundedTyped
<1> HIDE DEF p
<1>3. CASE OpenFile(p)
  <2>1. EditsOne("structural")
    BY <1>2, <1>3, StructuralEdit, HooksDrop DEF OpenFile, TypeOK
  <2>2. QED
    BY <2>1, PushStep DEF Kinds
<1>4. CASE RestoreAutosave(p)
  <2>1. project' = p /\ undo' = undo /\ redo' = redo /\ edits' = edits + 1 /\ Drops
    BY <1>4, HooksDrop DEF RestoreAutosave
  <2>2. TypeOK'
    <3>1. DerivedTyped'
      BY <2>1, DropsTyped, TypeOKIs
    <3>2. edits + 1 \in Nat
      BY DEF TypeOK
    <3>3. QED
      BY <1>2, <2>1, <3>1, <3>2 DEF TypeOK, DerivedTyped
  <2>3. ASSUME NothingRestoredOver PROVE Chained'
    <3>1. undo \o redo = <<>>
      BY <1>4, <2>3 DEF RestoreAutosave, NothingRestoredOver
    <3>2. undo = <<>> /\ redo = <<>>
      BY <3>1, ConcatEqualIffEmpty, ConcatEmptySeq, EmptySeq, ConcatProperties DEF TypeOK
    <3>3. LeftFor(undo', project') /\ LeftFor(redo', project')
      BY <2>1, <3>2 DEF LeftFor
    <3>4. QED
      BY <3>3 DEF Chained, LeftFor, After
  <2>4. QED
    BY <2>2, <2>3
<1>5. QED
  BY <1>1, <1>3, <1>4 DEF p

LEMMA FingerprintTyped ==
    ASSUME NEW f \in Foundation
    PROVE  Fingerprint(f) \in [mat : Mats, footings : SUBSET (Nat \X Nat)]
<1>1. f.mat \in Mats /\ f.footing \in Footing \cup {None}
  BY DEF Foundation
<1>2. {<<g.id, g.revision>> : g \in {f.footing} \ {None}} \in SUBSET (Nat \X Nat)
  <2>1. \A g \in {f.footing} \ {None} : g.id \in Nat /\ g.revision \in Nat
    BY <1>1 DEF Footing
  <2>2. QED
    BY <2>1
<1>3. QED
  BY <1>1, <1>2 DEF Fingerprint

LEMMA DeriveStep ==
    ASSUME TypeOK, Derive
    PROVE  TypeOK' /\ (Chained => Chained')
<1>1. project' = project /\ undo' = undo /\ redo' = redo /\ edits' = edits
  BY DEF Derive, Solve, Verify, GenerateFloors, BuildDocument
<1>2. project \in Project /\ project.structure \in Structures /\ project.rebar \in Rebars
      /\ project.foundation \in Foundation
  BY DEF TypeOK, Project
<1>3. DerivedTyped
  BY TypeOKIs
<1>4. ASSUME Solve PROVE DerivedTyped'
  BY <1>2, <1>3, <1>4 DEF Solve, DerivedTyped
<1>5. ASSUME Verify PROVE DerivedTyped'
  <2>1. results \in Structures /\ checked' = [rebar |-> project.rebar, structure |-> results]
    BY <1>3, <1>5 DEF Verify, DerivedTyped
  <2>2. checked' \in [rebar : Rebars, structure : Structures]
    BY <1>2, <2>1
  <2>3. QED
    BY <1>3, <1>5, <2>2 DEF Verify, DerivedTyped
<1>6. ASSUME GenerateFloors PROVE DerivedTyped'
  <2>1. run' \in [foundation : Foundation, fingerprint : [mat : Mats, footings : SUBSET (Nat \X Nat)]]
    BY <1>2, <1>6, FingerprintTyped DEF GenerateFloors
  <2>2. QED
    BY <1>3, <1>6, <2>1 DEF GenerateFloors, DerivedTyped
<1>7. ASSUME BuildDocument PROVE DerivedTyped'
  BY <1>2, <1>3, <1>7 DEF BuildDocument, DerivedTyped
<1>8. DerivedTyped'
  BY <1>4, <1>5, <1>6, <1>7 DEF Derive
<1>9. TypeOK'
  BY <1>1, <1>8 DEF TypeOK, DerivedTyped
<1>10. Chained => Chained'
  BY <1>1 DEF Chained, After
<1>11. QED
  BY <1>9, <1>10

LEMMA InitTyped == Init => TypeOK /\ Chained /\ DerivedIsCurrent
<1> SUFFICES ASSUME Init PROVE TypeOK /\ Chained /\ DerivedIsCurrent
  OBVIOUS
<1>1. project \in Project
  BY UnfoundedTyped DEF Init
<1>2. undo \in Seq(Entry) /\ redo \in Seq(Entry) /\ Len(undo) + Len(redo) <= MaxHistory
  BY EmptySeq, BoundsAssumption DEF Init
<1>3. TypeOK
  BY <1>1, <1>2 DEF Init, TypeOK
<1>4. LeftFor(undo, project) /\ LeftFor(redo, project)
  BY DEF Init, LeftFor
<1>5. QED
  BY <1>3, <1>4, ChainedIs DEF Init, DerivedIsCurrent

LEMMA NextStep ==
    ASSUME TypeOK, Next
    PROVE  /\ TypeOK'
           /\ NothingRestoredOver /\ Chained => Chained'
<1>1. CASE Edit
  <2>1. PICK k \in Kinds : EditsOne(k)
    BY <1>1, EditKeepsToItsSlice DEF TypeOK
  <2>2. QED
    BY <2>1, PushStep
<1>2. CASE Replace
  BY <1>2, ReplaceStep
<1>3. CASE Undo
  BY <1>3, UndoStep
<1>4. CASE Redo
  BY <1>4, RedoStep
<1>5. CASE Derive
  BY <1>5, DeriveStep
<1>6. QED
  BY <1>1, <1>2, <1>3, <1>4, <1>5 DEF Next

LEMMA Stutters == ASSUME UNCHANGED vars PROVE /\ TypeOK => TypeOK'
                                              /\ Chained => Chained'
                                              /\ DerivedIsCurrent => DerivedIsCurrent'
<1>1. /\ project' = project /\ undo' = undo /\ redo' = redo /\ edits' = edits
      /\ results' = results /\ checked' = checked /\ run' = run /\ document' = document
  BY DEF vars, derived
<1>2. QED
  BY <1>1 DEF TypeOK, Chained, After, DerivedIsCurrent

-----------------------------------------------------------------------------
(***************************************************************************)
(* What is derived stays that of the project on screen: each hook drops    *)
(* what its channel can make stale, and what it keeps reads other slices.  *)
(***************************************************************************)

LEMMA MutatedCurrent ==
    ASSUME DocumentFollows, DerivedIsCurrent, Mutated
    PROVE  DerivedIsCurrent'
  BY DEF DocumentFollows, DerivedIsCurrent, Mutated

LEMMA CommittedCurrent ==
    ASSUME DerivedIsCurrent, ReinforcementCommitted,
           project'.structure = project.structure, project'.foundation = project.foundation
    PROVE  DerivedIsCurrent'
  BY DEF DerivedIsCurrent, ReinforcementCommitted

LEMMA FoundationChangedCurrent ==
    ASSUME DerivedIsCurrent, FoundationChanged,
           project'.structure = project.structure, project'.rebar = project.rebar
    PROVE  DerivedIsCurrent'
  BY DEF DerivedIsCurrent, FoundationChanged

LEMMA SlicesKeptCurrent ==
    ASSUME DerivedIsCurrent, UNCHANGED derived,
           project'.structure = project.structure, project'.rebar = project.rebar,
           Described(project'.foundation) = Described(project.foundation)
    PROVE  DerivedIsCurrent'
  BY DEF DerivedIsCurrent, derived

LEMMA FoundCurrent ==
    ASSUME project \in Project, DerivedIsCurrent, NEW f, Found(f)
    PROVE  DerivedIsCurrent'
<1>1. project'.structure = project.structure /\ project'.rebar = project.rebar
  BY DEF Found, Project
<1>2. QED
  BY <1>1, FoundationChangedCurrent DEF Found

\* Which profile a footing to come will stand on is no part of what a document says.
LEMMA DefaultNotDescribed ==
    ASSUME NEW f \in Foundation, NEW b \in BOOLEAN
    PROVE  Described([f EXCEPT !.default = b]) = Described(f)
  BY Zenon DEF Described

LEMMA EditCurrent ==
    ASSUME project \in Project, DocumentFollows, DerivedIsCurrent, Edit
    PROVE  DerivedIsCurrent'
<1>1. ASSUME NEW s \in Structures, EditStructure(s) \/ RemoveNode(s)
      PROVE  DerivedIsCurrent'
  BY <1>1, MutatedCurrent DEF EditStructure, RemoveNode
<1>2. ASSUME NEW r \in Rebars, SetReinforcement(r)
      PROVE  DerivedIsCurrent'
  <2>1. project'.structure = project.structure /\ project'.foundation = project.foundation
    BY <1>2 DEF SetReinforcement, Project
  <2>2. QED
    BY <1>2, <2>1, CommittedCurrent DEF SetReinforcement
<1>3. ASSUME NEW d \in Designs, AddFooting(d)
      PROVE  DerivedIsCurrent'
  <2>1. project'.structure = project.structure /\ project'.rebar = project.rebar
    BY <1>3 DEF AddFooting, Project
  <2>2. QED
    BY <1>3, <2>1, FoundationChangedCurrent DEF AddFooting
<1>4. ASSUME NEW d \in Designs, NEW b \in BOOLEAN, UpdateFooting(d, b)
      PROVE  DerivedIsCurrent'
  <2>1. CASE project.foundation.footing = None
    BY <1>4, <2>1, SlicesKeptCurrent DEF UpdateFooting
  <2>2. CASE project.foundation.footing # None
    BY <1>4, <2>2, FoundCurrent DEF UpdateFooting
  <2>3. QED
    BY <2>1, <2>2
<1>5. ASSUME \/ RemoveFooting \/ AddSoilProfile \/ RemoveSoilProfile
             \/ \E m \in Mats : SetMat(m)
             \/ \E c \in Capacities : UpdateSoilProfile(c)
      PROVE  DerivedIsCurrent'
  BY <1>5, FoundCurrent
     DEF RemoveFooting, AddSoilProfile, RemoveSoilProfile, SetMat, UpdateSoilProfile
<1>6. ASSUME NEW b \in BOOLEAN, SetDefaultSoilProfile(b)
      PROVE  DerivedIsCurrent'
  <2>1. /\ project'.structure = project.structure /\ project'.rebar = project.rebar
        /\ project'.foundation = [project.foundation EXCEPT !.default = b]
        /\ project.foundation \in Foundation
    BY <1>6 DEF SetDefaultSoilProfile, Project
  <2>2. QED
    BY <1>6, <2>1, DefaultNotDescribed, SlicesKeptCurrent DEF SetDefaultSoilProfile
<1>7. QED
  BY <1>1, <1>2, <1>3, <1>4, <1>5, <1>6 DEF Edit

\* An entry is restored by its kind, with the hook of its kind.
LEMMA RestoreCurrent ==
    ASSUME project \in Project, DocumentFollows, DerivedIsCurrent, NEW e \in Entry, RestoreEntry(e)
    PROVE  DerivedIsCurrent'
<1>1. CASE restore(e.project)
  BY <1>1, MutatedCurrent DEF restore
<1>2. CASE restoreReinforcementOnly(e.project)
  <2>1. /\ project'.structure = project.structure /\ project'.foundation = project.foundation
        /\ project'.rebar = e.project.rebar
    BY <1>2 DEF restoreReinforcementOnly, Project
  <2>2. QED
    BY <1>2, <2>1, CommittedCurrent, SlicesKeptCurrent DEF restoreReinforcementOnly
<1>3. CASE restoreFoundationOnly(e.project)
  <2>1. /\ project'.structure = project.structure /\ project'.rebar = project.rebar
        /\ project'.foundation = e.project.foundation
    BY <1>3 DEF restoreFoundationOnly, Project
  <2>2. QED
    BY <1>3, <2>1, FoundationChangedCurrent, SlicesKeptCurrent DEF restoreFoundationOnly
<1>4. QED
  BY <1>1, <1>2, <1>3 DEF RestoreEntry

LEMMA DeriveCurrent ==
    ASSUME TypeOK, DerivedIsCurrent, Derive
    PROVE  DerivedIsCurrent'
<1>1. project' = project
  BY DEF Derive, Solve, Verify, GenerateFloors, BuildDocument
<1>2. ASSUME Solve PROVE DerivedIsCurrent'
  BY <1>1, <1>2 DEF Solve, DerivedIsCurrent
<1>3. ASSUME Verify PROVE DerivedIsCurrent'
  BY <1>1, <1>3 DEF Verify, DerivedIsCurrent
<1>4. ASSUME GenerateFloors PROVE DerivedIsCurrent'
  BY <1>1, <1>4 DEF GenerateFloors, DerivedIsCurrent
<1>5. ASSUME BuildDocument PROVE DerivedIsCurrent'
  BY <1>1, <1>5 DEF BuildDocument, DerivedIsCurrent
<1>6. QED
  BY <1>2, <1>3, <1>4, <1>5 DEF Derive

LEMMA NextCurrent ==
    ASSUME TypeOK, DocumentFollows, DerivedIsCurrent, Next
    PROVE  DerivedIsCurrent'
<1>1. project \in Project /\ undo \in Seq(Entry) /\ redo \in Seq(Entry)
  BY DEF TypeOK
<1>2. CASE Edit
  BY <1>1, <1>2, EditCurrent
<1>3. CASE Replace
  BY <1>3, MutatedCurrent DEF Replace, OpenFile, RestoreAutosave
<1>4. CASE Undo
  BY <1>1, <1>4, FrontLast, RestoreCurrent DEF Undo
<1>5. CASE Redo
  BY <1>1, <1>5, FrontLast, RestoreCurrent DEF Redo
<1>6. CASE Derive
  BY <1>6, DeriveCurrent
<1>7. QED
  BY <1>2, <1>3, <1>4, <1>5, <1>6 DEF Next

-----------------------------------------------------------------------------
(***************************************************************************)
(* Theorems.                                                               *)
(***************************************************************************)

\* The slices, the stacks, within MAX_HISTORY together, and what is derived keep their
\* shape, in every circumstance (pushState, undo, redo).
THEOREM HistoryTypeCorrect == Spec => []TypeOK
<1>1. TypeOK /\ [Next]_vars => TypeOK'
  BY NextStep, Stutters
<1>2. QED
  BY <1>1, InitTyped, PTL DEF Spec

\* Whatever was edited, undone and redone, on any channel and for any limit of the stacks,
\* nothing outside the slice of an entry changed between it and what followed it
\* (restoreReinforcementOnly, restoreFoundationOnly).
THEOREM StacksStayChained ==
    ASSUME NothingRestoredOver
    PROVE  Spec => []Chained
<1>1. TypeOK /\ Chained /\ [Next]_vars => TypeOK' /\ Chained'
  BY NextStep, Stutters
<1>2. QED
  BY <1>1, InitTyped, PTL DEF Spec

\* Undo and redo, which write one slice, bring back the whole project of the entry.
THEOREM UndoIsExact ==
    ASSUME NothingRestoredOver
    PROVE  Spec => HistoryIsExact
<1>1. TypeOK /\ Chained => [/\ Undo => Slices(project') = Slices(Last(undo).project)
                            /\ Redo => Slices(project') = Slices(Last(redo).project)]_vars
  BY UndoStep, RedoStep
<1>2. QED
  BY <1>1, HistoryTypeCorrect, StacksStayChained, PTL DEF HistoryIsExact

\* Results, cached verdicts and the current document are those of the project on screen,
\* whichever hook each step fires (_onMutation, _onReinforcementCommit,
\* _onFoundationChange).
THEOREM DerivedStaysCurrent ==
    ASSUME DocumentFollows
    PROVE  Spec => []DerivedIsCurrent
<1>1. TypeOK /\ DerivedIsCurrent /\ [Next]_vars => TypeOK' /\ DerivedIsCurrent'
  BY NextStep, NextCurrent, Stutters
<1>2. QED
  BY <1>1, InitTyped, PTL DEF Spec

=============================================================================
