-------------------------- MODULE RegulationsProofs --------------------------
(***************************************************************************)
(* Proofs about the regulations: for any catalogue, any number of changes  *)
(* and any limit of the stack, a certificate that reads fresh was designed *)
(* for the loads the model has, also after an undo; the newest loads are of*)
(* the regulations that are applied; no other regulation comes into force  *)
(* without other loads; and a change makes stale what it is reported to.   *)
(***************************************************************************)
EXTENDS Regulations, SequenceTheorems, TLAPS

\* Loads are edited by hand only when no certificate reads fresh.
NoHandEdit == "handEdit" \notin Races

-----------------------------------------------------------------------------
(***************************************************************************)
(* The revision graph: whatever revisions a project has reached, a change  *)
(* makes stale what it is reported to, and nothing else.                   *)
(***************************************************************************)

\* What is made from the design, and from the generated loads.
FromDesign == {"reinforcement", "detailing", "document"}
FromLoads == {"combination", "analysis", "design"} \cup FromDesign

-----------------------------------------------------------------------------
LEMMA DependsOnAre ==
    /\ DependsOn["regulationConfig"] = {} /\ DependsOn["materialSpec"] = {}
    /\ DependsOn["loadDefinition"] = {"regulationConfig"}
    /\ DependsOn["generatedLoad"] = {"loadDefinition"}
    /\ DependsOn["combination"] = {"generatedLoad"}
    /\ DependsOn["analysis"] = {"combination"}
    /\ DependsOn["design"] = {"analysis", "regulationConfig", "materialSpec"}
    /\ DependsOn["reinforcement"] = {"design", "materialSpec"}
    /\ DependsOn["detailing"] = {"reinforcement"}
    /\ DependsOn["document"] = {"detailing", "design", "analysis", "regulationConfig"}
  BY DEF DependsOn

LEMMA DependentsAre ==
    /\ Dependents("regulationConfig") = {"loadDefinition", "design", "document"}
    /\ Dependents("materialSpec") = {"design", "reinforcement"}
    /\ Dependents("loadDefinition") = {"generatedLoad"}
    /\ Dependents("generatedLoad") = {"combination"}
    /\ Dependents("combination") = {"analysis"}
    /\ Dependents("analysis") = {"design", "document"}
    /\ Dependents("design") = {"reinforcement", "document"}
    /\ Dependents("reinforcement") = {"detailing"}
    /\ Dependents("detailing") = {"document"}
    /\ Dependents("document") = {}
  BY DependsOnAre DEF Dependents, Stages

\* The least closed set, by a set that is closed and is in every closed set.
LEMMA LeastIs ==
    ASSUME NEW stage \in Stages, NEW D \in SUBSET Stages,
           Dependents(stage) \subseteq D, \A s \in D : Dependents(s) \subseteq D,
           \A closed \in SUBSET Stages :
               /\ Dependents(stage) \subseteq closed
               /\ \A s \in closed : Dependents(s) \subseteq closed
               => D \subseteq closed
    PROVE  Downstream[stage] = D
<1>1. Downstream[stage] =
          {later \in Stages :
            \A closed \in SUBSET Stages :
                /\ Dependents(stage) \subseteq closed
                /\ \A s \in closed : Dependents(s) \subseteq closed
                => later \in closed}
  BY DEF Downstream
<1>2. QED
  BY <1>1

LEMMA DownstreamIs ==
    /\ Downstream["reinforcement"] = {"detailing", "document"}
    /\ Downstream["design"] = FromDesign
    /\ Downstream["materialSpec"] = {"design"} \cup FromDesign
    /\ Downstream["generatedLoad"] = FromLoads
    /\ Downstream["regulationConfig"] = {"loadDefinition", "generatedLoad"} \cup FromLoads
<1>1. Downstream["reinforcement"] = {"detailing", "document"}
  <2> DEFINE D == {"detailing", "document"}
  <2>1. D \subseteq Stages /\ "reinforcement" \in Stages
    BY DEF Stages
  <2>2. Dependents("reinforcement") \subseteq D /\ \A s \in D : Dependents(s) \subseteq D
    BY DependentsAre
  <2>3. ASSUME NEW closed, Dependents("reinforcement") \subseteq closed,
               \A s \in closed : Dependents(s) \subseteq closed
        PROVE  D \subseteq closed
    BY <2>3, DependentsAre
  <2>4. QED
    BY <2>1, <2>2, <2>3, LeastIs
<1>2. Downstream["design"] = FromDesign
  <2>1. FromDesign \subseteq Stages /\ "design" \in Stages
    BY DEF Stages, FromDesign
  <2>2. Dependents("design") \subseteq FromDesign
        /\ \A s \in FromDesign : Dependents(s) \subseteq FromDesign
    BY DependentsAre DEF FromDesign
  <2>3. ASSUME NEW closed, Dependents("design") \subseteq closed,
               \A s \in closed : Dependents(s) \subseteq closed
        PROVE  FromDesign \subseteq closed
    BY <2>3, DependentsAre DEF FromDesign
  <2>4. QED
    BY <2>1, <2>2, <2>3, LeastIs
<1>3. Downstream["materialSpec"] = {"design"} \cup FromDesign
  <2> DEFINE D == {"design"} \cup FromDesign
  <2>1. D \subseteq Stages /\ "materialSpec" \in Stages
    BY DEF Stages, FromDesign
  <2>2. Dependents("materialSpec") \subseteq D /\ \A s \in D : Dependents(s) \subseteq D
    BY DependentsAre DEF FromDesign
  <2>3. ASSUME NEW closed, Dependents("materialSpec") \subseteq closed,
               \A s \in closed : Dependents(s) \subseteq closed
        PROVE  D \subseteq closed
    BY <2>3, DependentsAre DEF FromDesign
  <2> HIDE DEF D
  <2>4. QED
    BY <2>1, <2>2, <2>3, LeastIs DEF D
<1>4. Downstream["generatedLoad"] = FromLoads
  <2>1. FromLoads \subseteq Stages /\ "generatedLoad" \in Stages
    BY DEF Stages, FromDesign, FromLoads
  <2>2. Dependents("generatedLoad") \subseteq FromLoads
        /\ \A s \in FromLoads : Dependents(s) \subseteq FromLoads
    BY DependentsAre DEF FromDesign, FromLoads
  <2>3. ASSUME NEW closed, Dependents("generatedLoad") \subseteq closed,
               \A s \in closed : Dependents(s) \subseteq closed
        PROVE  FromLoads \subseteq closed
    BY <2>3, DependentsAre DEF FromDesign, FromLoads
  <2>4. QED
    BY <2>1, <2>2, <2>3, LeastIs
<1>5. Downstream["regulationConfig"] = {"loadDefinition", "generatedLoad"} \cup FromLoads
  <2> DEFINE D == {"loadDefinition", "generatedLoad"} \cup FromLoads
  <2>1. D \subseteq Stages /\ "regulationConfig" \in Stages
    BY DEF Stages, FromDesign, FromLoads
  <2>2. Dependents("regulationConfig") \subseteq D /\ \A s \in D : Dependents(s) \subseteq D
    BY DependentsAre DEF FromDesign, FromLoads
  <2>3. ASSUME NEW closed, Dependents("regulationConfig") \subseteq closed,
               \A s \in closed : Dependents(s) \subseteq closed
        PROVE  D \subseteq closed
    BY <2>3, DependentsAre DEF FromDesign, FromLoads
  <2> HIDE DEF D
  <2>4. QED
    BY <2>1, <2>2, <2>3, LeastIs DEF D
<1>6. QED
  BY <1>1, <1>2, <1>3, <1>4, <1>5

-----------------------------------------------------------------------------
\* The stages a change moves.
Moved(kind) == {Origin[kind]} \cup (Downstream[Origin[kind]] \ Preserved[kind])

\* What reads stale: a stage that moved, and what consumes one that did.
LEMMA StaleWhere ==
    ASSUME NEW rev \in Vector, NEW kind \in ChangeKinds, NEW stage \in Stages
    PROVE  ~Fresh(Stamp(stage, rev), ApplyChange(rev, kind))
               <=> stage \in Moved(kind) \/ DependsOn[stage] \cap Moved(kind) # {}
<1> DEFINE next == ApplyChange(rev, kind)
<1>1. ASSUME NEW s \in Stages PROVE (next[s] = rev[s]) <=> s \notin Moved(kind)
  <2>1. next[s] = IF s \in Moved(kind) THEN rev[s] + 1 ELSE rev[s]
    BY DEF ApplyChange, Bump, Moved
  <2>2. rev[s] \in Nat
    BY DEF Vector
  <2>3. QED
    BY <2>1, <2>2
<1>2. DependsOn[stage] \subseteq Stages
  BY DEF DependsOn, Stages
<1> HIDE DEF next
<1>3. Fresh(Stamp(stage, rev), next)
          <=> rev[stage] = next[stage] /\ \A d \in DependsOn[stage] : rev[d] = next[d]
  BY DEF Fresh, Stamp
<1>4. QED
  BY <1>1, <1>2, <1>3 DEF next

LEMMA StaleAre ==
    ASSUME NEW kind \in ChangeKinds, NEW stage \in Stages
    PROVE  stage \in Moved(kind) \/ DependsOn[stage] \cap Moved(kind) # {}
               <=> stage \in Invalidated[kind] \cup {Origin[kind]}
<1>1. CASE kind = "loadRegulation"
  <2>1. Moved(kind) = {"regulationConfig", "loadDefinition", "generatedLoad"} \cup FromLoads
    BY <1>1, DownstreamIs DEF Moved, Origin, Preserved
  <2>2. Invalidated[kind] \cup {Origin[kind]} = Moved(kind)
    BY <1>1, <2>1, DownstreamIs DEF Invalidated, Origin
  <2>3. QED
    BY DependsOnAre, <2>1, <2>2 DEF Stages, FromLoads, FromDesign
<1>2. CASE kind = "designRegulation"
  <2>1. Moved(kind) = {"design"} \cup FromDesign
    BY <1>2, DownstreamIs DEF Moved, Origin, Preserved, Forces, FromDesign
  <2>2. Invalidated[kind] \cup {Origin[kind]} = Moved(kind)
    BY <1>2, <2>1, DownstreamIs DEF Invalidated, Origin
  <2>3. QED
    BY DependsOnAre, <2>1, <2>2 DEF Stages, FromDesign
<1>3. CASE kind = "materialSpec"
  <2>1. Moved(kind) = {"materialSpec", "design"} \cup FromDesign
    BY <1>3, DownstreamIs DEF Moved, Origin, Preserved, Forces, FromDesign
  <2>2. Invalidated[kind] \cup {Origin[kind]} = Moved(kind)
    BY <1>3, <2>1, DownstreamIs DEF Invalidated, Origin, FromDesign
  <2>3. QED
    BY DependsOnAre, <2>1, <2>2 DEF Stages, FromDesign
<1>4. CASE kind = "loadEdit"
  <2>1. Moved(kind) = {"generatedLoad"} \cup FromLoads
    BY <1>4, DownstreamIs DEF Moved, Origin, Preserved
  <2>2. Invalidated[kind] \cup {Origin[kind]} = Moved(kind)
    BY <1>4, <2>1, DownstreamIs DEF Invalidated, Origin
  <2>3. QED
    BY DependsOnAre, <2>1, <2>2 DEF Stages, FromLoads, FromDesign
<1>5. CASE kind \in {"detailingSpec", "reinforcementEdit"}
  <2>1. Moved(kind) = FromDesign
    BY <1>5, DownstreamIs DEF Moved, Origin, Preserved, Forces, FromDesign
  <2>2. Invalidated[kind] \cup {Origin[kind]} = Moved(kind)
    BY <1>5, <2>1 DEF Invalidated, Origin, FromDesign
  <2>3. QED
    BY DependsOnAre, <2>1, <2>2 DEF Stages, FromDesign
<1>6. QED
  BY <1>1, <1>2, <1>3, <1>4, <1>5 DEF ChangeKinds

\* Whatever revisions a project has reached, an output stamped before a change reads stale
\* after it exactly if its stage is the origin of the change or is reported as invalidated:
\* nothing preserved consumes what moved (consequenceOf, applyChange, freshness).
THEOREM ReportIsExact ==
    \A rev \in Vector, kind \in ChangeKinds, stage \in Stages :
        ~Fresh(Stamp(stage, rev), ApplyChange(rev, kind))
            <=> stage \in Invalidated[kind] \cup {Origin[kind]}
  BY StaleWhere, StaleAre

-----------------------------------------------------------------------------
(***************************************************************************)
(* Revisions only grow, and a change of the loads moves what a certificate *)
(* of the loads was stamped with.                                          *)
(***************************************************************************)

LEMMA BumpGrows ==
    ASSUME NEW rev \in Vector, NEW stage, NEW preserved
    PROVE  /\ Bump(rev, stage, preserved) \in Vector
           /\ \A s \in Stages : rev[s] <= Bump(rev, stage, preserved)[s]
  BY DEF Bump, Vector

LEMMA ChangeGrows ==
    ASSUME NEW rev \in Vector, NEW kind
    PROVE  /\ ApplyChange(rev, kind) \in Vector
           /\ \A s \in Stages : rev[s] <= ApplyChange(rev, kind)[s]
  BY BumpGrows DEF ApplyChange

\* What directly consumes a stage is downstream of it.
LEMMA DependentsAreDownstream ==
    ASSUME NEW stage \in Stages, NEW later \in Stages, stage \in DependsOn[later]
    PROVE  later \in Downstream[stage]
<1>1. later \in Dependents(stage)
  BY DEF Dependents
<1>2. QED
  BY <1>1 DEF Downstream

LEMMA LoadEditMoves ==
    ASSUME NEW rev \in Vector
    PROVE  rev["combination"] < ApplyChange(rev, "loadEdit")["combination"]
<1>1. "generatedLoad" \in DependsOn["combination"]
      /\ "generatedLoad" \in Stages /\ "combination" \in Stages
  BY DEF DependsOn, Stages
<1>2. "combination" \in Downstream["generatedLoad"]
  BY <1>1, DependentsAreDownstream
<1>3. Origin["loadEdit"] = "generatedLoad" /\ Preserved["loadEdit"] = {}
  BY DEF Origin, Preserved
<1>4. ApplyChange(rev, "loadEdit")["combination"] = rev["combination"] + 1
  BY <1>1, <1>2, <1>3 DEF ApplyChange, Bump
<1>5. rev["combination"] \in Nat
  BY <1>1 DEF Vector
<1>6. QED
  BY <1>4, <1>5

LEMMA RegulationMoves ==
    ASSUME NEW rev \in Vector
    PROVE  rev["regulationConfig"] < ApplyChange(rev, "loadRegulation")["regulationConfig"]
<1>1. Origin["loadRegulation"] = "regulationConfig" /\ "regulationConfig" \in Stages
  BY DEF Origin, Stages
<1>2. ApplyChange(rev, "loadRegulation")["regulationConfig"] = rev["regulationConfig"] + 1
  BY <1>1 DEF ApplyChange, Bump
<1>3. rev["regulationConfig"] \in Nat
  BY <1>1 DEF Vector
<1>4. QED
  BY <1>2, <1>3

-----------------------------------------------------------------------------
(***************************************************************************)
(* The invariant, of the project on screen and of every snapshot of it.    *)
(***************************************************************************)

\* certificateFreshness, asked of a project.
FreshIn(p) ==
    /\ p.certificate # None
    /\ p.certificate.analysis = p.revisions["analysis"]
    /\ p.certificate.loads = p.revisions["combination"]
    /\ p.certificate.regulation = p.revisions["regulationConfig"]

\* A certificate is stamped with revisions the project has reached, so one that reads
\* stale stays stale; one that reads fresh is of the generated loads.
Certified(p) ==
    p.certificate # None =>
        /\ p.certificate.analysis <= p.revisions["analysis"]
        /\ p.certificate.loads <= p.revisions["combination"]
        /\ p.certificate.regulation <= p.revisions["regulationConfig"]
        /\ FreshIn(p) /\ p.loads.from # None => p.certificate.of = p.loads.version

\* The projects there can be when n is the newest version of the loads.
Kept(n) == {p \in Project : p.loads.version <= n}
Good(n) == {p \in Kept(n) : Certified(p)}

StoreTyped ==
    /\ displaced \in [Roles -> Binding \cup {None}]
    /\ plan \in Sources \cup {None}
    /\ tab \in {"design", "loads"}
    /\ banner \in BOOLEAN
    /\ made \in Nat
    /\ edits \in 0..MaxEdits

ResultsAreOfTheLoads == results # None => results = project.loads.version

\* The snapshots are of a set of projects, within the limit of the stack.
SnapshotsIn(S) ==
    /\ undo \in Seq(S) /\ redo \in Seq(S)
    /\ Len(undo) + Len(redo) <= MaxHistory

TypeInv ==
    /\ StoreTyped
    /\ project \in Kept(made)
    /\ SnapshotsIn(Kept(made))
    /\ results \in 0..made \cup {None}
    /\ ResultsAreOfTheLoads

CertificatesInv == project \in Good(made) /\ SnapshotsIn(Good(made))

LEMMA TypeInvIsTyped == TypeInv => TypeOK
<1> SUFFICES ASSUME TypeInv PROVE TypeOK
  OBVIOUS
<1>1. Kept(made) \subseteq Project
  BY DEF Kept
<1>2. undo \in Seq(Project) /\ redo \in Seq(Project)
  BY <1>1 DEF TypeInv, SnapshotsIn
<1>3. Len(undo) <= MaxHistory
  <2>1. Len(undo) \in Nat /\ Len(redo) \in Nat /\ MaxHistory \in Nat
    BY <1>2, LimitsAssumption
  <2>2. QED
    BY <2>1 DEF TypeInv, SnapshotsIn
<1>4. QED
  BY <1>1, <1>2, <1>3 DEF TypeInv, StoreTyped, TypeOK

LEMMA MoreKept ==
    ASSUME NEW m \in Nat, NEW n \in Nat, m <= n
    PROVE  Kept(m) \subseteq Kept(n) /\ Good(m) \subseteq Good(n)
<1>1. ASSUME NEW p \in Kept(m) PROVE p \in Kept(n)
  <2>1. p \in Project /\ p.loads.version \in Nat /\ p.loads.version <= m
    BY <1>1 DEF Kept, Project, Loads
  <2>2. QED
    BY <2>1 DEF Kept
<1>2. QED
  BY <1>1 DEF Good

-----------------------------------------------------------------------------
(***************************************************************************)
(* The stack.                                                              *)
(***************************************************************************)

LEMMA FrontLast ==
    ASSUME NEW S, NEW s \in Seq(S), s # <<>>
    PROVE  /\ Front(s) \in Seq(S) /\ Len(Front(s)) = Len(s) - 1
           /\ Last(s) \in S
           /\ Len(s) \in Nat \ {0}
<1>1. Len(s) \in Nat \ {0} /\ s \in [1..Len(s) -> S]
  BY LenProperties, EmptySeq
<1>2. \A i \in 1..(Len(s) - 1) : s[i] \in S
  BY <1>1
<1>3. /\ SubSeq(s, 1, Len(s) - 1) \in Seq(S)
      /\ Len(SubSeq(s, 1, Len(s) - 1)) =
             IF 1 <= Len(s) - 1 THEN (Len(s) - 1) - 1 + 1 ELSE 0
  BY <1>1, <1>2, SubSeqProperties
<1>4. QED
  BY <1>1, <1>3 DEF Front, Last

\* The last MaxHistory of a sequence.
LEMMA NewestOf ==
    ASSUME NEW S, NEW s \in Seq(S)
    PROVE  LET first == 1 + (IF Len(s) > MaxHistory THEN Len(s) - MaxHistory ELSE 0)
           IN  SubSeq(s, first, Len(s)) \in Seq(S) /\ Len(SubSeq(s, first, Len(s))) <= MaxHistory
<1> DEFINE first == 1 + (IF Len(s) > MaxHistory THEN Len(s) - MaxHistory ELSE 0)
<1>1. Len(s) \in Nat /\ MaxHistory \in Nat /\ s \in [1..Len(s) -> S]
  BY LimitsAssumption
<1>2. first \in Nat \ {0} /\ Len(s) - first + 1 <= MaxHistory
  BY <1>1
<1> HIDE DEF first
<1>3. \A k \in first..Len(s) : s[k] \in S
  BY <1>1, <1>2
<1>4. /\ SubSeq(s, first, Len(s)) \in Seq(S)
      /\ Len(SubSeq(s, first, Len(s))) = IF first <= Len(s) THEN Len(s) - first + 1 ELSE 0
  BY <1>1, <1>2, <1>3, SubSeqProperties
<1>5. Len(SubSeq(s, first, Len(s))) <= MaxHistory
  BY <1>1, <1>2, <1>4
<1>6. QED
  BY <1>4, <1>5 DEF first

LEMMA PushKeeps ==
    ASSUME NEW S, SnapshotsIn(S), NEW snapshots \in Seq(S), Push(snapshots)
    PROVE  SnapshotsIn(S)'
<1>1. undo \o snapshots \in Seq(S)
  BY ConcatProperties DEF SnapshotsIn
<1>2. undo' \in Seq(S) /\ Len(undo') <= MaxHistory
  BY <1>1, NewestOf DEF Push
<1>3. redo' = <<>> /\ redo' \in Seq(S) /\ Len(redo') = 0
  BY EmptySeq DEF Push
<1>4. Len(undo') \in Nat
  BY <1>2
<1>5. QED
  BY <1>2, <1>3, <1>4 DEF SnapshotsIn

LEMMA ReturnKeeps ==
    ASSUME NEW S, SnapshotsIn(S), project \in S, Undo \/ Redo
    PROVE  SnapshotsIn(S)' /\ project' \in S
<1>1. ASSUME NEW from \in Seq(S), NEW to \in Seq(S), from # <<>>, Len(from) + Len(to) <= MaxHistory
      PROVE  /\ Front(from) \in Seq(S) /\ Last(from) \in S
             /\ Append(to, project) \in Seq(S)
             /\ Len(Front(from)) + Len(Append(to, project)) <= MaxHistory
             /\ Len(Append(to, project)) + Len(Front(from)) <= MaxHistory
  <2>1. Front(from) \in Seq(S) /\ Last(from) \in S /\ Len(Front(from)) = Len(from) - 1
        /\ Len(from) \in Nat \ {0}
    BY <1>1, FrontLast
  <2>2. Append(to, project) \in Seq(S) /\ Len(Append(to, project)) = Len(to) + 1 /\ Len(to) \in Nat
    BY <1>1
  <2>3. MaxHistory \in Nat
    BY LimitsAssumption
  <2>4. QED
    BY <1>1, <2>1, <2>2, <2>3
<1>2. Len(undo) + Len(redo) <= MaxHistory /\ Len(redo) + Len(undo) <= MaxHistory
      /\ undo \in Seq(S) /\ redo \in Seq(S)
  <2>1. undo \in Seq(S) /\ redo \in Seq(S) /\ Len(undo) + Len(redo) <= MaxHistory
    BY DEF SnapshotsIn
  <2>2. Len(undo) \in Nat /\ Len(redo) \in Nat
    BY <2>1
  <2>3. QED
    BY <2>1, <2>2
<1>3. CASE Undo
  BY <1>1, <1>2, <1>3 DEF Undo, Returns, SnapshotsIn
<1>4. CASE Redo
  BY <1>1, <1>2, <1>4 DEF Redo, Returns, SnapshotsIn
<1>5. QED
  BY <1>3, <1>4

-----------------------------------------------------------------------------
(***************************************************************************)
(* Projects and bindings.                                                  *)
(***************************************************************************)

LEMMA ProjectFields ==
    ASSUME NEW p \in Project
    PROVE  /\ p.roles \in [Roles -> Binding] /\ p.revisions \in Vector
           /\ p.loads \in Loads /\ p.loads.version \in Nat
           /\ p.certificate \in Certificate \cup {None}
  BY DEF Project, Loads

LEMMA RolesSet ==
    ASSUME NEW p \in Project, NEW roles \in [Roles -> Binding]
    PROVE  /\ [p EXCEPT !.roles = roles] \in Project
           /\ [p EXCEPT !.roles = roles].revisions = p.revisions
           /\ [p EXCEPT !.roles = roles].loads = p.loads
           /\ [p EXCEPT !.roles = roles].certificate = p.certificate
  BY DEF Project

LEMMA RevisionsSet ==
    ASSUME NEW p \in Project, NEW rev \in Vector
    PROVE  /\ [p EXCEPT !.revisions = rev] \in Project
           /\ [p EXCEPT !.revisions = rev].revisions = rev
           /\ [p EXCEPT !.revisions = rev].loads = p.loads
           /\ [p EXCEPT !.revisions = rev].certificate = p.certificate
  BY DEF Project

LEMMA LoadsSet ==
    ASSUME NEW p \in Project, NEW loads \in Loads
    PROVE  /\ [p EXCEPT !.loads = loads] \in Project
           /\ [p EXCEPT !.loads = loads].revisions = p.revisions
           /\ [p EXCEPT !.loads = loads].loads = loads
           /\ [p EXCEPT !.loads = loads].certificate = p.certificate
  BY DEF Project

\* The loads there are after a new project, in the middle of an application and after it.
LEMMA NoLoadsTyped ==
    ASSUME NEW n \in Nat
    PROVE  NoLoads(n) \in Loads /\ NoLoads(n).version = n /\ NoLoads(n).from = None
  BY DEF NoLoads, Loads

LEMMA PlanLoadsTyped ==
    ASSUME project \in Project, made \in Nat, plan \in Sources, NEW kept \in {{}, Generated}
    PROVE  /\ Whole(kept) \in Loads
           /\ Whole(kept).version = made + 2 /\ Whole(kept).from = plan
           /\ Half(kept) \in Loads
           /\ Half(kept).version = made + 1 /\ Half(kept).from = None
<1>1. Generated \subseteq Sources
  BY ProjectFields DEF Generated, Loads
<1>2. kept \subseteq Sources
  BY <1>1
<1>3. QED
  BY <1>2 DEF Whole, Half, Loads

LEMMA CertificateSet ==
    ASSUME NEW p \in Project, NEW c \in Certificate \cup {None}
    PROVE  /\ [p EXCEPT !.certificate = c] \in Project
           /\ [p EXCEPT !.certificate = c].revisions = p.revisions
           /\ [p EXCEPT !.certificate = c].loads = p.loads
           /\ [p EXCEPT !.certificate = c].certificate = c
  BY DEF Project

LEMMA BindingsTyped ==
    /\ \A a \in Adapters : Bound(a) \in Binding
    /\ \A b \in Binding :
          /\ [b EXCEPT !.complete = TRUE] \in Binding
          /\ [b EXCEPT !.state = "unset", !.adapter = None] \in Binding
          /\ \A n \in Nat : [b EXCEPT !.state = "applied", !.at = n] \in Binding
          /\ b.adapter \in Adapters \cup {None}
<1>1. ASSUME NEW a \in Adapters PROVE Bound(a) \in Binding
  <2>1. (a \notin NeedsConfig) \in BOOLEAN
    OBVIOUS
  <2>2. QED
    BY <2>1 DEF Bound, Binding
<1>2. ASSUME NEW b \in Binding
      PROVE  /\ [b EXCEPT !.complete = TRUE] \in Binding
             /\ b.adapter \in Adapters \cup {None}
             /\ [b EXCEPT !.state = "unset"] \in Binding
             /\ [b EXCEPT !.state = "applied"] \in Binding
             /\ [b EXCEPT !.adapter = None] \in Binding
             /\ \A n \in Nat : [b EXCEPT !.at = n] \in Binding
  BY DEF Binding
<1>3. ASSUME NEW b \in Binding, NEW n \in Nat
      PROVE  /\ [b EXCEPT !.state = "unset", !.adapter = None] \in Binding
             /\ [b EXCEPT !.state = "applied", !.at = n] \in Binding
  <2>1. /\ [b EXCEPT !.state = "unset", !.adapter = None]
               = [[b EXCEPT !.state = "unset"] EXCEPT !.adapter = None]
        /\ [b EXCEPT !.state = "applied", !.at = n]
               = [[b EXCEPT !.state = "applied"] EXCEPT !.at = n]
    BY Zenon
  <2>2. QED
    BY <1>2, <2>1
<1>4. 0 \in Nat
  OBVIOUS
<1>5. QED
  BY <1>1, <1>2, <1>3, <1>4

LEMMA OptionIsAdapter ==
    ASSUME NEW r \in Roles, NEW a \in Options[r]
    PROVE  a \in Adapters
  BY DEF Adapters, Roles

\* applyPending: the bindings, and the revisions one change further.
LEMMA AppliedIs ==
    ASSUME project \in Project, NEW roles \in [Roles -> Binding], NEW kind
    PROVE  /\ Applied(roles, kind) \in Project
           /\ Applied(roles, kind).revisions = ApplyChange(project.revisions, kind)
           /\ Applied(roles, kind).loads = project.loads
           /\ Applied(roles, kind).certificate = project.certificate
<1> DEFINE rev == project.revisions
           applied == [r \in Roles |->
               IF roles[r].state = "pending"
               THEN [roles[r] EXCEPT !.state = "applied", !.at = rev["regulationConfig"] + 1]
               ELSE roles[r]]
           next == ApplyChange(rev, kind)
<1>1. rev \in Vector /\ next \in Vector
  BY ProjectFields, ChangeGrows
<1>2. rev["regulationConfig"] + 1 \in Nat
  BY <1>1 DEF Vector, Stages
<1>3. applied \in [Roles -> Binding]
  <2>1. ASSUME NEW r \in Roles PROVE applied[r] \in Binding
    BY <1>2, BindingsTyped
  <2>2. QED
    BY <2>1
<1>4. Applied(roles, kind) = [project EXCEPT !.roles = applied, !.revisions = next]
  BY DEF Applied
<1> HIDE DEF rev, applied, next
<1>5. [project EXCEPT !.roles = applied, !.revisions = next]
          = [[project EXCEPT !.roles = applied] EXCEPT !.revisions = next]
  BY Zenon
<1>6. [project EXCEPT !.roles = applied] \in Project
      /\ [project EXCEPT !.roles = applied].loads = project.loads
      /\ [project EXCEPT !.roles = applied].certificate = project.certificate
  BY <1>3, RolesSet
<1> DEFINE bound == [project EXCEPT !.roles = applied]
<1> HIDE DEF bound
<1>7. bound \in Project /\ bound.loads = project.loads /\ bound.certificate = project.certificate
      /\ Applied(roles, kind) = [bound EXCEPT !.revisions = next]
  BY <1>4, <1>5, <1>6 DEF bound
<1>8. /\ [bound EXCEPT !.revisions = next] \in Project
      /\ [bound EXCEPT !.revisions = next].revisions = next
      /\ [bound EXCEPT !.revisions = next].loads = bound.loads
      /\ [bound EXCEPT !.revisions = next].certificate = bound.certificate
  BY <1>1, <1>7, RevisionsSet
<1>9. QED
  BY <1>7, <1>8 DEF rev, next

-----------------------------------------------------------------------------
(***************************************************************************)
(* What keeps a certificate honest.                                        *)
(***************************************************************************)

LEMMA CertificateFields ==
    ASSUME NEW p \in Project, p.certificate # None
    PROVE  /\ p.certificate.analysis \in Nat /\ p.certificate.loads \in Nat
           /\ p.certificate.regulation \in Nat
           /\ p.revisions["analysis"] \in Nat /\ p.revisions["combination"] \in Nat
           /\ p.revisions["regulationConfig"] \in Nat
  BY ProjectFields DEF Certificate, Vector, Stages

\* Revisions that grew under the same loads and certificate: stale stays stale.
LEMMA GrownIsCertified ==
    ASSUME NEW p \in Project, Certified(p), NEW q \in Project,
           q.certificate = p.certificate, q.loads = p.loads,
           \A s \in Stages : p.revisions[s] <= q.revisions[s]
    PROVE  Certified(q)
<1> SUFFICES ASSUME q.certificate # None
             PROVE  Certified(q)
  BY DEF Certified
<1>1. /\ p.certificate.analysis \in Nat /\ p.certificate.loads \in Nat
      /\ p.certificate.regulation \in Nat
      /\ \A s \in {"analysis", "combination", "regulationConfig"} :
             p.revisions[s] \in Nat /\ q.revisions[s] \in Nat /\ p.revisions[s] <= q.revisions[s]
  BY CertificateFields DEF Stages
<1>2. /\ p.certificate.analysis <= p.revisions["analysis"]
      /\ p.certificate.loads <= p.revisions["combination"]
      /\ p.certificate.regulation <= p.revisions["regulationConfig"]
      /\ FreshIn(p) /\ p.loads.from # None => p.certificate.of = p.loads.version
  BY DEF Certified
<1>3. /\ q.certificate.analysis <= q.revisions["analysis"]
      /\ q.certificate.loads <= q.revisions["combination"]
      /\ q.certificate.regulation <= q.revisions["regulationConfig"]
  BY <1>1, <1>2
<1>4. FreshIn(q) => FreshIn(p)
  BY <1>1, <1>2 DEF FreshIn
<1>5. QED
  BY <1>2, <1>3, <1>4 DEF Certified

\* Loads that changed with what their certificate was stamped with: it reads stale.
LEMMA MovedIsCertified ==
    ASSUME NEW p \in Project, Certified(p), NEW q \in Project,
           q.certificate = p.certificate,
           \A s \in Stages : p.revisions[s] <= q.revisions[s],
           \E s \in {"combination", "regulationConfig"} : p.revisions[s] < q.revisions[s]
    PROVE  Certified(q)
<1> SUFFICES ASSUME q.certificate # None
             PROVE  Certified(q)
  BY DEF Certified
<1>1. /\ p.certificate.analysis \in Nat /\ p.certificate.loads \in Nat
      /\ p.certificate.regulation \in Nat
      /\ \A s \in {"analysis", "combination", "regulationConfig"} :
             p.revisions[s] \in Nat /\ q.revisions[s] \in Nat /\ p.revisions[s] <= q.revisions[s]
  BY CertificateFields DEF Stages
<1>2. /\ p.certificate.analysis <= p.revisions["analysis"]
      /\ p.certificate.loads <= p.revisions["combination"]
      /\ p.certificate.regulation <= p.revisions["regulationConfig"]
  BY DEF Certified
<1>3. /\ q.certificate.analysis <= q.revisions["analysis"]
      /\ q.certificate.loads <= q.revisions["combination"]
      /\ q.certificate.regulation <= q.revisions["regulationConfig"]
  BY <1>1, <1>2
<1>4. ~FreshIn(q)
  <2>1. PICK s \in {"combination", "regulationConfig"} : p.revisions[s] < q.revisions[s]
    OBVIOUS
  <2>2. CASE s = "combination"
    BY <1>1, <1>2, <2>1, <2>2 DEF FreshIn
  <2>3. CASE s = "regulationConfig"
    BY <1>1, <1>2, <2>1, <2>3 DEF FreshIn
  <2>4. QED
    BY <2>1, <2>2, <2>3
<1>5. QED
  BY <1>3, <1>4 DEF Certified

\* Loads that are no generated set, or are edited under a certificate that reads stale.
LEMMA ReloadedIsCertified ==
    ASSUME NEW p \in Project, Certified(p), NEW q \in Project,
           q.certificate = p.certificate, q.revisions = p.revisions,
           q.loads.from = None \/ ~FreshIn(p)
    PROVE  Certified(q)
  BY DEF Certified, FreshIn

LEMMA UncertifiedIsCertified ==
    ASSUME NEW p, p.certificate = None
    PROVE  Certified(p)
  BY DEF Certified

-----------------------------------------------------------------------------
(***************************************************************************)
(* Every action keeps the types and the certificates.                      *)
(***************************************************************************)

LEMMA MoreSnapshots ==
    ASSUME NEW S, NEW T, S \subseteq T, SnapshotsIn(S)
    PROVE  SnapshotsIn(T)
  BY DEF SnapshotsIn

LEMMA SnapshotsStay ==
    ASSUME NEW S, SnapshotsIn(S), UNCHANGED history
    PROVE  SnapshotsIn(S)'
  BY DEF SnapshotsIn, history

\* Only bindings and revisions change.
LEMMA UnderTheSameLoads ==
    ASSUME TypeInv, StoreTyped', UNCHANGED <<results, history, made>>,
           project' \in Project, project'.loads = project.loads,
           project'.certificate = project.certificate,
           \A s \in Stages : project.revisions[s] <= project'.revisions[s]
    PROVE  TypeInv' /\ (CertificatesInv => CertificatesInv')
<1>1. project \in Project /\ project.loads.version <= made
  BY DEF TypeInv, Kept
<1>2. project' \in Kept(made)
  BY <1>1 DEF Kept
<1>3. TypeInv'
  BY <1>2, SnapshotsStay DEF TypeInv, ResultsAreOfTheLoads
<1>4. ASSUME CertificatesInv PROVE CertificatesInv'
  <2>1. Certified(project')
    BY <1>1, <1>4, GrownIsCertified DEF CertificatesInv, Good
  <2>2. project' \in Good(made)
    BY <1>2, <2>1 DEF Good
  <2>3. QED
    BY <1>4, <2>2, SnapshotsStay DEF CertificatesInv
<1>5. QED
  BY <1>3, <1>4

LEMMA RolesOnly ==
    ASSUME TypeInv, StoreTyped', UNCHANGED <<results, history, made>>,
           NEW roles \in [Roles -> Binding], project' = [project EXCEPT !.roles = roles]
    PROVE  TypeInv' /\ (CertificatesInv => CertificatesInv')
<1>1. project \in Project
  BY DEF TypeInv, Kept
<1>2. /\ project' \in Project /\ project'.loads = project.loads
      /\ project'.certificate = project.certificate /\ project'.revisions = project.revisions
  BY <1>1, RolesSet
<1>3. \A s \in Stages : project.revisions[s] <= project'.revisions[s]
  BY <1>1, <1>2, ProjectFields DEF Vector
<1>4. QED
  BY <1>2, <1>3, UnderTheSameLoads

LEMMA StageChangeKeeps ==
    ASSUME TypeInv, NEW r \in Roles, NEW a \in Options[r], StageChange(r, a)
    PROVE  TypeInv' /\ (CertificatesInv => CertificatesInv')
<1> DEFINE roles == [project.roles EXCEPT ![r] = Bound(a)]
<1>1. project.roles \in [Roles -> Binding] /\ Bound(a) \in Binding
  BY ProjectFields, BindingsTyped, OptionIsAdapter DEF TypeInv, Kept
<1>2. roles \in [Roles -> Binding]
  BY <1>1
<1>3. project' = [project EXCEPT !.roles = roles]
  BY Zenon DEF StageChange
<1>4. StoreTyped'
  BY <1>1 DEF StageChange, Displaces, TypeInv, StoreTyped
<1>5. UNCHANGED <<results, history, made>>
  BY DEF StageChange
<1> HIDE DEF roles
<1>6. QED
  BY <1>2, <1>3, <1>4, <1>5, RolesOnly

LEMMA CancelKeeps ==
    ASSUME TypeInv, CancelChange
    PROVE  TypeInv' /\ (CertificatesInv => CertificatesInv')
<1> DEFINE roles == [r \in Roles |->
               IF r \notin PendingRoles THEN project.roles[r]
               ELSE IF displaced[r] # None THEN displaced[r]
               ELSE [project.roles[r] EXCEPT !.state = "unset", !.adapter = None]]
<1>1. project.roles \in [Roles -> Binding] /\ displaced \in [Roles -> Binding \cup {None}]
  BY ProjectFields DEF TypeInv, Kept, StoreTyped
<1>2. ASSUME NEW r \in Roles PROVE roles[r] \in Binding
  BY <1>1, BindingsTyped
<1>3. roles \in [Roles -> Binding]
  BY <1>2
<1>4. project' = [project EXCEPT !.roles = roles]
  BY DEF CancelChange
<1>5. StoreTyped'
  BY DEF CancelChange, ForgetDisplaced, TypeInv, StoreTyped
<1>6. UNCHANGED <<results, history, made>>
  BY DEF CancelChange
<1> HIDE DEF roles
<1>7. QED
  BY <1>3, <1>4, <1>5, <1>6, RolesOnly

LEMMA PreviewKeeps ==
    ASSUME TypeInv, NEW enabled \in SUBSET LoadAffecting, Preview(enabled)
    PROVE  TypeInv' /\ (CertificatesInv => CertificatesInv')
<1> DEFINE roles == [r \in Roles |->
               IF r \in enabled THEN [project.roles[r] EXCEPT !.complete = TRUE]
               ELSE project.roles[r]]
           sources == [r \in LoadAffecting |-> IF r \in enabled THEN roles[r].adapter ELSE None]
<1>1. project.roles \in [Roles -> Binding]
  BY ProjectFields DEF TypeInv, Kept
<1>2. ASSUME NEW r \in Roles PROVE roles[r] \in Binding
  BY <1>1, BindingsTyped
<1>3. roles \in [Roles -> Binding]
  BY <1>2
<1>4. sources \in Sources
  <2>1. ASSUME NEW r \in LoadAffecting PROVE sources[r] \in Adapters \cup {None}
    BY <1>2, BindingsTyped, RolesAssumption
  <2>2. QED
    BY <2>1 DEF Sources
<1>5. project' = [project EXCEPT !.roles = roles] /\ plan' \in {sources, None}
  BY DEF Preview
<1> HIDE DEF roles, sources
<1>6. StoreTyped'
  BY <1>4, <1>5 DEF Preview, TypeInv, StoreTyped
<1>7. UNCHANGED <<results, history, made>>
  BY DEF Preview
<1>8. QED
  BY <1>3, <1>5, <1>6, <1>7, RolesOnly

LEMMA ChangeDesignRoleKeeps ==
    ASSUME TypeInv, NEW r \in Roles, NEW a \in Options[r], ChangeDesignRole(r, a)
    PROVE  TypeInv' /\ (CertificatesInv => CertificatesInv')
<1> DEFINE roles == [project.roles EXCEPT ![r] = Bound(a)]
<1>1. project \in Project /\ project.roles \in [Roles -> Binding] /\ Bound(a) \in Binding
  BY ProjectFields, BindingsTyped, OptionIsAdapter DEF TypeInv, Kept
<1>2. roles \in [Roles -> Binding]
  BY <1>1
<1>3. project' = Applied(roles, "designRegulation")
  BY DEF ChangeDesignRole
<1>4. StoreTyped'
  <2>1. edits' \in 0..MaxEdits
    BY LimitsAssumption DEF ChangeDesignRole, Edit, TypeInv, StoreTyped
  <2>2. displaced' \in [Roles -> Binding \cup {None}]
    BY DEF ChangeDesignRole, ForgetDisplaced
  <2>3. UNCHANGED <<plan, tab, made>> /\ banner' = FALSE
    BY DEF ChangeDesignRole
  <2>4. QED
    BY <2>1, <2>2, <2>3 DEF TypeInv, StoreTyped
<1>5. UNCHANGED <<results, history, made>>
  BY DEF ChangeDesignRole
<1> HIDE DEF roles
<1>6. /\ project' \in Project /\ project'.loads = project.loads
      /\ project'.certificate = project.certificate
      /\ project'.revisions = ApplyChange(project.revisions, "designRegulation")
  BY <1>1, <1>2, <1>3, AppliedIs
<1>7. \A s \in Stages : project.revisions[s] <= project'.revisions[s]
  BY <1>1, <1>6, ProjectFields, ChangeGrows
<1>8. QED
  BY <1>4, <1>5, <1>6, <1>7, UnderTheSameLoads

\* Loads of a newer version come on screen, and the results of the older ones go.
LEMMA NewLoads ==
    ASSUME TypeInv, StoreTyped', NEW snapshots, Push(snapshots), made' \in Nat, made <= made',
           snapshots \in Seq(Kept(made')), project' \in Kept(made'), results' = None
    PROVE  /\ TypeInv'
           /\ CertificatesInv /\ snapshots \in Seq(Good(made')) /\ Certified(project')
              => CertificatesInv'
<1>1. made \in Nat
  BY DEF TypeInv, StoreTyped
<1>2. Kept(made) \subseteq Kept(made') /\ Good(made) \subseteq Good(made')
  BY <1>1, MoreKept
<1>3. SnapshotsIn(Kept(made')) /\ (CertificatesInv => SnapshotsIn(Good(made')))
  BY <1>2, MoreSnapshots DEF TypeInv, CertificatesInv
<1>4. TypeInv'
  <2>1. SnapshotsIn(Kept(made))'
    BY <1>3, PushKeeps DEF SnapshotsIn
  <2>2. QED
    BY <2>1 DEF TypeInv, ResultsAreOfTheLoads
<1>5. ASSUME CertificatesInv, snapshots \in Seq(Good(made')), Certified(project')
      PROVE  CertificatesInv'
  <2>1. SnapshotsIn(Good(made))'
    BY <1>3, <1>5, PushKeeps DEF SnapshotsIn
  <2>2. QED
    BY <1>5, <2>1 DEF CertificatesInv, Good
<1>6. QED
  BY <1>4, <1>5

LEMMA EditLoadsKeeps ==
    ASSUME TypeInv, EditLoads
    PROVE  TypeInv' /\ (NoHandEdit /\ CertificatesInv => CertificatesInv')
<1> DEFINE loads == [project.loads EXCEPT !.version = made + 1]
<1>1. project \in Project /\ project \in Kept(made) /\ made \in Nat /\ made' = made + 1
      /\ project.loads.version <= made /\ made \in Nat
  BY DEF EditLoads, TypeInv, StoreTyped, Kept
<1>2. project' = [project EXCEPT !.loads = loads]
  BY Zenon DEF EditLoads
<1>3. loads \in Loads /\ loads.version = made' /\ loads.from = project.loads.from
  BY <1>1, ProjectFields DEF Loads
<1> HIDE DEF loads
<1>4. /\ project' \in Project /\ project'.loads = loads /\ project'.revisions = project.revisions
      /\ project'.certificate = project.certificate
  BY <1>1, <1>2, <1>3, LoadsSet
<1>5. project' \in Kept(made') /\ made' \in Nat /\ made <= made'
  BY <1>1, <1>3, <1>4 DEF Kept
<1>6. Push(<<project>>) /\ results' = None
  BY DEF EditLoads
<1>7. <<project>> \in Seq(Kept(made'))
  BY <1>1, <1>5, MoreKept
<1>8. StoreTyped'
  BY <1>5, LimitsAssumption DEF EditLoads, Edit, store, TypeInv, StoreTyped
<1>9. ASSUME NoHandEdit, CertificatesInv PROVE CertificatesInv'
  <2>1. Certified(project) /\ project \in Good(made') /\ <<project>> \in Seq(Good(made'))
    BY <1>1, <1>5, <1>9, MoreKept DEF CertificatesInv, Good
  <2>2. ~FreshIn(project)
    BY <1>9 DEF EditLoads, NoHandEdit, ReadsFresh, FreshIn
  <2>3. Certified(project')
    BY <1>1, <1>4, <2>1, <2>2, ReloadedIsCertified
  <2>4. QED
    BY <1>5, <1>6, <1>7, <1>8, <1>9, <2>1, <2>3, NewLoads
<1>10. QED
  BY <1>5, <1>6, <1>7, <1>8, <1>9, NewLoads

LEMMA SwitchTabKeeps ==
    ASSUME TypeInv, SwitchTab
    PROVE  TypeInv' /\ (CertificatesInv => CertificatesInv')
<1>1. StoreTyped'
  BY DEF SwitchTab, GoToLoads, GoToDesign, TypeInv, StoreTyped
<1>2. UNCHANGED <<project, results, history, made>>
  BY DEF SwitchTab
<1>3. project \in Project /\ \A s \in Stages : project.revisions[s] <= project.revisions[s]
  BY ProjectFields DEF TypeInv, Kept, Vector
<1>4. QED
  BY <1>1, <1>2, <1>3, UnderTheSameLoads

LEMMA SolveKeeps ==
    ASSUME TypeInv, Solve
    PROVE  TypeInv' /\ (CertificatesInv => CertificatesInv')
<1>1. /\ UNCHANGED <<project, undo, redo, made, displaced, plan, tab, banner, edits>>
      /\ results' = project.loads.version
  BY DEF Solve, store, history
<1>2. results' \in 0..made
  BY <1>1, ProjectFields DEF TypeInv, StoreTyped, Kept
<1>3. TypeInv'
  BY <1>1, <1>2 DEF TypeInv, StoreTyped, SnapshotsIn, ResultsAreOfTheLoads
<1>4. CertificatesInv => CertificatesInv'
  BY <1>1 DEF CertificatesInv, SnapshotsIn
<1>5. QED
  BY <1>3, <1>4

\* The certificate is of the results, which are of the loads.
LEMMA RunFloorsKeeps ==
    ASSUME TypeInv, RunFloors
    PROVE  TypeInv' /\ (CertificatesInv => CertificatesInv')
<1> DEFINE c == [analysis   |-> project.revisions["analysis"],
                 loads      |-> project.revisions["combination"],
                 regulation |-> project.revisions["regulationConfig"],
                 of         |-> results]
           next == ApplyChange(project.revisions, "reinforcementEdit")
           stamped == [project EXCEPT !.certificate = c]
<1>1. /\ project \in Project /\ project \in Kept(made) /\ project.loads.version <= made
      /\ project.revisions \in Vector
  BY ProjectFields DEF TypeInv, Kept
<1>2. results \in Nat /\ results = project.loads.version
  BY DEF RunFloors, TypeInv, StoreTyped, ResultsAreOfTheLoads
<1>3. c \in Certificate
  BY <1>1, <1>2 DEF Certificate, Vector, Stages
<1>4. next \in Vector /\ \A s \in Stages : project.revisions[s] <= next[s]
  BY <1>1, ChangeGrows
<1>5. project' = [project EXCEPT !.certificate = c, !.revisions = next]
  BY DEF RunFloors
<1>6. c.of = project.loads.version
  BY <1>2
<1>7. /\ c.analysis = project.revisions["analysis"]
      /\ c.loads = project.revisions["combination"]
      /\ c.regulation = project.revisions["regulationConfig"]
  OBVIOUS
<1> HIDE DEF c, next
<1>8. project' = [stamped EXCEPT !.revisions = next]
  BY <1>5, Zenon
<1>9. /\ stamped \in Project /\ stamped.revisions = project.revisions
      /\ stamped.loads = project.loads /\ stamped.certificate = c
  BY <1>1, <1>3, CertificateSet
<1> HIDE DEF stamped
<1>10. /\ project' \in Project /\ project'.revisions = next
       /\ project'.loads = project.loads /\ project'.certificate = c
  BY <1>4, <1>8, <1>9, RevisionsSet
<1>11. project' \in Kept(made)
  BY <1>1, <1>10 DEF Kept
<1>12. Certified(project')
  <2>1. /\ c.analysis <= next["analysis"] /\ c.loads <= next["combination"]
        /\ c.regulation <= next["regulationConfig"]
    BY <1>4, <1>7 DEF Stages
  <2>2. QED
    BY <1>6, <1>10, <1>2, <2>1 DEF Certified
<1>13. /\ UNCHANGED <<undo, redo, results, made, displaced, plan, tab, banner>>
       /\ edits' \in 0..MaxEdits
  BY LimitsAssumption DEF RunFloors, Edit, store, history, TypeInv, StoreTyped
<1>14. TypeInv'
  BY <1>10, <1>11, <1>13 DEF TypeInv, StoreTyped, SnapshotsIn, ResultsAreOfTheLoads
<1>15. CertificatesInv => CertificatesInv'
  BY <1>11, <1>12, <1>13 DEF CertificatesInv, Good, SnapshotsIn
<1>16. QED
  BY <1>14, <1>15

LEMMA ReturnsKeeps ==
    ASSUME TypeInv, Undo \/ Redo
    PROVE  TypeInv' /\ (CertificatesInv => CertificatesInv')
<1>1. UNCHANGED <<displaced, plan, tab, banner, made, edits>> /\ results' = None
  BY DEF Undo, Redo, Returns, store
<1>2. SnapshotsIn(Kept(made))' /\ project' \in Kept(made)
  <2>1. SnapshotsIn(Kept(made)) /\ project \in Kept(made)
    BY DEF TypeInv
  <2> DEFINE S == Kept(made)
  <2> HIDE DEF S
  <2>2. QED
    BY <1>1, <2>1, ReturnKeeps DEF SnapshotsIn
<1>3. TypeInv'
  BY <1>1, <1>2 DEF TypeInv, StoreTyped, SnapshotsIn, ResultsAreOfTheLoads
<1>4. ASSUME CertificatesInv PROVE CertificatesInv'
  <2>1. SnapshotsIn(Good(made)) /\ project \in Good(made)
    BY <1>4 DEF CertificatesInv
  <2>2. SnapshotsIn(Good(made))' /\ project' \in Good(made)
    BY <1>1, <2>1, ReturnKeeps DEF SnapshotsIn
  <2>3. QED
    BY <1>1, <2>2 DEF CertificatesInv
<1>5. QED
  BY <1>3, <1>4

LEMMA NewProjectKeeps ==
    ASSUME TypeInv, NewProject
    PROVE  TypeInv' /\ (CertificatesInv => CertificatesInv')
<1> DEFINE loads == NoLoads(made + 1)
           emptied == [project EXCEPT !.loads = loads]
<1>1. /\ project \in Project /\ project \in Kept(made) /\ made \in Nat /\ made' = made + 1
  BY DEF NewProject, TypeInv, StoreTyped, Kept
<1>2. loads \in Loads /\ loads.version = made'
  BY <1>1, NoLoadsTyped
<1>3. project' = [project EXCEPT !.loads = loads, !.certificate = None]
  BY DEF NewProject
<1> HIDE DEF loads
<1>4. project' = [emptied EXCEPT !.certificate = None]
  BY <1>3, Zenon
<1>5. emptied \in Project /\ emptied.loads = loads
  BY <1>1, <1>2, LoadsSet
<1> HIDE DEF emptied
<1>6. project' \in Project /\ project'.loads = loads /\ project'.certificate = None
  BY <1>4, <1>5, CertificateSet
<1>7. project' \in Kept(made') /\ made' \in Nat /\ made <= made'
  BY <1>1, <1>2, <1>6 DEF Kept
<1>8. Push(<<project>>) /\ results' = None
  BY DEF NewProject
<1>9. <<project>> \in Seq(Kept(made'))
  BY <1>1, <1>7, MoreKept
<1>10. StoreTyped'
  BY <1>7, LimitsAssumption DEF NewProject, Edit, store, TypeInv, StoreTyped
<1>11. CertificatesInv => <<project>> \in Seq(Good(made'))
  BY <1>1, <1>7, MoreKept DEF CertificatesInv
<1>12. Certified(project')
  BY <1>6, UncertifiedIsCertified
<1>13. QED
  BY <1>7, <1>8, <1>9, <1>10, <1>11, <1>12, NewLoads

\* The loads the plan generates come with revisions one change further.
LEMMA ApplyPlanKeeps ==
    ASSUME TypeInv, ApplyPlan
    PROVE  TypeInv' /\ (CertificatesInv => CertificatesInv')
<1> DEFINE half(part) == [project EXCEPT !.loads = part]
           edited == [project EXCEPT !.revisions = ApplyChange(@, "loadEdit")]
           next == IF PendingRoles # {} THEN Applied(project.roles, "loadRegulation") ELSE edited
<1>1. /\ project \in Project /\ project \in Kept(made) /\ made \in Nat /\ made' = made + 2
      /\ project.loads.version <= made /\ plan \in Sources /\ project.revisions \in Vector
      /\ project.roles \in [Roles -> Binding]
  BY ProjectFields DEF ApplyPlan, TypeInv, StoreTyped, Kept
<1>2. PICK loads \in Loads, part \in Loads :
          /\ loads.version = made' /\ part.version = made + 1 /\ part.from = None
          /\ project' = [next EXCEPT !.loads = loads]
          /\ Push(<<project, half(part)>>)
  <2>1. PICK kept \in {{}, Generated} :
            /\ project' = [next EXCEPT !.loads = Whole(kept)]
            /\ Push(<<project, half(Half(kept))>>)
    BY DEF ApplyPlan
  <2>2. /\ Whole(kept) \in Loads /\ Whole(kept).version = made'
        /\ Half(kept) \in Loads /\ Half(kept).version = made + 1 /\ Half(kept).from = None
    BY <1>1, PlanLoadsTyped
  <2> HIDE DEF half, next
  <2>3. QED
    BY <2>1, <2>2
<1>3. project' = [next EXCEPT !.loads = loads]
  BY <1>2
<1> DEFINE middle == half(part)
<1>4. Push(<<project, middle>>) /\ results' = None
  BY <1>2 DEF ApplyPlan
<1>5. /\ next \in Project /\ next.certificate = project.certificate
      /\ \A s \in Stages : project.revisions[s] <= next.revisions[s]
      /\ \E s \in {"combination", "regulationConfig"} : project.revisions[s] < next.revisions[s]
  <2>1. CASE PendingRoles # {}
    <3>1. next = Applied(project.roles, "loadRegulation")
      BY <2>1
    <3> HIDE DEF next
    <3>2. /\ next \in Project /\ next.certificate = project.certificate
          /\ next.revisions = ApplyChange(project.revisions, "loadRegulation")
      BY <1>1, <3>1, AppliedIs
    <3>3. QED
      BY <1>1, <3>2, ChangeGrows, RegulationMoves
  <2>2. CASE PendingRoles = {}
    <3>1. next = [project EXCEPT !.revisions = ApplyChange(project.revisions, "loadEdit")]
      BY <2>2
    <3> HIDE DEF next
    <3>2. ApplyChange(project.revisions, "loadEdit") \in Vector
      BY <1>1, ChangeGrows
    <3>3. /\ next \in Project /\ next.certificate = project.certificate
          /\ next.revisions = ApplyChange(project.revisions, "loadEdit")
      BY <1>1, <3>1, <3>2, RevisionsSet
    <3>4. QED
      BY <1>1, <3>3, ChangeGrows, LoadEditMoves
  <2>3. QED
    BY <2>1, <2>2
<1>6. StoreTyped'
  <2>1. edits' \in 0..MaxEdits /\ made' \in Nat
    BY <1>1, LimitsAssumption DEF ApplyPlan, Edit, TypeInv, StoreTyped
  <2>2. displaced' \in [Roles -> Binding \cup {None}]
    BY DEF ApplyPlan, ForgetDisplaced, TypeInv, StoreTyped
  <2>3. UNCHANGED <<tab, banner>> /\ plan' = None
    BY DEF ApplyPlan
  <2>4. QED
    BY <2>1, <2>2, <2>3 DEF TypeInv, StoreTyped
<1> HIDE DEF next
<1>7. /\ project' \in Project /\ project'.loads = loads /\ project'.revisions = next.revisions
      /\ project'.certificate = project.certificate
  BY <1>2, <1>3, <1>5, LoadsSet
<1>8. /\ middle \in Project /\ middle.loads = part /\ middle.revisions = project.revisions
      /\ middle.certificate = project.certificate
  BY <1>1, <1>2, LoadsSet
<1> HIDE DEF middle
<1>9. project' \in Kept(made') /\ middle \in Kept(made') /\ made' \in Nat /\ made <= made'
  <2>1. loads.version = made' /\ part.version = made + 1
    BY <1>2
  <2>2. made' \in Nat /\ made <= made' /\ loads.version <= made' /\ part.version <= made'
    BY <1>1, <2>1
  <2>3. QED
    BY <1>7, <1>8, <2>2 DEF Kept
<1>10. <<project, middle>> \in Seq(Kept(made'))
  BY <1>1, <1>9, MoreKept
<1>11. ASSUME CertificatesInv
       PROVE  <<project, middle>> \in Seq(Good(made')) /\ Certified(project')
  <2>1. Certified(project) /\ project \in Good(made')
    BY <1>1, <1>9, <1>11, MoreKept DEF CertificatesInv, Good
  <2>2. Certified(middle)
    BY <1>1, <1>2, <1>8, <2>1, ReloadedIsCertified
  <2>3. middle \in Good(made')
    BY <1>9, <2>2 DEF Good
  <2>4. Certified(project')
    BY <1>1, <1>5, <1>7, <2>1, MovedIsCertified
  <2>5. QED
    BY <2>1, <2>3, <2>4
<1>12. QED
  BY <1>4, <1>6, <1>9, <1>10, <1>11, NewLoads

-----------------------------------------------------------------------------
(***************************************************************************)
(* The theorems.                                                           *)
(***************************************************************************)

LEMMA InitHolds == Init => TypeInv /\ CertificatesInv
<1> SUFFICES ASSUME Init PROVE TypeInv /\ CertificatesInv
  OBVIOUS
<1> DEFINE loads == NoLoads(0)
<1>1. DefaultRegulations \in [Roles -> Binding]
  <2>1. ASSUME NEW r \in Roles PROVE DefaultRegulations[r] \in Binding
    <3>1. Unset \in Binding
      BY DEF Unset, Binding
    <3>2. CASE Seed[r] = None
      BY <3>1, <3>2 DEF DefaultRegulations
    <3>3. CASE Seed[r] # None
      <4>1. Seed[r] \in Adapters
        BY <3>3, RolesAssumption
      <4>2. Bound(Seed[r]) \in Binding /\ 0 \in Nat
        BY <4>1, BindingsTyped
      <4>3. DefaultRegulations[r] = [Bound(Seed[r]) EXCEPT !.state = "applied", !.at = 0]
        BY <3>3 DEF DefaultRegulations
      <4>4. QED
        BY <4>2, <4>3, BindingsTyped
    <3>4. QED
      BY <3>2, <3>3
  <2>2. QED
    BY <2>1 DEF DefaultRegulations
<1>2. NoRevisions \in Vector
  BY DEF NoRevisions, Vector
<1>3. loads \in Loads /\ loads.version = 0
  BY NoLoadsTyped
<1>4. project = [roles |-> DefaultRegulations, revisions |-> NoRevisions, loads |-> loads,
                 certificate |-> None]
  BY DEF Init
<1> HIDE DEF loads
<1>5. project \in Project /\ project.loads = loads /\ project.certificate = None
  BY <1>1, <1>2, <1>3, <1>4 DEF Project
<1>6. project \in Kept(made) /\ project \in Good(made)
  BY <1>3, <1>5, UncertifiedIsCertified DEF Init, Kept, Good
<1>7. StoreTyped
  <2>1. displaced \in [Roles -> Binding \cup {None}]
    BY DEF Init
  <2>2. edits \in 0..MaxEdits /\ made \in Nat
    BY LimitsAssumption DEF Init
  <2>3. plan = None /\ tab = "design" /\ banner = FALSE
    BY DEF Init
  <2>4. QED
    BY <2>1, <2>2, <2>3 DEF StoreTyped
<1>8. SnapshotsIn(Kept(made)) /\ SnapshotsIn(Good(made))
  BY LimitsAssumption, EmptySeq DEF Init, SnapshotsIn
<1>9. results \in 0..made \cup {None} /\ ResultsAreOfTheLoads
  BY DEF Init, ResultsAreOfTheLoads
<1>10. QED
  BY <1>6, <1>7, <1>8, <1>9 DEF TypeInv, CertificatesInv

LEMMA StepHolds ==
    ASSUME TypeInv, [Next]_vars
    PROVE  TypeInv' /\ (NoHandEdit /\ CertificatesInv => CertificatesInv')
<1>1. CASE \E r \in Roles : \E a \in Options[r] : StageChange(r, a) \/ ChangeDesignRole(r, a)
  BY <1>1, StageChangeKeeps, ChangeDesignRoleKeeps
<1>2. CASE CancelChange
  BY <1>2, CancelKeeps
<1>3. CASE SwitchTab
  BY <1>3, SwitchTabKeeps
<1>4. CASE \E enabled \in SUBSET LoadAffecting : Preview(enabled)
  BY <1>4, PreviewKeeps
<1>5. CASE ApplyPlan
  BY <1>5, ApplyPlanKeeps
<1>6. CASE EditLoads
  BY <1>6, EditLoadsKeeps
<1>7. CASE Solve
  BY <1>7, SolveKeeps
<1>8. CASE RunFloors
  BY <1>8, RunFloorsKeeps
<1>9. CASE NewProject
  BY <1>9, NewProjectKeeps
<1>10. CASE Undo \/ Redo
  BY <1>10, ReturnsKeeps
<1>11. CASE UNCHANGED vars
  BY <1>11 DEF vars, store, history, TypeInv, StoreTyped, SnapshotsIn, ResultsAreOfTheLoads,
               CertificatesInv
<1>12. QED
  BY <1>1, <1>2, <1>3, <1>4, <1>5, <1>6, <1>7, <1>8, <1>9, <1>10, <1>11 DEF Next

\* The variables keep their types, and the undo stack its limit: applying a plan pushes
\* two snapshots at once, and an undone entry goes to the other stack.
THEOREM RegulationsTypeCorrect == Spec => []TypeOK
<1>1. Init => TypeInv
  BY InitHolds
<1>2. TypeInv /\ [Next]_vars => TypeInv'
  BY StepHolds
<1>3. TypeInv => TypeOK
  BY TypeInvIsTyped
<1>4. QED
  BY <1>1, <1>2, <1>3, PTL DEF Spec

\* A certificate that reads fresh was designed for the loads the model has: the revisions
\* only grow, so one that reads stale stays stale until undo brings its project back; one
\* that reads fresh is of the loads, since applying a plan moves the revision it reads.
THEOREM FreshCertificates ==
    ASSUME NoHandEdit
    PROVE  Spec => []FreshCertificateIsOfTheLoads
<1>1. Init => TypeInv /\ CertificatesInv
  BY InitHolds
<1>2. TypeInv /\ CertificatesInv /\ [Next]_vars => TypeInv' /\ CertificatesInv'
  BY StepHolds, NoHandEdit
<1>3. CertificatesInv => FreshCertificateIsOfTheLoads
  BY DEF CertificatesInv, Good, Certified, FreshIn, ReadsFresh, FreshCertificateIsOfTheLoads
<1>4. QED
  BY <1>1, <1>2, <1>3, PTL DEF Spec

-----------------------------------------------------------------------------
(***************************************************************************)
(* The bindings in force.  What is staged is not in force until it is      *)
(* applied, and what it displaced is what a cancel puts back.              *)
(***************************************************************************)

\* A change that applies in place is not made while a load regulation is staged, and undo
\* and redo neither leave nor reach a staged project.
NothingCrossesAStagedChange == {"relabel", "staged"} \cap Races = {}

Pending(b) == b.state = "pending"
Settled(p) == \A r \in Roles : ~Pending(p.roles[r])

\* The binding in force of a role.
Binds(r) == IF Pending(project.roles[r]) THEN displaced[r] ELSE project.roles[r]
ForceNow == [r \in LoadAffecting |-> Binds(r).adapter]
ForceOf(p) == [r \in LoadAffecting |-> p.roles[r].adapter]

\* The loads are of a binding, once it is applied.
Agrees(loads, r, b) ==
    b.state = "applied" /\ loads.from # None => loads.from[r] \in {None, b.adapter}
Labelled(p) == \A r \in LoadAffecting : Agrees(p.loads, r, p.roles[r])

\* Snapshots are labelled, and those that undo reaches without crossing a staged one have
\* the same regulations in force.
Reached(stack, i) == \A k \in i..Len(stack) : Settled(stack[k])
Behind(stack, force) ==
    \A i \in 1..Len(stack) :
        Labelled(stack[i]) /\ (Reached(stack, i) => ForceOf(stack[i]) = force)

\* Exactly what is staged has displaced something, and never a staged binding.
DisplacedIsStaged ==
    \A r \in Roles :
        /\ Pending(project.roles[r]) <=> displaced[r] # None
        /\ displaced[r] # None => ~Pending(displaced[r])

\* A plan is of the bindings on screen.
PlanIsOfTheRoles ==
    plan # None =>
        /\ tab = "loads"
        /\ \A r \in LoadAffecting : plan[r] \in {None, project.roles[r].adapter}

\* NewestLoadsAreOfTheAppliedRoles is not inductive: a cancel puts back what was displaced, an
\* application generates the loads of the plan, and undo brings back a snapshot.
RolesInv ==
    /\ DisplacedIsStaged
    /\ PlanIsOfTheRoles
    /\ \A r \in LoadAffecting : Agrees(project.loads, r, Binds(r))
    /\ Behind(undo, ForceNow)
    /\ Behind(redo, ForceNow)

LEMMA BehindNone == \A force : Behind(<<>>, force)
  BY DEF Behind

LEMMA BehindFront ==
    ASSUME NEW s \in Seq(Project), s # <<>>, NEW force, Behind(s, force), Settled(Last(s))
    PROVE  Behind(Front(s), force) /\ Labelled(Last(s)) /\ ForceOf(Last(s)) = force
<1> DEFINE n == Len(s)
           u == Front(s)
<1>1. n \in Nat \ {0} /\ s \in [1..n -> Project]
  BY LenProperties, EmptySeq
<1>2. Last(s) = s[n]
  BY DEF Last
<1>3. Len(u) = n - 1 /\ \A i \in 1..n - 1 : u[i] = s[i]
  <2>1. \A i \in 1..n - 1 : s[i] \in Project
    BY <1>1
  <2>2. u = SubSeq(s, 1, n - 1)
    BY DEF Front
  <2>3. Len(u) = (IF 1 <= n - 1 THEN (n - 1) - 1 + 1 ELSE 0)
        /\ \A i \in 1..(n - 1) - 1 + 1 : u[i] = s[1 + i - 1]
    BY <1>1, <2>1, <2>2, SubSeqProperties
  <2>4. \A i \in 1..n - 1 : i \in 1..(n - 1) - 1 + 1 /\ 1 + i - 1 = i
    BY <1>1
  <2>5. Len(u) = n - 1
    BY FrontLast
  <2>6. ASSUME NEW i \in 1..n - 1 PROVE u[i] = s[i]
    <3>1. u[i] = s[1 + i - 1] /\ 1 + i - 1 = i
      BY <2>3, <2>4
    <3>2. QED
      BY <3>1
  <2>7. QED
    BY <2>5, <2>6
<1> HIDE DEF n, u
<1>4. ASSUME NEW i \in 1..n - 1, Reached(u, i) PROVE Reached(s, i)
  <2> SUFFICES ASSUME NEW k \in i..n PROVE Settled(s[k])
    BY DEF Reached, n
  <2>1. CASE k = n
    BY <1>2, <2>1
  <2>2. CASE k # n
    <3>1. k \in i..n - 1 /\ k \in 1..n - 1
      BY <1>1, <2>2
    <3>2. QED
      BY <1>3, <1>4, <3>1 DEF Reached
  <2>3. QED
    BY <2>1, <2>2
<1>5. Behind(u, force)
  <2>1. \A i \in 1..n - 1 : i \in 1..n
    BY <1>1
  <2>2. \A i \in 1..n : Labelled(s[i]) /\ (Reached(s, i) => ForceOf(s[i]) = force)
    BY DEF Behind, n
  <2>3. QED
    BY <1>3, <1>4, <2>1, <2>2 DEF Behind
<1>6. n \in 1..n /\ Reached(s, n)
  BY <1>1, <1>2 DEF Reached, n
<1>7. QED
  BY <1>2, <1>5, <1>6 DEF Behind, n, u

\* A staged snapshot cuts off those below it.
LEMMA BehindAppend ==
    ASSUME NEW s \in Seq(Project), NEW p \in Project, NEW force,
           \A i \in 1..Len(s) : Labelled(s[i]), Labelled(p),
           Settled(p) => Behind(s, force) /\ ForceOf(p) = force
    PROVE  Append(s, p) \in Seq(Project) /\ Behind(Append(s, p), force)
           /\ \A i \in 1..Len(Append(s, p)) : Labelled(Append(s, p)[i])
<1> DEFINE n == Len(s)
           u == Append(s, p)
<1>1. n \in Nat /\ u \in Seq(Project) /\ Len(u) = n + 1 /\ u[n + 1] = p
      /\ \A i \in 1..n : u[i] = s[i]
  BY AppendProperties
<1> HIDE DEF u, n
<1>2. ASSUME NEW i \in 1..n + 1
      PROVE  Labelled(u[i]) /\ (Reached(u, i) => ForceOf(u[i]) = force)
  <2>1. CASE i = n + 1
    <3>1. u[i] = p /\ i \in i..n + 1
      BY <1>1, <2>1
    <3>2. QED
      BY <1>1, <3>1 DEF Reached
  <2>2. CASE i # n + 1
    <3>1. i \in 1..n /\ n + 1 \in i..n + 1 /\ \A k \in i..n : k \in i..n + 1 /\ k \in 1..n
      BY <1>1, <2>2
    <3>2. u[i] = s[i] /\ Labelled(s[i])
      BY <1>1, <3>1 DEF n
    <3>3. ASSUME Reached(u, i) PROVE ForceOf(u[i]) = force
      <4>1. Settled(p) /\ Reached(s, i)
        BY <1>1, <3>1, <3>3 DEF Reached, n
      <4>2. QED
        BY <3>1, <3>2, <4>1 DEF Behind, n
    <3>4. QED
      BY <3>2, <3>3
  <2>3. QED
    BY <2>1, <2>2
<1>3. Behind(u, force) /\ \A i \in 1..Len(u) : Labelled(u[i])
  BY <1>1, <1>2 DEF Behind
<1>4. QED
  BY <1>1, <1>3 DEF u

\* What is dropped from the bottom of the stack leaves the rest as it is.
LEMMA BehindPush ==
    ASSUME NEW snapshots, undo \o snapshots \in Seq(Project), Push(snapshots),
           NEW force, Behind(undo \o snapshots, force)
    PROVE  Behind(undo', force) /\ Behind(redo', force)
<1> DEFINE s == undo \o snapshots
           n == Len(s)
           first == 1 + (IF n > MaxHistory THEN n - MaxHistory ELSE 0)
<1>1. n \in Nat /\ MaxHistory \in Nat /\ s \in [1..n -> Project]
  <2>1. s \in Seq(Project)
    OBVIOUS
  <2> HIDE DEF s
  <2>2. QED
    BY <2>1, LenProperties, LimitsAssumption
<1>2. undo' = SubSeq(s, first, n) /\ redo' = <<>>
  BY DEF Push
<1>3. first \in Nat \ {0}
  BY <1>1
<1> HIDE DEF first, s, n
<1>4. \A k \in first..n : s[k] \in Project
  BY <1>1, <1>3
<1>5. /\ Len(undo') = IF first <= n THEN n - first + 1 ELSE 0
      /\ \A i \in 1..n - first + 1 : undo'[i] = s[first + i - 1]
  BY <1>1, <1>2, <1>3, <1>4, SubSeqProperties DEF n
<1>6. ASSUME NEW i \in 1..Len(undo')
      PROVE  Labelled(undo'[i]) /\ (Reached(undo', i) => ForceOf(undo'[i]) = force)
  <2> DEFINE j == first + i - 1
  <2>1. /\ Len(undo') = n - first + 1 /\ i \in 1..n - first + 1 /\ j \in 1..n
        /\ undo'[i] = s[j]
    BY <1>1, <1>3, <1>5
  <2>2. ASSUME Reached(undo', i) PROVE Reached(s, j)
    <3> SUFFICES ASSUME NEW k \in j..n PROVE Settled(s[k])
      BY DEF Reached, n
    <3>1. k - first + 1 \in i..n - first + 1 /\ k - first + 1 \in 1..n - first + 1
          /\ first + (k - first + 1) - 1 = k
      BY <1>1, <1>3, <2>1
    <3>2. undo'[k - first + 1] = s[k]
      BY <1>5, <3>1
    <3>3. Settled(undo'[k - first + 1])
      BY <2>1, <2>2, <3>1 DEF Reached
    <3>4. QED
      BY <3>2, <3>3
  <2>3. Labelled(s[j]) /\ (Reached(s, j) => ForceOf(s[j]) = force)
    BY <2>1 DEF Behind, n, s
  <2>4. QED
    BY <2>1, <2>2, <2>3
<1>7. QED
  BY <1>2, <1>6, BehindNone DEF Behind

-----------------------------------------------------------------------------
LEMMA LabelledNow ==
    ASSUME TypeInv, RolesInv
    PROVE  /\ Labelled(project)
           /\ Settled(project) => ForceOf(project) = ForceNow
           /\ \A r \in Roles : ~Pending(project.roles[r]) => Binds(r) = project.roles[r]
<1>1. \A r \in LoadAffecting : r \in Roles
  BY RolesAssumption
<1>2. \A r \in Roles : ~Pending(project.roles[r]) => Binds(r) = project.roles[r]
  BY DEF Binds
<1>3. Labelled(project)
  <2> SUFFICES ASSUME NEW r \in LoadAffecting PROVE Agrees(project.loads, r, project.roles[r])
    BY DEF Labelled
  <2>1. CASE Pending(project.roles[r])
    BY <2>1 DEF Agrees, Pending
  <2>2. CASE ~Pending(project.roles[r])
    BY <1>1, <1>2, <2>2 DEF RolesInv
  <2>3. QED
    BY <2>1, <2>2
<1>4. ASSUME Settled(project) PROVE ForceOf(project) = ForceNow
  BY <1>1, <1>2, <1>4 DEF Settled, ForceOf, ForceNow
<1>5. QED
  BY <1>2, <1>3, <1>4

\* A regulation comes into force only with other loads.
ForceKept == project'.loads # project.loads \/ ForceNow' = ForceNow

\* The bindings in force stay, under the same loads and the same history.
LEMMA SameForce ==
    ASSUME RolesInv, UNCHANGED history, project'.loads = project.loads,
           DisplacedIsStaged', PlanIsOfTheRoles',
           \A r \in LoadAffecting :
               Binds(r)'.adapter = Binds(r).adapter /\ Binds(r)'.state = Binds(r).state
    PROVE  RolesInv' /\ ForceKept
<1>1. ForceNow' = ForceNow
  BY DEF ForceNow
<1>2. Behind(undo, ForceNow)' /\ Behind(redo, ForceNow)'
  BY <1>1 DEF RolesInv, history, Behind, Reached
<1>3. ASSUME NEW r \in LoadAffecting PROVE Agrees(project'.loads, r, Binds(r)')
  BY DEF RolesInv, Agrees
<1>4. QED
  BY <1>1, <1>2, <1>3 DEF RolesInv, ForceKept

LEMMA StageChangeRoles ==
    ASSUME TypeInv, RolesInv, NEW r \in Roles, NEW a \in Options[r], StageChange(r, a)
    PROVE  RolesInv' /\ ForceKept
<1> DEFINE roles == [project.roles EXCEPT ![r] = Bound(a)]
<1>1. project \in Project /\ project.roles \in [Roles -> Binding] /\ Pending(Bound(a))
      /\ displaced \in [Roles -> Binding \cup {None}]
  BY ProjectFields DEF TypeInv, Kept, StoreTyped, Bound, Pending
<1>2. project' = [project EXCEPT !.roles = roles]
  BY Zenon DEF StageChange
<1>3. roles[r] = Bound(a) /\ \A q \in Roles : q # r => roles[q] = project.roles[q]
  BY <1>1
<1> HIDE DEF roles
<1>4. project'.roles = roles /\ project'.loads = project.loads
  BY <1>1, <1>2 DEF Project
<1>5. displaced' = IF displaced[r] = None
                   THEN [displaced EXCEPT ![r] = project.roles[r]] ELSE displaced
  BY DEF StageChange, Displaces
<1>6. \A q \in Roles : q # r => displaced'[q] = displaced[q]
  BY <1>1, <1>5
<1>7. displaced'[r] = IF Pending(project.roles[r]) THEN displaced[r] ELSE project.roles[r]
  BY <1>1, <1>5 DEF RolesInv, DisplacedIsStaged
<1>8. displaced'[r] # None /\ ~Pending(displaced'[r])
  BY <1>1, <1>7, NoneAssumption DEF RolesInv, DisplacedIsStaged
<1>9. DisplacedIsStaged'
  <2> SUFFICES ASSUME NEW q \in Roles
               PROVE  /\ Pending(project'.roles[q]) <=> displaced'[q] # None
                      /\ displaced'[q] # None => ~Pending(displaced'[q])
    BY DEF DisplacedIsStaged
  <2>1. CASE q = r
    BY <1>1, <1>3, <1>4, <1>8, <2>1
  <2>2. CASE q # r
    BY <1>3, <1>4, <1>6, <2>2 DEF RolesInv, DisplacedIsStaged
  <2>3. QED
    BY <2>1, <2>2
<1>10. ASSUME NEW q \in LoadAffecting PROVE Binds(q)' = Binds(q)
  <2>1. q \in Roles
    BY RolesAssumption
  <2>2. CASE q = r
    BY <1>1, <1>3, <1>4, <1>7, <2>2 DEF Binds
  <2>3. CASE q # r
    BY <1>3, <1>4, <1>6, <2>1, <2>3 DEF Binds
  <2>4. QED
    BY <2>2, <2>3
<1>11. PlanIsOfTheRoles' /\ UNCHANGED history
  BY DEF StageChange, Selects, RolesInv, PlanIsOfTheRoles
<1>12. QED
  BY <1>4, <1>9, <1>10, <1>11, SameForce

LEMMA CancelRoles ==
    ASSUME TypeInv, RolesInv, CancelChange
    PROVE  RolesInv' /\ ForceKept
<1> DEFINE roles == [r \in Roles |->
               IF r \notin PendingRoles THEN project.roles[r]
               ELSE IF displaced[r] # None THEN displaced[r]
               ELSE [project.roles[r] EXCEPT !.state = "unset", !.adapter = None]]
<1>1. project \in Project /\ \A r \in LoadAffecting : r \in Roles
  BY RolesAssumption DEF TypeInv, Kept
<1>2. project' = [project EXCEPT !.roles = roles]
  BY DEF CancelChange
<1>3. ASSUME NEW r \in Roles PROVE roles[r] = Binds(r) /\ ~Pending(roles[r])
  <2>1. CASE Pending(project.roles[r])
    <3>1. r \in PendingRoles /\ displaced[r] # None /\ ~Pending(displaced[r])
      BY <2>1 DEF PendingRoles, Pending, RolesInv, DisplacedIsStaged
    <3>2. roles[r] = displaced[r]
      BY <3>1
    <3>3. QED
      BY <2>1, <3>1, <3>2 DEF Binds
  <2>2. CASE ~Pending(project.roles[r])
    <3>1. roles[r] = project.roles[r]
      BY <2>2 DEF PendingRoles, Pending
    <3>2. QED
      BY <2>2, <3>1 DEF Binds
  <2>3. QED
    BY <2>1, <2>2
<1> HIDE DEF roles
<1>4. project'.roles = roles /\ project'.loads = project.loads
  BY <1>1, <1>2 DEF Project
<1>5. DisplacedIsStaged'
  BY <1>3, <1>4 DEF CancelChange, ForgetDisplaced, DisplacedIsStaged
<1>6. \A r \in LoadAffecting : Binds(r)' = Binds(r)
  <2>1. \A r \in Roles : Binds(r)' = roles[r]
    BY <1>3, <1>4 DEF Binds
  <2>2. QED
    BY <1>1, <1>3, <2>1
<1>7. PlanIsOfTheRoles' /\ UNCHANGED history
  BY DEF CancelChange, RolesInv, PlanIsOfTheRoles
<1>8. QED
  BY <1>4, <1>5, <1>6, <1>7, SameForce

LEMMA PreviewRoles ==
    ASSUME TypeInv, RolesInv, NEW enabled \in SUBSET LoadAffecting, Preview(enabled)
    PROVE  RolesInv' /\ ForceKept
<1> DEFINE roles == [r \in Roles |->
               IF r \in enabled THEN [project.roles[r] EXCEPT !.complete = TRUE]
               ELSE project.roles[r]]
           sources == [r \in LoadAffecting |-> IF r \in enabled THEN roles[r].adapter ELSE None]
<1>1. project \in Project /\ project.roles \in [Roles -> Binding]
      /\ \A r \in LoadAffecting : r \in Roles
  BY ProjectFields, RolesAssumption DEF TypeInv, Kept
<1>2. \A r \in Roles : roles[r].adapter = project.roles[r].adapter
                       /\ roles[r].state = project.roles[r].state
  BY <1>1 DEF Binding
<1>3. \A r \in LoadAffecting : sources[r] \in {None, roles[r].adapter}
  OBVIOUS
<1>4. /\ project' = [project EXCEPT !.roles = roles] /\ plan' \in {sources, None}
      /\ tab = "loads" /\ tab' = tab /\ displaced' = displaced /\ UNCHANGED history
  BY DEF Preview
<1> HIDE DEF roles, sources
<1>5. project'.roles = roles /\ project'.loads = project.loads
  BY <1>1, <1>4 DEF Project
<1>6. DisplacedIsStaged'
  BY <1>2, <1>4, <1>5 DEF RolesInv, DisplacedIsStaged, Pending
<1>7. PlanIsOfTheRoles'
  BY <1>3, <1>4, <1>5 DEF PlanIsOfTheRoles
<1>8. ASSUME NEW r \in LoadAffecting
      PROVE  Binds(r)'.adapter = Binds(r).adapter /\ Binds(r)'.state = Binds(r).state
  BY <1>1, <1>2, <1>4, <1>5 DEF Binds, Pending
<1>9. QED
  BY <1>4, <1>5, <1>6, <1>7, <1>8, SameForce

LEMMA ChangeDesignRoleRoles ==
    ASSUME TypeInv, RolesInv, NothingCrossesAStagedChange,
           NEW r \in Roles, NEW a \in Options[r], ChangeDesignRole(r, a)
    PROVE  RolesInv' /\ ForceKept
<1> DEFINE roles == [project.roles EXCEPT ![r] = Bound(a)]
           rev == project.revisions
           applied == [q \in Roles |->
               IF roles[q].state = "pending"
               THEN [roles[q] EXCEPT !.state = "applied", !.at = rev["regulationConfig"] + 1]
               ELSE roles[q]]
           next == ApplyChange(rev, "designRegulation")
<1>1. project \in Project /\ project.roles \in [Roles -> Binding] /\ Bound(a) \in Binding
      /\ \A q \in LoadAffecting : q \in Roles /\ q # r
  BY ProjectFields, BindingsTyped, OptionIsAdapter, RolesAssumption
     DEF TypeInv, Kept, ChangeDesignRole
<1>2. project' = [project EXCEPT !.roles = applied, !.revisions = next]
  BY DEF ChangeDesignRole, Applied
<1>3. \A q \in LoadAffecting : ~Pending(project.roles[q])
  BY <1>1 DEF ChangeDesignRole, NothingCrossesAStagedChange, PendingRoles, Pending
<1>4. \A q \in LoadAffecting : applied[q] = project.roles[q]
  BY <1>1, <1>3 DEF Pending
<1>5. \A q \in Roles : applied[q].state # "pending"
  <2>1. roles \in [Roles -> Binding]
    BY <1>1
  <2>2. \A q \in Roles : [roles[q] EXCEPT !.state = "applied",
                                           !.at = rev["regulationConfig"] + 1].state = "applied"
    BY <2>1 DEF Binding
  <2>3. QED
    BY <2>2
<1> HIDE DEF roles, rev, applied, next
<1>6. project'.roles = applied /\ project'.loads = project.loads
  BY <1>1, <1>2 DEF Project
<1>7. DisplacedIsStaged'
  BY <1>5, <1>6 DEF ChangeDesignRole, ForgetDisplaced, DisplacedIsStaged, Pending
<1>8. \A q \in LoadAffecting : Binds(q)' = Binds(q)
  BY <1>3, <1>4, <1>6 DEF Binds
<1>9. PlanIsOfTheRoles' /\ UNCHANGED history
  BY DEF ChangeDesignRole, Selects, RolesInv, PlanIsOfTheRoles
<1>10. QED
  BY <1>6, <1>7, <1>8, <1>9, SameForce

\* Neither a tab, nor results, nor a certificate is part of it.
LEMMA ElsewhereRoles ==
    ASSUME TypeInv, RolesInv, SwitchTab \/ Solve \/ RunFloors
    PROVE  RolesInv' /\ ForceKept
<1>1. project \in Project
  BY DEF TypeInv, Kept
<1>2. /\ project'.roles = project.roles /\ project'.loads = project.loads
      /\ displaced' = displaced /\ UNCHANGED history
  <2>1. CASE SwitchTab \/ Solve
    BY <2>1 DEF SwitchTab, Solve, store
  <2>2. CASE RunFloors
    BY <1>1, <2>2 DEF RunFloors, store, Project
  <2>3. QED
    BY <2>1, <2>2
<1>3. (plan' = None) \/ (plan' = plan /\ tab' = tab)
  BY DEF SwitchTab, Solve, RunFloors, store
<1>4. DisplacedIsStaged' /\ PlanIsOfTheRoles'
  BY <1>2, <1>3 DEF RolesInv, DisplacedIsStaged, PlanIsOfTheRoles
<1>5. \A r \in LoadAffecting : Binds(r)' = Binds(r)
  BY <1>2 DEF Binds
<1>6. QED
  BY <1>2, <1>4, <1>5, SameForce

-----------------------------------------------------------------------------
\* The project goes on the stack as it is on screen, under the force it has.
LEMMA PushedProject ==
    ASSUME TypeInv, RolesInv
    PROVE  /\ undo \in Seq(Project) /\ redo \in Seq(Project) /\ project \in Project
           /\ Append(undo, project) \in Seq(Project)
           /\ undo \o <<project>> = Append(undo, project)
           /\ Behind(Append(undo, project), ForceNow)
           /\ \A i \in 1..Len(Append(undo, project)) : Labelled(Append(undo, project)[i])
<1>1. Kept(made) \subseteq Project
  BY DEF Kept
<1>2. undo \in Seq(Project) /\ redo \in Seq(Project) /\ project \in Project
  BY <1>1 DEF TypeInv, SnapshotsIn
<1>3. undo \o <<project>> = Append(undo, project)
  BY <1>2, AppendIsConcat
<1>4. /\ \A i \in 1..Len(undo) : Labelled(undo[i])
      /\ Labelled(project) /\ (Settled(project) => ForceOf(project) = ForceNow)
      /\ Behind(undo, ForceNow)
  BY LabelledNow DEF RolesInv, Behind
<1>5. QED
  BY <1>2, <1>3, <1>4, BehindAppend

LEMMA Pushes ==
    ASSUME DisplacedIsStaged', PlanIsOfTheRoles', NEW snapshots, Push(snapshots),
           \A r \in LoadAffecting : Agrees(project'.loads, r, Binds(r)'),
           undo \o snapshots \in Seq(Project), Behind(undo \o snapshots, ForceNow')
    PROVE  RolesInv'
<1>1. ASSUME NEW force, force = ForceNow'
      PROVE  Behind(undo', force) /\ Behind(redo', force)
  BY <1>1, BehindPush
<1>2. Behind(undo, ForceNow)' /\ Behind(redo, ForceNow)'
  BY <1>1 DEF Behind, Reached
<1>3. QED
  BY <1>2 DEF RolesInv

\* The loads change under the same bindings, to others of the same origin or to none.
LEMMA LoadsOnlyRoles ==
    ASSUME TypeInv, RolesInv, EditLoads \/ NewProject
    PROVE  RolesInv' /\ ForceKept
<1>1. project \in Project /\ project.loads \in Loads
  BY ProjectFields DEF TypeInv, Kept
<1>2. /\ project'.roles = project.roles
      /\ project'.loads.from = project.loads.from \/ project'.loads.from = None
  <2>1. CASE EditLoads
    <3>1. project' = [project EXCEPT !.loads.version = made + 1]
      BY <2>1 DEF EditLoads
    <3>2. QED
      BY <1>1, <3>1 DEF Project, Loads
  <2>2. CASE NewProject
    <3>1. project' = [project EXCEPT !.loads = NoLoads(made + 1), !.certificate = None]
      BY <2>2 DEF NewProject
    <3>2. QED
      BY <1>1, <3>1 DEF Project, NoLoads
  <2>3. QED
    BY <2>1, <2>2
<1>3. Push(<<project>>) /\ UNCHANGED <<displaced, plan, tab>>
  BY DEF EditLoads, NewProject, store
<1>4. DisplacedIsStaged' /\ PlanIsOfTheRoles'
  BY <1>2, <1>3 DEF RolesInv, DisplacedIsStaged, PlanIsOfTheRoles
<1>5. \A r \in LoadAffecting : Binds(r)' = Binds(r)
  BY <1>2, <1>3 DEF Binds
<1>6. ForceNow' = ForceNow
  BY <1>5 DEF ForceNow
<1>7. ASSUME NEW r \in LoadAffecting PROVE Agrees(project'.loads, r, Binds(r)')
  BY <1>2, <1>5 DEF RolesInv, Agrees
<1>8. undo \o <<project>> \in Seq(Project) /\ Behind(undo \o <<project>>, ForceNow')
  BY <1>6, PushedProject
<1>9. QED
  BY <1>3, <1>4, <1>6, <1>7, <1>8, Pushes DEF ForceKept

\* What was staged comes into force, and the loads are of it; the snapshots from before
\* are of a staged project, which cuts off everything below them.
LEMMA ApplyPlanRoles ==
    ASSUME TypeInv, RolesInv, ApplyPlan
    PROVE  RolesInv' /\ ForceKept
<1> DEFINE rev == project.revisions
           applied == [q \in Roles |->
               IF project.roles[q].state = "pending"
               THEN [project.roles[q] EXCEPT !.state = "applied",
                                             !.at = rev["regulationConfig"] + 1]
               ELSE project.roles[q]]
<1>1. /\ project \in Project /\ project.roles \in [Roles -> Binding] /\ made \in Nat
      /\ \A q \in LoadAffecting : q \in Roles
  BY ProjectFields, RolesAssumption DEF TypeInv, Kept, StoreTyped
<1>2. plan # None /\ plan \in Sources /\ plan' = None
  BY DEF ApplyPlan, TypeInv, StoreTyped
<1>3. PICK kept \in {{}, Generated} :
          /\ project' =
              [(IF PendingRoles # {} THEN Applied(project.roles, "loadRegulation")
                ELSE [project EXCEPT !.revisions = ApplyChange(@, "loadEdit")])
                  EXCEPT !.loads = Whole(kept)]
          /\ Push(<<project, [project EXCEPT !.loads = Half(kept)]>>)
  BY DEF ApplyPlan
<1> DEFINE loads == Whole(kept)
           part == Half(kept)
           half == [project EXCEPT !.loads = part]
<1>4. loads.version = made + 2 /\ loads.from = plan /\ part \in Loads /\ part.from = None
  BY <1>1, <1>2, PlanLoadsTyped
<1> HIDE DEF loads, part
<1>5. part \in Loads /\ half \in Project /\ half.roles = project.roles /\ half.loads.from = None
  BY <1>1, <1>4 DEF Project
<1>6. Labelled(half)
  BY <1>5 DEF Labelled, Agrees
<1>7. /\ project'.roles = (IF PendingRoles # {} THEN applied ELSE project.roles)
      /\ project'.loads = loads
  <2>1. CASE PendingRoles # {}
    <3>1. project' = [[project EXCEPT !.roles = applied,
                                      !.revisions = ApplyChange(rev, "loadRegulation")]
                          EXCEPT !.loads = loads]
      BY <1>3, <2>1 DEF Applied, loads
    <3> HIDE DEF applied, rev
    <3>2. QED
      BY <1>1, <2>1, <3>1 DEF Project
  <2>2. CASE PendingRoles = {}
    <3>1. project' = [[project EXCEPT !.revisions = ApplyChange(@, "loadEdit")]
                          EXCEPT !.loads = loads]
      BY <1>3, <2>2 DEF loads
    <3> HIDE DEF applied, rev
    <3>2. QED
      BY <1>1, <2>2, <3>1 DEF Project
  <2>3. QED
    BY <2>1, <2>2
<1>8. \A q \in Roles : ~Pending(project'.roles[q])
                       /\ project'.roles[q].adapter = project.roles[q].adapter
  <2>1. CASE PendingRoles # {}
    <3>1. \A q \in Roles :
            LET b == [project.roles[q] EXCEPT !.state = "applied",
                                              !.at = rev["regulationConfig"] + 1]
            IN  b.state = "applied" /\ b.adapter = project.roles[q].adapter
      BY <1>1 DEF Binding
    <3>2. \A q \in Roles : ~Pending(applied[q])
                           /\ applied[q].adapter = project.roles[q].adapter
      BY <3>1 DEF Pending
    <3>3. QED
      BY <1>7, <2>1, <3>2
  <2>2. CASE PendingRoles = {}
    BY <1>7, <2>2 DEF PendingRoles, Pending
  <2>3. QED
    BY <2>1, <2>2
<1>9. \A q \in Roles : displaced'[q] = None
  <2>1. CASE PendingRoles # {}
    BY <2>1 DEF ApplyPlan, ForgetDisplaced
  <2>2. CASE PendingRoles = {}
    BY <2>2 DEF ApplyPlan, PendingRoles, RolesInv, DisplacedIsStaged, Pending
  <2>3. QED
    BY <2>1, <2>2
<1>10. DisplacedIsStaged'
  BY <1>8, <1>9 DEF DisplacedIsStaged
<1>11. PlanIsOfTheRoles'
  BY <1>2 DEF PlanIsOfTheRoles
<1>12. \A q \in LoadAffecting : Binds(q)' = project'.roles[q]
                                /\ Binds(q)'.adapter = project.roles[q].adapter
  BY <1>1, <1>8 DEF Binds
<1>13. ASSUME NEW q \in LoadAffecting PROVE Agrees(project'.loads, q, Binds(q)')
  <2>1. plan[q] \in {None, project.roles[q].adapter}
    BY <1>2 DEF RolesInv, PlanIsOfTheRoles
  <2>2. project'.loads.from = plan
    <3>1. project'.loads = loads
      BY <1>7
    <3>2. loads.from = plan
      BY <1>4
    <3> HIDE DEF applied, half, rev
    <3>3. QED
      BY <3>1, <3>2
  <2>3. Binds(q)'.adapter = project.roles[q].adapter
    BY <1>12, Zenon
  <2>4. QED
    BY <2>1, <2>2, <2>3, Zenon DEF Agrees
<1>14. ForceNow' = ForceOf(project)
  BY <1>12 DEF ForceNow, ForceOf
<1> DEFINE once == Append(undo, project)
<1> HIDE DEF half, once
<1>15. once \in Seq(Project) /\ Behind(once, ForceNow)
       /\ \A i \in 1..Len(once) : Labelled(once[i])
  BY PushedProject DEF once
<1>16. Settled(half) => Behind(once, ForceOf(project)) /\ ForceOf(half) = ForceOf(project)
  <2>1. SUFFICES ASSUME Settled(half)
                 PROVE  Behind(once, ForceOf(project)) /\ ForceOf(half) = ForceOf(project)
    OBVIOUS
  <2>2. Settled(project)
    BY <1>5, <2>1 DEF Settled
  <2>3. ForceOf(project) = ForceNow
    BY <2>2, LabelledNow
  <2>4. QED
    BY <1>5, <1>15, <2>3 DEF ForceOf
<1>17. Append(once, half) \in Seq(Project) /\ Behind(Append(once, half), ForceOf(project))
  BY <1>5, <1>6, <1>15, <1>16, BehindAppend
<1>18. undo \o <<project, half>> = Append(once, half)
  <2>1. undo \in Seq(Project)
    BY PushedProject
  <2>2. undo \o <<project, half>> = Append(Append(undo, project), half)
    BY <1>1, <1>5, <2>1
  <2>3. QED
    BY <2>2 DEF once
<1>19. Push(<<project, half>>)
  BY <1>3 DEF half, part
<1>20. RolesInv'
  BY <1>19, <1>10, <1>11, <1>13, <1>14, <1>17, <1>18, Pushes
<1>21. ForceKept
  <2>1. project.loads.version \in Nat /\ project.loads.version <= made
    BY <1>1, ProjectFields DEF TypeInv, Kept
  <2>2. project'.loads.version = made + 2
    <3>1. project'.loads = loads
      BY <1>7
    <3>2. loads.version = made + 2
      BY <1>4
    <3> HIDE DEF applied, rev
    <3>3. QED
      BY <3>1, <3>2
  <2>3. QED
    BY <1>1, <2>1, <2>2 DEF ForceKept
<1>22. QED
  BY <1>20, <1>21

\* Undo and redo stay among the snapshots with the same regulations in force.
LEMMA ReturnsRoles ==
    ASSUME TypeInv, RolesInv, NothingCrossesAStagedChange, Undo \/ Redo
    PROVE  RolesInv' /\ ForceKept
<1>1. ASSUME NEW p \in Project, Returns(p)
      PROVE  /\ Settled(project) /\ Settled(p) /\ project' = p
             /\ displaced' = displaced /\ plan' = plan /\ tab' = tab
  BY <1>1 DEF Returns, NothingCrossesAStagedChange, Settled, Pending, PendingRoles, store
<1>2. undo \in Seq(Project) /\ redo \in Seq(Project) /\ project \in Project
  BY PushedProject
<1>3. ASSUME NEW from \in Seq(Project), NEW to \in Seq(Project), from # <<>>,
             Behind(from, ForceNow), Behind(to, ForceNow), Returns(Last(from))
      PROVE  /\ DisplacedIsStaged' /\ PlanIsOfTheRoles' /\ ForceNow' = ForceNow
             /\ \A r \in LoadAffecting : Agrees(project'.loads, r, Binds(r)')
             /\ Behind(Front(from), ForceNow) /\ Behind(Append(to, project), ForceNow)
  <2> DEFINE p == Last(from)
  <2>1. p \in Project
    BY <1>3, FrontLast
  <2>2. /\ Settled(project) /\ Settled(p) /\ project' = p
        /\ displaced' = displaced /\ plan' = plan /\ tab' = tab
    BY <1>1, <1>3, <2>1
  <2>3. Behind(Front(from), ForceNow) /\ Labelled(p) /\ ForceOf(p) = ForceNow
    BY <1>3, <2>2, BehindFront
  <2>4. Labelled(project) /\ ForceOf(project) = ForceNow
    BY <2>2, LabelledNow
  <2>5. Behind(Append(to, project), ForceNow)
    <3>1. \A i \in 1..Len(to) : Labelled(to[i])
      BY <1>3 DEF Behind
    <3>2. QED
      BY <1>2, <1>3, <2>4, <3>1, BehindAppend
  <2> HIDE DEF p
  <2>6. DisplacedIsStaged'
    BY <2>2 DEF RolesInv, DisplacedIsStaged, Settled
  <2>7. \A r \in LoadAffecting : r \in Roles
    BY RolesAssumption
  <2>8. \A r \in LoadAffecting : p.roles[r].adapter = project.roles[r].adapter
    <3>1. ASSUME NEW r \in LoadAffecting PROVE p.roles[r].adapter = project.roles[r].adapter
      <4>1. ForceOf(p)[r] = ForceOf(project)[r]
        BY <2>3, <2>4
      <4>2. QED
        BY <4>1 DEF ForceOf
    <3>2. QED
      BY <3>1
  <2>9. PlanIsOfTheRoles'
    BY <2>2, <2>8 DEF RolesInv, PlanIsOfTheRoles
  <2>10. \A r \in LoadAffecting : Binds(r)' = p.roles[r]
    BY <2>2, <2>7 DEF Binds, Settled
  <2>11. ForceNow' = ForceNow
    BY <2>3, <2>10 DEF ForceNow, ForceOf
  <2>12. ASSUME NEW r \in LoadAffecting PROVE Agrees(project'.loads, r, Binds(r)')
    BY <2>2, <2>3, <2>10 DEF Labelled
  <2>13. QED
    BY <2>3, <2>5, <2>6, <2>9, <2>11, <2>12
<1>4. Behind(undo, ForceNow) /\ Behind(redo, ForceNow)
  BY DEF RolesInv
<1>5. ASSUME NEW from, NEW force, Behind(from, force), NEW g, g = force PROVE Behind(from, g)
  BY <1>5
<1>6. CASE Undo
  <2>1. undo # <<>> /\ Returns(Last(undo)) /\ undo' = Front(undo)
        /\ redo' = Append(redo, project)
    BY <1>6 DEF Undo
  <2>2. /\ DisplacedIsStaged' /\ PlanIsOfTheRoles' /\ ForceNow' = ForceNow
        /\ \A r \in LoadAffecting : Agrees(project'.loads, r, Binds(r)')
        /\ Behind(undo', ForceNow) /\ Behind(redo', ForceNow)
    BY <1>2, <1>3, <1>4, <2>1
  <2>3. Behind(undo, ForceNow)' /\ Behind(redo, ForceNow)'
    BY <2>2 DEF Behind, Reached
  <2>4. QED
    BY <2>2, <2>3 DEF RolesInv, ForceKept
<1>7. CASE Redo
  <2>1. redo # <<>> /\ Returns(Last(redo)) /\ redo' = Front(redo)
        /\ undo' = Append(undo, project)
    BY <1>7 DEF Redo
  <2>2. /\ DisplacedIsStaged' /\ PlanIsOfTheRoles' /\ ForceNow' = ForceNow
        /\ \A r \in LoadAffecting : Agrees(project'.loads, r, Binds(r)')
        /\ Behind(redo', ForceNow) /\ Behind(undo', ForceNow)
    BY <1>2, <1>3, <1>4, <2>1
  <2>3. Behind(undo, ForceNow)' /\ Behind(redo, ForceNow)'
    BY <2>2 DEF Behind, Reached
  <2>4. QED
    BY <2>2, <2>3 DEF RolesInv, ForceKept
<1>8. QED
  BY <1>6, <1>7

LEMMA InitRoles == Init => RolesInv
<1> SUFFICES ASSUME Init PROVE RolesInv
  OBVIOUS
<1>1. project.roles = DefaultRegulations /\ project.loads.from = None
      /\ plan = None /\ undo = <<>> /\ redo = <<>> /\ \A r \in Roles : displaced[r] = None
  BY DEF Init, NoLoads
<1>2. \A r \in Roles : ~Pending(DefaultRegulations[r])
  BY DEF DefaultRegulations, Unset, Bound, Pending
<1>3. DisplacedIsStaged
  BY <1>1, <1>2 DEF DisplacedIsStaged
<1>4. \A r \in LoadAffecting : Agrees(project.loads, r, Binds(r))
  BY <1>1 DEF Agrees
<1>5. QED
  BY <1>1, <1>3, <1>4, BehindNone DEF RolesInv, PlanIsOfTheRoles

LEMMA StepRoles ==
    ASSUME TypeInv, RolesInv, NothingCrossesAStagedChange, [Next]_vars
    PROVE  RolesInv' /\ ForceKept
<1>1. CASE \E r \in Roles : \E a \in Options[r] : StageChange(r, a) \/ ChangeDesignRole(r, a)
  BY <1>1, StageChangeRoles, ChangeDesignRoleRoles
<1>2. CASE \E enabled \in SUBSET LoadAffecting : Preview(enabled)
  BY <1>2, PreviewRoles
<1>3. CASE CancelChange
  BY <1>3, CancelRoles
<1>4. CASE ApplyPlan
  BY <1>4, ApplyPlanRoles
<1>5. CASE EditLoads \/ NewProject
  BY <1>5, LoadsOnlyRoles
<1>6. CASE SwitchTab \/ Solve \/ RunFloors
  BY <1>6, ElsewhereRoles
<1>7. CASE Undo \/ Redo
  BY <1>7, ReturnsRoles
<1>8. CASE UNCHANGED vars
  <2>1. DisplacedIsStaged' /\ PlanIsOfTheRoles'
    BY <1>8 DEF vars, store, RolesInv, DisplacedIsStaged, PlanIsOfTheRoles
  <2>2. UNCHANGED history /\ project'.loads = project.loads
        /\ \A r \in LoadAffecting : Binds(r)' = Binds(r)
    BY <1>8 DEF vars, store, Binds
  <2>3. QED
    BY <2>1, <2>2, SameForce
<1>9. QED
  BY <1>1, <1>2, <1>3, <1>4, <1>5, <1>6, <1>7, <1>8 DEF Next

LEMMA InForceIs ==
    ASSUME NEW r \in LoadAffecting
    PROVE  /\ RolesInv => InForce(r) = ForceNow[r]
           /\ RolesInv' => InForce(r)' = ForceNow'[r]
<1>1. RolesInv => (Pending(project.roles[r]) => displaced[r] # None)
  BY RolesAssumption DEF RolesInv, DisplacedIsStaged
<1>2. RolesInv' => (Pending(project'.roles[r]) => displaced'[r] # None)
  BY RolesAssumption DEF RolesInv, DisplacedIsStaged
<1>3. QED
  BY <1>1, <1>2 DEF InForce, ForceNow, Binds, Pending

\* Staged, cancelled, previewed, applied with or without the loads there were, and undone in
\* any order: the newest generated loads are of the regulations that are applied
\* (requestChange, applyPending, handleApply).
THEOREM NewestLoadsAreOfTheRegulations ==
    ASSUME NothingCrossesAStagedChange
    PROVE  Spec => []NewestLoadsAreOfTheAppliedRoles
<1>1. Init => TypeInv /\ RolesInv
  BY InitHolds, InitRoles
<1>2. TypeInv /\ RolesInv /\ [Next]_vars => TypeInv' /\ RolesInv'
  BY StepHolds, StepRoles, NothingCrossesAStagedChange
<1>3. TypeInv /\ RolesInv => NewestLoadsAreOfTheAppliedRoles
  <2>1. TypeInv /\ RolesInv => Labelled(project)
    BY LabelledNow
  <2>2. QED
    BY <2>1 DEF Labelled, Agrees, NewestLoadsAreOfTheAppliedRoles
<1>4. QED
  BY <1>1, <1>2, <1>3, PTL DEF Spec

\* Staging and cancelling change nothing that is in force: a step that brings another
\* regulation of the loads into force brings other loads with it.
THEOREM ForceChangesWithTheLoads ==
    ASSUME NothingCrossesAStagedChange
    PROVE  Spec => LoadRolesChangeWithTheLoads
<1>1. Init => TypeInv /\ RolesInv
  BY InitHolds, InitRoles
<1>2. TypeInv /\ RolesInv /\ [Next]_vars => TypeInv' /\ RolesInv'
  BY StepHolds, StepRoles, NothingCrossesAStagedChange
<1>3. TypeInv /\ RolesInv /\ [Next]_vars
      => [\A r \in LoadAffecting :
              InForce(r)' # InForce(r) => project.loads' # project.loads]_vars
  <2> SUFFICES ASSUME TypeInv, RolesInv, [Next]_vars, NEW r \in LoadAffecting,
                      InForce(r)' # InForce(r)
               PROVE  project'.loads # project.loads
    OBVIOUS
  <2>1. RolesInv' /\ ForceKept
    BY StepRoles, NothingCrossesAStagedChange
  <2>2. InForce(r) = ForceNow[r] /\ InForce(r)' = ForceNow'[r]
    BY <2>1, InForceIs
  <2>3. QED
    BY <2>1, <2>2 DEF ForceKept
<1>4. QED
  BY <1>1, <1>2, <1>3, PTL DEF Spec, LoadRolesChangeWithTheLoads

=============================================================================
