-------------------------- MODULE DesignFlowProofs ---------------------------
(***************************************************************************)
(* Proofs about the design flow: for any members, arrangements of bars,    *)
(* number of edits and limit of the stack, nothing that is shown as        *)
(* current is of other bars or forces, and a number names one thing.       *)
(***************************************************************************)
EXTENDS DesignFlow, SequenceTheorems, TLAPS

\* The circumstances a theorem leaves out.
ForcesStayNumbered == "reload" \notin Races
OutcomesFollowTheBars == "undoRebar" \notin Races
CagesAreNotUndone == "undoCages" \notin Races
RunsLeaveSteel == "noSteel" \notin Races

-----------------------------------------------------------------------------
(***************************************************************************)
(* The stacks, of entries over a set of projects.                          *)
(***************************************************************************)

Entries(P) == [kind : {"structural", "reinforcement"}, project : P]

HistoryIn(P) ==
    /\ undo \in Seq(Entries(P)) /\ redo \in Seq(Entries(P))
    /\ Len(undo) + Len(redo) <= MaxHistory

LEMMA FrontLast ==
    ASSUME NEW S, NEW s \in Seq(S), s # <<>>
    PROVE  /\ Front(s) \in Seq(S) /\ Len(Front(s)) = Len(s) - 1
           /\ Last(s) \in S
           /\ Len(s) \in Nat \ {0}
<1>1. Len(s) \in Nat \ {0} /\ s \in [1..Len(s) -> S]
  BY LenProperties, EmptySeq
<1>2. \A i \in 1..(Len(s) - 1) : s[i] \in S
  BY <1>1
<1>3. /\ SubSeq(s, 1, Len(s) - 1) \in Seq(S)
      /\ Len(SubSeq(s, 1, Len(s) - 1)) =
             IF 1 <= Len(s) - 1 THEN (Len(s) - 1) - 1 + 1 ELSE 0
  BY <1>1, <1>2, SubSeqProperties
<1>4. QED
  BY <1>1, <1>3 DEF Front, Last

LEMMA PushedIn ==
    ASSUME NEW P, NEW stack \in Seq(Entries(P)), Len(stack) <= MaxHistory,
           NEW kind \in {"structural", "reinforcement"}, NEW p \in P
    PROVE  Pushed(stack, kind, p) \in Seq(Entries(P)) /\ Len(Pushed(stack, kind, p)) <= MaxHistory
<1> DEFINE longer == Append(stack, [kind |-> kind, project |-> p])
<1>1. [kind |-> kind, project |-> p] \in Entries(P)
  BY DEF Entries
<1>2. longer \in Seq(Entries(P)) /\ Len(longer) = Len(stack) + 1 /\ Len(stack) \in Nat
  BY <1>1
<1>3. longer # <<>>
  BY <1>2
<1> HIDE DEF longer
<1>4. Tail(longer) \in Seq(Entries(P)) /\ Len(Tail(longer)) = Len(longer) - 1
  BY <1>2, <1>3, HeadTailProperties
<1>5. Pushed(stack, kind, p) = IF Len(longer) > MaxHistory THEN Tail(longer) ELSE longer
  BY DEF Pushed, longer
<1>6. MaxHistory \in Nat
  BY LimitsAssumption
<1>7. QED
  BY <1>2, <1>4, <1>5, <1>6

\* An edit that pushes an entry forgets what was undone.
LEMMA PushKeeps ==
    ASSUME NEW P, HistoryIn(P), NEW kind \in {"structural", "reinforcement"}, NEW p \in P,
           undo' = Pushed(undo, kind, p), redo' = <<>>
    PROVE  HistoryIn(P)'
<1>1. undo \in Seq(Entries(P)) /\ redo \in Seq(Entries(P)) /\ Len(undo) + Len(redo) <= MaxHistory
  BY DEF HistoryIn
<1>2. Len(undo) \in Nat /\ Len(redo) \in Nat /\ MaxHistory \in Nat
  BY <1>1, LimitsAssumption
<1>3. Len(undo) <= MaxHistory
  BY <1>1, <1>2
<1>4. undo' \in Seq(Entries(P)) /\ Len(undo') <= MaxHistory
  BY <1>1, <1>3, PushedIn
<1>5. redo' \in Seq(Entries(P)) /\ Len(redo') = 0 /\ Len(undo') \in Nat
  BY <1>4, EmptySeq
<1>6. QED
  BY <1>2, <1>4, <1>5 DEF HistoryIn

LEMMA StacksStay ==
    ASSUME NEW P, HistoryIn(P), UNCHANGED history
    PROVE  HistoryIn(P)'
  BY DEF HistoryIn, history

LEMMA MoreEntries ==
    ASSUME NEW P, NEW Q, P \subseteq Q, HistoryIn(P)
    PROVE  HistoryIn(Q)
<1>1. Entries(P) \subseteq Entries(Q)
  BY DEF Entries
<1>2. QED
  BY <1>1 DEF HistoryIn

\* The entry that undo or redo returns to, and the stacks it leaves.
LEMMA ReturnKeeps ==
    ASSUME NEW P, HistoryIn(P), project \in P, Undo \/ Redo
    PROVE  /\ HistoryIn(P)'
           /\ \E entry \in Entries(P) : Returns(entry)
<1>1. /\ undo \in Seq(Entries(P)) /\ redo \in Seq(Entries(P))
      /\ Len(undo) \in Nat /\ Len(redo) \in Nat /\ MaxHistory \in Nat
      /\ Len(undo) + Len(redo) <= MaxHistory /\ Len(redo) + Len(undo) <= MaxHistory
  <2>1. undo \in Seq(Entries(P)) /\ redo \in Seq(Entries(P)) /\ Len(undo) + Len(redo) <= MaxHistory
    BY DEF HistoryIn
  <2>2. Len(undo) \in Nat /\ Len(redo) \in Nat /\ MaxHistory \in Nat
    BY <2>1, LimitsAssumption
  <2>3. QED
    BY <2>1, <2>2
<1>2. ASSUME NEW from \in Seq(Entries(P)), NEW to \in Seq(Entries(P)), from # <<>>,
             Len(from) + Len(to) <= MaxHistory
      PROVE  LET left == Append(to, [Last(from) EXCEPT !.project = project])
             IN  /\ Front(from) \in Seq(Entries(P)) /\ Last(from) \in Entries(P)
                 /\ left \in Seq(Entries(P))
                 /\ Len(Front(from)) + Len(left) <= MaxHistory
                 /\ Len(left) + Len(Front(from)) <= MaxHistory
  <2> DEFINE entry == [Last(from) EXCEPT !.project = project]
  <2>1. /\ Front(from) \in Seq(Entries(P)) /\ Len(Front(from)) = Len(from) - 1
        /\ Last(from) \in Entries(P) /\ Len(from) \in Nat \ {0}
    BY <1>2, FrontLast
  <2>2. entry \in Entries(P)
    BY <2>1 DEF Entries
  <2> HIDE DEF entry
  <2>3. Append(to, entry) \in Seq(Entries(P)) /\ Len(Append(to, entry)) = Len(to) + 1
        /\ Len(to) \in Nat
    BY <1>2, <2>2
  <2>4. /\ Len(Front(from)) + Len(Append(to, entry)) <= MaxHistory
        /\ Len(Append(to, entry)) + Len(Front(from)) <= MaxHistory
    BY <1>1, <1>2, <2>1, <2>3
  <2>5. QED
    BY <2>1, <2>3, <2>4 DEF entry
<1>3. CASE Undo
  BY <1>1, <1>2, <1>3 DEF Undo, HistoryIn
<1>4. CASE Redo
  BY <1>1, <1>2, <1>4 DEF Redo, HistoryIn
<1>5. QED
  BY <1>3, <1>4

-----------------------------------------------------------------------------
(***************************************************************************)
(* What the operators of the module return.                                *)
(***************************************************************************)

LEMMA NumbersOfTheRegister ==
    ASSUME NEW cages \in Register
    PROVE  LET top == Max(Revisions(cages) \cup {0})
           IN  /\ top \in Nat
               /\ \A s \in {"frame", "floor"} : cages[s] # None => cages[s].revision <= top
               /\ top # 0 => \E s \in {"frame", "floor"} :
                                 cages[s] # None /\ cages[s].revision = top
<1> DEFINE Number(s) == IF cages[s] = None THEN 0 ELSE cages[s].revision
           a == Number("frame")
           b == Number("floor")
           top == Max(Revisions(cages) \cup {0})
<1>1. DOMAIN cages = {"frame", "floor"}
  BY DEF Register
<1>2. ASSUME NEW s \in {"frame", "floor"} PROVE Number(s) \in Nat
  BY DEF Register, Cage
<1>3. a \in Nat /\ b \in Nat
  BY <1>2
<1>4. Revisions(cages) \cup {0} = {0, a, b}
  BY <1>1 DEF Revisions
<1>5. /\ cages["frame"] # None => cages["frame"].revision = a
      /\ cages["floor"] # None => cages["floor"].revision = b
      /\ a # 0 => cages["frame"] # None
      /\ b # 0 => cages["floor"] # None
  OBVIOUS
<1> HIDE DEF a, b
<1>6. \E x \in {0, a, b} : \A y \in {0, a, b} : x >= y
  <2>1. CASE a >= b
    BY <1>3, <2>1
  <2>2. CASE b >= a
    BY <1>3, <2>2
  <2>3. QED
    BY <1>3, <2>1, <2>2
<1>7. top \in {0, a, b} /\ \A y \in {0, a, b} : top >= y
  BY <1>4, <1>6 DEF Max
<1> HIDE DEF top
<1>8. top \in Nat /\ a <= top /\ b <= top
  BY <1>3, <1>7
<1>9. QED
  BY <1>5, <1>7, <1>8 DEF top

LEMMA NextRevision ==
    ASSUME project \in Project
    PROVE  /\ MaxPersistedRevision \in Nat
           /\ NextDetailingRevision = MaxPersistedRevision + 1
           /\ NextDetailingRevision \in Nat
           /\ \A s \in {"frame", "floor"} : project.cages[s] # None =>
                  project.cages[s].revision <= MaxPersistedRevision
<1>1. project.cages \in Register
  BY DEF Project
<1>2. QED
  BY <1>1, NumbersOfTheRegister DEF MaxPersistedRevision, NextDetailingRevision

LEMMA ProjectFields ==
    ASSUME NEW p \in Project
    PROVE  /\ p.bars \in Bars /\ p.cages \in Register
           /\ \A bars \in Bars : /\ [p EXCEPT !.bars = bars] \in Project
                                 /\ [p EXCEPT !.bars = bars].bars = bars
                                 /\ [p EXCEPT !.bars = bars].cages = p.cages
  BY DEF Project

LEMMA WrittenIsBars ==
    ASSUME NEW bars \in Bars, NEW f \in [Members -> Rebars \cup {None}]
    PROVE  Written(bars, f) \in Bars
  BY DEF Written, Bars

Outcomes == [Members -> SearchOutcomes \cup {None}]

LEMMA OutcomeFields ==
    ASSUME NEW o \in SearchOutcomes
    PROVE  /\ o.kind \in {"verified", "proposal", "refused"} /\ o.steel \in Rebars \cup {None}
           /\ o.kind = "refused" <=> o.steel = None
           /\ \A steel \in Rebars : o.kind = "verified" =>
                  /\ [o EXCEPT !.steel = steel] \in SearchOutcomes
                  /\ [o EXCEPT !.steel = steel].steel = steel
                  /\ [o EXCEPT !.steel = steel].kind = o.kind
  BY MembersAssumption DEF SearchOutcomes, Outcome

\* A repair resizes verified members: the kinds stay, and the bars of the others.
LEMMA RepairedIs ==
    ASSUME NEW outs \in Outcomes, NEW f \in Repairs(outs)
    PROVE  /\ f \in [Members -> Rebars \cup {None}]
           /\ Repaired(outs, f) \in Outcomes
           /\ \A m \in Members :
                  /\ Repaired(outs, f)[m] = None <=> outs[m] = None
                  /\ f[m] = None => Repaired(outs, f)[m] = outs[m]
                  /\ f[m] # None => /\ outs[m] # None /\ outs[m].kind = "verified"
                                    /\ Repaired(outs, f)[m] = [outs[m] EXCEPT !.steel = f[m]]
                                    /\ Repaired(outs, f)[m].steel = f[m]
                                    /\ Repaired(outs, f)[m].kind = "verified"
                                    /\ Repaired(outs, f)[m] # None
<1>1. f \in [Members -> Rebars \cup {None}]
  BY DEF Repairs
<1>2. ASSUME NEW m \in Members
      PROVE  /\ Repaired(outs, f)[m] \in SearchOutcomes \cup {None}
             /\ f[m] = None => Repaired(outs, f)[m] = outs[m]
             /\ f[m] # None => /\ outs[m] # None /\ outs[m].kind = "verified"
                               /\ Repaired(outs, f)[m] = [outs[m] EXCEPT !.steel = f[m]]
                               /\ Repaired(outs, f)[m].steel = f[m]
                               /\ Repaired(outs, f)[m].kind = "verified"
                               /\ Repaired(outs, f)[m] \in SearchOutcomes
  <2>1. Repaired(outs, f)[m] = IF f[m] = None THEN outs[m] ELSE [outs[m] EXCEPT !.steel = f[m]]
    BY DEF Repaired
  <2>2. outs[m] \in SearchOutcomes \cup {None}
    BY DEF Outcomes
  <2>3. CASE f[m] = None
    BY <2>1, <2>2, <2>3
  <2>4. CASE f[m] # None
    <3>1. f[m] \in Rebars /\ outs[m] # None /\ outs[m].kind = "verified"
      BY <1>1, <2>4 DEF Repairs
    <3>2. QED
      BY <2>1, <2>2, <2>4, <3>1, OutcomeFields
  <2>5. QED
    BY <2>3, <2>4
<1>3. Repaired(outs, f) \in Outcomes
  BY <1>2 DEF Repaired, Outcomes
<1>4. \A o \in SearchOutcomes : o # None
  BY NoneAssumption DEF SearchOutcomes
<1>5. QED
  BY <1>1, <1>2, <1>3, <1>4

LEMMA OfferedIs ==
    ASSUME NEW outs \in Outcomes
    PROVE  /\ Offered(outs) \in Bars
           /\ \A m \in Members : Offered(outs)[m] =
                  IF outs[m] = None THEN None ELSE outs[m].steel
<1>1. ASSUME NEW m \in Members
      PROVE  /\ Offered(outs)[m] = IF outs[m] = None THEN None ELSE outs[m].steel
             /\ Offered(outs)[m] \in Rebars \cup {None}
  <2>1. Offered(outs)[m] =
            IF outs[m] # None /\ outs[m].kind \in {"verified", "proposal"} THEN outs[m].steel
            ELSE None
    BY DEF Offered
  <2>2. outs[m] \in SearchOutcomes \cup {None}
    BY DEF Outcomes
  <2>3. CASE outs[m] = None
    BY <2>1, <2>3
  <2>4. CASE outs[m] # None
    BY <2>1, <2>2, <2>4, OutcomeFields
  <2>5. QED
    BY <2>3, <2>4
<1>2. QED
  BY <1>1 DEF Offered, Bars

LEMMA MergedIs ==
    ASSUME outcomes \in Outcomes, NEW found \in Found
    PROVE  /\ Merged(found) \in Outcomes
           /\ found \in Outcomes
           /\ \A m \in Members : Merged(found)[m] =
                  IF found[m] = None THEN outcomes[m] ELSE found[m]
  BY DEF Merged, Found, Outcomes

\* The bars a run writes: of the members whose outcome has some.
SteelOf(found) == [m \in Members |-> IF found[m] = None THEN None ELSE found[m].steel]

LEMMA SteelIs ==
    ASSUME NEW found \in Outcomes
    PROVE  SteelOf(found) \in [Members -> Rebars \cup {None}]
<1>1. ASSUME NEW m \in Members PROVE SteelOf(found)[m] \in Rebars \cup {None}
  <2>1. SteelOf(found)[m] = IF found[m] = None THEN None ELSE found[m].steel
    BY DEF SteelOf
  <2>2. found[m] \in SearchOutcomes \cup {None}
    BY DEF Outcomes
  <2>3. QED
    BY <2>1, <2>2, OutcomeFields
<1>2. QED
  BY <1>1 DEF SteelOf

\* What a run over the frame leaves in the register.
LEMMA FrameCageIs ==
    ASSUME project \in Project, NEW outs \in Outcomes, NEW ctx \in Nat \cup {None},
           NEW demand \in Nat
    PROVE  LET cage == FrameCage(outs, ctx, demand)
           IN  /\ cage \in Cage \cup {None}
               /\ cage # None => /\ cage.steel = Offered(outs) /\ cage.demand = demand
                                 /\ cage.forces = ctx /\ ctx # None
                                 /\ cage.revision = MaxPersistedRevision + 1
               /\ ctx # None /\ (\E m \in Members : Offered(outs)[m] # None) => cage # None
<1> DEFINE drawn == [steel |-> Offered(outs), demand |-> demand, forces |-> ctx,
                     revision |-> NextDetailingRevision, review |-> 0]
<1>1. FrameCage(outs, ctx, demand) =
          IF ctx = None \/ \A m \in Members : Offered(outs)[m] = None THEN None ELSE drawn
  BY DEF FrameCage
<1>2. Offered(outs) \in Bars
  BY OfferedIs
<1>3. NextDetailingRevision = MaxPersistedRevision + 1 /\ NextDetailingRevision \in Nat
  BY NextRevision
<1>4. /\ drawn.steel = Offered(outs) /\ drawn.demand = demand /\ drawn.forces = ctx
      /\ drawn.revision = MaxPersistedRevision + 1
  BY <1>3
<1>5. ctx # None => drawn \in Cage
  BY <1>2, <1>3 DEF Cage
<1>6. ctx # None => drawn # None
  BY <1>5, NoneAssumption
<1> HIDE DEF drawn
<1>7. QED
  BY <1>1, <1>4, <1>5, <1>6

\* The repairs of a run come with an entry; the register may change with the bars.
LEMMA GenerateIs ==
    ASSUME project \in Project, outcomes \in Outcomes, contexts \in Nat \cup {None},
           demandRevision \in Nat, NEW f \in Repairs(outcomes), Generate(f)
    PROVE  /\ outcomes' = Repaired(outcomes, f) /\ outcomes' \in Outcomes
           /\ project' = [bars  |-> Written(project.bars, f),
                          cages |-> [frame |-> FrameCage(outcomes', contexts, demandRevision),
                                     floor |-> None]]
           /\ project' \in Project
           /\ project'.bars = Written(project.bars, f)
           /\ project'.cages["frame"] = FrameCage(outcomes', contexts, demandRevision)
           /\ project'.cages["floor"] = None
<1>1. /\ outcomes' = Repaired(outcomes, f)
      /\ project' = [bars  |-> Written(project.bars, f),
                     cages |-> [frame |-> FrameCage(outcomes', contexts, demandRevision),
                                floor |-> None]]
  BY DEF Generate
<1>2. outcomes' \in Outcomes /\ f \in [Members -> Rebars \cup {None}]
  BY <1>1, RepairedIs
<1>3. FrameCage(outcomes', contexts, demandRevision) \in Cage \cup {None}
  BY <1>2, FrameCageIs
<1>4. Written(project.bars, f) \in Bars
  BY <1>2, ProjectFields, WrittenIsBars
<1> DEFINE cage == FrameCage(outcomes', contexts, demandRevision)
           cages == [frame |-> cage, floor |-> None]
<1>5. cages \in Register /\ cages["frame"] = cage /\ cages["floor"] = None
  <2> HIDE DEF cage
  <2>1. cage \in Cage \cup {None}
    BY <1>3 DEF cage
  <2>2. QED
    BY <2>1 DEF Register
<1> HIDE DEF cages
<1>6. project' = [bars |-> Written(project.bars, f), cages |-> cages]
  BY <1>1 DEF cages
<1>7. QED
  BY <1>1, <1>2, <1>4, <1>5, <1>6 DEF Project

LEMMA AutoDesignIs ==
    ASSUME project \in Project, outcomes \in Outcomes,
           results \in Nat \cup {None}, contexts \in Nat \cup {None}, demandRevision \in Nat,
           NEW found \in Found, NEW f \in Repairs(Merged(found)),
           NEW fresh \in BOOLEAN, NEW detailed \in BOOLEAN,
           AutoDesign(found, f, fresh, detailed)
    PROVE  LET bars == Written(project.bars, SteelOf(found))
           IN  /\ outcomes' = Repaired(Merged(found), f) /\ outcomes' \in Outcomes
               /\ contexts' \in Nat /\ contexts' # None /\ demandRevision' \in Nat
               /\ marks' = [m \in Members |-> IF SteelOf(found)[m] = None THEN marks[m]
                                              ELSE "auto"]
               /\ bars \in Bars
               /\ project' \in Project
               /\ project'.bars = Written(bars, f)
               /\ ~detailed => project'.cages = project.cages
               /\ detailed =>
                      /\ project'.cages["frame"] =
                             FrameCage(outcomes', contexts', demandRevision')
                      /\ project'.cages["floor"] = None
<1> DEFINE bars == Written(project.bars, SteelOf(found))
           cage == FrameCage(outcomes', contexts', demandRevision')
           made == [frame |-> cage, floor |-> None]
           cages == IF ~detailed THEN project.cages ELSE made
<1>1. /\ outcomes' = Repaired(Merged(found), f)
      /\ marks' = [m \in Members |-> IF SteelOf(found)[m] = None THEN marks[m] ELSE "auto"]
      /\ project' = [bars |-> Written(bars, f), cages |-> cages]
  BY DEF AutoDesign, SteelOf, WithSteel
<1>2. IF fresh THEN results # None /\ contexts' = results /\ demandRevision' = demandRevision + 1
      ELSE contexts # None /\ UNCHANGED <<contexts, demandRevision>>
  BY DEF AutoDesign, SetDemandData
<1>3. contexts' \in Nat /\ contexts' # None /\ demandRevision' \in Nat
  BY <1>2
<1>4. Merged(found) \in Outcomes /\ found \in Outcomes
  BY MergedIs
<1>5. outcomes' \in Outcomes /\ f \in [Members -> Rebars \cup {None}]
  BY <1>1, <1>4, RepairedIs
<1>6. SteelOf(found) \in [Members -> Rebars \cup {None}]
  BY <1>4, SteelIs
<1>7. project.bars \in Bars /\ project.cages \in Register
  BY ProjectFields
<1>8. bars \in Bars
  BY <1>6, <1>7, WrittenIsBars
<1>9. Written(bars, f) \in Bars
  <2> HIDE DEF bars
  <2>1. QED
    BY <1>5, <1>8, WrittenIsBars
<1>10. cage \in Cage \cup {None}
  BY <1>3, <1>5, FrameCageIs
<1>11. made \in Register /\ made["frame"] = cage /\ made["floor"] = None
  <2> HIDE DEF cage
  <2>1. QED
    BY <1>10 DEF Register
<1>12. cages \in Register
  <2> HIDE DEF made
  <2>1. QED
    BY <1>7, <1>11
<1>13. project' \in Project /\ project'.bars = Written(bars, f) /\ project'.cages = cages
  <2> HIDE DEF bars, cages
  <2>1. QED
    BY <1>1, <1>9, <1>12 DEF Project
<1>14. /\ ~detailed => project'.cages = project.cages
       /\ detailed => /\ project'.cages["frame"] = cage /\ project'.cages["floor"] = None
  <2> HIDE DEF cage
  <2>1. QED
    BY <1>11, <1>13
<1>15. QED
  BY <1>1, <1>3, <1>5, <1>8, <1>13, <1>14

\* A run pushes at most two entries: what was there, and the bars before the repairs.
LEMMA AutoDesignPushes ==
    ASSUME project \in Project, outcomes \in Outcomes,
           results \in Nat \cup {None}, contexts \in Nat \cup {None}, demandRevision \in Nat,
           NEW found \in Found, NEW f \in Repairs(Merged(found)),
           NEW fresh \in BOOLEAN, NEW detailed \in BOOLEAN,
           AutoDesign(found, f, fresh, detailed),
           NEW P, HistoryIn(P), project \in P,
           \A bars \in Bars : [project EXCEPT !.bars = bars] \in P
    PROVE  HistoryIn(P)'
<1> DEFINE steel == SteelOf(found)
           bars == Written(project.bars, steel)
           designed == IF steel = Nothing THEN undo ELSE Pushed(undo, "reinforcement", project)
           before == [project EXCEPT !.bars = bars]
<1>1. bars \in Bars
  BY AutoDesignIs
<1>2. /\ undo' = IF f = Nothing THEN designed ELSE Pushed(designed, "reinforcement", before)
      /\ redo' = IF steel = Nothing /\ f = Nothing THEN redo ELSE <<>>
  BY DEF AutoDesign, SteelOf, WithSteel
<1>3. before \in P
  BY <1>1
<1> HIDE DEF before, steel
<1>4. /\ undo \in Seq(Entries(P)) /\ redo \in Seq(Entries(P))
      /\ Len(undo) \in Nat /\ Len(redo) \in Nat /\ MaxHistory \in Nat
      /\ Len(undo) + Len(redo) <= MaxHistory
  BY LimitsAssumption DEF HistoryIn
<1>5. Len(undo) <= MaxHistory
  BY <1>4
<1>6. designed \in Seq(Entries(P)) /\ Len(designed) <= MaxHistory
  BY <1>4, <1>5, PushedIn
<1>7. CASE steel = Nothing /\ f = Nothing
  BY <1>2, <1>4, <1>7 DEF HistoryIn
<1>8. CASE ~(steel = Nothing /\ f = Nothing)
  <2> HIDE DEF designed
  <2>1. redo' = <<>>
    BY <1>2, <1>8
  <2>2. undo' \in Seq(Entries(P)) /\ Len(undo') <= MaxHistory
    BY <1>2, <1>3, <1>6, PushedIn
  <2>3. redo' \in Seq(Entries(P)) /\ Len(redo') = 0 /\ Len(undo') \in Nat
    BY <2>1, <2>2, EmptySeq
  <2>4. QED
    BY <1>4, <2>2, <2>3 DEF HistoryIn
<1>9. QED
  BY <1>7, <1>8

-----------------------------------------------------------------------------
(***************************************************************************)
(* The types.                                                              *)
(***************************************************************************)

DemandsTyped ==
    /\ results \in Nat \cup {None}
    /\ solveGeneration \in Nat
    /\ contexts \in Nat \cup {None}
    /\ demandRevision \in Nat

DocumentsTyped ==
    /\ document \in Document \cup {None}
    /\ superseded \in Seq(Document)
    /\ documentRevision \in Nat

TypeInv ==
    /\ project \in Project
    /\ outcomes \in Outcomes
    /\ DemandsTyped
    /\ HistoryIn(Project)
    /\ cache \in [Members -> Cached \cup {None}]
    /\ marks \in [Members -> {"auto", "manual", None}]
    /\ DocumentsTyped
    /\ edits \in 0..MaxEdits

\* Whatever the projects of the entries have in common with the one on screen, for any bars,
\* the entries of the next state have.
LEMMA NextKeepsHistory ==
    ASSUME TypeInv, [Next]_vars, NEW P, HistoryIn(P), project \in P,
           \A bars \in Bars : [project EXCEPT !.bars = bars] \in P
    PROVE  HistoryIn(P)'
<1>1. project \in Project /\ outcomes \in Outcomes
      /\ results \in Nat \cup {None} /\ contexts \in Nat \cup {None} /\ demandRevision \in Nat
  BY DEF TypeInv, DemandsTyped
<1>2. CASE EditStructure
  BY <1>2, PushKeeps DEF EditStructure
<1>3. CASE Solve \/ ComputeDemands \/ GenerateFloors \/ BuildDocument \/ ChangeFoundation
  BY <1>3, StacksStay
  DEF Solve, ComputeDemands, GenerateFloors, BuildDocument, ChangeFoundation
<1>4. CASE \E m \in Members : ShowMember(m)
  BY <1>4, StacksStay DEF ShowMember
<1>5. CASE \E f \in Repairs(outcomes) : Generate(f)
  BY <1>5, StacksStay, PushKeeps DEF Generate
<1>6. CASE \E s \in {"frame", "floor"}, accepted \in BOOLEAN : Review(s, accepted)
  BY <1>6, StacksStay DEF Review
<1>7. CASE \E found \in Found : \E f \in Repairs(Merged(found)) :
               \E fresh, detailed \in BOOLEAN : AutoDesign(found, f, fresh, detailed)
  BY <1>1, <1>7, AutoDesignPushes
<1>8. CASE \E m \in Members, bars \in Rebars \cup {None} : EditBars(m, bars)
  BY <1>8, PushKeeps DEF EditBars
<1>9. CASE Undo \/ Redo
  BY <1>9, ReturnKeeps
<1>10. CASE Reload
  <2>1. undo' = <<>> /\ redo' = <<>>
    BY <1>10 DEF Reload
  <2>2. <<>> \in Seq(Entries(P)) /\ Len(<<>>) = 0
    BY EmptySeq
  <2>3. 0 + 0 <= MaxHistory
    BY LimitsAssumption
  <2>4. QED
    BY <2>1, <2>2, <2>3 DEF HistoryIn
<1>11. CASE UNCHANGED vars
  BY <1>11, StacksStay DEF vars
<1>12. QED
  BY <1>2, <1>3, <1>4, <1>5, <1>6, <1>7, <1>8, <1>9, <1>10, <1>11 DEF Next

LEMMA ReturnIs ==
    ASSUME project \in Project, NEW entry \in Entries(Project), Returns(entry)
    PROVE  /\ project' \in Project
           /\ \/ entry.kind = "structural" /\ project' = entry.project /\ AnalysisInvalidated
                 /\ (entry.project.cages = project.cages \/ "undoCages" \in Races)
              \/ /\ project' = [project EXCEPT !.bars = entry.project.bars]
                 /\ project'.cages = project.cages /\ project'.bars = entry.project.bars
                 /\ cache' = [m \in Members |->
                        IF project'.bars[m] = project.bars[m] THEN cache[m] ELSE None]
                 /\ UNCHANGED <<demands, outcomes>>
                 /\ "undoRebar" \in Races \/ \A m \in Members :
                        outcomes[m] # None => project'.bars[m] = project.bars[m]
<1>1. entry.project \in Project
  BY DEF Entries
<1>2. entry.project.bars \in Bars
  BY <1>1, ProjectFields
<1>3. CASE entry.kind = "structural"
  BY <1>1, <1>3 DEF Returns
<1>4. CASE entry.kind # "structural"
  <2>1. /\ project' = [project EXCEPT !.bars = entry.project.bars]
        /\ cache' = [m \in Members |->
               IF entry.project.bars[m] = project.bars[m] THEN cache[m] ELSE None]
        /\ UNCHANGED <<demands, outcomes>>
        /\ "undoRebar" \in Races \/ \A m \in Members :
               outcomes[m] # None => entry.project.bars[m] = project.bars[m]
    BY <1>4 DEF Returns
  <2>2. project' \in Project /\ project'.bars = entry.project.bars
        /\ project'.cages = project.cages
    BY <1>2, <2>1, ProjectFields
  <2>3. QED
    BY <2>1, <2>2
<1>5. QED
  BY <1>3, <1>4

LEMMA RegisterUpdate ==
    ASSUME project \in Project, NEW s \in {"frame", "floor"}, NEW cage \in Cage
    PROVE  LET p == [project EXCEPT !.cages[s] = cage]
           IN  /\ p \in Project /\ p.bars = project.bars
               /\ \A t \in {"frame", "floor"} :
                      p.cages[t] = IF t = s THEN cage ELSE project.cages[t]
<1>1. project.cages \in Register
  BY ProjectFields
<1> DEFINE cages == [project.cages EXCEPT ![s] = cage]
<1>2. cages \in Register /\ \A t \in {"frame", "floor"} :
          cages[t] = IF t = s THEN cage ELSE project.cages[t]
  BY <1>1 DEF Register
<1> HIDE DEF cages
<1> DEFINE q == [project EXCEPT !.cages = cages]
<1>3. [project EXCEPT !.cages[s] = cage] = q
  BY Zenon DEF cages
<1>4. q \in Project /\ q.cages = cages /\ q.bars = project.bars
  BY <1>2 DEF Project
<1> HIDE DEF q
<1>5. \A t \in {"frame", "floor"} : q.cages[t] = IF t = s THEN cage ELSE project.cages[t]
  BY <1>2, <1>4
<1>6. QED
  BY <1>3, <1>4, <1>5, Zenon

LEMMA FloorsAre ==
    ASSUME project \in Project, DemandsTyped, GenerateFloors
    PROVE  /\ project' \in Project /\ project'.bars = project.bars
           /\ project'.cages["frame"] = project.cages["frame"]
           /\ project'.cages["floor"].revision = MaxPersistedRevision + 1
           /\ project'.cages["floor"] # None
<1> DEFINE cage == [steel |-> [m \in Members |-> None], demand |-> demandRevision,
                    forces |-> results, revision |-> NextDetailingRevision, review |-> 0]
<1>1. project' = [project EXCEPT !.cages["floor"] = cage] /\ results # None
  BY DEF GenerateFloors
<1>2. NextDetailingRevision \in Nat /\ NextDetailingRevision = MaxPersistedRevision + 1
  BY NextRevision
<1>3. cage \in Cage
  BY <1>1, <1>2 DEF DemandsTyped, Cage, Bars
<1>4. cage.revision = MaxPersistedRevision + 1 /\ cage # None
  BY <1>2, <1>3, NoneAssumption
<1> HIDE DEF cage
<1>5. QED
  BY <1>1, <1>3, <1>4, RegisterUpdate

\* A review changes nothing of a cage but the review.
LEMMA ReviewIs ==
    ASSUME project \in Project, NEW s \in {"frame", "floor"}, NEW accepted \in BOOLEAN,
           Review(s, accepted)
    PROVE  /\ project' \in Project /\ project'.bars = project.bars
           /\ \A t \in {"frame", "floor"} :
                  /\ project'.cages[t] = None <=> project.cages[t] = None
                  /\ project.cages[t] # None =>
                         /\ project'.cages[t].revision = project.cages[t].revision
                         /\ project'.cages[t].steel = project.cages[t].steel
                         /\ project'.cages[t].forces = project.cages[t].forces
                         /\ project'.cages[t].demand = project.cages[t].demand
<1> DEFINE cage == [project.cages[s] EXCEPT !.review = project.cages[s].revision]
<1>1. /\ project.cages[s] # None
      /\ project' = IF accepted
                    THEN [project EXCEPT !.cages[s].review = project.cages[s].revision]
                    ELSE project
  BY DEF Review
<1>2. project.cages[s] \in Cage
  BY <1>1, ProjectFields DEF Register
<1>3. /\ cage \in Cage
      /\ cage.revision = project.cages[s].revision /\ cage.steel = project.cages[s].steel
      /\ cage.forces = project.cages[s].forces /\ cage.demand = project.cages[s].demand
  BY <1>2 DEF Cage
<1>4. cage # None
  BY <1>3, NoneAssumption
<1>5. [project EXCEPT !.cages[s].review = project.cages[s].revision]
          = [project EXCEPT !.cages[s] = cage]
  BY Zenon
<1> HIDE DEF cage
<1>6. CASE accepted
  <2>1. project' = [project EXCEPT !.cages[s] = cage]
    BY <1>1, <1>5, <1>6
  <2>2. /\ project' \in Project /\ project'.bars = project.bars
        /\ \A t \in {"frame", "floor"} :
               project'.cages[t] = IF t = s THEN cage ELSE project.cages[t]
    BY <1>3, <2>1, RegisterUpdate
  <2>3. QED
    BY <1>1, <1>3, <1>4, <2>2
<1>7. CASE ~accepted
  BY <1>1, <1>7
<1>8. QED
  BY <1>6, <1>7

LEMMA EditBarsIs ==
    ASSUME project \in Project, NEW m \in Members, NEW bars \in Rebars \cup {None},
           EditBars(m, bars)
    PROVE  /\ project' \in Project /\ project'.cages = project.cages
           /\ project'.bars = [project.bars EXCEPT ![m] = bars]
<1>1. project' = [project EXCEPT !.bars[m] = bars]
  BY DEF EditBars
<1>2. [project EXCEPT !.bars[m] = bars] =
          [project EXCEPT !.bars = [project.bars EXCEPT ![m] = bars]]
  BY Zenon
<1>3. project.bars \in Bars
  BY ProjectFields
<1>4. [project.bars EXCEPT ![m] = bars] \in Bars
  BY <1>3 DEF Bars
<1>5. QED
  BY <1>1, <1>2, <1>4, ProjectFields

LEMMA InitTyped == Init => TypeInv
<1> SUFFICES ASSUME Init PROVE TypeInv
  OBVIOUS
<1>1. project \in Project
  <2>1. [m \in Members |-> None] \in Bars
    BY DEF Bars
  <2>2. NoCages \in Register
    BY DEF NoCages, Register
  <2>3. QED
    BY <2>1, <2>2 DEF Init, Project
<1>2. outcomes \in Outcomes
  BY DEF Init, Outcomes
<1>3. DemandsTyped
  BY DEF Init, DemandsTyped
<1>4. HistoryIn(Project)
  <2>1. <<>> \in Seq(Entries(Project)) /\ Len(<<>>) = 0
    BY EmptySeq
  <2>2. 0 + 0 <= MaxHistory
    BY LimitsAssumption
  <2>3. QED
    BY <2>1, <2>2 DEF Init, HistoryIn
<1>5. cache \in [Members -> Cached \cup {None}]
  BY DEF Init
<1>6. marks \in [Members -> {"auto", "manual", None}]
  BY DEF Init
<1>7. DocumentsTyped
  BY EmptySeq DEF Init, DocumentsTyped
<1>8. edits \in 0..MaxEdits
  BY LimitsAssumption DEF Init
<1>9. QED
  BY <1>1, <1>2, <1>3, <1>4, <1>5, <1>6, <1>7, <1>8 DEF TypeInv

LEMMA InvalidatedTyped ==
    ASSUME AnalysisInvalidated, DemandsTyped
    PROVE  DemandsTyped' /\ outcomes' \in Outcomes /\ cache' \in [Members -> Cached \cup {None}]
<1>1. DemandsTyped'
  BY DEF AnalysisInvalidated, DemandsTyped
<1>2. outcomes' \in Outcomes
  BY DEF AnalysisInvalidated, Outcomes
<1>3. cache' \in [Members -> Cached \cup {None}]
  BY DEF AnalysisInvalidated, NoCache
<1>4. QED
  BY <1>1, <1>2, <1>3

LEMMA ProjectStaysTyped ==
    ASSUME TypeInv, [Next]_vars
    PROVE  project' \in Project
<1>1. /\ project \in Project /\ outcomes \in Outcomes /\ DemandsTyped
      /\ results \in Nat \cup {None} /\ contexts \in Nat \cup {None} /\ demandRevision \in Nat
  BY DEF TypeInv, DemandsTyped
<1>2. CASE UNCHANGED project
  BY <1>1, <1>2
<1>3. CASE \E f \in Repairs(outcomes) : Generate(f)
  BY <1>1, <1>3, GenerateIs
<1>4. CASE GenerateFloors
  BY <1>1, <1>4, FloorsAre
<1>5. CASE \E s \in {"frame", "floor"}, accepted \in BOOLEAN : Review(s, accepted)
  BY <1>1, <1>5, ReviewIs
<1>6. CASE \E found \in Found : \E f \in Repairs(Merged(found)) :
               \E fresh, detailed \in BOOLEAN : AutoDesign(found, f, fresh, detailed)
  BY <1>1, <1>6, AutoDesignIs
<1>7. CASE \E m \in Members, bars \in Rebars \cup {None} : EditBars(m, bars)
  BY <1>1, <1>7, EditBarsIs
<1>8. CASE Undo \/ Redo
  <2>1. \E entry \in Entries(Project) : Returns(entry)
    BY <1>1, <1>8, ReturnKeeps DEF TypeInv
  <2>2. QED
    BY <1>1, <2>1, ReturnIs
<1>9. EditStructure \/ Solve \/ ComputeDemands \/ (\E m \in Members : ShowMember(m))
          \/ BuildDocument \/ ChangeFoundation \/ Reload \/ UNCHANGED vars
      => UNCHANGED project
  BY DEF EditStructure, Solve, ComputeDemands, ShowMember, BuildDocument, ChangeFoundation,
         Reload, vars
<1>10. QED
  BY <1>2, <1>3, <1>4, <1>5, <1>6, <1>7, <1>8, <1>9 DEF Next

LEMMA DemandsStayTyped ==
    ASSUME TypeInv, [Next]_vars
    PROVE  DemandsTyped' /\ outcomes' \in Outcomes
<1>1. /\ project \in Project /\ outcomes \in Outcomes /\ DemandsTyped
      /\ results \in Nat \cup {None} /\ contexts \in Nat \cup {None} /\ demandRevision \in Nat
  BY DEF TypeInv, DemandsTyped
<1>2. CASE UNCHANGED <<demands, outcomes>>
  BY <1>1, <1>2 DEF demands, DemandsTyped
<1>3. CASE AnalysisInvalidated
  BY <1>1, <1>3, InvalidatedTyped
<1>4. CASE Solve \/ ComputeDemands
  BY <1>1, <1>4 DEF Solve, ComputeDemands, SetDemandData, DemandsTyped
<1>5. CASE \E f \in Repairs(outcomes) : Generate(f)
  <2>1. outcomes' \in Outcomes
    BY <1>1, <1>5, GenerateIs
  <2>2. UNCHANGED demands
    BY <1>5 DEF Generate
  <2>3. QED
    BY <1>1, <2>1, <2>2 DEF demands, DemandsTyped
<1>6. CASE \E found \in Found : \E f \in Repairs(Merged(found)) :
               \E fresh, detailed \in BOOLEAN : AutoDesign(found, f, fresh, detailed)
  <2>1. outcomes' \in Outcomes /\ contexts' \in Nat /\ demandRevision' \in Nat
    BY <1>1, <1>6, AutoDesignIs
  <2>2. UNCHANGED <<results, solveGeneration>>
    BY <1>6 DEF AutoDesign
  <2>3. QED
    BY <1>1, <2>1, <2>2 DEF DemandsTyped
<1>7. CASE Undo \/ Redo
  <2>1. \E entry \in Entries(Project) : Returns(entry)
    BY <1>1, <1>7, ReturnKeeps DEF TypeInv
  <2>2. AnalysisInvalidated \/ UNCHANGED <<demands, outcomes>>
    BY <1>1, <2>1, ReturnIs
  <2>3. QED
    BY <1>2, <1>3, <2>2
<1>8. CASE Reload
  <2>1. outcomes' \in Outcomes
    BY <1>8 DEF Reload, Outcomes
  <2>2. QED
    BY <1>1, <1>8, <2>1 DEF Reload, DemandsTyped
<1>9. CASE EditStructure
  BY <1>3, <1>9 DEF EditStructure
<1>10. (\E m \in Members : ShowMember(m)) \/ GenerateFloors
          \/ (\E s \in {"frame", "floor"}, accepted \in BOOLEAN : Review(s, accepted))
          \/ BuildDocument \/ ChangeFoundation
          \/ (\E m \in Members, bars \in Rebars \cup {None} : EditBars(m, bars))
          \/ UNCHANGED vars
      => UNCHANGED <<demands, outcomes>>
  BY DEF ShowMember, GenerateFloors, Review, BuildDocument, ChangeFoundation, EditBars, vars
<1>11. QED
  BY <1>2, <1>4, <1>5, <1>6, <1>7, <1>8, <1>9, <1>10 DEF Next

\* A verdict enters the cache with the bars and the revision it is kept under.
LEMMA ShownIs ==
    ASSUME TypeInv, NEW m \in Members, ShowMember(m)
    PROVE  LET entry == [bars |-> project.bars[m], demand |-> demandRevision,
                         verdict |-> Provided(m)]
           IN  /\ entry \in Cached
               /\ cache' = [cache EXCEPT ![m] = entry]
<1>1. contexts # None /\ project.bars[m] # None
      /\ cache' = [cache EXCEPT ![m] =
             [bars |-> project.bars[m], demand |-> demandRevision, verdict |-> Provided(m)]]
  BY DEF ShowMember
<1>2. project.bars[m] \in Rebars /\ contexts \in Nat /\ demandRevision \in Nat
  BY <1>1, ProjectFields DEF TypeInv, DemandsTyped, Bars
<1>3. [bars |-> project.bars[m], forces |-> contexts] \in Verdict
  BY <1>2 DEF Verdict
<1>4. Hit(m) => cache[m].verdict \in Verdict
  BY DEF Hit, TypeInv, Cached
<1>5. Provided(m) \in Verdict
  BY <1>3, <1>4 DEF Provided
<1>6. QED
  BY <1>1, <1>2, <1>5 DEF Cached

LEMMA CacheStaysTyped ==
    ASSUME TypeInv, [Next]_vars
    PROVE  cache' \in [Members -> Cached \cup {None}]
<1>1. cache \in [Members -> Cached \cup {None}]
  BY DEF TypeInv
<1>2. CASE UNCHANGED cache
  BY <1>1, <1>2
<1>3. CASE cache' = NoCache
  BY <1>3 DEF NoCache
<1>4. CASE \E m \in Members : ShowMember(m)
  BY <1>1, <1>4, ShownIs
<1>5. CASE \E m \in Members, bars \in Rebars \cup {None} : EditBars(m, bars)
  BY <1>1, <1>5 DEF EditBars
<1>6. CASE Undo \/ Redo
  <2>1. PICK entry \in Entries(Project) : Returns(entry)
    BY <1>6, ReturnKeeps DEF TypeInv
  <2>2. project \in Project
    BY DEF TypeInv
  <2>3. \/ cache' = NoCache
        \/ cache' = [m \in Members |-> IF project'.bars[m] = project.bars[m] THEN cache[m]
                                       ELSE None]
    BY <2>1, <2>2, ReturnIs DEF AnalysisInvalidated
  <2>4. QED
    BY <1>1, <1>3, <2>3
<1>7. (\E f \in Repairs(outcomes) : Generate(f)) => UNCHANGED cache \/ cache' = NoCache
  BY DEF Generate
<1>8. (\E found \in Found : \E f \in Repairs(Merged(found)) :
              \E fresh, detailed \in BOOLEAN : AutoDesign(found, f, fresh, detailed))
      => cache' = NoCache
  BY DEF AutoDesign
<1>9. EditStructure \/ ComputeDemands \/ Reload => cache' = NoCache
  BY DEF EditStructure, ComputeDemands, Reload, AnalysisInvalidated
<1>10. Solve \/ GenerateFloors
          \/ (\E s \in {"frame", "floor"}, accepted \in BOOLEAN : Review(s, accepted))
          \/ BuildDocument \/ ChangeFoundation \/ UNCHANGED vars
      => UNCHANGED cache
  BY DEF Solve, GenerateFloors, Review, BuildDocument, ChangeFoundation, vars
<1>11. QED
  BY <1>2, <1>3, <1>4, <1>5, <1>6, <1>7, <1>8, <1>9, <1>10 DEF Next

LEMMA MarksStayTyped ==
    ASSUME TypeInv, [Next]_vars
    PROVE  marks' \in [Members -> {"auto", "manual", None}]
<1>1. marks \in [Members -> {"auto", "manual", None}]
  BY DEF TypeInv
<1>2. CASE UNCHANGED marks
  BY <1>1, <1>2
<1>3. CASE \E found \in Found : \E f \in Repairs(Merged(found)) :
               \E fresh, detailed \in BOOLEAN : AutoDesign(found, f, fresh, detailed)
  BY <1>1, <1>3 DEF AutoDesign
<1>4. CASE \E m \in Members, bars \in Rebars \cup {None} : EditBars(m, bars)
  BY <1>1, <1>4 DEF EditBars
<1>5. CASE Reload
  BY <1>5 DEF Reload
<1>6. EditStructure \/ Solve \/ ComputeDemands \/ (\E m \in Members : ShowMember(m))
          \/ (\E f \in Repairs(outcomes) : Generate(f)) \/ GenerateFloors
          \/ (\E s \in {"frame", "floor"}, accepted \in BOOLEAN : Review(s, accepted))
          \/ BuildDocument \/ ChangeFoundation \/ Undo \/ Redo \/ UNCHANGED vars
      => UNCHANGED marks
  BY DEF EditStructure, Solve, ComputeDemands, ShowMember, Generate, GenerateFloors, Review,
         BuildDocument, ChangeFoundation, Undo, Redo, vars
<1>7. QED
  BY <1>2, <1>3, <1>4, <1>5, <1>6 DEF Next

\* What a step does to the documents.
LEMMA DocumentSteps ==
    ASSUME [Next]_vars
    PROVE  \/ UNCHANGED documents
           \/ RetireDocument /\ UNCHANGED issued
           \/ BuildDocument
           \/ document' = None /\ superseded' = <<>> /\ documentRevision' = 1 /\ issued' = {}
<1> DEFINE Retires == RetireDocument /\ UNCHANGED issued
<1>1. EditStructure \/ Solve \/ ComputeDemands \/ (\E m \in Members : ShowMember(m))
          \/ (\E m \in Members, bars \in Rebars \cup {None} : EditBars(m, bars))
          \/ Undo \/ Redo \/ UNCHANGED vars
      => UNCHANGED documents
  BY DEF EditStructure, Solve, ComputeDemands, ShowMember, EditBars, Undo, Redo, vars
<1>2. (\E f \in Repairs(outcomes) : Generate(f)) \/ GenerateFloors
          \/ (\E s \in {"frame", "floor"}, accepted \in BOOLEAN : Review(s, accepted))
          \/ ChangeFoundation
      => Retires
  BY DEF Generate, GenerateFloors, Review, ChangeFoundation
<1>3. (\E found \in Found : \E f \in Repairs(Merged(found)) :
              \E fresh, detailed \in BOOLEAN : AutoDesign(found, f, fresh, detailed))
      => Retires \/ UNCHANGED documents
  BY DEF AutoDesign, documents
<1>4. Reload =>
          document' = None /\ superseded' = <<>> /\ documentRevision' = 1 /\ issued' = {}
  BY DEF Reload
<1>5. QED
  BY <1>1, <1>2, <1>3, <1>4 DEF Next

LEMMA DocumentsStayTyped ==
    ASSUME TypeInv, [Next]_vars
    PROVE  DocumentsTyped'
<1>1. DocumentsTyped /\ project \in Project
  BY DEF TypeInv
<1>2. CASE UNCHANGED documents
  BY <1>1, <1>2 DEF documents, DocumentsTyped
<1>3. CASE RetireDocument
  BY <1>1, <1>3 DEF RetireDocument, DocumentsTyped
<1>4. CASE BuildDocument
  <2>1. project.cages \in Register /\ project.bars \in Bars
    BY <1>1, ProjectFields
  <2>2. document' \in Document
    <3>1. results \in Nat \cup {None}
      BY DEF TypeInv, DemandsTyped
    <3>2. documentRevision \in Nat
      BY <1>1 DEF DocumentsTyped
    <3>3. QED
      BY <1>4, <2>1, <3>1, <3>2 DEF BuildDocument, Document
  <2>3. QED
    BY <1>1, <1>4, <2>2 DEF BuildDocument, DocumentsTyped
<1>5. CASE document' = None /\ superseded' = <<>> /\ documentRevision' = 1
  <2>1. <<>> \in Seq(Document)
    BY EmptySeq
  <2>2. QED
    BY <1>5, <2>1 DEF DocumentsTyped
<1>6. QED
  BY <1>2, <1>3, <1>4, <1>5, DocumentSteps

LEMMA EditsStayTyped ==
    ASSUME TypeInv, [Next]_vars
    PROVE  edits' \in 0..MaxEdits
<1>1. edits \in 0..MaxEdits /\ MaxEdits \in Nat
  BY LimitsAssumption DEF TypeInv
<1>2. EditStructure \/ Solve \/ ComputeDemands \/ GenerateFloors \/ ChangeFoundation \/ Reload
      => Edit
  BY DEF EditStructure, Solve, ComputeDemands, GenerateFloors, ChangeFoundation, Reload
<1>3. (\E f \in Repairs(outcomes) : Generate(f))
          \/ (\E s \in {"frame", "floor"}, accepted \in BOOLEAN : Review(s, accepted))
          \/ (\E m \in Members, bars \in Rebars \cup {None} : EditBars(m, bars))
      => Edit
  BY DEF Generate, Review, EditBars
<1>4. (\E found \in Found : \E f \in Repairs(Merged(found)) :
              \E fresh, detailed \in BOOLEAN : AutoDesign(found, f, fresh, detailed))
      => Edit
  BY DEF AutoDesign
<1>5. (\E m \in Members : ShowMember(m)) \/ BuildDocument \/ Undo \/ Redo \/ UNCHANGED vars
      => UNCHANGED edits
  BY DEF ShowMember, BuildDocument, Undo, Redo, vars
<1>6. Edit \/ UNCHANGED edits
  BY <1>2, <1>3, <1>4, <1>5 DEF Next
<1>7. QED
  BY <1>1, <1>6 DEF Edit

LEMMA NextTyped ==
    ASSUME TypeInv, [Next]_vars
    PROVE  TypeInv'
<1>1. HistoryIn(Project) /\ project \in Project
      /\ \A bars \in Bars : [project EXCEPT !.bars = bars] \in Project
  BY ProjectFields DEF TypeInv
<1>2. HistoryIn(Project)'
  BY <1>1, NextKeepsHistory
<1>3. project' \in Project
  BY ProjectStaysTyped
<1>4. DemandsTyped' /\ outcomes' \in Outcomes
  BY DemandsStayTyped
<1>5. cache' \in [Members -> Cached \cup {None}]
  BY CacheStaysTyped
<1>6. marks' \in [Members -> {"auto", "manual", None}]
  BY MarksStayTyped
<1>7. DocumentsTyped'
  BY DocumentsStayTyped
<1>8. edits' \in 0..MaxEdits
  BY EditsStayTyped
<1>9. QED
  BY <1>2, <1>3, <1>4, <1>5, <1>6, <1>7, <1>8 DEF TypeInv

LEMMA TypesHold == Spec => []TypeInv
<1>1. Init => TypeInv
  BY InitTyped
<1>2. TypeInv /\ [Next]_vars => TypeInv'
  BY NextTyped
<1>3. QED
  BY <1>1, <1>2, PTL DEF Spec

LEMMA TypesAreOK == ASSUME TypeInv PROVE TypeOK
<1>1. /\ undo \in Seq(Entries(Project)) /\ redo \in Seq(Entries(Project))
      /\ Len(undo) + Len(redo) <= MaxHistory
  BY DEF TypeInv, HistoryIn
<1>2. Entries(Project) = Entry
  BY DEF Entries, Entry
<1>3. (\A i \in DOMAIN undo : undo[i] \in Entry) /\ (\A i \in DOMAIN redo : redo[i] \in Entry)
  BY <1>1, <1>2, ElementOfSeq, LenProperties
<1>4. Len(undo) \in Nat /\ Len(redo) \in Nat /\ MaxHistory \in Nat
  BY <1>1, LimitsAssumption
<1>5. Len(undo) <= MaxHistory
  BY <1>1, <1>4
<1>6. superseded \in Seq(Document)
  BY DEF TypeInv, DocumentsTyped
<1>7. \A i \in DOMAIN superseded : superseded[i] \in Document
  BY <1>6, ElementOfSeq, LenProperties
<1>8. outcomes \in [Members -> SearchOutcomes \cup {None}]
  BY DEF TypeInv, Outcomes
<1>9. QED
  BY <1>3, <1>5, <1>7, <1>8 DEF TypeInv, TypeOK, DemandsTyped, DocumentsTyped

\* Every variable of the design flow keeps its type, and the stack of undo its limit, for any
\* frame, arrangements of bars and number of edits.  (verification.svelte.ts,
\* detailing.svelte.ts and history.svelte.ts.)
THEOREM DesignTypeCorrect == Spec => []TypeOK
<1>1. TypeInv => TypeOK
  BY TypesAreOK
<1>2. QED
  BY <1>1, TypesHold, PTL

-----------------------------------------------------------------------------
(***************************************************************************)
(* The verdicts shown with the members.                                    *)
(***************************************************************************)

\* Demands are read once per revision: a verdict in the cache under the revision there is now
\* is of the forces there are now.
VerdictOf(m) ==
    cache[m] # None =>
        /\ cache[m].demand <= demandRevision
        /\ cache[m].demand = demandRevision /\ contexts # None =>
              cache[m].verdict = [bars |-> cache[m].bars, forces |-> contexts]

CacheIsOfTheDemands == \A m \in Members : VerdictOf(m)

\* The demands change only in steps that empty the cache.
LEMMA CacheSteps ==
    ASSUME TypeInv, [Next]_vars
    PROVE  \/ cache' = NoCache
           \/ /\ UNCHANGED <<contexts, demandRevision>>
              /\ \A m \in Members : cache'[m] = cache[m] \/ cache'[m] = None
           \/ UNCHANGED <<contexts, demandRevision>> /\ \E m \in Members : ShowMember(m)
<1> DEFINE Forgets == \A m \in Members : cache'[m] = cache[m] \/ cache'[m] = None
<1>1. CASE \E m \in Members : ShowMember(m)
  BY <1>1 DEF ShowMember, demands
<1>2. CASE \E m \in Members, bars \in Rebars \cup {None} : EditBars(m, bars)
  <2>1. UNCHANGED <<contexts, demandRevision>>
    BY <1>2 DEF EditBars, demands
  <2>2. cache \in [Members -> Cached \cup {None}]
    BY DEF TypeInv
  <2>3. Forgets
    BY <1>2, <2>2 DEF EditBars
  <2>4. QED
    BY <2>1, <2>3
<1>3. CASE Undo \/ Redo
  <2>1. PICK entry \in Entries(Project) : Returns(entry)
    BY <1>3, ReturnKeeps DEF TypeInv
  <2>2. project \in Project
    BY DEF TypeInv
  <2>3. \/ cache' = NoCache
        \/ /\ UNCHANGED demands
           /\ cache' = [m \in Members |-> IF project'.bars[m] = project.bars[m] THEN cache[m]
                                          ELSE None]
    BY <2>1, <2>2, ReturnIs DEF AnalysisInvalidated
  <2>4. QED
    BY <2>3 DEF demands
<1>4. (\E f \in Repairs(outcomes) : Generate(f)) =>
          cache' = NoCache \/ UNCHANGED <<cache, demands>>
  BY DEF Generate
<1>5. (\E found \in Found : \E f \in Repairs(Merged(found)) :
              \E fresh, detailed \in BOOLEAN : AutoDesign(found, f, fresh, detailed))
      => cache' = NoCache
  BY DEF AutoDesign
<1>6. EditStructure \/ ComputeDemands \/ Reload => cache' = NoCache
  BY DEF EditStructure, ComputeDemands, Reload, AnalysisInvalidated
<1>7. GenerateFloors
          \/ (\E s \in {"frame", "floor"}, accepted \in BOOLEAN : Review(s, accepted))
          \/ BuildDocument \/ ChangeFoundation \/ UNCHANGED vars
      => UNCHANGED <<cache, demands>>
  BY DEF GenerateFloors, Review, BuildDocument, ChangeFoundation, vars
<1>8. Solve => UNCHANGED <<cache, contexts, demandRevision>>
  BY DEF Solve
<1>9. UNCHANGED <<cache, demands>> => UNCHANGED <<contexts, demandRevision>> /\ Forgets
  BY DEF demands
<1>10. UNCHANGED <<cache, contexts, demandRevision>>
           => UNCHANGED <<contexts, demandRevision>> /\ Forgets
  OBVIOUS
<1> HIDE DEF Forgets
<1>11. QED
  BY <1>1, <1>2, <1>3, <1>4, <1>5, <1>6, <1>7, <1>8, <1>9, <1>10 DEF Next, Forgets

LEMMA CacheStaysOfTheDemands ==
    ASSUME TypeInv, CacheIsOfTheDemands, [Next]_vars
    PROVE  CacheIsOfTheDemands'
<1>1. CASE cache' = NoCache
  BY <1>1 DEF NoCache, CacheIsOfTheDemands, VerdictOf
<1>2. CASE /\ UNCHANGED <<contexts, demandRevision>>
           /\ \A m \in Members : cache'[m] = cache[m] \/ cache'[m] = None
  BY <1>2 DEF CacheIsOfTheDemands, VerdictOf
<1>3. ASSUME NEW m \in Members, ShowMember(m), UNCHANGED <<contexts, demandRevision>>
      PROVE  CacheIsOfTheDemands'
  <2> DEFINE entry == [bars |-> project.bars[m], demand |-> demandRevision,
                       verdict |-> Provided(m)]
  <2>1. /\ cache' = [cache EXCEPT ![m] = entry] /\ entry \in Cached
        /\ cache \in [Members -> Cached \cup {None}] /\ demandRevision \in Nat
    BY <1>3, ShownIs DEF TypeInv, DemandsTyped
  <2>2. Provided(m) = [bars |-> project.bars[m], forces |-> contexts]
    <3>1. contexts # None /\ VerdictOf(m)
      BY <1>3 DEF ShowMember, CacheIsOfTheDemands
    <3>2. CASE Hit(m)
      BY <3>1, <3>2 DEF VerdictOf, Hit, Provided
    <3>3. CASE ~Hit(m)
      BY <3>3 DEF Provided
    <3>4. QED
      BY <3>2, <3>3
  <2>3. /\ entry.bars = project.bars[m] /\ entry.demand = demandRevision
        /\ entry.verdict = [bars |-> entry.bars, forces |-> contexts]
    BY <2>2
  <2> HIDE DEF entry
  <2>4. \A n \in Members : cache'[n] = IF n = m THEN entry ELSE cache[n]
    BY <2>1
  <2>5. ASSUME NEW n \in Members PROVE VerdictOf(n)'
    <3>1. VerdictOf(n)
      BY DEF CacheIsOfTheDemands
    <3>2. CASE n = m
      BY <1>3, <2>1, <2>3, <2>4, <3>2 DEF VerdictOf
    <3>3. CASE n # m
      BY <1>3, <2>4, <3>1, <3>3 DEF VerdictOf
    <3>4. QED
      BY <3>2, <3>3
  <2>6. QED
    BY <2>5 DEF CacheIsOfTheDemands
<1>4. QED
  BY <1>1, <1>2, <1>3, CacheSteps

\* A verdict shown with a member is of the bars it has and of the newest published forces,
\* however edits, undos, solves and runs went before; no circumstance is left out.
\* (verification.svelte.ts, providedFor and getDisplayStatus.)
THEOREM DisplayStaysHonest == Spec => []DisplayIsHonest
<1>1. Init => CacheIsOfTheDemands
  BY DEF Init, CacheIsOfTheDemands, VerdictOf
<1>2. TypeInv /\ CacheIsOfTheDemands /\ [Next]_vars => CacheIsOfTheDemands'
  BY CacheStaysOfTheDemands
<1>3. CacheIsOfTheDemands => DisplayIsHonest
  BY DEF CacheIsOfTheDemands, VerdictOf, DisplayIsHonest, ShowsVerdict, ContextStale, Provided, Hit
<1>4. QED
  BY <1>1, <1>2, <1>3, TypesHold, PTL DEF Spec

-----------------------------------------------------------------------------
(***************************************************************************)
(* The cages and the demands they were drawn for.                          *)
(***************************************************************************)

\* The projects whose frame was drawn for demands up to those of revision n, and for the
\* forces c if they are of that revision.
Drawn(n, c) ==
    {p \in Project : LET cage == p.cages["frame"] IN
        cage # None => /\ cage.demand <= n
                       /\ cage.demand = n /\ c # None => cage.forces = c}

FramesAreOfTheDemands ==
    /\ project \in Drawn(demandRevision, contexts)
    /\ HistoryIn(Drawn(demandRevision, contexts))

LEMMA DrawnGrows ==
    ASSUME NEW n \in Nat, NEW c, NEW m, NEW d,
           (m = n /\ (d = c \/ d = None)) \/ m = n + 1
    PROVE  Drawn(n, c) \subseteq Drawn(m, d)
<1> SUFFICES ASSUME NEW p \in Drawn(n, c), p.cages["frame"] # None
             PROVE  /\ p.cages["frame"].demand <= m
                    /\ p.cages["frame"].demand = m /\ d # None => p.cages["frame"].forces = d
  BY DEF Drawn
<1>1. p \in Project
  BY DEF Drawn
<1>2. p.cages["frame"].demand \in Nat
  BY <1>1, ProjectFields DEF Register, Cage
<1>3. /\ p.cages["frame"].demand <= n
      /\ p.cages["frame"].demand = n /\ c # None => p.cages["frame"].forces = c
  BY DEF Drawn
<1>4. QED
  BY <1>2, <1>3

LEMMA DrawnForAnyBars ==
    ASSUME NEW n, NEW c, NEW p \in Drawn(n, c), NEW q \in Project, q.cages = p.cages
    PROVE  q \in Drawn(n, c)
  BY DEF Drawn

\* How the demands change: not at all, with a new revision, or the contexts go.
LEMMA DemandSteps ==
    ASSUME TypeInv, [Next]_vars, ~Reload
    PROVE  \/ demandRevision' = demandRevision /\ (contexts' = contexts \/ contexts' = None)
           \/ demandRevision' = demandRevision + 1
<1>1. CASE Undo \/ Redo
  <2>1. PICK entry \in Entries(Project) : Returns(entry)
    BY <1>1, ReturnKeeps DEF TypeInv
  <2>2. project \in Project
    BY DEF TypeInv
  <2>3. AnalysisInvalidated \/ UNCHANGED demands
    BY <2>1, <2>2, ReturnIs
  <2>4. QED
    BY <2>3 DEF AnalysisInvalidated, demands
<1>2. (\E found \in Found : \E f \in Repairs(Merged(found)) :
              \E fresh, detailed \in BOOLEAN : AutoDesign(found, f, fresh, detailed))
      => demandRevision' = demandRevision + 1 \/ UNCHANGED <<contexts, demandRevision>>
  BY DEF AutoDesign, SetDemandData
<1>3. EditStructure => UNCHANGED demandRevision /\ contexts' = None
  BY DEF EditStructure, AnalysisInvalidated
<1>4. ComputeDemands => demandRevision' = demandRevision + 1
  BY DEF ComputeDemands, SetDemandData
<1>5. Solve \/ (\E m \in Members : ShowMember(m))
          \/ (\E f \in Repairs(outcomes) : Generate(f)) \/ GenerateFloors
          \/ (\E s \in {"frame", "floor"}, accepted \in BOOLEAN : Review(s, accepted))
          \/ BuildDocument \/ ChangeFoundation
          \/ (\E m \in Members, bars \in Rebars \cup {None} : EditBars(m, bars))
          \/ UNCHANGED vars
      => UNCHANGED <<contexts, demandRevision>>
  BY DEF Solve, ShowMember, Generate, GenerateFloors, Review, BuildDocument, ChangeFoundation,
         EditBars, demands, vars
<1>6. QED
  BY <1>1, <1>2, <1>3, <1>4, <1>5 DEF Next

\* A step leaves the frame as it was, takes it from an entry, or draws it for the demands
\* there are after it.
LEMMA FrameSteps ==
    ASSUME TypeInv, [Next]_vars, NEW P, HistoryIn(P), project \in P
    PROVE  LET before == project.cages["frame"]
               after == project'.cages["frame"]
           IN  \/ after = None
               \/ before # None /\ after.demand = before.demand /\ after.forces = before.forces
               \/ after.demand = demandRevision' /\ after.forces = contexts'
               \/ project' \in P
<1> DEFINE before == project.cages["frame"]
           after == project'.cages["frame"]
           Same == before # None /\ after.demand = before.demand /\ after.forces = before.forces
           New == after.demand = demandRevision' /\ after.forces = contexts'
<1>1. /\ project \in Project /\ outcomes \in Outcomes /\ DemandsTyped
      /\ results \in Nat \cup {None} /\ contexts \in Nat \cup {None} /\ demandRevision \in Nat
  BY DEF TypeInv, DemandsTyped
<1>2. project'.cages = project.cages => after = None \/ Same
  OBVIOUS
<1>3. CASE \E f \in Repairs(outcomes) : Generate(f)
  <2>1. PICK f \in Repairs(outcomes) : Generate(f)
    BY <1>3
  <2>2. after = FrameCage(outcomes', contexts, demandRevision) /\ outcomes' \in Outcomes
    BY <1>1, <2>1, GenerateIs
  <2>3. after # None => after.demand = demandRevision /\ after.forces = contexts
    BY <1>1, <2>2, FrameCageIs
  <2>4. UNCHANGED <<contexts, demandRevision>>
    BY <2>1 DEF Generate, demands
  <2>5. QED
    BY <2>3, <2>4
<1>4. CASE GenerateFloors
  <2>1. after = before
    BY <1>1, <1>4, FloorsAre
  <2>2. QED
    BY <2>1
<1>5. CASE \E s \in {"frame", "floor"}, accepted \in BOOLEAN : Review(s, accepted)
  <2>1. /\ after = None <=> before = None
        /\ before # None => after.forces = before.forces /\ after.demand = before.demand
    BY <1>1, <1>5, ReviewIs
  <2>2. QED
    BY <2>1
<1>6. CASE \E found \in Found : \E f \in Repairs(Merged(found)) :
               \E fresh, detailed \in BOOLEAN : AutoDesign(found, f, fresh, detailed)
  <2>1. PICK found \in Found : \E f \in Repairs(Merged(found)) :
            \E fresh, detailed \in BOOLEAN : AutoDesign(found, f, fresh, detailed)
    BY <1>6
  <2>2. PICK f \in Repairs(Merged(found)) :
            \E fresh, detailed \in BOOLEAN : AutoDesign(found, f, fresh, detailed)
    BY <2>1
  <2>3. PICK fresh \in BOOLEAN, detailed \in BOOLEAN : AutoDesign(found, f, fresh, detailed)
    BY <2>2
  <2>4. /\ outcomes' \in Outcomes /\ contexts' \in Nat /\ demandRevision' \in Nat
        /\ ~detailed => project'.cages = project.cages
        /\ detailed => after = FrameCage(outcomes', contexts', demandRevision')
    BY <1>1, <2>3, AutoDesignIs
  <2>5. detailed /\ after # None => New
    BY <1>1, <2>4, FrameCageIs
  <2>6. QED
    BY <1>2, <2>4, <2>5
<1>7. CASE \E m \in Members, bars \in Rebars \cup {None} : EditBars(m, bars)
  <2>1. project'.cages = project.cages
    BY <1>1, <1>7, EditBarsIs
  <2>2. QED
    BY <1>2, <2>1
<1>8. CASE Undo \/ Redo
  <2>1. PICK entry \in Entries(P) : Returns(entry)
    BY <1>8, ReturnKeeps
  <2>2. entry.project \in P
    BY DEF Entries
  <2>3. project' = entry.project \/ project' = [project EXCEPT !.bars = entry.project.bars]
    BY <2>1 DEF Returns
  <2>4. [project EXCEPT !.bars = entry.project.bars].cages = project.cages
    BY <1>1 DEF Project
  <2>5. QED
    BY <1>2, <2>2, <2>3, <2>4
<1>9. EditStructure \/ Solve \/ ComputeDemands \/ (\E m \in Members : ShowMember(m))
          \/ BuildDocument \/ ChangeFoundation \/ Reload \/ UNCHANGED vars
      => UNCHANGED project
  BY DEF EditStructure, Solve, ComputeDemands, ShowMember, BuildDocument, ChangeFoundation,
         Reload, vars
<1> HIDE DEF Same, New
<1>10. QED
  BY <1>2, <1>3, <1>4, <1>5, <1>6, <1>7, <1>8, <1>9 DEF Next, Same, New

LEMMA FramesStay ==
    ASSUME TypeInv, FramesAreOfTheDemands, ForcesStayNumbered, [Next]_vars
    PROVE  FramesAreOfTheDemands'
<1>1. /\ project \in Project /\ demandRevision \in Nat /\ project' \in Project
      /\ demandRevision' \in Nat
  BY ProjectStaysTyped, DemandsStayTyped DEF TypeInv, DemandsTyped
<1>2. ASSUME NEW P, P = Drawn(demandRevision, contexts)
      PROVE  /\ undo' \in Seq(Entries(P)) /\ redo' \in Seq(Entries(P))
             /\ Len(undo') + Len(redo') <= MaxHistory
  <2>1. project \in P /\ HistoryIn(P)
    BY <1>2 DEF FramesAreOfTheDemands
  <2>2. \A bars \in Bars : [project EXCEPT !.bars = bars] \in P
    BY <1>1, <1>2, <2>1, ProjectFields, DrawnForAnyBars
  <2>3. HistoryIn(P)'
    BY <2>1, <2>2, NextKeepsHistory
  <2>4. QED
    BY <2>3 DEF HistoryIn
<1>3. CASE Reload
  <2>1. /\ project' = project /\ project.cages["frame"] = None
        /\ undo' = <<>> /\ redo' = <<>>
    BY <1>3 DEF Reload, ForcesStayNumbered
  <2>2. project' \in Drawn(demandRevision', contexts')
    BY <1>1, <2>1 DEF Drawn
  <2>3. <<>> \in Seq(Entries(Drawn(demandRevision', contexts'))) /\ Len(<<>>) = 0
    BY EmptySeq
  <2>4. 0 + 0 <= MaxHistory
    BY LimitsAssumption
  <2>5. HistoryIn(Drawn(demandRevision, contexts))'
    BY <2>1, <2>3, <2>4 DEF HistoryIn
  <2>6. QED
    BY <2>2, <2>5 DEF FramesAreOfTheDemands
<1>4. CASE ~Reload
  <2>1. \/ demandRevision' = demandRevision /\ (contexts' = contexts \/ contexts' = None)
        \/ demandRevision' = demandRevision + 1
    BY <1>4, DemandSteps
  <2>2. Drawn(demandRevision, contexts) \subseteq Drawn(demandRevision', contexts')
    BY <1>1, <2>1, DrawnGrows
  <2>3. project' \in Drawn(demandRevision', contexts')
    <3> DEFINE before == project.cages["frame"]
               after == project'.cages["frame"]
    <3>1. ASSUME NEW P, P = Drawn(demandRevision, contexts)
          PROVE  \/ after = None
                 \/ before # None /\ after.demand = before.demand /\ after.forces = before.forces
                 \/ after.demand = demandRevision' /\ after.forces = contexts'
                 \/ project' \in P
      BY <3>1, FrameSteps DEF FramesAreOfTheDemands
    <3>2. project \in Drawn(demandRevision', contexts')
      BY <2>2 DEF FramesAreOfTheDemands
    <3>3. before # None => /\ before.demand <= demandRevision'
                           /\ before.demand = demandRevision' /\ contexts' # None
                                 => before.forces = contexts'
      BY <3>2 DEF Drawn
    <3>4. demandRevision' <= demandRevision'
      BY <1>1
    <3>5. project' \in Drawn(demandRevision, contexts)
              => project' \in Drawn(demandRevision', contexts')
      BY <2>2
    <3>6. (after # None => /\ after.demand <= demandRevision'
                           /\ after.demand = demandRevision' /\ contexts' # None
                                 => after.forces = contexts')
              => project' \in Drawn(demandRevision', contexts')
      BY <1>1 DEF Drawn
    <3> HIDE DEF before, after
    <3>7. QED
      BY <3>1, <3>3, <3>4, <3>5, <3>6
  <2>4. ASSUME NEW P, P = Drawn(demandRevision, contexts),
               NEW Q, Q = Drawn(demandRevision', contexts')
        PROVE  /\ undo' \in Seq(Entries(Q)) /\ redo' \in Seq(Entries(Q))
               /\ Len(undo') + Len(redo') <= MaxHistory
    <3>1. Entries(P) \subseteq Entries(Q)
      BY <2>2, <2>4 DEF Entries
    <3>2. QED
      BY <1>2, <2>4, <3>1
  <2>5. HistoryIn(Drawn(demandRevision, contexts))'
    BY <2>4 DEF HistoryIn
  <2>6. QED
    BY <2>3, <2>5 DEF FramesAreOfTheDemands
<1>5. QED
  BY <1>3, <1>4

\* A frame that reads current, while there are demands, was drawn for those demands, through
\* any solves, undos and redos, as long as no session starts over with a frame that an
\* earlier one numbered.  (detailing.svelte.ts, the demand revision of an assembly.)
THEOREM FreshCagesAreOfTheDemands == ForcesStayNumbered /\ Spec => []FreshCageIsOfTheDemands
<1>1. Init => FramesAreOfTheDemands
  <2> SUFFICES ASSUME Init PROVE FramesAreOfTheDemands
    OBVIOUS
  <2>1. project \in Project /\ HistoryIn(Project)
    BY InitTyped DEF TypeInv
  <2>2. project.cages["frame"] = None /\ undo = <<>> /\ redo = <<>>
    BY DEF Init, NoCages
  <2>3. project \in Drawn(demandRevision, contexts)
    BY <2>1, <2>2 DEF Drawn
  <2>4. <<>> \in Seq(Entries(Drawn(demandRevision, contexts))) /\ Len(<<>>) = 0
    BY EmptySeq
  <2>5. 0 + 0 <= MaxHistory
    BY LimitsAssumption
  <2>6. HistoryIn(Drawn(demandRevision, contexts))
    BY <2>2, <2>4, <2>5 DEF HistoryIn
  <2>7. QED
    BY <2>3, <2>6 DEF FramesAreOfTheDemands
<1>2. ForcesStayNumbered /\ TypeInv /\ FramesAreOfTheDemands /\ [Next]_vars
          => FramesAreOfTheDemands'
  BY FramesStay
<1>3. FramesAreOfTheDemands => FreshCageIsOfTheDemands
  BY DEF FramesAreOfTheDemands, Drawn, FreshCageIsOfTheDemands
<1>4. ASSUME ForcesStayNumbered PROVE Spec => []FreshCageIsOfTheDemands
  BY <1>1, <1>2, <1>3, <1>4, TypesHold, PTL DEF Spec
<1>5. QED
  BY <1>4

-----------------------------------------------------------------------------
(***************************************************************************)
(* The bars that count as designed.                                        *)
(***************************************************************************)

DesignedIs(m) ==
    marks[m] = "auto" /\ outcomes[m] # None /\ outcomes[m].steel # None =>
        project.bars[m] = outcomes[m].steel

LEMMA GenerateKeepsDesigned ==
    ASSUME TypeInv, DesignedBarsAreTheOutcome, NEW f \in Repairs(outcomes), Generate(f)
    PROVE  DesignedBarsAreTheOutcome'
<1>1. /\ project \in Project /\ outcomes \in Outcomes
      /\ contexts \in Nat \cup {None} /\ demandRevision \in Nat
  BY DEF TypeInv, DemandsTyped
<1>2. /\ outcomes' = Repaired(outcomes, f) /\ project'.bars = Written(project.bars, f)
      /\ marks' = marks
  BY <1>1, GenerateIs DEF Generate
<1>3. SUFFICES ASSUME NEW m \in Members PROVE DesignedIs(m)'
  BY DEF DesignedBarsAreTheOutcome, DesignedIs
<1>4. DesignedIs(m)
  BY DEF DesignedBarsAreTheOutcome, DesignedIs
<1>5. project'.bars[m] = IF f[m] = None THEN project.bars[m] ELSE f[m]
  BY <1>2 DEF Written
<1>6. /\ f[m] = None => outcomes'[m] = outcomes[m]
      /\ f[m] # None => outcomes'[m].steel = f[m]
  BY <1>1, <1>2, RepairedIs
<1>7. QED
  BY <1>2, <1>4, <1>5, <1>6 DEF DesignedIs

LEMMA AutoDesignKeepsDesigned ==
    ASSUME TypeInv, DesignedBarsAreTheOutcome,
           NEW found \in Found, NEW f \in Repairs(Merged(found)),
           NEW fresh \in BOOLEAN, NEW detailed \in BOOLEAN,
           AutoDesign(found, f, fresh, detailed)
    PROVE  DesignedBarsAreTheOutcome'
<1> DEFINE steel == SteelOf(found)
           bars == Written(project.bars, steel)
<1>1. /\ project \in Project /\ outcomes \in Outcomes
      /\ results \in Nat \cup {None} /\ contexts \in Nat \cup {None} /\ demandRevision \in Nat
  BY DEF TypeInv, DemandsTyped
<1>2. /\ outcomes' = Repaired(Merged(found), f)
      /\ project'.bars = Written(bars, f)
      /\ marks' = [m \in Members |-> IF steel[m] = None THEN marks[m] ELSE "auto"]
  BY <1>1, AutoDesignIs
<1>3. SUFFICES ASSUME NEW m \in Members PROVE DesignedIs(m)'
  BY DEF DesignedBarsAreTheOutcome, DesignedIs
<1>4. DesignedIs(m)
  BY DEF DesignedBarsAreTheOutcome, DesignedIs
<1>5. /\ steel[m] = IF found[m] = None THEN None ELSE found[m].steel
      /\ bars[m] = IF steel[m] = None THEN project.bars[m] ELSE steel[m]
  BY DEF SteelOf, Written
<1>6. Merged(found)[m] = IF found[m] = None THEN outcomes[m] ELSE found[m]
  BY <1>1, MergedIs
<1>7. marks'[m] = IF steel[m] = None THEN marks[m] ELSE "auto"
  BY <1>2
<1> HIDE DEF bars, steel
<1>8. project'.bars[m] = IF f[m] = None THEN bars[m] ELSE f[m]
  BY <1>2 DEF Written
<1>9. /\ f[m] = None => outcomes'[m] = Merged(found)[m]
      /\ f[m] # None => outcomes'[m].steel = f[m]
  <2>1. Merged(found) \in Outcomes
    BY <1>1, MergedIs
  <2> DEFINE outs == Merged(found)
  <2> HIDE DEF outs
  <2>2. outs \in Outcomes /\ f \in Repairs(outs) /\ outcomes' = Repaired(outs, f)
    BY <1>2, <2>1 DEF outs
  <2>3. /\ f[m] = None => outcomes'[m] = outs[m]
        /\ f[m] # None => outcomes'[m].steel = f[m]
    BY <2>2, RepairedIs
  <2>4. QED
    BY <2>3 DEF outs
<1>10. CASE f[m] # None
  BY <1>8, <1>9, <1>10 DEF DesignedIs
<1>11. CASE f[m] = None /\ found[m] = None
  BY <1>4, <1>5, <1>6, <1>7, <1>8, <1>9, <1>11 DEF DesignedIs
<1>12. CASE f[m] = None /\ found[m] # None
  BY <1>5, <1>6, <1>8, <1>9, <1>12 DEF DesignedIs
<1>13. QED
  BY <1>10, <1>11, <1>12

LEMMA DesignedStays ==
    ASSUME TypeInv, DesignedBarsAreTheOutcome, OutcomesFollowTheBars, [Next]_vars
    PROVE  DesignedBarsAreTheOutcome'
<1>1. project \in Project /\ DemandsTyped
      /\ marks \in [Members -> {"auto", "manual", None}]
  BY DEF TypeInv
<1>2. CASE UNCHANGED <<outcomes, marks>> /\ project'.bars = project.bars
  BY <1>2 DEF DesignedBarsAreTheOutcome
<1>3. CASE outcomes' = [m \in Members |-> None]
  BY <1>3 DEF DesignedBarsAreTheOutcome
<1>4. CASE \E f \in Repairs(outcomes) : Generate(f)
  BY <1>4, GenerateKeepsDesigned
<1>5. CASE \E found \in Found : \E f \in Repairs(Merged(found)) :
               \E fresh, detailed \in BOOLEAN : AutoDesign(found, f, fresh, detailed)
  BY <1>5, AutoDesignKeepsDesigned
<1>6. CASE GenerateFloors \/ \E s \in {"frame", "floor"}, accepted \in BOOLEAN : Review(s, accepted)
  <2>1. project'.bars = project.bars
    BY <1>1, <1>6, FloorsAre, ReviewIs
  <2>2. UNCHANGED <<outcomes, marks>>
    BY <1>6 DEF GenerateFloors, Review
  <2>3. QED
    BY <1>2, <2>1, <2>2
<1>7. CASE \E m \in Members, bars \in Rebars \cup {None} : EditBars(m, bars)
  <2>1. PICK m \in Members, bars \in Rebars \cup {None} : EditBars(m, bars)
    BY <1>7
  <2>2. project'.bars = [project.bars EXCEPT ![m] = bars] /\ project.bars \in Bars
    BY <1>1, <2>1, EditBarsIs, ProjectFields
  <2>3. /\ marks' = [marks EXCEPT ![m] = IF bars = None THEN None ELSE "manual"]
        /\ outcomes' = outcomes
    BY <2>1 DEF EditBars
  <2>4. marks'[m] # "auto"
    BY <1>1, <2>3, NoneAssumption
  <2>5. \A n \in Members \ {m} : marks'[n] = marks[n] /\ project'.bars[n] = project.bars[n]
    BY <1>1, <2>2, <2>3 DEF Bars
  <2>6. QED
    BY <2>3, <2>4, <2>5 DEF DesignedBarsAreTheOutcome
<1>8. CASE Undo \/ Redo
  <2>1. PICK entry \in Entries(Project) : Returns(entry)
    BY <1>8, ReturnKeeps DEF TypeInv
  <2>2. \/ outcomes' = [m \in Members |-> None]
        \/ /\ UNCHANGED outcomes
           /\ \A m \in Members : outcomes[m] # None => project'.bars[m] = project.bars[m]
    BY <1>1, <2>1, ReturnIs DEF AnalysisInvalidated, OutcomesFollowTheBars
  <2>3. UNCHANGED marks
    BY <1>8 DEF Undo, Redo
  <2>4. QED
    BY <1>3, <2>2, <2>3 DEF DesignedBarsAreTheOutcome
<1>9. EditStructure \/ Reload => outcomes' = [m \in Members |-> None]
  BY DEF EditStructure, Reload, AnalysisInvalidated
<1>10. Solve \/ ComputeDemands \/ (\E m \in Members : ShowMember(m))
          \/ BuildDocument \/ ChangeFoundation \/ UNCHANGED vars
      => UNCHANGED <<outcomes, marks>> /\ project'.bars = project.bars
  BY DEF Solve, ComputeDemands, ShowMember, BuildDocument, ChangeFoundation, vars
<1>11. QED
  BY <1>2, <1>3, <1>4, <1>5, <1>6, <1>7, <1>8, <1>9, <1>10 DEF Next

\* A member whose bars count as designed has the bars of its outcome, after any runs,
\* repairs and edits, as long as no edit of bars is undone over the outcomes of its run.
\* (design-run.svelte.ts, publishOutcomes; rebar-edit.ts, commitManual.)
THEOREM DesignedBarsStayTheOutcome == OutcomesFollowTheBars /\ Spec => []DesignedBarsAreTheOutcome
<1>1. Init => DesignedBarsAreTheOutcome
  BY DEF Init, DesignedBarsAreTheOutcome
<1>2. OutcomesFollowTheBars /\ TypeInv /\ DesignedBarsAreTheOutcome /\ [Next]_vars
          => DesignedBarsAreTheOutcome'
  BY DesignedStays
<1>3. ASSUME OutcomesFollowTheBars PROVE Spec => []DesignedBarsAreTheOutcome
  BY <1>1, <1>2, <1>3, TypesHold, PTL DEF Spec
<1>4. QED
  BY <1>3

-----------------------------------------------------------------------------
(***************************************************************************)
(* The documents and the numbers.                                          *)
(***************************************************************************)

\* Cages change with the document retired, and in a session that starts over.
LEMMA CageSteps ==
    ASSUME TypeInv, CagesAreNotUndone, [Next]_vars
    PROVE  project'.cages = project.cages \/ (RetireDocument /\ UNCHANGED issued)
<1>1. project \in Project /\ outcomes \in Outcomes /\ DemandsTyped
      /\ results \in Nat \cup {None} /\ contexts \in Nat \cup {None} /\ demandRevision \in Nat
  BY DEF TypeInv, DemandsTyped
<1>2. CASE \E found \in Found : \E f \in Repairs(Merged(found)) :
               \E fresh, detailed \in BOOLEAN : AutoDesign(found, f, fresh, detailed)
  <2>1. PICK found \in Found : \E f \in Repairs(Merged(found)) :
            \E fresh, detailed \in BOOLEAN : AutoDesign(found, f, fresh, detailed)
    BY <1>2
  <2>2. PICK f \in Repairs(Merged(found)) :
            \E fresh, detailed \in BOOLEAN : AutoDesign(found, f, fresh, detailed)
    BY <2>1
  <2>3. PICK fresh \in BOOLEAN, detailed \in BOOLEAN : AutoDesign(found, f, fresh, detailed)
    BY <2>2
  <2>4. CASE detailed
    BY <2>3, <2>4 DEF AutoDesign
  <2>5. CASE ~detailed
    BY <1>1, <2>3, <2>5, AutoDesignIs
  <2>6. QED
    BY <2>4, <2>5
<1>3. CASE \E m \in Members, bars \in Rebars \cup {None} : EditBars(m, bars)
  BY <1>1, <1>3, EditBarsIs
<1>4. CASE Undo \/ Redo
  <2>1. PICK entry \in Entries(Project) : Returns(entry)
    BY <1>4, ReturnKeeps DEF TypeInv
  <2>2. QED
    BY <1>1, <2>1, ReturnIs DEF CagesAreNotUndone
<1>5. (\E f \in Repairs(outcomes) : Generate(f)) \/ GenerateFloors
          \/ (\E s \in {"frame", "floor"}, accepted \in BOOLEAN : Review(s, accepted))
      => RetireDocument /\ UNCHANGED issued
  BY DEF Generate, GenerateFloors, Review
<1>6. EditStructure \/ Solve \/ ComputeDemands \/ (\E m \in Members : ShowMember(m))
          \/ BuildDocument \/ ChangeFoundation \/ Reload \/ UNCHANGED vars
      => project'.cages = project.cages
  BY DEF EditStructure, Solve, ComputeDemands, ShowMember, BuildDocument, ChangeFoundation,
         Reload, vars
<1>7. QED
  BY <1>2, <1>3, <1>4, <1>5, <1>6 DEF Next

LEMMA DocumentStays ==
    ASSUME TypeInv, CurrentDocumentIsOfTheCages, CagesAreNotUndone, [Next]_vars
    PROVE  CurrentDocumentIsOfTheCages'
<1>1. RetireDocument => document' = None
  BY DEF RetireDocument
<1>2. BuildDocument => document'.cages = project'.cages
  BY DEF BuildDocument
<1>3. CASE project'.cages = project.cages
  BY <1>1, <1>2, <1>3, DocumentSteps DEF CurrentDocumentIsOfTheCages, documents
<1>4. CASE RetireDocument
  BY <1>1, <1>4 DEF CurrentDocumentIsOfTheCages
<1>5. QED
  BY <1>3, <1>4, CageSteps

\* The current document describes the cages in the model, whatever was edited, detailed,
\* reviewed and undone since it was built, as long as undo brings back no other cages.
\* (detailing.svelte.ts, retireDocument and buildDocument.)
THEOREM CurrentDocumentsAreOfTheCages ==
    CagesAreNotUndone /\ Spec => []CurrentDocumentIsOfTheCages
<1>1. Init => CurrentDocumentIsOfTheCages
  BY DEF Init, CurrentDocumentIsOfTheCages
<1>2. CagesAreNotUndone /\ TypeInv /\ CurrentDocumentIsOfTheCages /\ [Next]_vars
          => CurrentDocumentIsOfTheCages'
  BY DocumentStays
<1>3. ASSUME CagesAreNotUndone PROVE Spec => []CurrentDocumentIsOfTheCages
  BY <1>1, <1>2, <1>3, TypesHold, PTL DEF Spec
<1>4. QED
  BY <1>3

\* The documents built so far have numbers up to the present one, which is of the
\* document there is.
DocumentsAreNumbered ==
    /\ issued \subseteq Document
    /\ document # None => document.number = documentRevision
    /\ \A d \in issued : d.number <= documentRevision
    /\ \A d \in issued : d.number = documentRevision => document # None /\ d.cages = document.cages
    /\ \A d, e \in issued : d.number = e.number => d.cages = e.cages
    /\ \A i \in DOMAIN superseded : superseded[i].number < documentRevision

LEMMA RetireKeepsNumbers ==
    ASSUME DocumentsTyped, DocumentsAreNumbered, RetireDocument, UNCHANGED issued
    PROVE  DocumentsAreNumbered'
<1>1. CASE document = None
  BY <1>1 DEF RetireDocument, DocumentsAreNumbered
<1>2. CASE document # None
  <2>1. /\ documentRevision' = documentRevision + 1 /\ documentRevision \in Nat
        /\ superseded' = Append(superseded, document) /\ superseded \in Seq(Document)
        /\ document' = None /\ document \in Document /\ document.number = documentRevision
    BY <1>2 DEF RetireDocument, DocumentsTyped, DocumentsAreNumbered
  <2>2. \A d \in issued : d.number \in Nat /\ d.number <= documentRevision
    BY DEF DocumentsAreNumbered, Document
  <2>3. \A d \in issued : d.number <= documentRevision' /\ d.number # documentRevision'
    BY <2>1, <2>2
  <2>4. \A i \in DOMAIN superseded' : superseded'[i].number < documentRevision'
    <3>1. ASSUME NEW i \in DOMAIN superseded' PROVE superseded'[i].number < documentRevision'
      <4>1. /\ Len(superseded) \in Nat /\ i \in 1..(Len(superseded) + 1)
            /\ superseded'[i] = IF i = Len(superseded) + 1 THEN document ELSE superseded[i]
        BY <2>1, <3>1, AppendProperties, LenProperties
      <4>2. CASE i = Len(superseded) + 1
        BY <2>1, <4>1, <4>2
      <4>3. CASE i # Len(superseded) + 1
        <5>1. i \in 1..Len(superseded)
          BY <4>1, <4>3
        <5>2. i \in DOMAIN superseded
          BY <2>1, <5>1, LenProperties
        <5>3. superseded[i] \in Document
          BY <2>1, <5>1, ElementOfSeq
        <5>4. superseded[i].number \in Nat /\ superseded[i].number < documentRevision
          BY <5>2, <5>3 DEF DocumentsAreNumbered, Document
        <5>5. QED
          BY <2>1, <4>1, <4>3, <5>4
      <4>4. QED
        BY <4>2, <4>3
    <3>2. QED
      BY <3>1
  <2>5. QED
    BY <2>1, <2>3, <2>4 DEF DocumentsAreNumbered
<1>3. QED
  BY <1>1, <1>2

LEMMA BuildKeepsNumbers ==
    ASSUME project \in Project, results \in Nat \cup {None}, DocumentsTyped,
           DocumentsAreNumbered, CurrentDocumentIsOfTheCages, BuildDocument
    PROVE  DocumentsAreNumbered'
<1>1. /\ document' = [number |-> documentRevision, cages |-> project.cages,
                        bars |-> project.bars, forces |-> results]
      /\ issued' = issued \cup {document'} /\ UNCHANGED <<superseded, documentRevision>>
  BY DEF BuildDocument
<1>2. /\ project.cages \in Register /\ project.bars \in Bars /\ results \in Nat \cup {None}
      /\ documentRevision \in Nat
  BY ProjectFields DEF DocumentsTyped
<1>3. document' \in Document /\ document'.number = documentRevision
      /\ document'.cages = project.cages
  BY <1>1, <1>2 DEF Document
<1>4. document' # None
  BY <1>3, NoneAssumption
<1>5. \A d \in issued : /\ d.number <= documentRevision
                        /\ d.number = documentRevision => d.cages = document'.cages
  BY <1>3 DEF DocumentsAreNumbered, CurrentDocumentIsOfTheCages
<1>6. documentRevision <= documentRevision
  BY <1>2
<1>7. \A d, e \in issued : d.number = e.number => d.cages = e.cages
  BY DEF DocumentsAreNumbered
<1>8. \A d, e \in issued' : d.number = e.number => d.cages = e.cages
  BY <1>1, <1>3, <1>5, <1>7
<1>9. issued' \subseteq Document
  BY <1>1, <1>3 DEF DocumentsAreNumbered
<1>10. \A d \in issued' : /\ d.number <= documentRevision'
                          /\ d.number = documentRevision' => d.cages = document'.cages
  BY <1>1, <1>3, <1>5, <1>6
<1>11. \A i \in DOMAIN superseded' : superseded'[i].number < documentRevision'
  BY <1>1 DEF DocumentsAreNumbered
<1>12. QED
  BY <1>1, <1>3, <1>4, <1>8, <1>9, <1>10, <1>11 DEF DocumentsAreNumbered

LEMMA NumbersStay ==
    ASSUME TypeInv, DocumentsAreNumbered, CurrentDocumentIsOfTheCages, [Next]_vars
    PROVE  DocumentsAreNumbered'
<1>1. project \in Project /\ results \in Nat \cup {None} /\ DocumentsTyped
  BY DEF TypeInv, DemandsTyped
<1>2. CASE UNCHANGED documents
  BY <1>2 DEF documents, DocumentsAreNumbered
<1>3. CASE document' = None /\ superseded' = <<>> /\ documentRevision' = 1 /\ issued' = {}
  <2>1. \A i \in DOMAIN superseded' : FALSE
    BY <1>3
  <2>2. QED
    BY <1>3, <2>1 DEF DocumentsAreNumbered
<1>4. QED
  BY <1>1, <1>2, <1>3, DocumentSteps, RetireKeepsNumbers, BuildKeepsNumbers

\* The registers there are and were documented.
Registers == {d.cages : d \in issued} \cup {project.cages}

SameCage(c, d) ==
    c # None /\ d # None /\ c.revision = d.revision => c.steel = d.steel /\ c.forces = d.forces

\* The numbers of the register are at least those of all that was documented, which is why
\* the next one names no other cage.
CagesAreNumbered ==
    /\ \A c \in Registers, s \in {"frame", "floor"} :
           c[s] # None => c[s].revision <= MaxPersistedRevision
    /\ \A c, d \in Registers, s \in {"frame", "floor"} : SameCage(c[s], d[s])

Kept(old, new) ==
    /\ old # None /\ new # None
    /\ new.revision = old.revision /\ new.steel = old.steel /\ new.forces = old.forces

NumberedNext(cage) == cage # None /\ cage.revision = MaxPersistedRevision + 1

\* A run that reads a frame with steel leaves a cage for it.
LEMMA RepairsLeaveSteel ==
    ASSUME NEW outs \in Outcomes, NEW f \in Repairs(outs),
           \E m \in Members : Offered(outs)[m] # None
    PROVE  \E m \in Members : Offered(Repaired(outs, f))[m] # None
<1>1. PICK m \in Members : Offered(outs)[m] # None
  OBVIOUS
<1>2. outs[m] # None /\ outs[m].steel # None
  BY <1>1, OfferedIs
<1>3. Repaired(outs, f) \in Outcomes
  BY RepairedIs
<1> DEFINE after == Repaired(outs, f)
<1>4. after[m] # None /\ after[m].steel # None
  <2>1. CASE f[m] = None
    <3>1. after[m] = outs[m]
      BY <2>1, RepairedIs
    <3>2. QED
      BY <1>2, <3>1
  <2>2. CASE f[m] # None
    <3>1. after[m] # None /\ after[m].steel = f[m]
      BY <2>2, RepairedIs
    <3>2. QED
      BY <2>2, <3>1
  <2>3. QED
    BY <2>1, <2>2
<1> HIDE DEF after
<1>5. after \in Outcomes
  BY <1>3 DEF after
<1>6. Offered(after)[m] # None
  BY <1>4, <1>5, OfferedIs
<1>7. QED
  BY <1>6 DEF after

\* Cages are kept or new, and a new one follows the highest number there is; the numbers of
\* a register go with all its cages only when a new one comes.
LEMMA RegisterSteps ==
    ASSUME TypeInv, CagesAreNotUndone, RunsLeaveSteel, [Next]_vars
    PROVE  LET old == project.cages
               new == project'.cages
           IN  \/ new = old
               \/ /\ \A s \in {"frame", "floor"} :
                         new[s] = None \/ Kept(old[s], new[s]) \/ NumberedNext(new[s])
                  /\ \/ \A s \in {"frame", "floor"} : old[s] # None => Kept(old[s], new[s])
                     \/ \E s \in {"frame", "floor"} : NumberedNext(new[s])
<1> DEFINE old == project.cages
           new == project'.cages
           Replaces == /\ \A s \in {"frame", "floor"} :
                             new[s] = None \/ Kept(old[s], new[s]) \/ NumberedNext(new[s])
                       /\ \/ \A s \in {"frame", "floor"} : old[s] # None => Kept(old[s], new[s])
                          \/ \E s \in {"frame", "floor"} : NumberedNext(new[s])
<1>1. project \in Project /\ outcomes \in Outcomes /\ DemandsTyped
      /\ results \in Nat \cup {None} /\ contexts \in Nat \cup {None} /\ demandRevision \in Nat
  BY DEF TypeInv, DemandsTyped
<1>2. NumberedNext(new["frame"]) /\ new["floor"] = None => Replaces
  OBVIOUS
<1>3. CASE \E f \in Repairs(outcomes) : Generate(f)
  <2>1. PICK f \in Repairs(outcomes) : Generate(f)
    BY <1>3
  <2>2. /\ outcomes' = Repaired(outcomes, f) /\ outcomes' \in Outcomes
        /\ new["frame"] = FrameCage(outcomes', contexts, demandRevision)
        /\ new["floor"] = None
    BY <1>1, <2>1, GenerateIs
  <2>3. contexts # None /\ \E m \in Members : Offered(outcomes)[m] # None
    BY <2>1 DEF Generate
  <2>4. \E m \in Members : Offered(outcomes')[m] # None
    BY <1>1, <2>2, <2>3, RepairsLeaveSteel
  <2>5. NumberedNext(new["frame"])
    BY <1>1, <2>2, <2>3, <2>4, FrameCageIs DEF NumberedNext
  <2>6. QED
    BY <1>2, <2>2, <2>5
<1>4. CASE GenerateFloors
  <2>1. new["frame"] = old["frame"] /\ NumberedNext(new["floor"])
    BY <1>1, <1>4, FloorsAre DEF NumberedNext
  <2>2. new["frame"] = None \/ Kept(old["frame"], new["frame"])
    BY <2>1 DEF Kept
  <2>3. QED
    BY <2>1, <2>2
<1>5. CASE \E s \in {"frame", "floor"}, accepted \in BOOLEAN : Review(s, accepted)
  <2>1. \A t \in {"frame", "floor"} :
            /\ new[t] = None <=> old[t] = None
            /\ old[t] # None => /\ new[t].revision = old[t].revision
                                /\ new[t].steel = old[t].steel
                                /\ new[t].forces = old[t].forces
    BY <1>1, <1>5, ReviewIs
  <2>2. \A t \in {"frame", "floor"} : old[t] # None => Kept(old[t], new[t])
    BY <2>1 DEF Kept
  <2>3. QED
    BY <2>1, <2>2
<1>6. CASE \E found \in Found : \E f \in Repairs(Merged(found)) :
               \E fresh, detailed \in BOOLEAN : AutoDesign(found, f, fresh, detailed)
  <2>1. PICK found \in Found : \E f \in Repairs(Merged(found)) :
            \E fresh, detailed \in BOOLEAN : AutoDesign(found, f, fresh, detailed)
    BY <1>6
  <2>2. PICK f \in Repairs(Merged(found)) :
            \E fresh, detailed \in BOOLEAN : AutoDesign(found, f, fresh, detailed)
    BY <2>1
  <2>3. PICK fresh \in BOOLEAN, detailed \in BOOLEAN : AutoDesign(found, f, fresh, detailed)
    BY <2>2
  <2>4. /\ outcomes' = Repaired(Merged(found), f) /\ outcomes' \in Outcomes
        /\ contexts' \in Nat /\ contexts' # None /\ demandRevision' \in Nat
        /\ ~detailed => new = old
        /\ detailed => /\ new["frame"] = FrameCage(outcomes', contexts', demandRevision')
                       /\ new["floor"] = None
    BY <1>1, <2>3, AutoDesignIs
  <2>5. CASE detailed
    <3>1. \E m \in Members : Offered(Merged(found))[m] # None
      BY <2>3, <2>5 DEF AutoDesign, RunsLeaveSteel
    <3>2. Merged(found) \in Outcomes
      BY <1>1, MergedIs
    <3>3. \E m \in Members : Offered(outcomes')[m] # None
      BY <2>4, <3>1, <3>2, RepairsLeaveSteel
    <3>4. NumberedNext(new["frame"])
      BY <1>1, <2>4, <2>5, <3>3, FrameCageIs DEF NumberedNext
    <3>5. QED
      BY <1>2, <2>4, <2>5, <3>4
  <2>6. QED
    BY <2>4, <2>5
<1>7. CASE \E m \in Members, bars \in Rebars \cup {None} : EditBars(m, bars)
  BY <1>1, <1>7, EditBarsIs
<1>8. CASE Undo \/ Redo
  <2>1. PICK entry \in Entries(Project) : Returns(entry)
    BY <1>8, ReturnKeeps DEF TypeInv
  <2>2. new = old
    BY <1>1, <2>1, ReturnIs DEF CagesAreNotUndone
  <2>3. QED
    BY <2>2
<1>9. EditStructure \/ Solve \/ ComputeDemands \/ (\E m \in Members : ShowMember(m))
          \/ BuildDocument \/ ChangeFoundation \/ Reload \/ UNCHANGED vars
      => new = old
  BY DEF EditStructure, Solve, ComputeDemands, ShowMember, BuildDocument, ChangeFoundation,
         Reload, vars
<1> HIDE DEF Replaces
<1>10. QED
  BY <1>3, <1>4, <1>5, <1>6, <1>7, <1>8, <1>9 DEF Next, Replaces

\* What is documented was in the register.
LEMMA IssuedSteps ==
    ASSUME [Next]_vars, NEW d \in issued'
    PROVE  d.cages \in Registers
<1>1. CASE BuildDocument
  <2>1. d \in issued \/ d.cages = project.cages
    BY <1>1 DEF BuildDocument
  <2>2. QED
    BY <2>1 DEF Registers
<1>2. CASE ~BuildDocument
  <2>1. d \in issued
    BY <1>2, DocumentSteps DEF documents
  <2>2. QED
    BY <2>1 DEF Registers
<1>3. QED
  BY <1>1, <1>2

LEMMA CagesStayNumbered ==
    ASSUME TypeInv, DocumentsAreNumbered, CagesAreNumbered, CagesAreNotUndone, RunsLeaveSteel,
           [Next]_vars
    PROVE  CagesAreNumbered'
<1> DEFINE old == project.cages
           new == project'.cages
           top == MaxPersistedRevision
           newTop == Max(Revisions(new) \cup {0})
<1>1. old \in Register /\ new \in Register
  BY ProjectStaysTyped, ProjectFields DEF TypeInv
<1>2. /\ top \in Nat
      /\ \A s \in {"frame", "floor"} : old[s] # None => old[s].revision <= top
      /\ top # 0 => \E s \in {"frame", "floor"} : old[s] # None /\ old[s].revision = top
  BY <1>1, NumbersOfTheRegister DEF MaxPersistedRevision
<1>3. /\ newTop \in Nat
      /\ \A s \in {"frame", "floor"} : new[s] # None => new[s].revision <= newTop
  BY <1>1, NumbersOfTheRegister
<1>4. MaxPersistedRevision' = newTop
  BY DEF MaxPersistedRevision
<1> HIDE DEF newTop
<1>5. /\ \A c \in Registers, s \in {"frame", "floor"} : c[s] # None => c[s].revision <= top
      /\ \A c, d \in Registers, s \in {"frame", "floor"} : SameCage(c[s], d[s])
      /\ old \in Registers
  BY DEF CagesAreNumbered, Registers
<1>6. \A c \in Registers : c \in Register
  BY <1>1 DEF Registers, DocumentsAreNumbered, Document
<1>7. \A c \in Registers, s \in {"frame", "floor"} : c[s] # None => c[s].revision \in Nat
  BY <1>6 DEF Register, Cage
<1>8. \A c \in Registers' : c \in Registers \/ c = new
  BY IssuedSteps DEF Registers
<1>9. CASE new = old
  <2>1. newTop = top
    BY <1>9 DEF newTop, MaxPersistedRevision
  <2>2. \A c \in Registers' : c \in Registers
    BY <1>5, <1>8, <1>9
  <2>3. QED
    BY <1>4, <1>5, <2>1, <2>2 DEF CagesAreNumbered
<1>10. CASE /\ \A s \in {"frame", "floor"} :
                  new[s] = None \/ Kept(old[s], new[s]) \/ NumberedNext(new[s])
            /\ \/ \A s \in {"frame", "floor"} : old[s] # None => Kept(old[s], new[s])
               \/ \E s \in {"frame", "floor"} : NumberedNext(new[s])
  <2>1. top <= newTop
    <3>1. CASE \E s \in {"frame", "floor"} : NumberedNext(new[s])
      BY <1>2, <1>3, <3>1 DEF NumberedNext
    <3>2. CASE top = 0
      BY <1>3, <3>2
    <3>3. CASE /\ \A s \in {"frame", "floor"} : old[s] # None => Kept(old[s], new[s])
               /\ top # 0
      <4>1. PICK s \in {"frame", "floor"} : old[s] # None /\ old[s].revision = top
        BY <1>2, <3>3
      <4>2. new[s] # None /\ new[s].revision = top
        BY <3>3, <4>1 DEF Kept
      <4>3. QED
        BY <1>3, <4>2
    <3>4. QED
      BY <1>10, <3>1, <3>2, <3>3
  <2>2. ASSUME NEW c \in Registers', NEW s \in {"frame", "floor"}, c[s] # None
        PROVE  c[s].revision <= newTop
    <3>1. CASE c \in Registers
      <4>1. c[s].revision \in Nat /\ c[s].revision <= top
        BY <1>5, <1>7, <2>2, <3>1
      <4>2. QED
        BY <1>2, <1>3, <2>1, <4>1
    <3>2. CASE c = new
      BY <1>3, <2>2, <3>2
    <3>3. QED
      BY <1>8, <3>1, <3>2
  <2>3. ASSUME NEW c \in Registers, NEW s \in {"frame", "floor"}
        PROVE  SameCage(c[s], new[s]) /\ SameCage(new[s], c[s])
    <3>1. CASE new[s] = None
      BY <3>1 DEF SameCage
    <3>2. CASE Kept(old[s], new[s])
      <4>1. SameCage(c[s], old[s])
        BY <1>5
      <4>2. QED
        BY <3>2, <4>1 DEF Kept, SameCage
    <3>3. CASE NumberedNext(new[s])
      <4>1. c[s] # None => c[s].revision \in Nat /\ c[s].revision <= top
        BY <1>5, <1>7
      <4>2. new[s].revision = top + 1
        BY <3>3 DEF NumberedNext
      <4>3. c[s] # None => c[s].revision # new[s].revision
        BY <1>2, <4>1, <4>2
      <4>4. QED
        BY <4>3 DEF SameCage
    <3>4. QED
      BY <1>10, <3>1, <3>2, <3>3
  <2>4. ASSUME NEW c \in Registers', NEW d \in Registers', NEW s \in {"frame", "floor"}
        PROVE  SameCage(c[s], d[s])
    <3>1. SameCage(new[s], new[s])
      BY DEF SameCage
    <3>2. QED
      BY <1>5, <1>8, <2>3, <3>1
  <2>5. QED
    BY <1>4, <2>2, <2>4 DEF CagesAreNumbered
<1>11. QED
  BY <1>9, <1>10, RegisterSteps

NumbersInv == CurrentDocumentIsOfTheCages /\ DocumentsAreNumbered /\ CagesAreNumbered

LEMMA InitNumbers == Init => NumbersInv
<1> SUFFICES ASSUME Init PROVE NumbersInv
  OBVIOUS
<1>1. CurrentDocumentIsOfTheCages
  BY DEF Init, CurrentDocumentIsOfTheCages
<1>2. \A i \in DOMAIN superseded : FALSE
  BY DEF Init
<1>3. DocumentsAreNumbered
  BY <1>2 DEF Init, DocumentsAreNumbered
<1>4. \A c \in Registers, s \in {"frame", "floor"} : c[s] = None
  BY DEF Init, Registers, NoCages
<1>5. CagesAreNumbered
  BY <1>4 DEF CagesAreNumbered, SameCage
<1>6. QED
  BY <1>1, <1>3, <1>5 DEF NumbersInv

LEMMA NumbersAreOfOneThing == ASSUME TypeInv, NumbersInv PROVE NumbersNameOneThing
<1>1. \A d, e \in issued, s \in {"frame", "floor"} : SameCage(d.cages[s], e.cages[s])
  BY DEF NumbersInv, CagesAreNumbered, Registers
<1>2. QED
  BY <1>1 DEF NumbersInv, DocumentsAreNumbered, SameCage, NumbersNameOneThing

\* A document number names one set of cages, and a detailing revision one cage, among all the
\* documents ever built, as long as undo brings back no other cages and a detailed run has
\* bars to draw.  (detailing.svelte.ts, nextDetailingRevision and retireDocument.)
THEOREM NumbersAlwaysNameOneThing ==
    CagesAreNotUndone /\ RunsLeaveSteel /\ Spec => []NumbersNameOneThing
<1>1. CagesAreNotUndone /\ RunsLeaveSteel /\ TypeInv /\ NumbersInv /\ [Next]_vars => NumbersInv'
  BY DocumentStays, NumbersStay, CagesStayNumbered DEF NumbersInv
<1>2. TypeInv /\ NumbersInv => NumbersNameOneThing
  BY NumbersAreOfOneThing
<1>3. ASSUME CagesAreNotUndone, RunsLeaveSteel PROVE Spec => []NumbersNameOneThing
  BY <1>1, <1>2, <1>3, InitNumbers, TypesHold, PTL DEF Spec
<1>4. QED
  BY <1>3

=============================================================================
