----------------------------- MODULE DesignFlow ------------------------------
(***************************************************************************)
(* From forces to documents: the demands a solve leaves to the design, the *)
(* outcomes of a design run and the bars it writes, the verification a     *)
(* member is shown with, the cages detailed from the outcomes, and the     *)
(* documents built from them.  `verification.svelte.ts`,                   *)
(* `design-run.svelte.ts`, `rebar-edit.ts` and `detailing.svelte.ts`.      *)
(*                                                                         *)
(* Forces are the number of the solve they come from.  Bars and cages are  *)
(* in the model and are undone with it; contexts, outcomes, cached         *)
(* verdicts and documents belong to the session.                           *)
(***************************************************************************)
EXTENDS Integers, Sequences, FiniteSets, SequencesExt, FiniteSetsExt

CONSTANTS
    Members,     \* the concrete members of the frame
    Rebars,      \* arrangements of bars a member may have
    None,
    MaxHistory,  \* entries undo can return to, 50 in the source
    MaxEdits,    \* bound: solves, runs, edits, and reviews
    Races        \* circumstances the code does not guard against, see below

\* undoRebar: an edit of bars is undone while the outcomes of its run are kept;
\* undoCages: undo or redo brings back cages other than the ones in the model;
\* noSteel:   a run over the families refuses every member, and is detailed all the same;
\* reload:    the session starts over with a frame detailed in the one before.
AllRaces == {"undoRebar", "undoCages", "noSteel", "reload"}

ASSUME MembersAssumption ==
    IsFiniteSet(Members) /\ Members # {} /\ None \notin Rebars /\ Races \subseteq AllRaces
ASSUME LimitsAssumption == MaxHistory \in Nat \ {0} /\ MaxEdits \in Nat

VARIABLES
    project,           \* the bars of each member and the cages of the register
    undo, redo,        \* entries with the kind of edit they were pushed for
    results,           \* the solve whose results are published, or None
    solveGeneration,
    contexts,          \* the solve the members' demands were read from, or None
    demandRevision,
    cache,             \* providedCache: per member, the key and what was verified
    outcomes,          \* runSummary
    marks,             \* autoDesigned and manualOverrides
    document, superseded, documentRevision,
    issued,            \* every document ever built
    edits

history == <<undo, redo>>
demands == <<results, solveGeneration, contexts, demandRevision>>
documents == <<document, superseded, documentRevision, issued>>
vars == <<project, history, demands, cache, outcomes, marks, documents, edits>>

-----------------------------------------------------------------------------
Bars == [Members -> Rebars \cup {None}]
Outcome == [kind : {"verified", "proposal", "refused"}, steel : Rebars \cup {None}]
Verdict == [bars : Rebars, forces : Nat]
Cached == [bars : Rebars, demand : Nat, verdict : Verdict]
Cage ==
    [steel : Bars, demand : Nat, forces : Nat, revision : Nat, review : Nat]
Register == [{"frame", "floor"} -> Cage \cup {None}]
Project == [bars : Bars, cages : Register]
Entry == [kind : {"structural", "reinforcement"}, project : Project]
\* What a document draws, and the bars and the forces it certifies the drawn members with.
Document == [number : Nat, cages : Register, bars : Bars, forces : Nat \cup {None}]

NoCages == [s \in {"frame", "floor"} |-> None]

\* None is none of the values it stands for the lack of.
ASSUME NoneAssumption ==
    None \notin Nat \cup {"auto", "manual"} \cup Outcome \cup Cached \cup Cage \cup Document

Init ==
    /\ project = [bars |-> [m \in Members |-> None], cages |-> NoCages]
    /\ undo = <<>>
    /\ redo = <<>>
    /\ results = None
    /\ solveGeneration = 0
    /\ contexts = None
    /\ demandRevision = 0
    /\ cache = [m \in Members |-> None]
    /\ outcomes = [m \in Members |-> None]
    /\ marks = [m \in Members |-> None]
    /\ document = None
    /\ superseded = <<>>
    /\ documentRevision = 1
    /\ issued = {}
    /\ edits = 0

Edit == edits < MaxEdits /\ edits' = edits + 1

\* Defect: the oldest entries are never dropped.
PushesAll(stack, kind, p) == Append(stack, [kind |-> kind, project |-> p])

\* pushState: the snapshot from before the edit, the oldest one dropped over the limit.
Pushed(stack, kind, p) ==
    LET longer == Append(stack, [kind |-> kind, project |-> p])
    IN  IF Len(longer) > MaxHistory THEN Tail(longer) ELSE longer

-----------------------------------------------------------------------------
(***************************************************************************)
(* Solves, demands and verification.                                       *)
(***************************************************************************)

NoCache == [m \in Members |-> None]

\* invalidateAnalysis, on every mutation: what was read from the solve goes, the demand
\* revision stays.
AnalysisInvalidated ==
    /\ results' = None
    /\ contexts' = None
    /\ outcomes' = [m \in Members |-> None]
    /\ cache' = NoCache
    /\ UNCHANGED <<solveGeneration, demandRevision>>

\* A structural edit.
EditStructure ==
    /\ Edit
    /\ undo' = Pushed(undo, "structural", project)
    /\ redo' = <<>>
    /\ AnalysisInvalidated
    /\ UNCHANGED <<project, marks, documents>>

\* Results are published, whether or not the model moved since the last ones.
Solve ==
    /\ Edit
    /\ results' = solveGeneration + 1
    /\ solveGeneration' = solveGeneration + 1
    /\ UNCHANGED <<project, history, contexts, demandRevision, cache, outcomes, marks, documents>>

\* Defect: the demand revision stays.
RereadsDemands ==
    /\ contexts' = results
    /\ UNCHANGED demandRevision

\* setDemandData
SetDemandData ==
    /\ contexts' = results
    /\ demandRevision' = demandRevision + 1

\* computeDemands as a command of its own.
ComputeDemands ==
    /\ results # None
    /\ Edit
    /\ SetDemandData
    /\ cache' = NoCache
    /\ UNCHANGED <<project, history, results, solveGeneration, outcomes, marks, documents>>

\* The cached verdict answers: same bars, same demand revision.
Hit(m) ==
    /\ cache[m] # None
    /\ cache[m].bars = project.bars[m]
    /\ cache[m].demand = demandRevision

\* providedFor: what a member would be verified as now.
Provided(m) ==
    IF Hit(m) THEN cache[m].verdict ELSE [bars |-> project.bars[m], forces |-> contexts]

\* The status is asked for, and the verdict cached.
ShowMember(m) ==
    /\ contexts # None
    /\ project.bars[m] # None
    /\ cache' = [cache EXCEPT ![m] =
            [bars |-> project.bars[m], demand |-> demandRevision, verdict |-> Provided(m)]]
    /\ UNCHANGED <<project, history, demands, outcomes, marks, documents, edits>>

\* Defect: a context of an older solve is not stale.
NeverStale == FALSE

\* isContextStale
ContextStale == contexts # solveGeneration

\* getDisplayStatus: a member reads unavailable or stale, or its verdict is shown.
ShowsVerdict(m) == contexts # None /\ project.bars[m] # None /\ ~ContextStale

-----------------------------------------------------------------------------
(***************************************************************************)
(* Detailing.                                                              *)
(***************************************************************************)

Revisions(cages) == {cages[s].revision : s \in {t \in DOMAIN cages : cages[t] # None}}

\* maxPersistedRevision
MaxPersistedRevision == Max(Revisions(project.cages) \cup {0})

\* nextDetailingRevision, over everything in the register.
NextDetailingRevision == MaxPersistedRevision + 1

\* detailableReinforcement
Offered(outs) ==
    [m \in Members |->
        IF outs[m] # None /\ outs[m].kind \in {"verified", "proposal"} THEN outs[m].steel
        ELSE None]

\* The one assembly a frame run leaves, drawn from what the outcomes offer, or none.
FrameCage(outs, ctx, demand) ==
    IF ctx = None \/ \A m \in Members : Offered(outs)[m] = None THEN None
    ELSE [steel |-> Offered(outs), demand |-> demand, forces |-> ctx,
          revision |-> NextDetailingRevision, review |-> 0]

\* Members the feedback loop may have resized: verified ones, to other bars.
Repairs(outs) ==
    {f \in [Members -> Rebars \cup {None}] :
        \A m \in Members : f[m] # None =>
            outs[m] # None /\ outs[m].kind = "verified" /\ outs[m].steel # f[m]}

Repaired(outs, f) ==
    [m \in Members |-> IF f[m] = None THEN outs[m] ELSE [outs[m] EXCEPT !.steel = f[m]]]

Written(bars, f) == [m \in Members |-> IF f[m] = None THEN bars[m] ELSE f[m]]

\* Bars were written: the cached verdicts of those members go.
Reverified(f) == [m \in Members |-> IF f[m] = None THEN cache[m] ELSE None]

\* Defect: the current document stays.
KeepsDocument == UNCHANGED <<document, superseded, documentRevision>>

\* Defect: a retired document leaves its number to the next.
ReusesNumber ==
    /\ UNCHANGED documentRevision
    /\ superseded' = IF document = None THEN superseded ELSE Append(superseded, document)
    /\ document' = None

\* retireDocument
RetireDocument ==
    IF document = None THEN UNCHANGED <<document, superseded, documentRevision>>
    ELSE /\ documentRevision' = documentRevision + 1
         /\ superseded' = Append(superseded, document)
         /\ document' = None

\* generate: the loop may resize members, and both the bars and the outcomes follow; the
\* register is replaced by what this run detailed.
Generate(f) ==
    /\ contexts # None
    /\ \E m \in Members : Offered(outcomes)[m] # None    \* detailingReadiness
    /\ Edit
    /\ outcomes' = Repaired(outcomes, f)
    /\ project' = [bars  |-> Written(project.bars, f),
                   cages |-> [frame |-> FrameCage(outcomes', contexts, demandRevision),
                              floor |-> None]]
    /\ IF \E m \in Members : f[m] # None
       THEN undo' = Pushed(undo, "reinforcement", project) /\ redo' = <<>>
       ELSE UNCHANGED history
    /\ cache' = IF outcomes' = outcomes THEN cache ELSE NoCache   \* setDesignOutcomes
    /\ RetireDocument
    /\ UNCHANGED <<demands, marks, issued>>

\* generateFloors: the floor assemblies join the others.
GenerateFloors ==
    /\ results # None
    /\ Edit
    /\ project' = [project EXCEPT !.cages["floor"] =
            [steel |-> [m \in Members |-> None], demand |-> demandRevision,
             forces |-> results, revision |-> NextDetailingRevision, review |-> 0]]
    /\ RetireDocument
    /\ UNCHANGED <<history, demands, cache, outcomes, marks, issued>>

\* review: the document is retired before the engine may refuse, which it does below
\* CONSTRUCTIBLE and with provisional work nobody acknowledged.
Review(s, accepted) ==
    /\ project.cages[s] # None
    /\ Edit
    /\ RetireDocument
    /\ project' = IF accepted
                  THEN [project EXCEPT !.cages[s].review = project.cages[s].revision]
                  ELSE project
    /\ UNCHANGED <<history, demands, cache, outcomes, marks, issued>>

\* buildDocument: of what is persisted, under the number the last retirement left, with the
\* bars and the analysis as they stand.
BuildDocument ==
    /\ project.cages # NoCages
    /\ document' = [number |-> documentRevision, cages |-> project.cages,
                    bars |-> project.bars, forces |-> results]
    /\ issued' = issued \cup {document'}
    /\ UNCHANGED <<project, history, demands, cache, outcomes, marks,
                   superseded, documentRevision, edits>>

\* supersedeDocuments, by a change of the foundations.
ChangeFoundation ==
    /\ Edit
    /\ RetireDocument
    /\ UNCHANGED <<project, history, demands, cache, outcomes, marks, issued>>

-----------------------------------------------------------------------------
(***************************************************************************)
(* Design runs.                                                            *)
(***************************************************************************)

\* What a search may end with; a refused member has no bars to write.
SearchOutcomes ==
    {o \in Outcome : (o.kind = "refused") <=> (o.steel = None)}

\* The bars a run writes: certified ones and proposals.
WithSteel(found) == Written(project.bars, found)

\* publishOutcomes and designOne merge a run with the outcomes of the others.
Merged(found) == [m \in Members |-> IF found[m] = None THEN outcomes[m] ELSE found[m]]

Nothing == [m \in Members |-> None]

\* autoDesign, alone or after the demands were computed, of some members: bars written in
\* one transaction and marked.  The detailing, with its repairs in a second transaction,
\* follows a run that wrote bars unless the project opted out, and follows a run over the
\* families whatever it wrote.
AutoDesign(found, repairs, fresh, detailed) ==
    /\ Edit
    /\ IF fresh THEN results # None /\ SetDemandData
       ELSE contexts # None /\ UNCHANGED <<contexts, demandRevision>>
    /\ detailed \/ repairs = Nothing
    /\ detailed => (\E m \in Members : Offered(Merged(found))[m] # None) \/ "noSteel" \in Races
    /\ LET steel == [m \in Members |-> IF found[m] = None THEN None ELSE found[m].steel]
           designed == IF steel = Nothing THEN undo
                       ELSE Pushed(undo, "reinforcement", project)
           bars == WithSteel(steel)
       IN  /\ outcomes' = Repaired(Merged(found), repairs)
           /\ marks' = [m \in Members |-> IF steel[m] = None THEN marks[m] ELSE "auto"]
           /\ undo' = IF repairs = Nothing THEN designed
                      ELSE Pushed(designed, "reinforcement", [project EXCEPT !.bars = bars])
           /\ redo' = IF steel = Nothing /\ repairs = Nothing THEN redo ELSE <<>>
           /\ project' =
               [bars  |-> Written(bars, repairs),
                cages |-> IF ~detailed THEN project.cages
                          ELSE [frame |-> FrameCage(outcomes', contexts', demandRevision'),
                                floor |-> None]]
    /\ cache' = NoCache
    /\ IF detailed THEN RetireDocument
       ELSE UNCHANGED <<document, superseded, documentRevision>>
    /\ UNCHANGED <<results, solveGeneration, issued>>

-----------------------------------------------------------------------------
(***************************************************************************)
(* Bars edited by hand, undo and redo, a new session.                      *)
(***************************************************************************)

\* commitManual; clearReinforcement and revertReinforcement take the mark away.
EditBars(m, bars) ==
    /\ bars # project.bars[m]
    /\ Edit
    /\ undo' = Pushed(undo, "reinforcement", project)
    /\ redo' = <<>>
    /\ project' = [project EXCEPT !.bars[m] = bars]
    /\ marks' = [marks EXCEPT ![m] = IF bars = None THEN None ELSE "manual"]
    /\ cache' = [cache EXCEPT ![m] = None]
    /\ UNCHANGED <<demands, outcomes, documents>>

\* Undo and redo of an entry: a structural one comes back whole, one of bars only so far.
Returns(entry) ==
    IF entry.kind = "structural"
    THEN /\ entry.project.cages = project.cages \/ "undoCages" \in Races
         /\ project' = entry.project
         /\ AnalysisInvalidated
    ELSE /\ "undoRebar" \in Races \/ \A m \in Members :
                outcomes[m] # None => entry.project.bars[m] = project.bars[m]
         /\ project' = [project EXCEPT !.bars = entry.project.bars]
         /\ cache' = [m \in Members |->
                IF entry.project.bars[m] = project.bars[m] THEN cache[m] ELSE None]
         /\ UNCHANGED <<demands, outcomes>>

Undo ==
    /\ undo # <<>>
    /\ Returns(Last(undo))
    /\ redo' = Append(redo, [Last(undo) EXCEPT !.project = project])
    /\ undo' = Front(undo)
    /\ UNCHANGED <<marks, documents, edits>>

Redo ==
    /\ redo # <<>>
    /\ Returns(Last(redo))
    /\ undo' = Append(undo, [Last(redo) EXCEPT !.project = project])
    /\ redo' = Front(redo)
    /\ UNCHANGED <<marks, documents, edits>>

\* The page is loaded again and the stored model restored: the demand revision starts over.
Reload ==
    /\ "reload" \in Races \/ project.cages["frame"] = None
    /\ Edit
    /\ undo' = <<>> /\ redo' = <<>>
    /\ results' = None /\ contexts' = None
    /\ demandRevision' = 0
    /\ UNCHANGED solveGeneration   \* starts over too; here it names the forces
    /\ cache' = NoCache
    /\ outcomes' = [m \in Members |-> None]
    /\ marks' = [m \in Members |-> None]
    /\ document' = None /\ superseded' = <<>> /\ documentRevision' = 1 /\ issued' = {}
    /\ UNCHANGED project

-----------------------------------------------------------------------------
\* The outcome of each member of the selection.
Found == [Members -> SearchOutcomes \cup {None}] \ {Nothing}

Next ==
    \/ EditStructure
    \/ Solve
    \/ ComputeDemands
    \/ \E m \in Members : ShowMember(m)
    \/ \E f \in Repairs(outcomes) : Generate(f)
    \/ GenerateFloors
    \/ \E s \in {"frame", "floor"}, accepted \in BOOLEAN : Review(s, accepted)
    \/ BuildDocument
    \/ ChangeFoundation
    \/ \E found \in Found : \E f \in Repairs(Merged(found)) :
          \E fresh, detailed \in BOOLEAN : AutoDesign(found, f, fresh, detailed)
    \/ \E m \in Members, bars \in Rebars \cup {None} : EditBars(m, bars)
    \/ Undo
    \/ Redo
    \/ Reload

Spec == Init /\ [][Next]_vars

-----------------------------------------------------------------------------
(***************************************************************************)
(* What the code promises.                                                 *)
(***************************************************************************)

TypeOK ==
    /\ project \in Project
    /\ \A i \in DOMAIN undo : undo[i] \in Entry
    /\ \A i \in DOMAIN redo : redo[i] \in Entry
    /\ Len(undo) <= MaxHistory
    /\ results \in Nat \cup {None}
    /\ solveGeneration \in Nat
    /\ contexts \in Nat \cup {None}
    /\ demandRevision \in Nat
    /\ cache \in [Members -> Cached \cup {None}]
    /\ outcomes \in [Members -> SearchOutcomes \cup {None}]
    /\ marks \in [Members -> {"auto", "manual", None}]
    /\ document \in Document \cup {None}
    /\ \A i \in DOMAIN superseded : superseded[i] \in Document
    /\ documentRevision \in Nat
    /\ edits \in 0..MaxEdits

\* A verdict shown with a member is of the bars it has and of the newest published forces,
\* however edits, undos, solves and runs went before: otherwise the member reads stale
\* (getDisplayStatus; getStatus and getDisplayRatio do not ask).
DisplayIsHonest ==
    \A m \in Members :
        ShowsVerdict(m) => Provided(m) = [bars |-> project.bars[m], forces |-> solveGeneration]

\* A frame that reads current, by its demand revision, while there are demands, was
\* detailed for those demands.
FreshCageIsOfTheDemands ==
    LET cage == project.cages["frame"]
    IN  cage # None /\ contexts # None /\ cage.demand = demandRevision =>
            cage.forces = contexts

\* A member whose bars count as designed has the bars of its outcome, which are the ones
\* the next cage draws.  A run writes bars, marks and outcomes in one step, as in the code;
\* edits, repairs and runs of other members come between.
DesignedBarsAreTheOutcome ==
    \A m \in Members :
        marks[m] = "auto" /\ outcomes[m] # None /\ outcomes[m].steel # None =>
            project.bars[m] = outcomes[m].steel

\* The current document draws the cages in the register: every command that replaces or
\* reviews an assembly retires it first.  Of the cages only, see CurrentDocumentIsOfTheProject.
CurrentDocumentIsOfTheCages == document # None => document.cages = project.cages

\* What detailing.svelte.ts:889-894 says of retireDocument: loads, analysis and reinforcement
\* reach it, and a stale document never remains current.  The current document is of the
\* bars the members have and of the published forces.
CurrentDocumentIsOfTheProject ==
    document # None => document.bars = project.bars /\ document.forces = results

\* A document number names one set of cages and reviews, of all documents ever built, and a
\* detailing revision names one cage: none is used again for other bars.
NumbersNameOneThing ==
    /\ \A d, e \in issued : d.number = e.number => d.cages = e.cages
    /\ \A i \in DOMAIN superseded : superseded[i].number < documentRevision
    /\ \A d, e \in issued, s \in {"frame", "floor"} :
           d.cages[s] # None /\ e.cages[s] # None /\ d.cages[s].revision = e.cages[s].revision
               => d.cages[s].steel = e.cages[s].steel /\ d.cages[s].forces = e.cages[s].forces

=============================================================================
