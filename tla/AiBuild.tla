------------------------------- MODULE AiBuild -------------------------------
(***************************************************************************)
(* The build conversation: a description goes to the server with the       *)
(* structure on the canvas, and the frame that comes back replaces it as a *)
(* draft, which the user applies, cancels or asks for again.  A draft is   *)
(* an entry of the undo history like any other edit, and cancelling one is *)
(* undo.                                                                   *)
(***************************************************************************)
EXTENDS FrameEdits

CONSTANTS
    Start,       \* the project that is open
    Other,       \* the one in the other tab
    Widths,      \* bay widths and storey heights
    Names,       \* section names
    Models,      \* what create_model is called with
    Points,      \* where nodes are drawn by hand
    MaxHistory,  \* entries of the undo history
    MaxRequests, \* bound: descriptions sent
    MaxEdits,    \* bound: edits by hand
    Races        \* circumstances the code does not guard against, see below

\* editDraft:   edits, undo and redo while a draft waits;
\* whileSolving: a draft is cancelled while it is being applied;
\* reopened:    the drawer is closed while an answer is due, and opened again;
\* newCase:     a load case is added to a generated frame;
\* doubles:     a node or a bar is drawn where there is one, or create_model gives one twice;
\* loadedNode:  a node is removed with loaded bars, whose loads stay.
AllRaces ==
    {"editDraft", "whileSolving", "reopened", "newCase", "doubles", "loadedNode"}

ASSUME BoundsAssumption ==
    MaxHistory \in Nat \ {0} /\ MaxRequests \in Nat /\ MaxEdits \in Nat
ASSUME RacesAssumption == Races \subseteq AllRaces
\* A measure that is not positive is refused (require_positive).
ASSUME AnswersAssumption == Widths \subseteq Nat \ {0} /\ None \notin Names
ASSUME PointsAssumption == Points \subseteq [x : Int, y : Int]
\* The shapes of the entries (the schema of the tool), and ids as the prompt asks for them:
\* sections from 1, and loads from 1 and without a gap.  No code looks at either.
ASSUME ModelsAssumption ==
    \A m \in Models :
        /\ DOMAIN m = Maps
        /\ \A map \in Maps : IsFiniteSet(DOMAIN m[map]) /\ DOMAIN m[map] \subseteq Nat
        /\ \A n \in DOMAIN m.nodes : m.nodes[n] \in [x : Int, y : Int]
        /\ \A map \in {"elements", "supports"} : m[map] = [id \in DOMAIN m[map] |-> m[map][id]]
        /\ \A e \in DOMAIN m.elements : DOMAIN m.elements[e] = {"i", "j", "section"}
        /\ \A s \in DOMAIN m.supports : DOMAIN m.supports[s] = {"node", "type"}
        /\ \A l \in DOMAIN m.loads : m.loads[l].kind \in {"nodal", "distributed"}
        /\ 1 \in DOMAIN m.sections /\ DOMAIN m.loads = 1..Cardinality(DOMAIN m.loads)

VARIABLES
    canvas,    \* the structure on the canvas
    undo, redo,
    other,     \* [canvas, undo, redo] of the other tab
    requests,  \* under way: [id, kind, snapshot, live]
    draft,     \* the structure on the canvas is a draft
    before,    \* the structure the last draft replaced
    solving,   \* the draft is being applied
    applied,   \* a draft was applied, with or without issues
    grown,     \* history variable: the last answer was a bay or a storey
    sent, edits

history == <<undo, redo, other>>
drawer == <<requests, draft, before, solving, applied, grown, sent>>
vars == <<canvas, history, drawer, edits>>

HasModel(f) == f.nodes # <<>> /\ f.elements # <<>>

\* A draft the drawer shows (validateSnapshot).
Shown(f) ==
    /\ Cardinality(DOMAIN f.nodes) >= 2 /\ f.elements # <<>>
    /\ f.supports # <<>> /\ f.sections # <<>>
    /\ \A e \in Range(f.elements) : {e.i, e.j} \subseteq DOMAIN f.nodes
    /\ \A s \in Range(f.supports) : s.node \in DOMAIN f.nodes
    /\ \A l \in Range(f.loads) :
           l.on \in IF l.kind = "nodal" THEN DOMAIN f.nodes ELSE DOMAIN f.elements

\* modelStore.restore, of a frame that may say nothing of load cases: it gets the four that
\* every structure starts with, and 3 for the next.
Restored(f) ==
    [f EXCEPT !.cases = IF @ = None THEN <<1, 2, 3, 4>> ELSE @,
              !.nextId.cases = IF @ = None THEN 3 ELSE @]

\* modelStore.clear.
Cleared ==
    [NoFrame EXCEPT !.sections = <<"default">>, !.nextId.sections = 2,
                    !.cases = <<1, 2, 3, 4>>, !.nextId.cases = 5]

\* Defect: the history grows.
Grown(f, stack) == Append(stack, f)

\* pushState.
Pushed(f, stack) ==
    LET longer == Append(stack, f)
    IN  IF Len(longer) > MaxHistory THEN Tail(longer) ELSE longer

Init ==
    /\ canvas = Start /\ undo = <<>> /\ redo = <<>>
    /\ other = [canvas |-> Other, undo |-> <<>>, redo |-> <<>>]
    /\ requests = {} /\ draft = FALSE /\ before = Start /\ solving = FALSE
    /\ applied = FALSE /\ grown = FALSE /\ sent = 0 /\ edits = 0

Busy == \E r \in requests : r.live

-----------------------------------------------------------------------------
(***************************************************************************)
(* The user, on the canvas.                                                *)
(***************************************************************************)

Free == ~draft \/ "editDraft" \in Races

\* An edit by hand (_pushUndo).
Drawn(f) ==
    /\ Free /\ edits < MaxEdits
    /\ edits' = edits + 1
    /\ canvas' = f /\ undo' = Pushed(canvas, undo) /\ redo' = <<>>
    /\ UNCHANGED <<other, drawer>>

\* addNode: the tables and the 3D view do not look for a node that is there.
AddNode ==
    \E p \in Points :
        /\ NodesAt(canvas, p.x, p.y) = {} \/ "doubles" \in Races
        /\ Drawn(Appended(canvas, "nodes", <<p>>))

\* addElement, between two nodes, with section 1; which of them is its first makes no
\* difference here.
AddElement ==
    \E i, j \in DOMAIN canvas.nodes :
        /\ i < j
        /\ ~Joined(canvas, i, j) \/ "doubles" \in Races
        /\ Drawn(Appended(canvas, "elements", <<Frame(i, j, 1)>>))

\* removeElement, with its loads.
RemoveElement == \E e \in DOMAIN canvas.elements : Drawn(DeleteElement(canvas, e))

\* removeNode, with its bars, its support and its loads; the loads of the bars stay.
RemoveNode ==
    \E n \in DOMAIN canvas.nodes :
        LET gone == {e \in DOMAIN canvas.elements :
                        n \in {canvas.elements[e].i, canvas.elements[e].j}}
        IN  /\ (\A l \in Range(canvas.loads) : l.kind = "distributed" => l.on \notin gone)
                   \/ "loadedNode" \in Races
            /\ Drawn([canvas EXCEPT
                   !.nodes = Restrict(@, DOMAIN @ \ {n}),
                   !.elements = Restrict(@, DOMAIN @ \ gone),
                   !.supports = Restrict(@, {s \in DOMAIN @ : @[s].node # n}),
                   !.loads = Restrict(@, {l \in DOMAIN @ : ~(@[l].kind = "nodal" /\ @[l].on = n)})])

AddLoadCase ==
    /\ canvas.nextId.cases \notin ToSet(canvas.cases) \/ "newCase" \in Races
    /\ Drawn([canvas EXCEPT !.cases = Append(@, canvas.nextId.cases), !.nextId.cases = @ + 1])

\* historyStore.undo.
Undone ==
    IF undo = <<>> THEN UNCHANGED <<canvas, undo, redo>>
    ELSE /\ canvas' = Last(undo) /\ undo' = Front(undo)
         /\ redo' = Append(redo, canvas)

Undo == Free /\ undo # <<>> /\ Undone /\ UNCHANGED <<other, drawer, edits>>

Redo ==
    /\ Free /\ redo # <<>>
    /\ canvas' = Last(redo) /\ redo' = Front(redo)
    /\ undo' = Append(undo, canvas)
    /\ UNCHANGED <<other, drawer, edits>>

SwitchTab ==
    /\ Free /\ edits < MaxEdits
    /\ edits' = edits + 1
    /\ other' = [canvas |-> canvas, undo |-> undo, redo |-> redo]
    /\ canvas' = other.canvas /\ undo' = other.undo /\ redo' = other.redo
    /\ UNCHANGED drawer

-----------------------------------------------------------------------------
(***************************************************************************)
(* The user, in the drawer.                                                *)
(***************************************************************************)

\* The request for a structure, which takes the one on the canvas along.
Request(kind, f) ==
    [id |-> sent, kind |-> kind, live |-> TRUE, snapshot |-> IF HasModel(f) THEN f ELSE None]

Send ==
    /\ ~Busy /\ ~draft /\ sent < MaxRequests
    /\ requests' = requests \cup {Request("build", canvas)} /\ sent' = sent + 1
    /\ applied' = FALSE
    /\ UNCHANGED <<canvas, history, draft, before, solving, grown, edits>>

\* "Clear": no request; the drawer pushes the structure, and clear() again.
SendClear ==
    /\ ~Busy /\ ~draft /\ sent < MaxRequests
    /\ sent' = sent + 1
    /\ undo' = Pushed(canvas, Pushed(canvas, undo)) /\ redo' = <<>>
    /\ canvas' = Cleared /\ applied' = FALSE
    /\ UNCHANGED <<other, requests, draft, before, solving, grown, edits>>

\* Offered when the solution of an applied draft has issues.
FixIssues ==
    /\ applied /\ ~draft /\ ~Busy /\ sent < MaxRequests
    /\ requests' = requests \cup {Request("fix", canvas)} /\ sent' = sent + 1
    /\ applied' = FALSE
    /\ UNCHANGED <<canvas, history, draft, before, solving, grown, edits>>

Abort ==
    \E r \in requests :
        /\ r.live /\ r.kind = "build"
        /\ requests' = requests \ {r} /\ grown' = FALSE
        /\ UNCHANGED <<canvas, history, draft, before, solving, applied, sent, edits>>

\* The draft is on the canvas already: it is solved.
Apply ==
    /\ draft /\ ~solving
    /\ solving' = TRUE
    /\ UNCHANGED <<canvas, history, requests, draft, before, applied, grown, sent, edits>>

ApplyEnds ==
    /\ solving /\ solving' = FALSE
    /\ draft' = FALSE /\ applied' = TRUE 
    /\ UNCHANGED <<canvas, history, requests, before, grown, sent, edits>>

Discardable == draft /\ (~solving \/ "whileSolving" \in Races)

Cancel ==
    /\ Discardable
    /\ Undone /\ draft' = FALSE
    /\ UNCHANGED <<other, requests, before, solving, applied, grown, sent, edits>>

\* The same description again, of the structure that was there.
Retry ==
    /\ Discardable /\ ~Busy /\ sent < MaxRequests
    /\ Undone /\ draft' = FALSE /\ applied' = FALSE
    /\ requests' = requests \cup {Request("build", canvas')} /\ sent' = sent + 1
    /\ UNCHANGED <<other, before, solving, grown, edits>>

\* Closed and opened again, the drawer has forgotten its draft, and whoever waits for an answer.
ReopenDrawer ==
    /\ draft \/ applied \/ Busy
    /\ ~Busy \/ "reopened" \in Races
    /\ requests' = {[r EXCEPT !.live = FALSE] : r \in requests}
    /\ draft' = FALSE /\ solving' = FALSE /\ applied' = FALSE
    /\ UNCHANGED <<canvas, history, before, grown, sent, edits>>

-----------------------------------------------------------------------------
(***************************************************************************)
(* The answers of the server.                                              *)
(***************************************************************************)

\* Defect: the draft is pushed, not what it replaces.
PushesTheDraft(f) ==
    /\ undo' = Pushed(Restored(f), undo) /\ redo' = <<>> /\ canvas' = Restored(f)

\* fastRebuild, after pushState.
Replaces(f) ==
    /\ undo' = Pushed(canvas, undo) /\ redo' = <<>> /\ canvas' = Restored(f)

\* The answer to a request becomes the draft.
Answered(r, answers, grows) ==
    \E f \in answers :
        /\ Shown(f)
        /\ Replaces(f)
        /\ before' = IF r.live THEN canvas ELSE before
        /\ draft' = (r.live \/ draft)
        /\ requests' = requests \ {r} /\ grown' = grows
        /\ UNCHANGED <<other, solving, applied, sent, edits>>

\* A refusal, an invalid frame, a plain answer or a failed request.
AnswerNothing ==
    \E r \in requests :
        /\ requests' = requests \ {r} /\ grown' = FALSE
        /\ UNCHANGED <<canvas, history, draft, before, solving, applied, sent, edits>>

Optional(S) == S \cup {None}

AnswerCreate ==
    \E r \in requests, w \in Widths :
        Answered(r, {PortalFrame(w, 1, 1, 0), MultiStoryFrame(2, 1, w, 1, 0, 1)}, FALSE)

\* The models create_model may be called with.
Given == {m \in Models : CanCreateModel(m) /\ (Single(m) \/ "doubles" \in Races)}

AnswerCreateModel ==
    \E r \in requests : Answered(r, {CreateModel(m) : m \in Given}, FALSE)

\* The requests an edit can be made for.
Editable == {r \in requests : r.snapshot # None}

WithBays(f) ==
    {AddBay(f, w, side, beam, column) :
        w \in Widths, side \in {"left", "right"}, beam \in Optional(Names), column \in Optional(Names)}

AnswerAddBay ==
    \E r \in Editable : CanAddBay(r.snapshot) /\ Answered(r, WithBays(r.snapshot), TRUE)

WithStories(f) ==
    {AddStory(f, h, beam, column) :
        h \in Widths, beam \in Optional(Names), column \in Optional(Names)}

AnswerAddStory ==
    \E r \in Editable : CanAddStory(r.snapshot) /\ Answered(r, WithStories(r.snapshot), TRUE)

AnswerChangeSection ==
    \E r \in Editable, name \in Names :
        LET bars  == DOMAIN r.snapshot.elements
            beams == {e \in bars : IsHorizontal(r.snapshot, e)}
        IN  Answered(r, {ChangeSection(r.snapshot, name, chosen) :
                           chosen \in {beams, bars \ beams, bars} \cup {{e} : e \in bars}}, FALSE)

AnswerSetAll ==
    \E r \in Editable :
        Answered(r, {SetAllSupports(r.snapshot, "pinned"), SetAllBeamLoads(r.snapshot, 2)}, FALSE)

AnswerAddLoads ==
    \E r \in Editable :
        Answered(r,
            (IF Cardinality(Ys(r.snapshot)) >= 2 THEN {AddLateralLoads(r.snapshot, 3)} ELSE {})
            \cup {AddDistributedLoad(r.snapshot, e, 1) : e \in DOMAIN r.snapshot.elements}
            \cup {AddNodalLoad(r.snapshot, n, 1) : n \in DOMAIN r.snapshot.nodes}, FALSE)

AnswerDelete ==
    \E r \in Editable :
        Answered(r,
            {DeleteElement(r.snapshot, e) : e \in DOMAIN r.snapshot.elements}
            \cup {DeleteLoad(r.snapshot, l) : l \in DOMAIN r.snapshot.loads}, FALSE)

-----------------------------------------------------------------------------
Next ==
    \/ AddNode \/ AddElement \/ RemoveElement \/ RemoveNode \/ AddLoadCase \/ Undo \/ Redo \/ SwitchTab
    \/ Send \/ SendClear \/ FixIssues \/ Abort \/ Apply \/ ApplyEnds
    \/ Cancel \/ Retry \/ ReopenDrawer
    \/ AnswerNothing \/ AnswerCreate \/ AnswerCreateModel
    \/ AnswerAddBay \/ AnswerAddStory \/ AnswerChangeSection \/ AnswerSetAll \/ AnswerAddLoads \/ AnswerDelete

Spec == Init /\ [][Next]_vars

-----------------------------------------------------------------------------
\* The types, with the histories within their bound and one request waited for at most.
TypeOK ==
    /\ draft \in BOOLEAN /\ solving \in BOOLEAN /\ applied \in BOOLEAN
    /\ sent \in 0..MaxRequests /\ edits \in 0..MaxEdits
    /\ Len(undo) <= MaxHistory /\ Len(other.undo) <= MaxHistory
    /\ Cardinality({r \in requests : r.live}) <= 1

\* Every structure the user can come back to, in either tab.
Frames ==
    {canvas, other.canvas}
    \cup ToSet(undo) \cup ToSet(redo) \cup ToSet(other.undo) \cup ToSet(other.redo)

\* However nodes, bars and cases are drawn and removed, the server generates, assembles and
\* edits, and drafts are cancelled, undone and made again: no structure the user can come back
\* to has a bar, a support or a load on what is not there, and the next id of no map is in use,
\* also where nodes and bars are doubled (edit_executor.rs, generators.rs, create_model, restore).
FramesAreLinked == \A f \in Frames : Linked(f)

\* Where neither the user nor create_model doubles anything, no generator and no edit of the
\* server does, on whatever was drawn and removed before, and no load case is there twice.
NothingIsTwice == \A f \in Frames : Single(f) /\ (f.cases # None => IsInjective(f.cases))

\* Cancelling a draft, or asking for another, brings back the structure the draft replaced
\* (handleCancel, handleRetry).
CancelRestores == [][Cancel \/ Retry => canvas' = before]_vars

\* A bay or a storey added to a frame that is a whole grid leaves a whole grid (add_bay,
\* add_story_2d).
GrowthKeepsTheGrid ==
    [][\A r \in requests \ requests' :
           grown' /\ IsGrid(r.snapshot) => IsGrid(canvas')]_vars

\* A bay or a storey added to a frame that stands leaves one that stands, also where columns
\* and beams are missing (add_bay, add_story_2d).
GrowthKeepsItStanding ==
    [][\A r \in requests \ requests' :
           grown' /\ Standing(r.snapshot) => Standing(canvas')]_vars

=============================================================================
