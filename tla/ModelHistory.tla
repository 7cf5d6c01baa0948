---------------------------- MODULE ModelHistory ----------------------------
(***************************************************************************)
(* Editing, undoing and what is derived from the project: the undo and     *)
(* redo stacks of `history.svelte.ts`, the three channels through which    *)
(* `model.svelte.ts` pushes an entry, and the hooks of `store/index.ts`    *)
(* that drop results, cached verifications and documents.                  *)
(*                                                                         *)
(* An entry is a full snapshot tagged with the slice its edit touched.     *)
(* Undo and redo of a reinforcement or foundation entry restore only that  *)
(* slice, so that the analysis survives; a structural entry is restored    *)
(* whole and drops it.                                                     *)
(***************************************************************************)
EXTENDS Integers, Sequences, SequencesExt

CONSTANTS
    Structures, Rebars, Designs, Capacities, Mats,  \* values of each slice
    None,
    Unstated,     \* the capacity of a soil profile nobody has stated
    MaxHistory,   \* MAX_HISTORY, 50 in the source
    Races,        \* circumstances the code does not guard against, see below
    MaxRevision, MaxEdits   \* bounds: footing revisions, edits and restores

\* restoreOver:   an autosave or a link is restored when undo is possible;
\* keepsDocument: a structural step changes the foundations a document describes.
AllRaces == {"restoreOver", "keepsDocument"}

ASSUME SlicesAssumption ==
    /\ None \notin Structures \cup Designs \cup Capacities
    /\ Structures # {} /\ Rebars # {} /\ Mats # {}
    /\ Unstated \in Capacities
ASSUME BoundsAssumption ==
    /\ MaxHistory \in Nat \ {0}
    /\ Races \subseteq AllRaces
    /\ {MaxRevision, MaxEdits} \subseteq Nat

VARIABLES
    project,   \* modelStore.model, by slice
    undo,      \* undoStack with undoKinds
    redo,      \* redoStack with redoKinds
    results,   \* the structure the shown results were computed from, or None
    checked,   \* what the cached verification of provided rebar was reached for, or None
    run,       \* lastFootingRun with its fingerprint, or None
    document,  \* the foundation the current document describes, or None
    edits

derived == <<results, checked, run, document>>
vars == <<project, undo, redo, derived, edits>>

-----------------------------------------------------------------------------
Kinds == {"structural", "reinforcement", "foundation"}

Footing == [id : Nat, design : Designs, founded : BOOLEAN, revision : Nat]
Foundation ==
    [footing : Footing \cup {None}, ground : Capacities \cup {None},
     default : BOOLEAN, mat : Mats]
Project ==
    [structure : Structures, rebar : Rebars, foundation : Foundation, nextFooting : Nat]
Entry == [kind : Kinds, project : Project]

\* A project without foundations, with the mat preferences it was saved with.
Unfounded(s, r, mat) ==
    [structure |-> s, rebar |-> r, nextFooting |-> 1,
     foundation |-> [footing |-> None, ground |-> None, default |-> FALSE, mat |-> mat]]

Init ==
    /\ \E s \in Structures, r \in Rebars, m \in Mats : project = Unfounded(s, r, m)
    /\ undo = <<>>
    /\ redo = <<>>
    /\ results = None
    /\ checked = None
    /\ run = None
    /\ document = None
    /\ edits = 0

-----------------------------------------------------------------------------
(***************************************************************************)
(* The hooks, and an entry pushed.                                         *)
(***************************************************************************)

\* What a document says of a foundation: all of it, except which profile a footing
\* not yet created will stand on.
Described(f) == [f EXCEPT !.default = FALSE]

\* _onMutation: results and every cached verification go; documents stay.
Mutated ==
    /\ results' = None /\ checked' = None /\ UNCHANGED <<run, document>>
    /\ "keepsDocument" \notin Races /\ document # None =>
           Described(project'.foundation) = Described(document)

\* _onReinforcementCommit: only the verification of provided rebar goes.
ReinforcementCommitted == checked' = None /\ UNCHANGED <<results, run, document>>

\* _onFoundationChange: the document is retired.
FoundationChanged == document' = None /\ UNCHANGED <<results, checked, run>>

\* Defect: one entry more than the limit stays.
TrimsLate(stack) == IF Len(stack) > MaxHistory + 1 THEN Tail(stack) ELSE stack

\* The oldest entry is dropped over the limit.
Trimmed(stack) == IF Len(stack) > MaxHistory THEN Tail(stack) ELSE stack

\* Defect: an edit after an undo leaves what could be redone.
KeepsRedo(kind) ==
    /\ edits < MaxEdits
    /\ edits' = edits + 1
    /\ undo' = Trimmed(Append(undo, [kind |-> kind, project |-> project]))
    /\ UNCHANGED redo

\* pushState: the snapshot before the edit is what undo returns to; nothing can be
\* redone any more.
Push(kind) ==
    /\ edits < MaxEdits
    /\ edits' = edits + 1
    /\ undo' = Trimmed(Append(undo, [kind |-> kind, project |-> project]))
    /\ redo' = <<>>

-----------------------------------------------------------------------------
(***************************************************************************)
(* Edits of the structure and of the reinforcement.                        *)
(***************************************************************************)

\* Setters make an entry even when they are given what is there.
EditStructure(s) ==
    /\ Push("structural")
    /\ project' = [project EXCEPT !.structure = s]
    /\ Mutated

\* removeNode: the footing on the node goes with it, on the structural channel.
RemoveNode(s) ==
    /\ s # project.structure
    /\ project.foundation.footing # None
    /\ Push("structural")
    /\ project' = [project EXCEPT !.structure = s, !.foundation.footing = None]
    /\ Mutated

\* reinforcementTransaction: the verdicts reached for the old bars are dropped.
SetReinforcement(r) ==
    /\ Push("reinforcement")
    /\ project' = [project EXCEPT !.rebar = r]
    /\ ReinforcementCommitted

\* A file is opened: an entry, then modelStore.restore of another project.
OpenFile(p) ==
    /\ Push("structural")
    /\ project' = p
    /\ Mutated

\* The autosave banner, a shared link: modelStore.restore, no entry, and the
\* stacks stay.
RestoreAutosave(p) ==
    /\ "restoreOver" \in Races \/ undo \o redo = <<>>
    /\ edits < MaxEdits
    /\ edits' = edits + 1
    /\ project' = p
    /\ UNCHANGED <<undo, redo>>
    /\ Mutated

-----------------------------------------------------------------------------
(***************************************************************************)
(* Edits of the foundations: pushed on their own channel, the analysis is  *)
(* untouched.                                                              *)
(***************************************************************************)

\* The foundation becomes f, and whatever describes it is retired.
Found(f) ==
    /\ Push("foundation")
    /\ project' = [project EXCEPT !.foundation = f]
    /\ FoundationChanged

\* The counter of ids is no part of the slice: undo does not bring it back.
AddFooting(d) ==
    /\ project.foundation.footing = None
    /\ Push("foundation")
    /\ project' = [project EXCEPT
          !.nextFooting = @ + 1,
          !.foundation.footing =
              [id |-> project.nextFooting, design |-> d,
               founded |-> project.foundation.default, revision |-> 1]]
    /\ FoundationChanged

\* updateFooting bumps the footing's own revision; on a footing that is gone only
\* the entry is pushed.
UpdateFooting(d, founded) ==
    LET f == project.foundation.footing IN
    IF f = None
    THEN /\ Push("foundation")
         /\ UNCHANGED <<project, derived>>
    ELSE /\ f.revision < MaxRevision
         /\ founded => project.foundation.ground # None
         /\ Found([project.foundation EXCEPT
                      !.footing = [f EXCEPT !.design = d, !.founded = founded,
                                            !.revision = @ + 1]])

RemoveFooting == Found([project.foundation EXCEPT !.footing = None])

\* A write that changes nothing makes no entry.
SetMat(m) ==
    /\ m # project.foundation.mat
    /\ Found([project.foundation EXCEPT !.mat = m])

\* The first profile becomes the default; its capacity is unstated.
AddSoilProfile ==
    /\ project.foundation.ground = None
    /\ Found([project.foundation EXCEPT !.ground = Unstated, !.default = TRUE])

UpdateSoilProfile(c) ==
    /\ project.foundation.ground # None
    /\ Found([project.foundation EXCEPT !.ground = c])

\* A footing founded on it stays, founded on nothing, at a new revision.
RemoveSoilProfile ==
    LET f == project.foundation.footing IN
    /\ project.foundation.ground # None
    /\ f # None /\ f.founded => f.revision < MaxRevision
    /\ Found([project.foundation EXCEPT
                 !.ground = None, !.default = FALSE,
                 !.footing = IF f # None /\ f.founded
                             THEN [f EXCEPT !.founded = FALSE, !.revision = @ + 1]
                             ELSE f])

\* setDefaultSoilProfile changes no footing that exists: the hook is not fired.
SetDefaultSoilProfile(b) ==
    /\ project.foundation.ground # None
    /\ Push("foundation")
    /\ project' = [project EXCEPT !.foundation.default = b]
    /\ UNCHANGED derived

-----------------------------------------------------------------------------
(***************************************************************************)
(* Undo and redo.                                                          *)
(***************************************************************************)

\* Defect: the restored model is put in place without the mutation hook.
RestoresSilently(p) ==
    /\ project' = p
    /\ UNCHANGED derived

restore(p) ==
    /\ project' = p
    /\ Mutated

restoreReinforcementOnly(p) ==
    /\ project' = [project EXCEPT !.rebar = p.rebar]
    /\ IF p.rebar = project.rebar THEN UNCHANGED derived ELSE ReinforcementCommitted

\* Defect: the footings and the ground come back, the mat preferences do not.
ForgetsMat(p) ==
    /\ project' = [project EXCEPT !.foundation = [p.foundation EXCEPT !.mat = project.foundation.mat]]
    /\ IF p.foundation = project.foundation THEN UNCHANGED derived ELSE FoundationChanged

restoreFoundationOnly(p) ==
    /\ project' = [project EXCEPT !.foundation = p.foundation]
    /\ IF p.foundation = project.foundation THEN UNCHANGED derived ELSE FoundationChanged

RestoreEntry(e) ==
    \/ e.kind = "structural" /\ restore(e.project)
    \/ e.kind = "reinforcement" /\ restoreReinforcementOnly(e.project)
    \/ e.kind = "foundation" /\ restoreFoundationOnly(e.project)

\* The state being left is pushed on the other stack under the same kind.
Undo ==
    /\ undo # <<>>
    /\ undo' = Front(undo)
    /\ redo' = Append(redo, [kind |-> Last(undo).kind, project |-> project])
    /\ RestoreEntry(Last(undo))
    /\ UNCHANGED edits

Redo ==
    /\ redo # <<>>
    /\ redo' = Front(redo)
    /\ undo' = Append(undo, [kind |-> Last(redo).kind, project |-> project])
    /\ RestoreEntry(Last(redo))
    /\ UNCHANGED edits

-----------------------------------------------------------------------------
(***************************************************************************)
(* What is derived from the project.                                       *)
(***************************************************************************)

\* A solve publishes results for the model on screen.
Solve ==
    /\ results' = project.structure
    /\ UNCHANGED <<project, undo, redo, checked, run, document, edits>>

\* The verification of the provided rebar, from the retained demand, memoized.
Verify ==
    /\ results # None
    /\ checked' = [rebar |-> project.rebar, structure |-> results]
    /\ UNCHANGED <<project, undo, redo, results, run, document, edits>>

\* footingRunFingerprint: the mat preferences and the revision of each footing.
Fingerprint(f) ==
    [mat |-> f.mat,
     footings |-> {<<g.id, g.revision>> : g \in {f.footing} \ {None}}]

\* generateFloors designs the footings and retires the document.
GenerateFloors ==
    /\ run' = [foundation |-> project.foundation, fingerprint |-> Fingerprint(project.foundation)]
    /\ document' = None
    /\ UNCHANGED <<project, undo, redo, results, checked, edits>>

\* buildDocument, once there is detailing to describe.
BuildDocument ==
    /\ run # None
    /\ document' = project.foundation
    /\ UNCHANGED <<project, undo, redo, results, checked, run, edits>>

-----------------------------------------------------------------------------
Edit ==
    \/ \E s \in Structures : EditStructure(s) \/ RemoveNode(s)
    \/ \E r \in Rebars : SetReinforcement(r)
    \/ \E d \in Designs : AddFooting(d) \/ \E b \in BOOLEAN : UpdateFooting(d, b)
    \/ RemoveFooting
    \/ \E m \in Mats : SetMat(m)
    \/ AddSoilProfile
    \/ \E c \in Capacities : UpdateSoilProfile(c)
    \/ RemoveSoilProfile
    \/ \E b \in BOOLEAN : SetDefaultSoilProfile(b)

\* A project from elsewhere: any structure and rebar, no foundation yet.
Replace ==
    \E s \in Structures, r \in Rebars, m \in Mats :
        OpenFile(Unfounded(s, r, m)) \/ RestoreAutosave(Unfounded(s, r, m))

Derive == Solve \/ Verify \/ GenerateFloors \/ BuildDocument

Next == Edit \/ Replace \/ Undo \/ Redo \/ Derive

Spec == Init /\ [][Next]_vars

-----------------------------------------------------------------------------
(***************************************************************************)
(* Properties.                                                             *)
(***************************************************************************)

\* The slices, the stacks within MAX_HISTORY together, the derived values.
TypeOK ==
    /\ project \in Project
    /\ undo \in Seq(Entry) /\ redo \in Seq(Entry)
    /\ Len(undo) + Len(redo) <= MaxHistory
    /\ results \in Structures \cup {None}
    /\ checked \in [rebar : Rebars, structure : Structures] \cup {None}
    /\ run \in [foundation : Foundation, fingerprint : [mat : Mats, footings : SUBSET (Nat \X Nat)]]
              \cup {None}
    /\ document \in Foundation \cup {None}
    /\ edits \in Nat

\* The slices of a project, without the counter of ids.
Slices(p) == [p EXCEPT !.nextFooting = 0]

\* Two projects that differ at most in the slice an entry of kind k restores.
SameBut(k, p, q) ==
    \/ k = "structural"
    \/ k = "reinforcement" /\ Slices([p EXCEPT !.rebar = q.rebar]) = Slices(q)
    \/ k = "foundation" /\ Slices([p EXCEPT !.foundation = q.foundation]) = Slices(q)

\* The project an entry of a stack was left for: the next entry's, or the one on
\* screen.
After(stack, i) == IF i = Len(stack) THEN project ELSE stack[i + 1].project

\* Between an entry and what followed it, nothing changed outside its slice.  This
\* is what makes restoring only the slice enough.  (model.svelte.ts, on
\* restoreReinforcementOnly: "a snapshot known to differ from the live model in
\* nothing but reinforcement".)
Chained ==
    \A stack \in {undo, redo} : \A i \in DOMAIN stack :
        SameBut(stack[i].kind, stack[i].project, After(stack, i))

\* Undo and redo bring back the whole project of the entry, although they write
\* one slice of it.  (history.svelte.ts: "worst case is a full restore, never a
\* skipped one".)
HistoryIsExact ==
    [][/\ Undo => Slices(project') = Slices(Last(undo).project)
       /\ Redo => Slices(project') = Slices(Last(redo).project)]_vars

\* Results and cached verdicts are those of the model and the bars on screen, and the
\* current document describes the foundations, through any sequence of edits, undos
\* and redos on any channel.  (store/index.ts: "results never persist after the model
\* changes"; "a project could edit a footing and keep issuing the document that
\* justified the old one".)
DerivedIsCurrent ==
    /\ results # None => results = project.structure
    /\ checked # None => checked = [rebar |-> project.rebar, structure |-> project.structure]
    /\ document # None => Described(document) = Described(project.foundation)

\* What a footing run says: the mat, the footing, and the ground under it.
Designed(f) ==
    [mat |-> f.mat, footing |-> f.footing,
     ground |-> IF f.footing # None /\ f.footing.founded THEN f.ground ELSE None]

\* A footing run that does not read as stale holds the design of the footing on
\* screen.  (detailing.svelte.ts, on the fingerprint: "exactly the inputs
\* `runFootingDesign` reads that a user can change without re-solving".)
FreshRunIsCurrent ==
    run # None /\ run.fingerprint = Fingerprint(project.foundation) =>
        Designed(run.foundation) = Designed(project.foundation)

=============================================================================
