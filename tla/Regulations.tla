----------------------------- MODULE Regulations -----------------------------
(***************************************************************************)
(* The regulations of a project and the loads generated from them: the     *)
(* store `regulations.svelte.ts`, the panel of the Design tab that stages  *)
(* a change, the dialog of the Loads tab that previews and applies one,    *)
(* and the certificates a floor run stamps with the revision vector.       *)
(*                                                                         *)
(* Bindings, revisions, loads and certificates live in the model, so an    *)
(* undo brings them back together; what a cancel needs to restore lives in *)
(* the store and stays.  A set of loads is a version number: equal numbers *)
(* are equal loads.                                                        *)
(***************************************************************************)
EXTENDS Integers, Sequences, SequencesExt, Revisions

CONSTANTS
    Options,        \* the adapters that can be bound to each role
    LoadAffecting,  \* the roles the generated loads come from
    Seed,           \* defaultRegulations: the adapter of each role, or None
    Supported,      \* adapters with an implementation, or declared experimental
    NeedsConfig,    \* adapters whose settings the Loads dialog supplies
    FamilyOf,       \* the family of each adapter
    None,
    MaxHistory,     \* entries undo can return to, 50 in the source
    MaxEdits,       \* bound: changes of the project
    Races           \* circumstances the code does not guard against, see below

Roles == DOMAIN Options
Adapters == UNION {Options[r] : r \in Roles}

\* handEdit:   loads are edited without the dialog under a certificate that reads fresh;
\* relabel:    a design-only change is made while a load regulation is staged;
\* staged:     undo or redo lands on, or leaves, a project with a staged change.
AllRaces == {"handEdit", "relabel", "staged"}

ASSUME RolesAssumption ==
    /\ {"basis", "loads"} \subseteq LoadAffecting
    /\ LoadAffecting \subseteq Roles
    /\ None \notin Adapters
    /\ Seed \in [Roles -> Adapters \cup {None}]
    /\ Supported \cup NeedsConfig \subseteq Adapters
    /\ DOMAIN FamilyOf = Adapters
    /\ Races \subseteq AllRaces
ASSUME LimitsAssumption == MaxHistory \in Nat \ {0} /\ MaxEdits \in Nat

VARIABLES
    project,    \* the slices of modelStore.model this module is about
    displaced,  \* what a staged change displaced, by role
    plan,       \* the previewed plan: the adapters it was built from, or None
    tab,        \* uiStore.proActiveTab
    banner,     \* the panel says a change waits for the Loads tab
    results,    \* the loads the shown results were computed from, or None
    undo, redo,
    made,       \* the newest version of the loads
    edits

store == <<displaced, plan, tab, banner>>
history == <<undo, redo>>
vars == <<project, store, results, history, made, edits>>

-----------------------------------------------------------------------------
Binding ==
    [adapter : Adapters \cup {None}, state : {"applied", "pending", "unset"},
     at : Nat \cup {None}, complete : BOOLEAN]

\* None is not a binding.
ASSUME NoneAssumption == None \notin Binding

Unset == [adapter |-> None, state |-> "unset", at |-> None, complete |-> FALSE]

\* bindRole
Bound(adapter) ==
    [adapter |-> adapter, state |-> "pending", at |-> None,
     complete |-> adapter \notin NeedsConfig]

DefaultRegulations ==
    [r \in Roles |->
        IF Seed[r] = None THEN Unset
        ELSE [Bound(Seed[r]) EXCEPT !.state = "applied", !.at = 0]]

Sources == [LoadAffecting -> Adapters \cup {None}]
\* The plan the newest generated loads come from, if any, and those of the loads it was
\* added to.
Loads == [version : Nat, from : Sources \cup {None}, under : SUBSET Sources]
NoLoads(version) == [version |-> version, from |-> None, under |-> {}]
Certificate == [analysis : Nat, loads : Nat, regulation : Nat, of : Nat]
Project ==
    [roles : [Roles -> Binding], revisions : Vector, loads : Loads,
     certificate : Certificate \cup {None}]

PendingRoles == {r \in Roles : project.roles[r].state = "pending"}

\* roleUsable
Usable(roles, r) == roles[r].adapter \in Supported /\ roles[r].complete

\* The errors of validateStack that name a role; only those refuse a change of it.
Refused(roles, role) ==
    LET family(r) == IF roles[r].adapter = None THEN None ELSE FamilyOf[roles[r].adapter]
    IN  \/ roles[role].adapter \notin Supported
        \/ /\ role \in {"basis", "loads"}
           /\ None \notin {family("basis"), family("loads")}
           /\ family("basis") # family("loads")
        \/ /\ role \in {"seismic", "basis"} \cap Roles
           /\ "seismic" \in Roles
           /\ roles["seismic"].adapter # None
           /\ roles["basis"].adapter = None

Init ==
    /\ project = [roles |-> DefaultRegulations, revisions |-> NoRevisions,
                  loads |-> NoLoads(0), certificate |-> None]
    /\ displaced = [r \in Roles |-> None]
    /\ plan = None
    /\ tab = "design"
    /\ banner = FALSE
    /\ results = None
    /\ undo = <<>>
    /\ redo = <<>>
    /\ made = 0
    /\ edits = 0

-----------------------------------------------------------------------------
(***************************************************************************)
(* The store.                                                              *)
(***************************************************************************)

\* Edits are bounded; the bound stops nothing else.
Edit == edits < MaxEdits /\ edits' = edits + 1

\* Defect: the newest binding displaced replaces the one to go back to.
DisplacesAgain(role) == displaced' = [displaced EXCEPT ![role] = project.roles[role]]

\* The first binding a staged change displaces is the one a cancel restores.
Displaces(role) ==
    displaced' = IF displaced[role] = None
                 THEN [displaced EXCEPT ![role] = project.roles[role]] ELSE displaced

\* applyPending, given the bindings: every staged binding, whatever its role, is applied.
Applied(roles, kind) ==
    LET rev == project.revisions
    IN  [project EXCEPT
            !.roles = [r \in Roles |->
                IF roles[r].state = "pending"
                THEN [roles[r] EXCEPT !.state = "applied", !.at = rev["regulationConfig"] + 1]
                ELSE roles[r]],
            !.revisions = ApplyChange(rev, kind)]

\* Defect: what an applied change displaced is kept.
KeepsDisplaced == UNCHANGED displaced

ForgetDisplaced == displaced' = [r \in Roles |-> None]

\* onSelect: a selector fires when its value changes.
Selects(role, adapter) == tab = "design" /\ adapter # project.roles[role].adapter

\* requestChange of a load-affecting role: staged, and the panel sends to the Loads tab.
StageChange(role, adapter) ==
    /\ Selects(role, adapter)
    /\ role \in LoadAffecting
    /\ ~Refused([project.roles EXCEPT ![role] = Bound(adapter)], role)
    /\ project' = [project EXCEPT !.roles[role] = Bound(adapter)]
    /\ Displaces(role)
    /\ banner' = TRUE
    /\ UNCHANGED <<plan, tab, results, history, made, edits>>

\* requestChange of a design-only role: applied in place, with all that is staged.
ChangeDesignRole(role, adapter) ==
    /\ Selects(role, adapter)
    /\ role \in Roles \ LoadAffecting
    /\ PendingRoles \cap LoadAffecting = {} \/ "relabel" \in Races
    /\ ~Refused([project.roles EXCEPT ![role] = Bound(adapter)], role)
    /\ Edit
    /\ project' = Applied([project.roles EXCEPT ![role] = Bound(adapter)], "designRegulation")
    /\ ForgetDisplaced
    /\ banner' = FALSE
    /\ UNCHANGED <<plan, tab, results, history, made>>

\* cancelPending: a role whose displaced binding is not known is unset.
CancelChange ==
    /\ tab = "design"
    /\ banner
    /\ project' = [project EXCEPT !.roles = [r \in Roles |->
            IF r \notin PendingRoles THEN project.roles[r]
            ELSE IF displaced[r] # None THEN displaced[r]
            ELSE [project.roles[r] EXCEPT !.state = "unset", !.adapter = None]]]
    /\ ForgetDisplaced
    /\ banner' = FALSE
    /\ UNCHANGED <<plan, tab, results, history, made, edits>>

\* A tab that is left is unmounted: the banner of one and the plan of the other go.
GoToLoads == tab = "design" /\ tab' = "loads"
GoToDesign == tab = "loads" /\ tab' = "design"
SwitchTab ==
    /\ GoToLoads \/ GoToDesign
    /\ banner' = FALSE
    /\ plan' = None
    /\ UNCHANGED <<project, displaced, results, history, made, edits>>

-----------------------------------------------------------------------------
(***************************************************************************)
(* The dialog of the Loads tab.                                            *)
(***************************************************************************)

\* Defect: the oldest entries are never dropped.
Grows(snapshots) == undo' = undo \o snapshots /\ redo' = <<>>

\* pushState, for a run of mutations: the snapshots from before each of them.
Push(snapshots) ==
    LET stack == undo \o snapshots
    IN  /\ undo' = SubSeq(stack, 1 + (IF Len(stack) > MaxHistory
                                      THEN Len(stack) - MaxHistory ELSE 0), Len(stack))
        /\ redo' = <<>>

\* handlePreview: the dialog supplies the settings of the roles it generates loads for, and
\* the plan is built from the bindings as they stand, staged ones included.
Preview(enabled) ==
    /\ tab = "loads"
    /\ {"basis", "loads"} \subseteq enabled
    /\ LET roles == [r \in Roles |->
                        IF r \in enabled THEN [project.roles[r] EXCEPT !.complete = TRUE]
                        ELSE project.roles[r]]
       IN  /\ project' = [project EXCEPT !.roles = roles]
           /\ plan' = IF \A r \in enabled : Usable(roles, r)
                      THEN [r \in LoadAffecting |->
                               IF r \in enabled THEN roles[r].adapter ELSE None]
                      ELSE None   \* BLOCKED: there is nothing to apply
    /\ UNCHANGED <<displaced, tab, banner, results, history, made, edits>>

\* The plans of all the generated loads there are.
Generated == project.loads.under \cup ({project.loads.from} \ {None})

\* The loads when half of a plan has been added to those that are kept, and all of it.
Half(kept) == [version |-> made + 1, from |-> None, under |-> kept \cup {plan}]
Whole(kept) == [version |-> made + 2, from |-> plan, under |-> kept]

\* Defect: an application with nothing staged records no change.
AppliesInSilence ==
    /\ plan # None
    /\ Edit
    /\ made' = made + 2
    /\ \E kept \in {{}, Generated} :
        /\ project' =
            [(IF PendingRoles # {} THEN Applied(project.roles, "loadRegulation") ELSE project)
                EXCEPT !.loads = Whole(kept)]
        /\ Push(<<project, [project EXCEPT !.loads = Half(kept)]>>)
    /\ results' = None
    /\ ForgetDisplaced
    /\ plan' = None
    /\ UNCHANGED <<tab, banner>>

\* handleApply: load by load, each with its undo entry, then the revisions; the snapshots
\* from the middle hold part of the loads, under the bindings and revisions from before.
\* The loads there are go first if clearExisting is set, and otherwise stay.
ApplyPlan ==
    /\ plan # None
    /\ Edit
    /\ made' = made + 2
    /\ \E kept \in {{}, Generated} :
        /\ project' =
            [(IF PendingRoles # {} THEN Applied(project.roles, "loadRegulation")
              ELSE [project EXCEPT !.revisions = ApplyChange(@, "loadEdit")])
                EXCEPT !.loads = Whole(kept)]
        /\ Push(<<project, [project EXCEPT !.loads = Half(kept)]>>)
    /\ results' = None
    /\ IF PendingRoles # {} THEN ForgetDisplaced ELSE UNCHANGED displaced
    /\ plan' = None
    /\ UNCHANGED <<tab, banner>>

-----------------------------------------------------------------------------
(***************************************************************************)
(* The rest of the project.                                                *)
(***************************************************************************)

\* certificateFreshness, as buildDocument asks it.
ReadsFresh(c) ==
    /\ c # None
    /\ c.analysis = project.revisions["analysis"]
    /\ c.loads = project.revisions["combination"]
    /\ c.regulation = project.revisions["regulationConfig"]

\* A load added, changed or removed anywhere else: no revision moves.
EditLoads ==
    /\ ~ReadsFresh(project.certificate) \/ "handEdit" \in Races
    /\ Edit
    /\ Push(<<project>>)
    /\ made' = made + 1
    /\ project' = [project EXCEPT !.loads.version = made + 1]
    /\ results' = None
    /\ UNCHANGED store

\* A solve is answered; no revision moves.
Solve ==
    /\ results' = project.loads.version
    /\ UNCHANGED <<project, store, history, made, edits>>

\* generateFloors: designed for the results, stamped with the revision vector, which the
\* run then moves from the reinforcement on.
RunFloors ==
    /\ results # None
    /\ Edit
    /\ project' = [project EXCEPT
            !.certificate = [analysis   |-> project.revisions["analysis"],
                             loads      |-> project.revisions["combination"],
                             regulation |-> project.revisions["regulationConfig"],
                             of         |-> results],
            !.revisions = ApplyChange(@, "reinforcementEdit")]
    /\ UNCHANGED <<store, results, history, made>>

\* clear: no loads and no detailing; bindings and revisions stay.
NewProject ==
    /\ PendingRoles = {} \/ "staged" \in Races
    /\ Edit
    /\ Push(<<project>>)
    /\ made' = made + 1
    /\ project' = [project EXCEPT !.loads = NoLoads(made + 1), !.certificate = None]
    /\ results' = None
    /\ UNCHANGED store

\* undo and redo: the whole project comes back, and only the project.
Returns(p) ==
    /\ \/ "staged" \in Races
       \/ PendingRoles = {} /\ \A r \in Roles : p.roles[r].state # "pending"
    /\ project' = p
    /\ results' = None
    /\ UNCHANGED <<store, made, edits>>

Undo ==
    /\ undo # <<>>
    /\ Returns(Last(undo))
    /\ undo' = Front(undo)
    /\ redo' = Append(redo, project)

Redo ==
    /\ redo # <<>>
    /\ Returns(Last(redo))
    /\ redo' = Front(redo)
    /\ undo' = Append(undo, project)

-----------------------------------------------------------------------------
Next ==
    \/ \E r \in Roles : \E a \in Options[r] : StageChange(r, a) \/ ChangeDesignRole(r, a)
    \/ CancelChange
    \/ SwitchTab
    \/ \E enabled \in SUBSET LoadAffecting : Preview(enabled)
    \/ ApplyPlan
    \/ EditLoads
    \/ Solve
    \/ RunFloors
    \/ NewProject
    \/ Undo
    \/ Redo

Spec == Init /\ [][Next]_vars

-----------------------------------------------------------------------------
(***************************************************************************)
(* What the code promises.                                                 *)
(***************************************************************************)

TypeOK ==
    /\ project \in Project
    /\ displaced \in [Roles -> Binding \cup {None}]
    /\ plan \in Sources \cup {None}
    /\ tab \in {"design", "loads"}
    /\ banner \in BOOLEAN
    /\ results \in 0..made \cup {None}
    /\ undo \in Seq(Project) /\ Len(undo) <= MaxHistory
    /\ redo \in Seq(Project)
    /\ made \in Nat
    /\ edits \in 0..MaxEdits

\* What is in force while a change is staged: what a cancel would leave.
InForce(r) ==
    IF project.roles[r].state # "pending" THEN project.roles[r].adapter
    ELSE IF displaced[r] # None THEN displaced[r].adapter ELSE None

\* Staging and cancelling, in any number and any order, change nothing that is in force:
\* a regulation of the loads comes into force where the loads are regenerated, or comes
\* back with the project it was in force in.
LoadRolesChangeWithTheLoads ==
    [][\A r \in LoadAffecting :
        InForce(r)' # InForce(r) => project.loads' # project.loads]_vars

\* The newest generated loads come from the bindings that are applied: a change of
\* regulation comes into force with loads generated under it, and leaves with them.
NewestLoadsAreOfTheAppliedRoles ==
    \A r \in LoadAffecting :
        project.roles[r].state = "applied" /\ project.loads.from # None =>
            project.loads.from[r] \in {None, project.roles[r].adapter}

\* A certificate that reads fresh was designed for the forces of the loads the model has.
\* Half an application, which an undo can stop at, is not a set of generated loads.
FreshCertificateIsOfTheLoads ==
    ReadsFresh(project.certificate) /\ project.loads.from # None =>
        project.certificate.of = project.loads.version

=============================================================================
