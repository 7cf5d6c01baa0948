------------------------------ MODULE Revisions ------------------------------
(***************************************************************************)
(* The revision graph of `lib/codes/revisions.ts`: ten stages of a         *)
(* project, what each consumes, and what a change of each kind costs.      *)
(***************************************************************************)
EXTENDS Integers

Stages ==
    {"regulationConfig", "materialSpec", "loadDefinition", "generatedLoad", "combination",
     "analysis", "design", "reinforcement", "detailing", "document"}

DependsOn ==
    [regulationConfig |-> {},
     materialSpec     |-> {},
     loadDefinition   |-> {"regulationConfig"},
     generatedLoad    |-> {"loadDefinition"},
     combination      |-> {"generatedLoad"},
     analysis         |-> {"combination"},
     design           |-> {"analysis", "regulationConfig", "materialSpec"},
     reinforcement    |-> {"design", "materialSpec"},
     detailing        |-> {"reinforcement"},
     document         |-> {"detailing", "design", "analysis", "regulationConfig"}]

Dependents(stage) == {later \in Stages : stage \in DependsOn[later]}

\* What the worklist of downstreamOf ends with: the least set that holds the dependents
\* of the stage and, with a stage, its dependents.
Downstream ==
    [stage \in Stages |->
        {later \in Stages :
            \A closed \in SUBSET Stages :
                /\ Dependents(stage) \subseteq closed
                /\ \A s \in closed : Dependents(s) \subseteq closed
                => later \in closed}]

Vector == [Stages -> Nat]

\* emptyRevisions
NoRevisions == [stage \in Stages |-> 0]

\* bump and bumpPreserving: the stage and everything downstream but what is preserved.
Bump(revisions, stage, preserved) ==
    [s \in Stages |->
        IF s = stage \/ s \in Downstream[stage] \ preserved
        THEN revisions[s] + 1 ELSE revisions[s]]

\* The guard of bumpPreserving: a direct dependent is never preserved.
MayPreserve(stage, preserved) == preserved \cap Dependents(stage) = {}

-----------------------------------------------------------------------------
(***************************************************************************)
(* What a change costs: consequenceOf and applyChange.                     *)
(***************************************************************************)

ChangeKinds ==
    {"loadRegulation", "designRegulation", "materialSpec", "detailingSpec", "loadEdit",
     "reinforcementEdit"}

Origin ==
    [loadRegulation    |-> "regulationConfig",
     designRegulation  |-> "design",
     materialSpec      |-> "materialSpec",
     detailingSpec     |-> "reinforcement",
     loadEdit          |-> "generatedLoad",
     reinforcementEdit |-> "reinforcement"]

Forces == {"loadDefinition", "generatedLoad", "combination", "analysis"}

Preserved ==
    [loadRegulation    |-> {},
     designRegulation  |-> Forces,
     materialSpec      |-> Forces,
     detailingSpec     |-> Forces \cup {"design"},
     loadEdit          |-> {},
     reinforcementEdit |-> Forces \cup {"design"}]

\* The stages the table tells the user are invalidated.
Invalidated ==
    [loadRegulation    |-> Downstream["regulationConfig"],
     designRegulation  |-> {"design"} \cup Downstream["design"],
     materialSpec      |-> Downstream["materialSpec"] \ {"analysis"},
     detailingSpec     |-> {"reinforcement", "detailing", "document"},
     loadEdit          |-> Downstream["generatedLoad"],
     reinforcementEdit |-> {"detailing", "document"}]

ApplyChange(revisions, kind) == Bump(revisions, Origin[kind], Preserved[kind])

-----------------------------------------------------------------------------
\* stamp: what a stage's output was produced against.
Stamp(stage, revisions) ==
    [stage |-> stage, own |-> revisions[stage],
     inputs |-> [d \in DependsOn[stage] |-> revisions[d]]]

\* freshness: nothing the output consumed has moved, and neither has the stage.
Fresh(s, revisions) ==
    /\ s.own = revisions[s.stage]
    /\ \A d \in DependsOn[s.stage] : s.inputs[d] = revisions[d]

=============================================================================
