---------------------------- MODULE MCRegulations ----------------------------
(* Model checking of the regulations: a small catalogue with an edition of each kind. *)
EXTENDS Regulations

MCLoadAffecting == {"basis", "loads", "wind"}
MCOptions ==
    [basis |-> {"basis2025", "en1990"}, loads |-> {"loads2025"},
     wind |-> {"wind2025", "wind2005"}, steel |-> {"steel2018"}]
MCSeed ==
    [basis |-> "basis2025", loads |-> "loads2025", wind |-> "wind2025", steel |-> None]
MCSupported == Adapters \ {"en1990"}
MCNeedsConfig == {"loads2025", "wind2025", "wind2005"}
MCFamilyOf == [a \in Adapters |-> IF a = "en1990" THEN "eurocode" ELSE "cirsoc"]

-----------------------------------------------------------------------------
(***************************************************************************)
(* The revision graph and the table of what a change costs, which are the  *)
(* same in every state.                                                    *)
(***************************************************************************)

\* downstreamOf, as it is computed: what is seen, and what is still to be looked at.
RECURSIVE Visited(_, _)
Visited(seen, queue) ==
    IF queue = <<>> THEN seen
    ELSE IF Head(queue) \in seen THEN Visited(seen, Tail(queue))
    ELSE Visited(seen \cup {Head(queue)}, Tail(queue) \o SetToSeq(Dependents(Head(queue))))

ASSUME WorklistIsDownstream ==
    \A stage \in Stages : Downstream[stage] = Visited({}, SetToSeq(Dependents(stage)))

\* No change preserves what consumes its origin directly: bumpPreserving never throws.
ASSUME TableNeverThrows ==
    \A kind \in ChangeKinds : MayPreserve(Origin[kind], Preserved[kind])

\* What a change is reported to invalidate, and its origin, is what stops reading fresh.
ASSUME ReportIsExact ==
    \A kind \in ChangeKinds, stage \in Stages :
        ~Fresh(Stamp(stage, NoRevisions), ApplyChange(NoRevisions, kind))
            <=> stage \in Invalidated[kind] \cup {Origin[kind]}

=============================================================================
