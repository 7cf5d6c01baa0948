----------------------------- MODULE SavePromise -----------------------------
(***************************************************************************)
(* What an autosave promises, without saying how: the store holds one      *)
(* newest project, a save is reported only when it has landed, and only a  *)
(* discard takes either back.                                              *)
(***************************************************************************)
EXTENDS Naturals

VARIABLES
    durable,    \* rank of the project a load would find
    reported    \* newest rank reported saved and not discarded

Init == durable \in Nat /\ reported \in Nat /\ reported <= durable

\* A project lands in the store without replacing a newer reported one.
Land == durable' \in Nat /\ durable' >= reported /\ UNCHANGED reported

\* A landed project is reported saved.
Report == reported' \in Nat /\ reported' <= durable /\ UNCHANGED durable

\* The user discards: nothing is promised any more, whatever is still stored.
Forget == reported' = 0 /\ durable' \in {0, durable}

Next == Land \/ Report \/ Forget

Spec == Init /\ [][Next]_<<durable, reported>>
=============================================================================
