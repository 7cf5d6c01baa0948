---------------------------- MODULE MCDesignFlow -----------------------------
(* Model checking of the design flow: members and bars are interchangeable. *)
EXTENDS DesignFlow, TLC

Symmetric == Permutations(Rebars) \cup Permutations(Members)

=============================================================================
