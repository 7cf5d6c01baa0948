---------------------------- MODULE MCModelHistory ----------------------------
(* Model checking of the history: the circumstances the configurations allow. *)
EXTENDS ModelHistory, TLC

===============================================================================
