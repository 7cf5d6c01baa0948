---------------------------- MODULE MCSolveSession ----------------------------
(* Model checking of the solve session. *)
EXTENDS SolveSession

===============================================================================
