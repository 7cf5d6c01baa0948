----------------------------- MODULE MCAutosave -----------------------------
(* Model checking of the autosave: the sets the configurations choose from. *)
EXTENDS AutosaveProofs

Opens == {TRUE}             \* IndexedDB opens in every session
SometimesOpens == BOOLEAN   \* an open that fails in some sessions

Quiet == {}
WriteFaults == {"serviceFault", "clearFault", "recordDamage"}
EveryFault == HazardKinds \ {"discardRace"}
=============================================================================
