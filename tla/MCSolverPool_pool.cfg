\* Two single solves and a combination solve of four cases race for the pool while
\* compiling, starting, cloning and solving may fail and workers may be lost.  Calls may
\* all have returned.
SPECIFICATION FairSpec
CONSTANTS
    Singles = {a, b}
    Combos = {c}
    Cases = 4
    Cores = 3
    Cap = 2
    MaxCreated = 7
INVARIANTS TypeOK NoOrphans AnsweredInFull
PROPERTIES EveryCallReturns
CHECK_DEADLOCK FALSE
