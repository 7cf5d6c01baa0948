\* Two tabs, from the start of the engine on, with solves that wait for it and solves that
\* overlap, without the overlaps of Races.  Bounds of the user may be exhausted.
SPECIFICATION FairSpec
CONSTANTS
    Tabs = {t1, t2}
    Contents = {empty, a}
    Empty = empty
    None = None
    Combinations = TRUE
    Helpers = FALSE
    CacheMax = 1
    Engine = {"starting", "ready"}
    Races = {}
    MaxVersion = 3
    MaxAsks = 2
INVARIANTS TypeOK ResultsMatchModel CombosAgreeWithResults NewestRequestWins
PROPERTIES EditIsAnswered
CHECK_DEADLOCK FALSE
