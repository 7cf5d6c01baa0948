\* One tab.  Every fault of the environment but a discard that overlaps a write:
\* IndexedDB opens in some sessions only, writes, clears, reads and imports abort,
\* records and the slot are damaged, the tab dies, the user edits during the load.
SPECIFICATION Spec
CONSTANTS
    Tabs = {t1}
    Kept = 2
    DbOpens <- SometimesOpens
    LegacyAtStart = FALSE
    Hazards <- EveryFault
    MaxRank = 2
    MaxRevision = 4
    MaxCrashes = 2
    MaxFaults = 1
INVARIANTS TypeOK RetentionWindow
CHECK_DEADLOCK FALSE
