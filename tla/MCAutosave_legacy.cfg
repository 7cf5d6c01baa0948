\* One tab with a save in the legacy slot: the import, the load and every write may
\* be cut by a crash anywhere, writes and clears abort, records get damaged.
SPECIFICATION FairSpec
CONSTANTS
    Tabs = {t1}
    Kept = 3
    DbOpens <- Opens
    LegacyAtStart = TRUE
    Hazards <- WriteFaults
    MaxRank = 3
    MaxRevision = 3
    MaxCrashes = 3
    MaxFaults = 1
INVARIANTS AckedIsRecoverable NoSilentDowngrade InductiveInvariant
PROPERTIES NewestRequestIsServed KeepsPromise
CHECK_DEADLOCK FALSE
