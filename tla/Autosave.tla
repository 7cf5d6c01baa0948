------------------------------ MODULE Autosave ------------------------------
(***************************************************************************)
(* The browser autosave of the workspace: `autosave-db.ts` (IndexedDB      *)
(* store), `autosave-service.ts` (coalescing), and the load, restore and   *)
(* discard entry points of `file.ts` and `App.svelte`.                     *)
(*                                                                         *)
(* A model state is abstracted to its RANK: the position of the edit that  *)
(* made it in the order of all edits.  Rank 0 is "no project".  Every      *)
(* await in the code is a transaction on one or both object stores; a      *)
(* process creates its next transaction in the callback of the previous    *)
(* one, and IndexedDB runs overlapping transactions in creation order      *)
(* (`ahead`).                                                              *)
(***************************************************************************)
EXTENDS Integers, FiniteSets

CONSTANTS
    Tabs,           \* browser tabs open on the origin: they share the stores
    Kept,           \* AUTOSAVE_REVISIONS_KEPT
    DbOpens,        \* possible outcomes of opening IndexedDB in a session
    LegacyAtStart,  \* a pre-IndexedDB save is in the localStorage slot
    Hazards,        \* the environment events this instance allows
    MaxRank, MaxRevision, MaxCrashes, MaxFaults   \* bounds

HazardKinds ==
    {"serviceFault", "importFault", "readFault", "clearFault",  \* a transaction aborts
     "recordDamage", "slotDamage",     \* stored data changes under the program
     "discardRace",                    \* Descartar while a write is in flight
     "loadRace"}                       \* the user edits before the load is done

ASSUME KeptAssumption == Kept \in Nat /\ Kept >= 2
ASSUME EnvironmentAssumption ==
    /\ DbOpens \in SUBSET BOOLEAN
    /\ LegacyAtStart \in BOOLEAN
    /\ Hazards \subseteq HazardKinds
ASSUME BoundsAssumption ==
    {MaxRank, MaxRevision, MaxCrashes, MaxFaults} \subseteq Nat

VARIABLES
    snaps,      \* STORE_SNAPSHOTS: revision -> [rank, intact]
    meta,       \* STORE_META: [last, unfinished, imported], unfinished 0 = null
    slot,       \* the localStorage key LEGACY_AUTOSAVE_KEY: [rank, intact]
    work,       \* tab -> rank of the model on screen
    pc,         \* process -> the transaction it waits for, or where it rests
    copy,       \* process -> the meta record it read last
    seen,       \* tab -> the meta record importLegacyOnce read first
    payload,    \* process -> rank captured by buildProjectFile
    ahead,      \* process -> processes whose transaction was created before its own
    pending,    \* tab -> a request was coalesced behind the write in flight
    dbUp,       \* tab -> IndexedDB opened in this session
    loaded,     \* tab -> what loadAutosave returned: [done, value, told, owed]
    rank,       \* rank of the newest edit anywhere
    acked,      \* newest rank a write reported `ok` for and nobody discarded since
    crashes, faults  \* bounded environment events so far

disk == <<snaps, meta, slot>>
procs == <<pc, copy, payload, ahead>>
budget == <<rank, crashes, faults>>
vars == <<disk, procs, work, seen, pending, dbUp, loaded, acked, budget>>

-----------------------------------------------------------------------------
Proc == Tabs \X {"service", "loader", "discard"}
service(t) == <<t, "service">>
loader(t) == <<t, "loader">>
discard(t) == <<t, "discard">>

\* Transactions by object store and mode: what each step of the code opens.
ReadsMeta == {"importRead", "readMeta", "afterRead", "loadMeta"}
WritesMeta == {"intent", "finish", "mark"}
OnSnapshots == {"commit", "loadAll"}
TxSteps == ReadsMeta \cup WritesMeta \cup OnSnapshots \cup {"clear"}

\* Two transactions exclude each other when their scopes meet and one writes.
Conflict(a, b) ==
    \/ a = "clear" \/ b = "clear"
    \/ a \in WritesMeta /\ b \in ReadsMeta \cup WritesMeta
    \/ a \in ReadsMeta /\ b \in WritesMeta
    \/ a \in OnSnapshots /\ b \in OnSnapshots /\ "commit" \in {a, b}

Outstanding == {p \in Proc : pc[p] \in TxSteps}

\* The transaction p waits for can run: none it must wait for is still open.
Runs(p, step) ==
    /\ pc[p] = step
    /\ \A q \in ahead[p] : ~Conflict(pc[q], step)

\* p's transaction (if any) is over; p opens the one named `at`, or rests there.
Advance(p, at) ==
    /\ pc' = [pc EXCEPT ![p] = at]
    /\ ahead' = [q \in Proc |->
                    IF q # p THEN ahead[q] \ {p}
                    ELSE IF at \in TxSteps THEN Outstanding \ {p} ELSE {}]

\* A write at step s has been aborted by the browser.
Fault(kind) ==
    /\ kind \in Hazards
    /\ faults < MaxFaults
    /\ faults' = faults + 1

NoMeta == [last |-> 0, unfinished |-> 0, imported |-> FALSE]
NoSlot == [rank |-> 0, intact |-> TRUE]
NotLoaded == [done |-> FALSE, value |-> 0, told |-> FALSE, owed |-> 0]
Larger(a, b) == IF a > b THEN a ELSE b

Init ==
    /\ rank = IF LegacyAtStart THEN 1 ELSE 0
    /\ snaps = <<>>
    /\ meta = NoMeta
    /\ slot = IF LegacyAtStart THEN [rank |-> 1, intact |-> TRUE] ELSE NoSlot
    /\ work = [t \in Tabs |-> 0]
    /\ pc = [p \in Proc |-> IF p[2] = "loader" THEN "boot" ELSE "idle"]
    /\ copy = [p \in Proc |-> NoMeta]
    /\ seen = [t \in Tabs |-> NoMeta]
    /\ payload = [p \in Proc |-> 0]
    /\ ahead = [p \in Proc |-> {}]
    /\ pending = [t \in Tabs |-> FALSE]
    /\ dbUp = [t \in Tabs |-> FALSE]
    /\ loaded = [t \in Tabs |-> NotLoaded]
    /\ acked = IF LegacyAtStart THEN 1 ELSE 0
    /\ crashes = 0
    /\ faults = 0

-----------------------------------------------------------------------------
(***************************************************************************)
(* The write: autosaveWrite run by the service, or by importLegacyOnce.    *)
(***************************************************************************)

\* Defect: the revision is not incremented.
RevisionReused(p) == copy[p].last

\* const revision = meta.lastRevision + 1, from the copy the write read.
revision(p) == copy[p].last + 1

WriteReadsMeta(p) ==
    /\ Runs(p, "readMeta")
    /\ copy' = [copy EXCEPT ![p] = meta]
    /\ Advance(p, "intent")
    /\ UNCHANGED <<disk, payload, work, seen, pending, dbUp, loaded, acked, budget>>

\* Step 1: the marker declares the revision before anything is stored.
WriteDeclaresIntent(p) ==
    /\ Runs(p, "intent")
    /\ meta' = [copy[p] EXCEPT !.unfinished = revision(p)]
    /\ Advance(p, "commit")
    /\ UNCHANGED <<snaps, slot, copy, payload, work, seen, pending, dbUp, loaded,
                   acked, budget>>

\* Defect of the retirement: an open upper bound keeps one revision too many.
KeepsOneTooMany(s, r, record) ==
    [k \in {i \in DOMAIN s \cup {r} : r - Kept >= 1 => i >= r - Kept} |->
        IF k = r THEN record ELSE s[k]]

\* What one transaction leaves in the store: the record, and the window of
\* revisions a write keeps.
Committed(s, r, record) ==
    [k \in {i \in DOMAIN s \cup {r} : r - Kept >= 1 => i > r - Kept} |->
        IF k = r THEN record ELSE s[k]]

\* Defect: the record is written in a transaction nobody waits for, and lost.
ReportsBeforeCommit(p) ==
    /\ Runs(p, "commit")
    /\ Advance(p, "finish")
    /\ UNCHANGED <<disk, copy, payload, work, seen, pending, dbUp, loaded, acked, budget>>

\* Step 2: record and retirement in one transaction.
WriteCommitsRecord(p) ==
    /\ Runs(p, "commit")
    /\ snaps' = Committed(snaps, revision(p), [rank |-> payload[p], intact |-> TRUE])
    /\ Advance(p, "finish")
    /\ UNCHANGED <<meta, slot, copy, payload, work, seen, pending, dbUp, loaded,
                   acked, budget>>

\* Defect: the coalesced request is forgotten.
ForgetsQueued(t) ==
    /\ pending' = [pending EXCEPT ![t] = FALSE]
    /\ Advance(service(t), "idle")
    /\ UNCHANGED <<slot, payload>>

\* The write has returned to the service: the `finally` of runOne starts the
\* coalesced request, with the model as it is now, or the service rests.
ServiceReturns(t) ==
    LET again == pending[t] /\ work[t] # 0 IN
    /\ pending' = [pending EXCEPT ![t] = FALSE]
    /\ payload' = IF again THEN [payload EXCEPT ![service(t)] = work[t]] ELSE payload
    /\ Advance(service(t), IF again THEN "readMeta" ELSE "idle")
    /\ UNCHANGED slot

\* The write has returned to importLegacyOnce, which ignores its result,
\* empties the legacy slot and reads the meta record again.
ImportReturns(t) ==
    /\ slot' = NoSlot
    /\ Advance(loader(t), "afterRead")
    /\ UNCHANGED <<pending, payload>>

WriteReturns(p) == IF p[2] = "service" THEN ServiceReturns(p[1]) ELSE ImportReturns(p[1])

\* Step 3: revision R is now a save that happened, and `ok` is reported.
WriteFinishes(p) ==
    /\ Runs(p, "finish")
    /\ meta' = [copy[p] EXCEPT !.last = revision(p), !.unfinished = 0]
    /\ acked' = Larger(acked, payload[p])
    /\ WriteReturns(p)
    /\ UNCHANGED <<snaps, copy, work, seen, dbUp, loaded, budget>>

\* Any of the four transactions aborts (quota, clone, unknown): `ok` is false
\* and the marker, if written, stays.
WriteFails(p) ==
    /\ \E step \in {"readMeta", "intent", "commit", "finish"} : Runs(p, step)
    /\ Fault(IF p[2] = "service" THEN "serviceFault" ELSE "importFault")
    /\ WriteReturns(p)
    /\ UNCHANGED <<snaps, meta, copy, work, seen, dbUp, loaded, acked, rank, crashes>>

Write(p) ==
    \/ WriteReadsMeta(p)
    \/ WriteDeclaresIntent(p)
    \/ WriteCommitsRecord(p)
    \/ WriteFinishes(p)
    \/ WriteFails(p)

-----------------------------------------------------------------------------
(***************************************************************************)
(* The service and the user.                                               *)
(***************************************************************************)

Loaded(t) == pc[loader(t)] = "ready"

Edit(t) ==
    /\ pc[loader(t)] # "boot"
    /\ "loadRace" \in Hazards \/ Loaded(t)
    /\ rank < MaxRank
    /\ rank' = rank + 1
    /\ work' = [work EXCEPT ![t] = rank + 1]
    /\ UNCHANGED <<disk, procs, seen, pending, dbUp, loaded, acked, crashes, faults>>

\* requestAutosave with IndexedDB: start a write, or coalesce behind the one
\* in flight.  An empty model is never saved.
RequestAutosave(t) ==
    /\ dbUp[t]
    /\ work[t] # 0
    /\ meta.last < MaxRevision
    /\ IF pc[service(t)] # "idle"
       THEN /\ pending' = [pending EXCEPT ![t] = TRUE]
            /\ UNCHANGED <<pc, payload, ahead>>
       ELSE /\ payload' = [payload EXCEPT ![service(t)] = work[t]]
            /\ Advance(service(t), "readMeta")
            /\ UNCHANGED pending
    /\ UNCHANGED <<disk, copy, work, seen, dbUp, loaded, acked, budget>>

\* The degraded path: writeLegacy is one synchronous setItem.
RequestDegraded(t) ==
    /\ pc[loader(t)] # "boot"
    /\ ~dbUp[t]
    /\ work[t] # 0
    /\ slot' = [rank |-> work[t], intact |-> TRUE]
    /\ acked' = Larger(acked, work[t])
    /\ UNCHANGED <<snaps, meta, procs, work, seen, pending, dbUp, loaded, budget>>

\* The banner is on screen: a save was offered and neither taken nor refused.
Banner(t) == loaded[t].done /\ loaded[t].value # 0

\* restoreAutosave: the saved state becomes the model, as a new edit.
Restore(t) ==
    /\ Banner(t)
    /\ rank < MaxRank
    /\ rank' = rank + 1
    /\ work' = [work EXCEPT ![t] = rank + 1]
    /\ loaded' = [loaded EXCEPT ![t] = NotLoaded]
    /\ UNCHANGED <<disk, procs, seen, pending, dbUp, acked, crashes, faults>>

\* discardAutosave: the legacy slot is emptied at once; the stores are cleared
\* by a transaction nobody waits for.
Discard(t) ==
    /\ Banner(t)
    /\ pc[discard(t)] = "idle"
    /\ "discardRace" \in Hazards \/ \A u \in Tabs : pc[service(u)] = "idle"
    /\ slot' = NoSlot
    /\ acked' = 0
    /\ loaded' = [loaded EXCEPT ![t] = NotLoaded]
    /\ Advance(discard(t), IF dbUp[t] THEN "clear" ELSE "idle")
    /\ UNCHANGED <<snaps, meta, copy, payload, work, seen, pending, dbUp, budget>>

ClearCommits(t) ==
    /\ Runs(discard(t), "clear")
    /\ snaps' = <<>>
    /\ meta' = [last |-> 0, unfinished |-> 0, imported |-> TRUE]
    /\ Advance(discard(t), "idle")
    /\ UNCHANGED <<slot, copy, payload, work, seen, pending, dbUp, loaded, acked, budget>>

\* "A clear that fails leaves the old save in place."
ClearFails(t) ==
    /\ Runs(discard(t), "clear")
    /\ Fault("clearFault")
    /\ Advance(discard(t), "idle")
    /\ UNCHANGED <<disk, copy, payload, work, seen, pending, dbUp, loaded, acked,
                   rank, crashes>>

-----------------------------------------------------------------------------
(***************************************************************************)
(* The load at mount: importLegacyOnce, then autosaveRead.                 *)
(***************************************************************************)

\* What autosaveRead and readLegacy hand back, and whether the user is told
\* that something newer was refused or lost.  `owed` is what a truthful read
\* could not be silent about.
Result(value, told) ==
    [done |-> TRUE, value |-> value, told |-> told, owed |-> acked]

\* A session starts and loads the autosave.  Without IndexedDB the slot is the
\* store: readLegacy.
Boot(t) ==
    /\ pc[loader(t)] = "boot"
    /\ \E up \in DbOpens :
        /\ dbUp' = [dbUp EXCEPT ![t] = up]
        /\ Advance(loader(t), IF up THEN "importRead" ELSE "ready")
        /\ loaded' = IF up THEN loaded
                     ELSE [loaded EXCEPT ![t] =
                            Result(IF slot.intact THEN slot.rank ELSE 0, ~slot.intact)]
    /\ UNCHANGED <<disk, copy, payload, work, seen, pending, acked, budget>>

\* A session that restores its tabs from the saved workspace loads no autosave.
BootFromWorkspace(t) ==
    /\ pc[loader(t)] = "boot"
    /\ rank < MaxRank
    /\ rank' = rank + 1
    /\ work' = [work EXCEPT ![t] = rank + 1]
    /\ \E up \in DbOpens : dbUp' = [dbUp EXCEPT ![t] = up]
    /\ Advance(loader(t), "ready")
    /\ UNCHANGED <<disk, copy, payload, seen, pending, loaded, acked, crashes, faults>>

\* Defect: the slot is emptied before its contents have been written.
EmptiesSlotFirst(t) ==
    /\ Runs(loader(t), "importRead")
    /\ seen' = [seen EXCEPT ![t] = meta]
    /\ IF meta.imported
       THEN Advance(loader(t), "loadMeta") /\ UNCHANGED <<slot, payload>>
       ELSE IF slot.rank # 0 /\ slot.intact /\ meta.last = 0
       THEN /\ payload' = [payload EXCEPT ![loader(t)] = slot.rank]
            /\ Advance(loader(t), "readMeta")
            /\ slot' = NoSlot
       ELSE slot' = NoSlot /\ Advance(loader(t), "afterRead") /\ UNCHANGED payload
    /\ UNCHANGED <<snaps, meta, copy, work, pending, dbUp, loaded, acked, budget>>

\* Defect: the import runs again over revisions that exist.
ImportsOverRevisions(t) ==
    /\ Runs(loader(t), "importRead")
    /\ seen' = [seen EXCEPT ![t] = meta]
    /\ IF slot.rank # 0 /\ slot.intact
       THEN /\ payload' = [payload EXCEPT ![loader(t)] = slot.rank]
            /\ Advance(loader(t), "readMeta")
            /\ UNCHANGED slot
       ELSE slot' = NoSlot /\ Advance(loader(t), "afterRead") /\ UNCHANGED payload
    /\ UNCHANGED <<snaps, meta, copy, work, pending, dbUp, loaded, acked, budget>>

\* importLegacyOnce reads the meta record and, in the same callback, the slot.
ImportReads(t) ==
    /\ Runs(loader(t), "importRead")
    /\ seen' = [seen EXCEPT ![t] = meta]
    /\ IF meta.imported
       THEN Advance(loader(t), "loadMeta") /\ UNCHANGED <<slot, payload>>
       ELSE IF slot.rank # 0 /\ slot.intact /\ meta.last = 0
       THEN /\ payload' = [payload EXCEPT ![loader(t)] = slot.rank]
            /\ Advance(loader(t), "readMeta")
            /\ UNCHANGED slot
       ELSE slot' = NoSlot /\ Advance(loader(t), "afterRead") /\ UNCHANGED payload
    /\ UNCHANGED <<snaps, meta, copy, work, pending, dbUp, loaded, acked, budget>>

ImportReadsAfter(t) ==
    /\ Runs(loader(t), "afterRead")
    /\ copy' = [copy EXCEPT ![loader(t)] = meta]
    /\ Advance(loader(t), "mark")
    /\ UNCHANGED <<disk, payload, work, seen, pending, dbUp, loaded, acked, budget>>

ImportMarks(t) ==
    /\ Runs(loader(t), "mark")
    /\ meta' = [copy[loader(t)] EXCEPT !.imported = TRUE]
    /\ Advance(loader(t), "loadMeta")
    /\ UNCHANGED <<snaps, slot, copy, payload, work, seen, pending, dbUp, loaded,
                   acked, budget>>

\* The import gives up without a word: no meta record, the earlier copy of it,
\* or no mark.
ImportFails(t) ==
    /\ Fault("importFault")
    /\ \/ /\ Runs(loader(t), "importRead")
          /\ Advance(loader(t), "loadMeta")
          /\ UNCHANGED copy
       \/ /\ Runs(loader(t), "afterRead")
          /\ copy' = [copy EXCEPT ![loader(t)] = seen[t]]
          /\ Advance(loader(t), "mark")
       \/ /\ Runs(loader(t), "mark")
          /\ Advance(loader(t), "loadMeta")
          /\ UNCHANGED copy
    /\ UNCHANGED <<disk, payload, work, seen, pending, dbUp, loaded, acked, rank, crashes>>

LoadReadsMeta(t) ==
    /\ Runs(loader(t), "loadMeta")
    /\ copy' = [copy EXCEPT ![loader(t)] = meta]
    /\ Advance(loader(t), "loadAll")
    /\ UNCHANGED <<disk, payload, work, seen, pending, dbUp, loaded, acked, budget>>

\* The newest-first scan: r is the first record that survives every check.
FirstSurvivor(s, r) ==
    /\ r \in DOMAIN s
    /\ s[r].intact
    /\ \A k \in DOMAIN s : k > r => ~s[k].intact

\* Defect: records passed over on the way are not reported.
HidesRejected(t) ==
    LET marker == copy[loader(t)].unfinished IN
    /\ Runs(loader(t), "loadAll")
    /\ \/ \E r \in DOMAIN snaps :
            /\ FirstSurvivor(snaps, r)
            /\ loaded' = [loaded EXCEPT ![t] = Result(snaps[r].rank, marker > r)]
       \/ /\ \A r \in DOMAIN snaps : ~snaps[r].intact
          /\ loaded' = [loaded EXCEPT ![t] = Result(0, marker # 0)]
    /\ Advance(loader(t), "ready")
    /\ UNCHANGED <<disk, copy, payload, work, seen, pending, dbUp, acked, budget>>

\* getAll, the scan, and the result: `rejected` is every newer record, and
\* `unfinishedRevision` a marker for a revision newer than the restored one.
LoadReadsAll(t) ==
    LET marker == copy[loader(t)].unfinished IN
    /\ Runs(loader(t), "loadAll")
    /\ \/ \E r \in DOMAIN snaps :
            /\ FirstSurvivor(snaps, r)
            /\ loaded' = [loaded EXCEPT ![t] =
                Result(snaps[r].rank, marker > r \/ \E k \in DOMAIN snaps : k > r)]
       \/ /\ \A r \in DOMAIN snaps : ~snaps[r].intact
          /\ loaded' = [loaded EXCEPT ![t] = Result(0, marker # 0 \/ DOMAIN snaps # {})]
    /\ Advance(loader(t), "ready")
    /\ UNCHANGED <<disk, copy, payload, work, seen, pending, dbUp, acked, budget>>

\* Either read aborts: the empty result, with nothing rejected.
LoadFails(t) ==
    /\ \E step \in {"loadMeta", "loadAll"} : Runs(loader(t), step)
    /\ Fault("readFault")
    /\ loaded' = [loaded EXCEPT ![t] = Result(0, FALSE)]
    /\ Advance(loader(t), "ready")
    /\ UNCHANGED <<disk, copy, payload, work, seen, pending, dbUp, acked, rank, crashes>>

Load(t) ==
    \/ Boot(t)
    \/ BootFromWorkspace(t)
    \/ ImportReads(t)
    \/ ImportReadsAfter(t)
    \/ ImportMarks(t)
    \/ ImportFails(t)
    \/ LoadReadsMeta(t)
    \/ LoadReadsAll(t)
    \/ LoadFails(t)

-----------------------------------------------------------------------------
(***************************************************************************)
(* The environment.                                                        *)
(***************************************************************************)

\* The tab dies or reloads: its open transactions abort, its memory is gone.
Crash(t) ==
    /\ pc[loader(t)] # "boot"
    /\ crashes < MaxCrashes
    /\ crashes' = crashes + 1
    /\ pc' = [p \in Proc |-> IF p[1] # t THEN pc[p]
                             ELSE IF p[2] = "loader" THEN "boot" ELSE "idle"]
    /\ ahead' = [p \in Proc |-> IF p[1] = t THEN {} ELSE {q \in ahead[p] : q[1] # t}]
    /\ copy' = [p \in Proc |-> IF p[1] = t THEN NoMeta ELSE copy[p]]
    /\ payload' = [p \in Proc |-> IF p[1] = t THEN 0 ELSE payload[p]]
    /\ seen' = [seen EXCEPT ![t] = NoMeta]
    /\ work' = [work EXCEPT ![t] = 0]
    /\ pending' = [pending EXCEPT ![t] = FALSE]
    /\ dbUp' = [dbUp EXCEPT ![t] = FALSE]
    /\ loaded' = [loaded EXCEPT ![t] = NotLoaded]
    /\ UNCHANGED <<disk, acked, rank, faults>>

\* A stored record no longer passes its fingerprint or the policy's `accept`.
RecordDamaged(r) ==
    /\ snaps[r].intact
    /\ Fault("recordDamage")
    /\ snaps' = [snaps EXCEPT ![r].intact = FALSE]
    /\ UNCHANGED <<meta, slot, procs, work, seen, pending, dbUp, loaded, acked, rank,
                   crashes>>

SlotDamaged ==
    /\ slot.rank # 0 /\ slot.intact
    /\ Fault("slotDamage")
    /\ slot' = [slot EXCEPT !.intact = FALSE]
    /\ UNCHANGED <<snaps, meta, procs, work, seen, pending, dbUp, loaded, acked, rank,
                   crashes>>

User(t) ==
    \/ Edit(t)
    \/ RequestAutosave(t)
    \/ RequestDegraded(t)
    \/ Restore(t)
    \/ Discard(t)

Clear(t) == ClearCommits(t) \/ ClearFails(t)

Environment ==
    \/ \E t \in Tabs : Crash(t)
    \/ \E r \in DOMAIN snaps : RecordDamaged(r)
    \/ SlotDamaged

Next ==
    \/ \E t \in Tabs : User(t) \/ Load(t) \/ Clear(t)
    \/ \E t \in Tabs : Write(service(t)) \/ Write(loader(t))
    \/ Environment

Spec == Init /\ [][Next]_vars

\* The browser settles every transaction it has accepted, and a started
\* session loads.  Nothing obliges the user, or a fault, to happen.
Fairness ==
    \A t \in Tabs :
        /\ WF_vars(Load(t))
        /\ WF_vars(Write(loader(t)))
        /\ WF_vars(Write(service(t)))
        /\ WF_vars(Clear(t))

FairSpec == Spec /\ Fairness

-----------------------------------------------------------------------------
(***************************************************************************)
(* Properties.                                                             *)
(***************************************************************************)

MetaRecord == [last : Nat, unfinished : Nat, imported : BOOLEAN]
Stored == [rank : Nat, intact : BOOLEAN]

\* Every variable has the shape of the code's data: records keyed by positive
\* revisions, a meta record, one slot, one resting place or transaction each.
TypeOK ==
    /\ DOMAIN snaps \subseteq Nat \ {0}
    /\ snaps \in [DOMAIN snaps -> Stored]
    /\ meta \in MetaRecord
    /\ slot \in Stored
    /\ work \in [Tabs -> Nat]
    /\ pc \in [Proc -> TxSteps \cup {"idle", "boot", "ready"}]
    /\ copy \in [Proc -> MetaRecord]
    /\ seen \in [Tabs -> MetaRecord]
    /\ payload \in [Proc -> Nat]
    /\ ahead \in [Proc -> SUBSET Proc]
    /\ pending \in [Tabs -> BOOLEAN]
    /\ dbUp \in [Tabs -> BOOLEAN]
    /\ loaded \in [Tabs -> [done : BOOLEAN, value : Nat, told : BOOLEAN, owed : Nat]]
    /\ {rank, acked, crashes, faults} \subseteq Nat

\* Some record holds a rank at least v, and so does every newer record: the
\* newest-first scan meets v or better before anything older.
NewestHolds(s, v) ==
    \E r \in DOMAIN s : \A k \in DOMAIN s : k >= r => s[k].rank >= v

\* A save that was reported `ok` and not discarded is the one the next load
\* will find: in the store, or still in the slot the import has yet to move.
\* (autosave-db.ts: "an autosave may fail ... but it may never lie".)
AckedIsRecoverable ==
    acked # 0 =>
        \/ NewestHolds(snaps, acked)
        \/ /\ slot.rank >= acked
           /\ TRUE \notin DbOpens \/ (~meta.imported /\ meta.last = 0)

\* A load that hands back less than the newest reported save says so.
\* (autosave-db.ts: "the caller is told that is what happened".)
NoSilentDowngrade ==
    \A t \in Tabs : loaded[t].done => loaded[t].value >= loaded[t].owed \/ loaded[t].told

\* The store never holds more than AUTOSAVE_REVISIONS_KEPT whole projects,
\* however writes, crashes, faults and the import's meta writes interleave.
RetentionWindow == Cardinality(DOMAIN snaps) <= Kept

\* A request that was coalesced is served: the state on screen when it was
\* remembered, or a newer one, is reported saved, unless the session ends, or the
\* browser aborts one more transaction.
\* (autosave-service.ts: "always at least as new as the newest request".)
NewestRequestIsServed ==
    \A t \in Tabs : \A v \in 1..MaxRank :
        (pending[t] /\ work[t] = v /\ faults = MaxFaults) ~> (acked >= v \/ work[t] = 0)

-----------------------------------------------------------------------------
(***************************************************************************)
(* The promise the store makes, as an abstract specification.              *)
(***************************************************************************)

IsNewest(s, r) == r \in DOMAIN s /\ \A k \in DOMAIN s : k <= r

\* What a load started now would find first, when IndexedDB opens.
Durable ==
    IF DOMAIN snaps # {} THEN snaps[CHOOSE r \in DOMAIN snaps : IsNewest(snaps, r)].rank
    ELSE IF ~meta.imported /\ meta.last = 0 THEN slot.rank
    ELSE 0

Promise == INSTANCE SavePromise WITH durable <- Durable, reported <- acked

\* The whole protocol of markers, transactions, imports and clears implements
\* a store with three operations: land, report what has landed, forget.
KeepsPromise == Promise!Spec

=============================================================================
