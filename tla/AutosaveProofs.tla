--------------------------- MODULE AutosaveProofs ---------------------------
(***************************************************************************)
(* Proofs about the autosave: type correctness for every instance, and,    *)
(* for one tab whose load finishes before the user works, that a reported  *)
(* save is recoverable and the retention window is kept, for any number of *)
(* edits, saves, crashes, aborted transactions and damaged records.        *)
(***************************************************************************)
EXTENDS Autosave, FiniteSetTheorems, WellFoundedInduction, TLAPS

(***************************************************************************)
(* The environment of the safety theorems: one tab, IndexedDB opens, the   *)
(* import's own transactions do not abort, the legacy slot is not damaged, *)
(* and nobody discards or edits in the middle of a write or a load.  Each  *)
(* exclusion is an event that breaks the promise when it is allowed.       *)
(***************************************************************************)
QuietTab(t) ==
    /\ Tabs = {t}
    /\ DbOpens = {TRUE}
    /\ Hazards \subseteq {"serviceFault", "readFault", "clearFault", "recordDamage"}

WriteSteps == {"readMeta", "intent", "commit", "finish"}
CopyIsCurrent == {"intent", "commit", "finish"}

\* Before the load is ready nothing else has started in the session.
LoadFirst(t) ==
    pc[loader(t)] # "ready" =>
        /\ work[t] = 0
        /\ pc[service(t)] = "idle"
        /\ pc[discard(t)] = "idle"
        /\ ~loaded[t].done

\* A session that has started opened IndexedDB.
Connected(t) == pc[loader(t)] # "boot" => dbUp[t]

\* The processes rest and wait where their own code can put them; the clear
\* of a discard is ahead of any write requested after it.
Schedule(t) ==
    /\ pc[service(t)] \in WriteSteps \cup {"idle"}
    /\ pc[discard(t)] \in {"idle", "clear"}
    /\ pc[loader(t)] \in WriteSteps \cup
            {"boot", "importRead", "afterRead", "mark", "loadMeta", "loadAll", "ready"}
    /\ pc[discard(t)] = "clear" =>
            /\ acked = 0
            /\ pc[service(t)] \in {"idle", "readMeta"}
            /\ pc[service(t)] = "readMeta" => discard(t) \in ahead[service(t)]

\* The screen shows the newest edit, or nothing.
NewestOnScreen(t) ==
    /\ work[t] \in {0, rank}
    /\ acked <= rank
    /\ slot.rank <= rank
    /\ \A r \in DOMAIN snaps : snaps[r].rank <= rank

\* Revisions stop at the one being written, lie in one window of Kept, and
\* grow with the rank they hold.
StoreShape ==
    /\ DOMAIN snaps \subseteq 1..(meta.last + 1)
    /\ \/ DOMAIN snaps \subseteq (meta.last + 2 - Kept)..(meta.last + 1)
       \/ DOMAIN snaps \subseteq (meta.last + 1 - Kept)..meta.last

\* What the service's write holds is current, and no older than the store.
ServiceWrite(t) ==
    LET s == service(t) IN
    pc[s] \in WriteSteps =>
        /\ acked <= payload[s]
        /\ payload[s] <= rank
        /\ pc[s] \in CopyIsCurrent =>
            copy[s].last = meta.last /\ copy[s].imported = meta.imported
        /\ pc[s] = "finish" =>
            /\ meta.last + 1 \in DOMAIN snaps
            /\ snaps[meta.last + 1].rank = payload[s]

\* The import writes the slot, into a store that has recorded no revision.
ImportWrite(t) ==
    LET l == loader(t) IN
    /\ pc[l] \in WriteSteps =>
        /\ payload[l] = slot.rank
        /\ meta.last = 0
        /\ ~meta.imported
        /\ pc[l] \in CopyIsCurrent => copy[l].last = 0 /\ ~copy[l].imported
        /\ pc[l] = "finish" => 1 \in DOMAIN snaps /\ snaps[1].rank = payload[l]
    /\ pc[l] = "mark" => copy[l] = meta

\* Where the promise is kept: in the store, or in a slot the import will move.
PromiseKept(t) ==
    /\ slot.intact
    /\ acked # 0 /\ meta.last # 0 => NewestHolds(snaps, acked)
    /\ acked # 0 /\ meta.last = 0 =>
        /\ acked <= slot.rank
        /\ ~meta.imported
        /\ pc[loader(t)] \notin {"afterRead", "mark"}

IInv(t) ==
    /\ TypeOK
    /\ LoadFirst(t)
    /\ Connected(t)
    /\ Schedule(t)
    /\ NewestOnScreen(t)
    /\ StoreShape
    /\ ServiceWrite(t)
    /\ ImportWrite(t)
    /\ PromiseKept(t)

\* The inductive invariant of the proofs, for the runs: an instance whose
\* environment is quiet satisfies it.
InductiveInvariant == \A t \in Tabs : QuietTab(t) => IInv(t)

-----------------------------------------------------------------------------
\* Opening the next transaction, or resting, keeps the two schedule variables
\* well formed and moves only the process concerned.
LEMMA AdvanceMoves ==
    ASSUME TypeOK, NEW p \in Proc,
           NEW at \in TxSteps \cup {"idle", "boot", "ready"}, Advance(p, at)
    PROVE  /\ pc' \in [Proc -> TxSteps \cup {"idle", "boot", "ready"}]
           /\ ahead' \in [Proc -> SUBSET Proc]
           /\ pc'[p] = at
           /\ \A q \in Proc \ {p} : pc'[q] = pc[q]
           /\ \A q \in Proc \ {p} : ahead'[q] = ahead[q] \ {p}
           /\ at \in TxSteps => ahead'[p] = Outstanding \ {p}
BY DEF TypeOK, Advance, Outstanding

\* The record a write puts, and the window it leaves, are a store again.
LEMMA CommittedIsStore ==
    ASSUME DOMAIN snaps \subseteq Nat \ {0}, snaps \in [DOMAIN snaps -> Stored],
           NEW r \in Nat \ {0}, NEW record \in Stored
    PROVE  LET s == Committed(snaps, r, record) IN
           /\ DOMAIN s \subseteq Nat \ {0}
           /\ s \in [DOMAIN s -> Stored]
           /\ r \in DOMAIN s /\ s[r] = record
           /\ DOMAIN s = {i \in DOMAIN snaps \cup {r} : r - Kept >= 1 => i > r - Kept}
           /\ \A k \in DOMAIN s : k # r => k \in DOMAIN snaps /\ s[k] = snaps[k]
BY KeptAssumption DEF Committed

\* The three ways the code rewrites a meta record.
LEMMA MetaEdits ==
    ASSUME NEW m \in MetaRecord, NEW r \in Nat
    PROVE  /\ [m EXCEPT !.unfinished = r] \in MetaRecord
           /\ [m EXCEPT !.unfinished = r].last = m.last
           /\ [m EXCEPT !.unfinished = r].imported = m.imported
           /\ [m EXCEPT !.last = r, !.unfinished = 0] \in MetaRecord
           /\ [m EXCEPT !.last = r, !.unfinished = 0].last = r
           /\ [m EXCEPT !.last = r, !.unfinished = 0].imported = m.imported
           /\ [m EXCEPT !.imported = TRUE] \in MetaRecord
           /\ [m EXCEPT !.imported = TRUE].last = m.last
BY DEF MetaRecord

LEMMA ProcOf ==
    ASSUME NEW t \in Tabs
    PROVE  /\ service(t) \in Proc /\ loader(t) \in Proc /\ discard(t) \in Proc
           /\ service(t) # loader(t) /\ service(t) # discard(t)
           /\ loader(t) # discard(t)
           /\ service(t)[1] = t /\ service(t)[2] = "service"
           /\ loader(t)[1] = t /\ loader(t)[2] = "loader"
BY DEF Proc, service, loader, discard

LEMMA TypeInit == Init => TypeOK
BY DEF Init, TypeOK, MetaRecord, Stored, NoMeta, NoSlot, NotLoaded, TxSteps

LEMMA TypeWrite ==
    ASSUME TypeOK, NEW p \in Proc, p[1] \in Tabs, p = <<p[1], p[2]>>, 
           p[2] \in {"service", "loader"}, Write(p)
    PROVE  TypeOK'
<1>0. service(p[1]) \in Proc /\ loader(p[1]) \in Proc
  BY ProcOf
<1>1. CASE WriteReadsMeta(p)
  <2>1. pc' \in [Proc -> TxSteps \cup {"idle", "boot", "ready"}] /\ ahead' \in [Proc -> SUBSET Proc]
    BY <1>1, AdvanceMoves DEF WriteReadsMeta, TxSteps, WritesMeta
  <2>2. QED
    BY <1>1, <2>1 DEF WriteReadsMeta, TypeOK, disk, budget
<1>2. CASE WriteDeclaresIntent(p)
  <2>1. pc' \in [Proc -> TxSteps \cup {"idle", "boot", "ready"}] /\ ahead' \in [Proc -> SUBSET Proc]
    BY <1>2, AdvanceMoves DEF WriteDeclaresIntent, TxSteps, OnSnapshots
  <2>2. meta' \in MetaRecord
    <3>1. copy[p] \in MetaRecord /\ revision(p) \in Nat
      BY DEF TypeOK, MetaRecord, revision
    <3>2. QED
      BY <1>2, <3>1, MetaEdits DEF WriteDeclaresIntent
  <2>3. QED
    BY <1>2, <2>1, <2>2 DEF WriteDeclaresIntent, TypeOK, budget
<1>3. CASE WriteCommitsRecord(p)
  <2>1. pc' \in [Proc -> TxSteps \cup {"idle", "boot", "ready"}] /\ ahead' \in [Proc -> SUBSET Proc]
    BY <1>3, AdvanceMoves DEF WriteCommitsRecord, TxSteps, WritesMeta
  <2>2. revision(p) \in Nat \ {0} /\ [rank |-> payload[p], intact |-> TRUE] \in Stored
    BY DEF TypeOK, revision, MetaRecord, Stored
  <2>3. DOMAIN snaps' \subseteq Nat \ {0} /\ snaps' \in [DOMAIN snaps' -> Stored]
    BY <1>3, <2>2, CommittedIsStore DEF WriteCommitsRecord, TypeOK
  <2>4. QED
    BY <1>3, <2>1, <2>3 DEF WriteCommitsRecord, TypeOK, budget
<1>4. ASSUME WriteReturns(p)
      PROVE  /\ pc' \in [Proc -> TxSteps \cup {"idle", "boot", "ready"}]
             /\ ahead' \in [Proc -> SUBSET Proc]
             /\ payload' \in [Proc -> Nat]
             /\ pending' \in [Tabs -> BOOLEAN]
             /\ slot' \in Stored
  <2>1. CASE p[2] = "service"
    <3> DEFINE t == p[1]
               again == pending[t] /\ work[t] # 0
               at == IF again THEN "readMeta" ELSE "idle"
    <3>1. ServiceReturns(t)
      BY <1>4, <2>1 DEF WriteReturns
    <3>2. Advance(service(t), at) /\ at \in TxSteps \cup {"idle", "boot", "ready"}
      BY <3>1 DEF ServiceReturns, TxSteps, ReadsMeta
    <3>3. /\ pc' \in [Proc -> TxSteps \cup {"idle", "boot", "ready"}]
          /\ ahead' \in [Proc -> SUBSET Proc]
      <4> HIDE DEF at
      <4> QED BY <1>0, <3>2, AdvanceMoves
    <3>4. /\ pending' \in [Tabs -> BOOLEAN]
          /\ slot' \in Stored
      BY <3>1 DEF ServiceReturns, TypeOK
    <3>5. payload' \in [Proc -> Nat]
      BY <3>1 DEF ServiceReturns, TypeOK
    <3>6. QED
      BY <3>3, <3>4, <3>5
  <2>2. CASE p[2] = "loader"
    <3>1. ImportReturns(p[1])
      BY <1>4, <2>2 DEF WriteReturns
    <3>2. /\ pc' \in [Proc -> TxSteps \cup {"idle", "boot", "ready"}]
          /\ ahead' \in [Proc -> SUBSET Proc]
      BY <1>0, <3>1, AdvanceMoves DEF ImportReturns, TxSteps, ReadsMeta
    <3>3. QED
      BY <3>1, <3>2 DEF ImportReturns, TypeOK, NoSlot, Stored
  <2>3. QED
    BY <2>1, <2>2
<1>5. CASE WriteFinishes(p)
  <2>1. meta' \in MetaRecord /\ acked' \in Nat
    <3>1. copy[p] \in MetaRecord /\ revision(p) \in Nat
      BY DEF TypeOK, MetaRecord, revision
    <3>2. QED
      BY <1>5, <3>1, MetaEdits DEF WriteFinishes, TypeOK, Larger
  <2>2. QED
    BY <1>4, <1>5, <2>1 DEF WriteFinishes, TypeOK, budget
<1>6. CASE WriteFails(p)
  <2>1. faults' \in Nat
    BY <1>6 DEF WriteFails, Fault, TypeOK
  <2>2. QED
    BY <1>4, <1>6, <2>1 DEF WriteFails, TypeOK
<1>7. QED
  BY <1>1, <1>2, <1>3, <1>5, <1>6 DEF Write

LEMMA TypeUser ==
    ASSUME TypeOK, NEW t \in Tabs, User(t)
    PROVE  TypeOK'
<1>0. service(t) \in Proc /\ discard(t) \in Proc
  BY ProcOf
<1>1. CASE Edit(t)
  BY <1>1 DEF Edit, TypeOK, disk, procs
<1>2. CASE RequestAutosave(t)
  <2>1. CASE pc[service(t)] # "idle"
    BY <1>2, <2>1 DEF RequestAutosave, TypeOK, disk, budget
  <2>2. CASE pc[service(t)] = "idle"
    <3>1. /\ pc' \in [Proc -> TxSteps \cup {"idle", "boot", "ready"}]
          /\ ahead' \in [Proc -> SUBSET Proc]
      BY <1>0, <1>2, <2>2, AdvanceMoves DEF RequestAutosave, TxSteps, ReadsMeta
    <3>2. payload' \in [Proc -> Nat]
      BY <1>2, <2>2 DEF RequestAutosave, TypeOK
    <3>3. QED
      BY <1>2, <2>2, <3>1, <3>2 DEF RequestAutosave, TypeOK, disk, budget
  <2>3. QED
    BY <2>1, <2>2
<1>3. CASE RequestDegraded(t)
  <2>1. slot' \in Stored /\ acked' \in Nat
    BY <1>3 DEF RequestDegraded, TypeOK, Larger, Stored
  <2>2. QED
    BY <1>3, <2>1 DEF RequestDegraded, TypeOK, procs, budget
<1>4. CASE Restore(t)
  BY <1>4 DEF Restore, TypeOK, disk, procs, NotLoaded
<1>5. CASE Discard(t)
  <2>1. /\ pc' \in [Proc -> TxSteps \cup {"idle", "boot", "ready"}]
        /\ ahead' \in [Proc -> SUBSET Proc]
    <3>1. PICK at \in {"clear", "idle"} : Advance(discard(t), at)
      BY <1>5 DEF Discard
    <3>2. QED
      BY <1>0, <3>1, AdvanceMoves DEF TxSteps
  <2>2. slot' \in Stored /\ loaded' \in [Tabs ->
            [done : BOOLEAN, value : Nat, told : BOOLEAN, owed : Nat]]
    BY <1>5 DEF Discard, TypeOK, NoSlot, Stored, NotLoaded
  <2>3. QED
    BY <1>5, <2>1, <2>2 DEF Discard, TypeOK, budget
<1>6. QED
  BY <1>1, <1>2, <1>3, <1>4, <1>5 DEF User

LEMMA TypeClear ==
    ASSUME TypeOK, NEW t \in Tabs, Clear(t)
    PROVE  TypeOK'
<1>0. discard(t) \in Proc
  BY ProcOf
<1>1. /\ pc' \in [Proc -> TxSteps \cup {"idle", "boot", "ready"}]
      /\ ahead' \in [Proc -> SUBSET Proc]
  BY <1>0, AdvanceMoves DEF Clear, ClearCommits, ClearFails
<1>2. CASE ClearCommits(t)
  BY <1>1, <1>2 DEF ClearCommits, TypeOK, budget, MetaRecord
<1>3. CASE ClearFails(t)
  BY <1>1, <1>3 DEF ClearFails, Fault, TypeOK, disk
<1>4. QED
  BY <1>2, <1>3 DEF Clear

LEMMA ResultType ==
    ASSUME TypeOK, NEW v \in Nat, NEW told \in BOOLEAN
    PROVE  Result(v, told) \in [done : BOOLEAN, value : Nat, told : BOOLEAN, owed : Nat]
BY DEF Result, TypeOK

LEMMA TypeLoad ==
    ASSUME TypeOK, NEW t \in Tabs, Load(t)
    PROVE  TypeOK'
<1> DEFINE Steps == TxSteps \cup {"idle", "boot", "ready"}
           Loads == [done : BOOLEAN, value : Nat, told : BOOLEAN, owed : Nat]
           Moved == pc' \in [Proc -> Steps] /\ ahead' \in [Proc -> SUBSET Proc]
<1>0. loader(t) \in Proc
  BY ProcOf
<1>a. ASSUME NEW at \in Steps, Advance(loader(t), at)
      PROVE  Moved
  BY <1>0, <1>a, AdvanceMoves
<1>b. {"importRead", "ready", "loadMeta", "readMeta", "afterRead", "mark", "loadAll"}
        \subseteq Steps
  BY DEF TxSteps, ReadsMeta, WritesMeta, OnSnapshots
<1> HIDE DEF Steps
<1>1. CASE Boot(t)
  <2>1. PICK up \in DbOpens :
          /\ dbUp' = [dbUp EXCEPT ![t] = up]
          /\ Advance(loader(t), IF up THEN "importRead" ELSE "ready")
          /\ loaded' = IF up THEN loaded
                     ELSE [loaded EXCEPT ![t] =
                            Result(IF slot.intact THEN slot.rank ELSE 0, ~slot.intact)]
    BY <1>1 DEF Boot
  <2>2. up \in BOOLEAN
    BY EnvironmentAssumption
  <2>3. Moved
    BY <2>1, <2>2, <1>a, <1>b
  <2>4. loaded' \in [Tabs -> Loads]
    <3>1. (IF slot.intact THEN slot.rank ELSE 0) \in Nat /\ (~slot.intact) \in BOOLEAN
      <4>1. slot.rank \in Nat
        BY DEF TypeOK, Stored
      <4>2. (~slot.intact) \in BOOLEAN
        OBVIOUS
      <4>3. QED
        BY <4>1, <4>2
    <3>2. Result(IF slot.intact THEN slot.rank ELSE 0, ~slot.intact) \in Loads
      BY <3>1, ResultType
    <3>3. QED
      BY <2>1, <3>2 DEF TypeOK
  <2>5. dbUp' \in [Tabs -> BOOLEAN]
    BY <2>1, <2>2 DEF TypeOK
  <2>6. QED
    BY <1>1, <2>3, <2>4, <2>5 DEF Boot, TypeOK, disk, budget, Steps
<1>2. CASE BootFromWorkspace(t)
  <2>1. Moved
    BY <1>2, <1>a, <1>b DEF BootFromWorkspace
  <2>2. dbUp' \in [Tabs -> BOOLEAN]
    BY <1>2, EnvironmentAssumption DEF BootFromWorkspace, TypeOK
  <2>3. QED
    BY <1>2, <2>1, <2>2 DEF BootFromWorkspace, TypeOK, disk, Steps
<1>3. CASE ImportReads(t)
  <2>1. Moved
    BY <1>3, <1>a, <1>b DEF ImportReads
  <2>2. slot' \in Stored /\ payload' \in [Proc -> Nat] /\ seen' \in [Tabs -> MetaRecord]
    <3>1. slot.rank \in Nat /\ NoSlot \in Stored
      BY DEF TypeOK, NoSlot, Stored
    <3>2. slot' \in {slot, NoSlot}
      BY <1>3 DEF ImportReads
    <3>3. \/ UNCHANGED payload
          \/ payload' = [payload EXCEPT ![loader(t)] = slot.rank]
      BY <1>3 DEF ImportReads
    <3>4. seen' = [seen EXCEPT ![t] = meta]
      BY <1>3 DEF ImportReads
    <3>5. payload' \in [Proc -> Nat]
      BY <3>1, <3>3 DEF TypeOK
    <3>6. QED
      BY <3>1, <3>2, <3>4, <3>5 DEF TypeOK
  <2>3. QED
    BY <1>3, <2>1, <2>2 DEF ImportReads, TypeOK, budget, Steps
<1>4. CASE ImportReadsAfter(t)
  <2>1. Moved
    BY <1>4, <1>a, <1>b DEF ImportReadsAfter
  <2>2. QED
    BY <1>4, <2>1 DEF ImportReadsAfter, TypeOK, disk, budget, Steps
<1>5. CASE ImportMarks(t)
  <2>1. Moved
    BY <1>5, <1>a, <1>b DEF ImportMarks
  <2>2. meta' \in MetaRecord
    BY <1>0, <1>5, MetaEdits DEF ImportMarks, TypeOK
  <2>3. QED
    BY <1>5, <2>1, <2>2 DEF ImportMarks, TypeOK, budget, Steps
<1>6. CASE ImportFails(t)
  <2>1. Moved
    BY <1>6, <1>a, <1>b DEF ImportFails
  <2>2. copy' \in [Proc -> MetaRecord] /\ faults' \in Nat
    BY <1>6 DEF ImportFails, Fault, TypeOK
  <2>3. QED
    BY <1>6, <2>1, <2>2 DEF ImportFails, TypeOK, disk, Steps
<1>7. CASE LoadReadsMeta(t)
  <2>1. Moved
    BY <1>7, <1>a, <1>b DEF LoadReadsMeta
  <2>2. QED
    BY <1>7, <2>1 DEF LoadReadsMeta, TypeOK, disk, budget, Steps
<1>8. CASE LoadReadsAll(t)
  <2>1. Moved
    BY <1>8, <1>a, <1>b DEF LoadReadsAll
  <2>2. loaded' \in [Tabs -> Loads]
    <3>1. PICK v \in Nat, told \in BOOLEAN :
            loaded' = [loaded EXCEPT ![t] = Result(v, told)]
      BY <1>8 DEF LoadReadsAll, FirstSurvivor, TypeOK, Stored
    <3>2. QED
      BY <3>1, ResultType DEF TypeOK
  <2>3. QED
    BY <1>8, <2>1, <2>2 DEF LoadReadsAll, TypeOK, disk, budget, Steps
<1>9. CASE LoadFails(t)
  <2>1. Moved
    BY <1>9, <1>a, <1>b DEF LoadFails
  <2>2. loaded' \in [Tabs -> Loads] /\ faults' \in Nat
    <3>1. Result(0, FALSE) \in Loads
      BY ResultType
    <3>2. loaded' = [loaded EXCEPT ![t] = Result(0, FALSE)] /\ faults' = faults + 1
      BY <1>9 DEF LoadFails, Fault
    <3>3. faults' \in Nat
      BY <3>2 DEF TypeOK
    <3>4. loaded \in [Tabs -> Loads]
      BY DEF TypeOK
    <3>5. loaded' \in [Tabs -> Loads]
      BY <3>1, <3>2, <3>4
    <3>6. QED
      BY <3>3, <3>5
  <2>3. QED
    BY <1>9, <2>1, <2>2 DEF LoadFails, TypeOK, disk, Steps
<1>10. QED
  BY <1>1, <1>2, <1>3, <1>4, <1>5, <1>6, <1>7, <1>8, <1>9 DEF Load

LEMMA TypeEnvironment ==
    ASSUME TypeOK, Environment
    PROVE  TypeOK'
<1>1. ASSUME NEW t \in Tabs, Crash(t)
      PROVE  TypeOK'
  <2>1. /\ pc' \in [Proc -> TxSteps \cup {"idle", "boot", "ready"}]
        /\ ahead' \in [Proc -> SUBSET Proc]
    BY <1>1 DEF Crash, TypeOK
  <2>2. copy' \in [Proc -> MetaRecord] /\ payload' \in [Proc -> Nat]
    BY <1>1 DEF Crash, TypeOK, NoMeta, MetaRecord
  <2>3. QED
    BY <1>1, <2>1, <2>2 DEF Crash, TypeOK, disk, NoMeta, MetaRecord, NotLoaded
<1>2. ASSUME NEW r \in DOMAIN snaps, RecordDamaged(r)
      PROVE  TypeOK'
  <2>1. [snaps[r] EXCEPT !.intact = FALSE] \in Stored
    BY DEF TypeOK, Stored
  <2>2. snaps' = [snaps EXCEPT ![r] = [snaps[r] EXCEPT !.intact = FALSE]]
    BY <1>2 DEF RecordDamaged
  <2>3. DOMAIN snaps' = DOMAIN snaps /\ snaps' \in [DOMAIN snaps' -> Stored]
    BY <2>1, <2>2 DEF TypeOK
  <2>4. QED
    BY <1>2, <2>3 DEF RecordDamaged, Fault, TypeOK, procs
<1>3. CASE SlotDamaged
  <2>1. slot' \in Stored
    BY <1>3 DEF SlotDamaged, TypeOK, Stored
  <2>2. QED
    BY <1>3, <2>1 DEF SlotDamaged, Fault, TypeOK, procs
<1>4. QED
  BY <1>1, <1>2, <1>3 DEF Environment

\* Every state of every instance, any number of tabs and any hazard included,
\* has the shape of the code's data.
THEOREM TypeCorrect == Spec => []TypeOK
<1>1. TypeOK /\ [Next]_vars => TypeOK'
  <2> SUFFICES ASSUME TypeOK, [Next]_vars PROVE TypeOK'
    OBVIOUS
  <2>1. CASE UNCHANGED vars
    BY <2>1 DEF vars, disk, procs, budget, TypeOK
  <2>2. ASSUME NEW t \in Tabs, Write(service(t)) \/ Write(loader(t))
        PROVE  TypeOK'
    BY <2>2, TypeWrite, ProcOf DEF service, loader
  <2>3. QED
    BY <2>1, <2>2, TypeUser, TypeLoad, TypeClear, TypeEnvironment DEF Next
<1>2. QED
  BY <1>1, TypeInit, PTL DEF Spec

-----------------------------------------------------------------------------
(***************************************************************************)
(* The invariant of the quiet tab, one lemma per group of actions.         *)
(***************************************************************************)

\* With one tab there are three processes.
LEMMA OneTab ==
    ASSUME NEW t, QuietTab(t)
    PROVE  t \in Tabs /\ \A u \in Tabs : u = t
BY DEF QuietTab

\* A write's first transaction: only the copy changes.
LEMMA KeepsReadMeta ==
    ASSUME NEW t, QuietTab(t), IInv(t), TypeOK', NEW p \in {service(t), loader(t)},
           WriteReadsMeta(p)
    PROVE  IInv(t)'
<1> DEFINE s == service(t)
           l == loader(t)
           d == discard(t)
<1>0. /\ t \in Tabs /\ s \in Proc /\ l \in Proc /\ d \in Proc
      /\ s # l /\ s # d /\ l # d /\ p \in {s, l}
  BY OneTab, ProcOf
<1> HIDE DEF s, l, d
<1>1. /\ pc[p] = "readMeta" /\ pc'[p] = "intent"
      /\ \A q \in Proc \ {p} : pc'[q] = pc[q] /\ ahead'[q] = ahead[q] \ {p}
      /\ \A q \in ahead[p] : ~Conflict(pc[q], "readMeta")
  BY <1>0, AdvanceMoves DEF WriteReadsMeta, IInv, Runs, TxSteps, WritesMeta
<1>2. pc[d] = "idle" \/ p = l
  BY <1>0, <1>1 DEF IInv, Schedule, Conflict, s, l, d
<1>3. copy' = [copy EXCEPT ![p] = meta]
  BY DEF WriteReadsMeta
<1>4. UNCHANGED <<snaps, meta, slot, payload, work, dbUp, loaded, acked, rank>>
  BY DEF WriteReadsMeta, disk, budget
<1>5. LoadFirst(t)' /\ Connected(t)' /\ Schedule(t)'
  BY <1>0, <1>1, <1>2, <1>4 DEF IInv, LoadFirst, Connected, Schedule, WriteSteps, s, l, d
<1>6. NewestOnScreen(t)' /\ StoreShape'
  BY <1>4 DEF IInv, NewestOnScreen, StoreShape
<1>7. ServiceWrite(t)' /\ ImportWrite(t)'
  BY <1>0, <1>1, <1>3, <1>4
     DEF IInv, TypeOK, ServiceWrite, ImportWrite, LoadFirst, WriteSteps, CopyIsCurrent, s, l, d
<1>8. PromiseKept(t)'
  BY <1>0, <1>1, <1>4 DEF IInv, PromiseKept, NewestHolds, s, l, d
<1>9. QED
  BY <1>5, <1>6, <1>7, <1>8 DEF IInv

\* The marker: the revision and the import mark stay what they were.
LEMMA KeepsIntent ==
    ASSUME NEW t, QuietTab(t), IInv(t), TypeOK', NEW p \in {service(t), loader(t)},
           WriteDeclaresIntent(p)
    PROVE  IInv(t)'
<1> DEFINE s == service(t)
           l == loader(t)
           d == discard(t)
<1>0. /\ t \in Tabs /\ s \in Proc /\ l \in Proc /\ d \in Proc
      /\ s # l /\ s # d /\ l # d
  BY OneTab, ProcOf
<1> HIDE DEF s, l, d
<1>1. /\ pc[p] = "intent" /\ pc'[p] = "commit"
      /\ \A q \in Proc \ {p} : pc'[q] = pc[q] /\ ahead'[q] = ahead[q] \ {p}
  BY <1>0, AdvanceMoves DEF WriteDeclaresIntent, IInv, Runs, TxSteps, OnSnapshots, s, l
<1>2. /\ copy[p] \in MetaRecord /\ copy[p].last = meta.last
      /\ copy[p].imported = meta.imported
  BY <1>0, <1>1 DEF IInv, TypeOK, MetaRecord, ServiceWrite, ImportWrite, WriteSteps,
                    CopyIsCurrent, s, l
<1>3. meta'.last = meta.last /\ meta'.imported = meta.imported
  BY <1>2, MetaEdits DEF WriteDeclaresIntent, revision, MetaRecord
<1>4. UNCHANGED <<snaps, slot, copy, payload, work, dbUp, loaded, acked, rank>>
  BY DEF WriteDeclaresIntent, budget
<1>5. LoadFirst(t)' /\ Connected(t)' /\ Schedule(t)'
  BY <1>0, <1>1, <1>4 DEF IInv, LoadFirst, Connected, Schedule, WriteSteps, s, l, d
<1>6. NewestOnScreen(t)' /\ StoreShape'
  BY <1>3, <1>4 DEF IInv, NewestOnScreen, StoreShape
<1>7. ServiceWrite(t)' /\ ImportWrite(t)'
  BY <1>0, <1>1, <1>3, <1>4
     DEF IInv, TypeOK, ServiceWrite, ImportWrite, LoadFirst, WriteSteps, CopyIsCurrent, s, l, d
<1>8. PromiseKept(t)'
  BY <1>0, <1>1, <1>3, <1>4 DEF IInv, PromiseKept, NewestHolds, s, l, d
<1>9. QED
  BY <1>5, <1>6, <1>7, <1>8 DEF IInv

\* The record: the new revision holds the payload, above every other.
LEMMA KeepsCommit ==
    ASSUME NEW t, QuietTab(t), IInv(t), TypeOK', NEW p \in {service(t), loader(t)},
           WriteCommitsRecord(p)
    PROVE  IInv(t)'
<1> DEFINE s == service(t)
           l == loader(t)
           d == discard(t)
<1>0. /\ t \in Tabs /\ s \in Proc /\ l \in Proc /\ d \in Proc
      /\ s # l /\ s # d /\ l # d
  BY OneTab, ProcOf
<1> HIDE DEF s, l, d
<1>1. /\ pc[p] = "commit" /\ pc'[p] = "finish"
      /\ \A q \in Proc \ {p} : pc'[q] = pc[q] /\ ahead'[q] = ahead[q] \ {p}
  BY <1>0, AdvanceMoves DEF WriteCommitsRecord, IInv, Runs, TxSteps, WritesMeta, s, l
<1>2. copy[p].last = meta.last /\ meta.last \in Nat
  BY <1>0, <1>1 DEF IInv, TypeOK, MetaRecord, ServiceWrite, ImportWrite, WriteSteps,
                    CopyIsCurrent, s, l
<1>3. UNCHANGED <<meta, slot, copy, payload, work, dbUp, loaded, acked, rank>>
  BY DEF WriteCommitsRecord, budget
<1> DEFINE r == meta.last + 1
           record == [rank |-> payload[p], intact |-> TRUE]
<1>4. /\ r \in DOMAIN snaps' /\ snaps'[r].rank = payload[p]
      /\ DOMAIN snaps' = {i \in DOMAIN snaps \cup {r} : r - Kept >= 1 => i > r - Kept}
      /\ \A k \in DOMAIN snaps' : k # r => k \in DOMAIN snaps /\ snaps'[k] = snaps[k]
  <2>1. r \in Nat \ {0} /\ record \in Stored /\ payload[p] \in Nat
    BY <1>0, <1>2 DEF IInv, TypeOK, Stored, s, l
  <2>2. snaps' = Committed(snaps, r, record)
    BY <1>2 DEF WriteCommitsRecord, revision
  <2>3. record.rank = payload[p]
    OBVIOUS
  <2>4. DOMAIN snaps \subseteq Nat \ {0} /\ snaps \in [DOMAIN snaps -> Stored]
    BY DEF IInv, TypeOK
  <2> HIDE DEF r, record
  <2>5. /\ r \in DOMAIN snaps' /\ snaps'[r] = record
        /\ DOMAIN snaps' = {i \in DOMAIN snaps \cup {r} : r - Kept >= 1 => i > r - Kept}
        /\ \A k \in DOMAIN snaps' : k # r => k \in DOMAIN snaps /\ snaps'[k] = snaps[k]
    BY <2>1, <2>2, KeptAssumption DEF Committed
  <2>6. QED
    BY <2>3, <2>5
<1>5. payload[p] <= rank
  BY <1>0, <1>1 DEF IInv, ServiceWrite, ImportWrite, NewestOnScreen, WriteSteps, s, l
<1>6. LoadFirst(t)' /\ Connected(t)' /\ Schedule(t)'
  BY <1>0, <1>1, <1>3 DEF IInv, LoadFirst, Connected, Schedule, WriteSteps, s, l, d
<1>7. NewestOnScreen(t)'
  BY <1>3, <1>4, <1>5 DEF IInv, NewestOnScreen
<1>8. StoreShape'
  <2>1. DOMAIN snaps' \subseteq 1..r
    BY <1>2, <1>4 DEF IInv, StoreShape
  <2>2. DOMAIN snaps' \subseteq (r + 1 - Kept)..r
    BY <1>2, <1>4, <2>1, KeptAssumption
  <2>3. QED
    BY <1>2, <1>3, <2>1, <2>2, KeptAssumption DEF StoreShape
<1>9. ServiceWrite(t)' /\ ImportWrite(t)'
  BY <1>0, <1>1, <1>2, <1>3, <1>4
     DEF IInv, TypeOK, ServiceWrite, ImportWrite, LoadFirst, WriteSteps, CopyIsCurrent, s, l, d
<1>10. PromiseKept(t)'
  <2>1. ASSUME acked # 0, meta.last # 0
        PROVE  NewestHolds(snaps, acked)'
    <3>1. acked <= payload[p]
      BY <1>0, <1>1, <2>1 DEF IInv, ServiceWrite, ImportWrite, WriteSteps, s, l
    <3>2. \A k \in DOMAIN snaps' : k >= r => k = r
      BY <1>2, <1>3, <1>8 DEF StoreShape
    <3>3. QED
      BY <1>3, <1>4, <3>1, <3>2 DEF NewestHolds
  <2>2. QED
    BY <1>0, <1>1, <1>3, <2>1 DEF IInv, PromiseKept, s, l, d
<1>11. QED
  BY <1>6, <1>7, <1>8, <1>9, <1>10 DEF IInv

\* The service gets its write back: it rests, or starts the queued one with
\* the model on screen.
LEMMA ServiceReturnMoves ==
    ASSUME NEW t, QuietTab(t), IInv(t), ServiceReturns(t)
    PROVE  /\ pc'[service(t)] \in {"idle", "readMeta"}
           /\ \A q \in Proc \ {service(t)} :
                pc'[q] = pc[q] /\ ahead'[q] = ahead[q] \ {service(t)} /\ payload'[q] = payload[q]
           /\ pc'[service(t)] = "readMeta" => payload'[service(t)] = work[t] /\ work[t] # 0
           /\ UNCHANGED slot
<1> DEFINE again == pending[t] /\ work[t] # 0
           at == IF again THEN "readMeta" ELSE "idle"
<1>1. t \in Tabs /\ service(t) \in Proc
  BY OneTab, ProcOf
<1>2. Advance(service(t), at) /\ at \in {"idle", "readMeta"}
  BY DEF ServiceReturns
<1>3. /\ pc'[service(t)] = at
      /\ \A q \in Proc \ {service(t)} : pc'[q] = pc[q] /\ ahead'[q] = ahead[q] \ {service(t)}
  <2> HIDE DEF at
  <2> QED BY <1>1, <1>2, AdvanceMoves DEF IInv, TxSteps, ReadsMeta
<1>4. /\ \A q \in Proc \ {service(t)} : payload'[q] = payload[q]
      /\ again => payload'[service(t)] = work[t]
  BY <1>1 DEF ServiceReturns, IInv, TypeOK
<1>5. QED
  BY <1>2, <1>3, <1>4 DEF ServiceReturns

\* Step 3 by the service: the newest record is the one now reported.
LEMMA KeepsServiceFinish ==
    ASSUME NEW t, QuietTab(t), IInv(t), TypeOK',
           WriteFinishes(service(t))
    PROVE  IInv(t)'
<1> DEFINE s == service(t)
           l == loader(t)
           d == discard(t)
<1>0. /\ t \in Tabs /\ s \in Proc /\ l \in Proc /\ d \in Proc
      /\ s # l /\ s # d /\ l # d
  BY OneTab, ProcOf
<1> HIDE DEF s, l, d
<1>1. /\ pc[s] = "finish" /\ pc[l] = "ready" /\ pc[d] = "idle"
  BY <1>0 DEF WriteFinishes, Runs, IInv, Schedule, LoadFirst, s, l, d
<1>2. ServiceReturns(t)
  BY ProcOf, OneTab DEF WriteFinishes, WriteReturns
<1>3. /\ pc'[s] \in {"idle", "readMeta"} /\ pc'[l] = "ready" /\ pc'[d] = "idle"
      /\ pc'[s] = "readMeta" => payload'[s] = work[t] /\ work[t] # 0
      /\ UNCHANGED slot
  BY <1>0, <1>1, <1>2, ServiceReturnMoves DEF s, l, d
<1>4. UNCHANGED <<snaps, copy, work, dbUp, loaded, rank>>
  BY DEF WriteFinishes, budget
<1>5. /\ copy[s] \in MetaRecord /\ copy[s].last = meta.last
      /\ acked <= payload[s] /\ payload[s] <= rank
      /\ meta.last + 1 \in DOMAIN snaps /\ snaps[meta.last + 1].rank = payload[s]
      /\ meta.last \in Nat /\ payload[s] \in Nat /\ acked \in Nat /\ rank \in Nat
  BY <1>0, <1>1 DEF IInv, TypeOK, MetaRecord, ServiceWrite, WriteSteps, CopyIsCurrent, s
<1>6. meta'.last = meta.last + 1
  <2>1. meta' = [copy[s] EXCEPT !.last = revision(s), !.unfinished = 0]
    BY DEF WriteFinishes, s
  <2>2. revision(s) = meta.last + 1 /\ revision(s) \in Nat
    BY <1>5 DEF revision
  <2>3. QED
    BY <1>5, <2>1, <2>2, MetaEdits
<1>7. acked' = payload[s]
  BY <1>5 DEF WriteFinishes, Larger, s
<1>a. dbUp[t]
  BY <1>1 DEF IInv, Connected, l
<1>8. LoadFirst(t)' /\ Connected(t)' /\ Schedule(t)'
  BY <1>3, <1>4, <1>a DEF LoadFirst, Connected, Schedule, WriteSteps, s, l, d
<1>9. NewestOnScreen(t)' /\ StoreShape'
  <2>1. NewestOnScreen(t)'
    BY <1>3, <1>4, <1>5, <1>7 DEF IInv, NewestOnScreen
  <2>2. DOMAIN snaps' \subseteq 1..(meta'.last + 1)
    BY <1>4, <1>5, <1>6 DEF IInv, StoreShape
  <2>3. DOMAIN snaps' \subseteq (meta'.last + 1 - Kept)..meta'.last
    BY <1>4, <1>5, <1>6, KeptAssumption DEF IInv, StoreShape
  <2>4. QED
    BY <2>1, <2>2, <2>3 DEF StoreShape
<1>10. ServiceWrite(t)' /\ ImportWrite(t)'
  <2>1. ASSUME pc'[s] = "readMeta"
        PROVE  acked' <= payload'[s] /\ payload'[s] <= rank'
    <3>1. work[t] = rank
      BY <1>3, <2>1 DEF IInv, NewestOnScreen
    <3>2. QED
      BY <1>3, <1>4, <1>5, <1>7, <2>1, <3>1
  <2>2. QED
    BY <1>3, <2>1 DEF ServiceWrite, ImportWrite, WriteSteps, CopyIsCurrent, s, l
<1>11. PromiseKept(t)'
  <2>1. NewestHolds(snaps, acked)'
    BY <1>4, <1>5, <1>7 DEF NewestHolds, IInv, StoreShape
  <2>2. QED
    BY <1>3, <1>5, <1>6, <2>1 DEF PromiseKept, IInv
<1>12. QED
  BY <1>8, <1>9, <1>10, <1>11 DEF IInv

\* Step 3 by the import: the record stands in for the slot it empties.
LEMMA KeepsImportFinish ==
    ASSUME NEW t, QuietTab(t), IInv(t), TypeOK',
           WriteFinishes(loader(t))
    PROVE  IInv(t)'
<1> DEFINE s == service(t)
           l == loader(t)
           d == discard(t)
<1>0. /\ t \in Tabs /\ s \in Proc /\ l \in Proc /\ d \in Proc
      /\ s # l /\ s # d /\ l # d
  BY OneTab, ProcOf
<1> HIDE DEF s, l, d
<1>1. pc[l] = "finish" /\ pc[s] = "idle" /\ pc[d] = "idle" /\ work[t] = 0 /\ ~loaded[t].done
  BY <1>0 DEF WriteFinishes, Runs, IInv, LoadFirst, s, l, d
<1>2. ImportReturns(t)
  BY ProcOf, OneTab DEF WriteFinishes, WriteReturns
<1>3. /\ pc'[l] = "afterRead" /\ pc'[s] = "idle" /\ pc'[d] = "idle"
      /\ slot' = NoSlot
  BY <1>0, <1>1, <1>2, AdvanceMoves DEF IInv, ImportReturns, TxSteps, ReadsMeta, l
<1>4. UNCHANGED <<snaps, work, dbUp, loaded, rank>>
  BY DEF WriteFinishes, budget
<1>5. /\ copy[l] \in MetaRecord /\ copy[l].last = 0 /\ meta.last = 0
      /\ payload[l] = slot.rank /\ slot.rank <= rank /\ acked <= slot.rank
      /\ 1 \in DOMAIN snaps /\ snaps[1].rank = slot.rank
      /\ slot.rank \in Nat /\ acked \in Nat /\ rank \in Nat
  BY <1>0, <1>1 DEF IInv, TypeOK, MetaRecord, Stored, ImportWrite, NewestOnScreen,
                    PromiseKept, WriteSteps, CopyIsCurrent, l
<1>6. meta'.last = 1
  <2>1. meta' = [copy[l] EXCEPT !.last = revision(l), !.unfinished = 0]
    BY DEF WriteFinishes, l
  <2>2. revision(l) = 1 /\ revision(l) \in Nat
    BY <1>5 DEF revision
  <2>3. QED
    BY <1>5, <2>1, <2>2, MetaEdits
<1>7. acked' = slot.rank
  BY <1>5 DEF WriteFinishes, Larger, l
<1>8. LoadFirst(t)' /\ Connected(t)' /\ Schedule(t)'
  BY <1>1, <1>3, <1>4 DEF IInv, LoadFirst, Connected, Schedule, WriteSteps, s, l, d
<1>9. NewestOnScreen(t)' /\ StoreShape'
  <2>1. NewestOnScreen(t)'
    BY <1>3, <1>4, <1>5, <1>7 DEF IInv, NewestOnScreen, NoSlot, TypeOK
  <2>2. DOMAIN snaps' \subseteq 1..1
    BY <1>4, <1>5 DEF IInv, StoreShape
  <2>3. QED
    BY <1>6, <2>1, <2>2, KeptAssumption DEF StoreShape
<1>10. ServiceWrite(t)' /\ ImportWrite(t)'
  BY <1>3 DEF ServiceWrite, ImportWrite, WriteSteps, s, l
<1>11. PromiseKept(t)'
  <2>1. NewestHolds(snaps, acked)'
    BY <1>4, <1>5, <1>7 DEF NewestHolds, IInv, StoreShape
  <2>2. QED
    BY <1>3, <1>6, <2>1 DEF PromiseKept, NoSlot
<1>12. QED
  BY <1>8, <1>9, <1>10, <1>11 DEF IInv

\* A transaction of the service's write aborts; the import's do not.
LEMMA KeepsWriteFails ==
    ASSUME NEW t, QuietTab(t), IInv(t), TypeOK',
           WriteFails(service(t)) \/ WriteFails(loader(t))
    PROVE  IInv(t)'
<1> DEFINE s == service(t)
           l == loader(t)
           d == discard(t)
<1>0. /\ t \in Tabs /\ s \in Proc /\ l \in Proc /\ d \in Proc
      /\ s # l /\ s # d /\ l # d
  BY OneTab, ProcOf
<1> HIDE DEF s, l, d
<1>1. "importFault" \notin Hazards
  BY DEF QuietTab
<1>2. WriteFails(service(t)) /\ ServiceReturns(t)
  BY <1>1, ProcOf, OneTab DEF WriteFails, Fault, WriteReturns
<1>3. pc[s] \in WriteSteps /\ pc[l] = "ready"
  BY <1>0, <1>2 DEF WriteFails, Runs, IInv, LoadFirst, WriteSteps, s, l
<1>4. /\ pc'[s] \in {"idle", "readMeta"} /\ pc'[l] = "ready" /\ pc'[d] = pc[d]
      /\ pc'[s] = "readMeta" => payload'[s] = work[t] /\ work[t] # 0
      /\ UNCHANGED slot
  BY <1>0, <1>2, <1>3, ServiceReturnMoves DEF s, l, d
<1>5. UNCHANGED <<snaps, meta, work, dbUp, loaded, acked, rank>>
  BY <1>2 DEF WriteFails
<1>6. pc[d] = "idle"
  <2>1. ASSUME pc[d] = "clear" PROVE FALSE
    <3>1. pc[s] = "readMeta" /\ d \in ahead[s]
      BY <1>3, <2>1 DEF IInv, Schedule, WriteSteps, s, d
    <3>2. \A q \in ahead[s] : ~Conflict(pc[q], "readMeta")
      BY <1>2, <3>1 DEF WriteFails, Runs, s
    <3>3. QED
      BY <2>1, <3>1, <3>2 DEF Conflict
  <2>2. QED
    BY <2>1 DEF IInv, Schedule, d
<1>a. dbUp[t]
  BY <1>3 DEF IInv, Connected, l
<1>7. LoadFirst(t)' /\ Connected(t)' /\ Schedule(t)'
  BY <1>4, <1>5, <1>6, <1>a DEF LoadFirst, Connected, Schedule, WriteSteps, s, l, d
<1>8. NewestOnScreen(t)' /\ StoreShape'
  BY <1>4, <1>5 DEF IInv, NewestOnScreen, StoreShape
<1>9. ServiceWrite(t)' /\ ImportWrite(t)'
  <2>1. ASSUME pc'[s] = "readMeta"
        PROVE  acked' <= payload'[s] /\ payload'[s] <= rank'
    BY <1>4, <1>5, <2>1 DEF IInv, TypeOK, NewestOnScreen
  <2>2. QED
    BY <1>4, <2>1 DEF ServiceWrite, ImportWrite, WriteSteps, CopyIsCurrent, s, l
<1>10. PromiseKept(t)'
  BY <1>4, <1>5 DEF IInv, PromiseKept, NewestHolds, l
<1>11. QED
  BY <1>7, <1>8, <1>9, <1>10 DEF IInv

\* The user edits, asks for a save, restores or discards.
LEMMA KeepsUser ==
    ASSUME NEW t, QuietTab(t), IInv(t), TypeOK',
           User(t)
    PROVE  IInv(t)'
<1> DEFINE s == service(t)
           l == loader(t)
           d == discard(t)
<1>0. /\ t \in Tabs /\ s \in Proc /\ l \in Proc /\ d \in Proc
      /\ s # l /\ s # d /\ l # d
  BY OneTab, ProcOf
<1> HIDE DEF s, l, d
<1>1. CASE Edit(t) \/ Restore(t)
  <2>1. pc[l] = "ready"
    BY <1>1 DEF Edit, Restore, Loaded, Banner, QuietTab, IInv, LoadFirst, l
  <2>2. /\ UNCHANGED <<snaps, meta, slot, pc, ahead, copy, payload, dbUp, acked>>
        /\ work' = [work EXCEPT ![t] = rank + 1] /\ rank' = rank + 1
    BY <1>1 DEF Edit, Restore, disk, procs
  <2>3. work'[t] = rank' /\ rank \in Nat /\ rank <= rank'
    BY <1>0, <2>2 DEF IInv, TypeOK
  <2>4. LoadFirst(t)' /\ Connected(t)' /\ Schedule(t)'
    BY <2>1, <2>2 DEF IInv, LoadFirst, Connected, Schedule, l
  <2>5. NewestOnScreen(t)' /\ StoreShape'
    BY <2>2, <2>3 DEF IInv, TypeOK, Stored, NewestOnScreen, StoreShape
  <2>6. ServiceWrite(t)' /\ ImportWrite(t)'
    BY <1>0, <2>2, <2>3 DEF IInv, TypeOK, ServiceWrite, ImportWrite, s, l
  <2>7. PromiseKept(t)'
    BY <2>2 DEF IInv, PromiseKept, NewestHolds
  <2>8. QED
    BY <2>4, <2>5, <2>6, <2>7 DEF IInv
<1>2. CASE RequestAutosave(t)
  <2>1. pc[l] = "ready" /\ work[t] = rank
    BY <1>2 DEF RequestAutosave, IInv, LoadFirst, NewestOnScreen, l
  <2>2. UNCHANGED <<snaps, meta, slot, copy, work, dbUp, loaded, acked, rank>>
    BY <1>2 DEF RequestAutosave, disk, budget
  <2>3. CASE pc[s] # "idle"
    <3>1. UNCHANGED <<pc, payload, ahead>>
      BY <1>2, <2>3 DEF RequestAutosave, s
    <3>2. QED
      BY <2>2, <3>1 DEF IInv, LoadFirst, Connected, Schedule, NewestOnScreen, StoreShape, ServiceWrite,
                        ImportWrite, PromiseKept, NewestHolds
  <2>4. CASE pc[s] = "idle"
    <3>1. payload' = [payload EXCEPT ![s] = work[t]] /\ Advance(s, "readMeta")
      BY <1>2, <2>4 DEF RequestAutosave, s
    <3>2. /\ pc'[s] = "readMeta" /\ pc'[l] = "ready" /\ pc'[d] = pc[d]
          /\ ahead'[s] = Outstanding \ {s} /\ payload'[s] = rank
      BY <1>0, <2>1, <3>1, AdvanceMoves DEF IInv, TypeOK, TxSteps, ReadsMeta
    <3>3. pc[d] = "clear" => d \in ahead'[s]
      BY <1>0, <3>2 DEF Outstanding, TxSteps
    <3>a. dbUp[t] /\ (pc[d] = "clear" => acked = 0) /\ pc[d] \in {"idle", "clear"}
      BY <2>1 DEF IInv, Connected, Schedule, l, d
    <3>4. LoadFirst(t)' /\ Connected(t)' /\ Schedule(t)'
      BY <2>2, <3>2, <3>3, <3>a DEF LoadFirst, Connected, Schedule, WriteSteps, s, l, d
    <3>5. NewestOnScreen(t)' /\ StoreShape'
      BY <2>2 DEF IInv, NewestOnScreen, StoreShape
    <3>6. ServiceWrite(t)' /\ ImportWrite(t)'
      BY <2>2, <3>2 DEF IInv, TypeOK, NewestOnScreen, ServiceWrite, ImportWrite, WriteSteps,
                        CopyIsCurrent, s, l
    <3>7. PromiseKept(t)'
      BY <2>2, <3>2 DEF IInv, PromiseKept, NewestHolds, l
    <3>8. QED
      BY <3>4, <3>5, <3>6, <3>7 DEF IInv
  <2>5. QED
    BY <2>3, <2>4
<1>3. CASE RequestDegraded(t)
  <2>1. pc[l] = "ready"
    BY <1>3 DEF RequestDegraded, IInv, LoadFirst, l
  <2>2. dbUp[t]
    BY <2>1, <1>3 DEF RequestDegraded, IInv, Connected, l
  <2>3. QED
    BY <1>3, <2>2 DEF RequestDegraded
<1>4. CASE Discard(t)
  <2>1. pc[l] = "ready" /\ pc[d] = "idle" /\ pc[s] = "idle"
    BY <1>0, <1>4 DEF Discard, Banner, QuietTab, IInv, LoadFirst, s, l, d
  <2>2. PICK at \in {"clear", "idle"} : Advance(d, at)
    BY <1>4 DEF Discard, d
  <2>3. pc'[d] = at /\ pc'[s] = "idle" /\ pc'[l] = "ready"
    BY <1>0, <2>1, <2>2, AdvanceMoves DEF IInv, TxSteps
  <2>4. /\ UNCHANGED <<snaps, meta, copy, payload, work, dbUp, rank>>
        /\ slot' = NoSlot /\ acked' = 0
    BY <1>4 DEF Discard, budget
  <2>a. dbUp[t]
    BY <2>1 DEF IInv, Connected, l
  <2>5. LoadFirst(t)' /\ Connected(t)' /\ Schedule(t)'
    BY <2>3, <2>4, <2>a DEF LoadFirst, Connected, Schedule, s, l, d
  <2>6. NewestOnScreen(t)' /\ StoreShape'
    BY <2>4 DEF IInv, TypeOK, NewestOnScreen, StoreShape, NoSlot
  <2>7. ServiceWrite(t)' /\ ImportWrite(t)' /\ PromiseKept(t)'
    BY <2>3, <2>4 DEF ServiceWrite, ImportWrite, WriteSteps, PromiseKept, NoSlot, s, l
  <2>8. QED
    BY <2>5, <2>6, <2>7 DEF IInv
<1>5. QED
  BY <1>1, <1>2, <1>3, <1>4 DEF User

\* The clear of a discard runs before any write requested after it.
LEMMA KeepsClear ==
    ASSUME NEW t, QuietTab(t), IInv(t), TypeOK',
           Clear(t)
    PROVE  IInv(t)'
<1> DEFINE s == service(t)
           l == loader(t)
           d == discard(t)
<1>0. /\ t \in Tabs /\ s \in Proc /\ l \in Proc /\ d \in Proc
      /\ s # l /\ s # d /\ l # d
  BY OneTab, ProcOf
<1> HIDE DEF s, l, d
<1>1. pc[d] = "clear" /\ pc'[d] = "idle" /\ pc'[s] = pc[s] /\ pc'[l] = pc[l]
  BY <1>0, AdvanceMoves DEF Clear, ClearCommits, ClearFails, Runs, IInv, d
<1>2. acked = 0 /\ pc[s] \in {"idle", "readMeta"} /\ pc[l] = "ready"
  BY <1>1 DEF IInv, Schedule, LoadFirst, s, l, d
<1>3. UNCHANGED <<slot, copy, payload, work, dbUp, loaded, acked, rank>>
  BY DEF Clear, ClearCommits, ClearFails, disk, budget
<1>4. \/ UNCHANGED <<snaps, meta>>
      \/ snaps' = <<>> /\ meta' = [last |-> 0, unfinished |-> 0, imported |-> TRUE]
  BY DEF Clear, ClearCommits, ClearFails, disk
<1>5. LoadFirst(t)' /\ Connected(t)' /\ Schedule(t)'
  BY <1>1, <1>2, <1>3 DEF IInv, LoadFirst, Connected, Schedule, WriteSteps, s, l, d
<1>6. NewestOnScreen(t)' /\ StoreShape'
  BY <1>3, <1>4 DEF IInv, NewestOnScreen, StoreShape
<1>7. ServiceWrite(t)' /\ ImportWrite(t)'
  BY <1>1, <1>2, <1>3 DEF IInv, ServiceWrite, ImportWrite, WriteSteps, CopyIsCurrent, s, l
<1>8. PromiseKept(t)'
  BY <1>2, <1>3 DEF IInv, PromiseKept
<1>9. QED
  BY <1>5, <1>6, <1>7, <1>8 DEF IInv

\* The load at mount.  The slot is emptied only when its contents are either
\* in the store or not what was promised.
LEMMA KeepsLoad ==
    ASSUME NEW t, QuietTab(t), IInv(t), TypeOK',
           Load(t)
    PROVE  IInv(t)'
<1> DEFINE s == service(t)
           l == loader(t)
           d == discard(t)
<1>0. /\ t \in Tabs /\ s \in Proc /\ l \in Proc /\ d \in Proc
      /\ s # l /\ s # d /\ l # d
  BY OneTab, ProcOf
<1>a. DbOpens = {TRUE} /\ "importFault" \notin Hazards
  BY DEF QuietTab
<1> HIDE DEF s, l, d
<1>b. pc[l] # "ready"
  BY <1>a DEF Load, Boot, BootFromWorkspace, ImportReads, ImportReadsAfter, ImportMarks,
              ImportFails, LoadReadsMeta, LoadReadsAll, LoadFails, Runs, Fault, l
<1>c. work[t] = 0 /\ pc[s] = "idle" /\ pc[d] = "idle" /\ ~loaded[t].done
  BY <1>b DEF IInv, LoadFirst, s, l, d
<1>d. ASSUME NEW at \in TxSteps \cup {"ready"}, Advance(l, at)
      PROVE  pc'[l] = at /\ pc'[s] = "idle" /\ pc'[d] = "idle"
  BY <1>0, <1>c, <1>d, AdvanceMoves DEF IInv
<1>e. {"importRead", "loadMeta", "readMeta", "afterRead", "mark", "loadAll"} \subseteq TxSteps
  BY DEF TxSteps, ReadsMeta, WritesMeta, OnSnapshots
<1>1. CASE Boot(t)
  <2>1. pc[l] = "boot" /\ UNCHANGED <<snaps, meta, slot, copy, payload, work, acked, rank>>
    BY <1>1 DEF Boot, disk, budget, l
  <2>2. dbUp' = [dbUp EXCEPT ![t] = TRUE] /\ loaded' = loaded /\ Advance(l, "importRead")
    BY <1>1, <1>a DEF Boot, l
  <2>3. dbUp'[t] /\ pc'[l] = "importRead" /\ pc'[s] = "idle" /\ pc'[d] = "idle"
    BY <1>0, <1>d, <1>e, <2>2 DEF IInv, TypeOK
  <2>4. LoadFirst(t)' /\ Connected(t)' /\ Schedule(t)'
    BY <1>c, <2>1, <2>2, <2>3 DEF LoadFirst, Connected, Schedule, s, l, d
  <2>5. NewestOnScreen(t)' /\ StoreShape' /\ ServiceWrite(t)' /\ ImportWrite(t)'
    BY <2>1, <2>3 DEF IInv, NewestOnScreen, StoreShape, ServiceWrite, ImportWrite,
                      WriteSteps, s, l
  <2>6. PromiseKept(t)'
    BY <2>1, <2>3 DEF IInv, PromiseKept, NewestHolds, l
  <2>7. QED
    BY <2>4, <2>5, <2>6 DEF IInv
<1>2. CASE BootFromWorkspace(t)
  <2>1. UNCHANGED <<snaps, meta, slot, copy, payload, loaded, acked>> /\ rank' = rank + 1
    BY <1>2 DEF BootFromWorkspace, disk
  <2>2. /\ work' = [work EXCEPT ![t] = rank + 1]
        /\ dbUp' = [dbUp EXCEPT ![t] = TRUE] /\ Advance(l, "ready")
    BY <1>2, <1>a DEF BootFromWorkspace, l
  <2>3. /\ dbUp'[t] /\ pc'[l] = "ready" /\ pc'[s] = "idle" /\ pc'[d] = "idle"
        /\ work'[t] = rank' /\ rank \in Nat
    BY <1>0, <1>d, <2>1, <2>2 DEF IInv, TypeOK
  <2>4. LoadFirst(t)' /\ Connected(t)' /\ Schedule(t)'
    BY <2>3 DEF LoadFirst, Connected, Schedule, s, l, d
  <2>5. NewestOnScreen(t)' /\ StoreShape'
    BY <2>1, <2>3 DEF IInv, TypeOK, Stored, NewestOnScreen, StoreShape
  <2>6. ServiceWrite(t)' /\ ImportWrite(t)'
    BY <2>3 DEF ServiceWrite, ImportWrite, WriteSteps, s, l
  <2>7. PromiseKept(t)'
    BY <2>1, <2>3 DEF IInv, PromiseKept, NewestHolds, l
  <2>8. QED
    BY <2>4, <2>5, <2>6, <2>7 DEF IInv
<1>3. CASE ImportReads(t)
  <2>1. pc[l] = "importRead"
        /\ UNCHANGED <<snaps, meta, copy, work, dbUp, loaded, acked, rank>>
    BY <1>3 DEF ImportReads, Runs, budget, l
  <2>2. dbUp[t]
    BY <2>1 DEF IInv, Connected, l
  <2>3. CASE meta.imported
    <3>1. pc'[l] = "loadMeta" /\ pc'[s] = "idle" /\ pc'[d] = "idle" /\ slot' = slot
      BY <1>3, <1>d, <1>e, <2>3 DEF ImportReads, l
    <3>2. LoadFirst(t)' /\ Connected(t)' /\ Schedule(t)'
      BY <1>c, <2>1, <2>2, <3>1 DEF LoadFirst, Connected, Schedule, s, l, d
    <3>3. NewestOnScreen(t)' /\ StoreShape' /\ ServiceWrite(t)' /\ ImportWrite(t)'
      BY <2>1, <3>1 DEF IInv, NewestOnScreen, StoreShape, ServiceWrite, ImportWrite,
                        WriteSteps, s, l
    <3>4. PromiseKept(t)'
      BY <2>1, <3>1 DEF IInv, PromiseKept, NewestHolds, l
    <3>5. QED
      BY <3>2, <3>3, <3>4 DEF IInv
  <2>4. CASE ~meta.imported /\ slot.rank # 0 /\ slot.intact /\ meta.last = 0
    <3>1. /\ pc'[l] = "readMeta" /\ pc'[s] = "idle" /\ pc'[d] = "idle" /\ slot' = slot
          /\ payload' = [payload EXCEPT ![l] = slot.rank]
      BY <1>3, <1>d, <1>e, <2>4 DEF ImportReads, l
    <3>2. payload'[l] = slot.rank
      BY <1>0, <3>1 DEF IInv, TypeOK
    <3>3. LoadFirst(t)' /\ Connected(t)' /\ Schedule(t)'
      BY <1>c, <2>1, <2>2, <3>1 DEF LoadFirst, Connected, Schedule, WriteSteps, s, l, d
    <3>4. NewestOnScreen(t)' /\ StoreShape' /\ ServiceWrite(t)'
      BY <2>1, <3>1 DEF IInv, NewestOnScreen, StoreShape, ServiceWrite, WriteSteps, s
    <3>5. ImportWrite(t)'
      BY <2>1, <2>4, <3>1, <3>2 DEF ImportWrite, WriteSteps, CopyIsCurrent, l
    <3>6. PromiseKept(t)'
      BY <2>1, <3>1 DEF IInv, PromiseKept, NewestHolds, l
    <3>7. QED
      BY <3>3, <3>4, <3>5, <3>6 DEF IInv
  <2>5. CASE ~meta.imported /\ ~(slot.rank # 0 /\ slot.intact /\ meta.last = 0)
    <3>1. pc'[l] = "afterRead" /\ pc'[s] = "idle" /\ pc'[d] = "idle" /\ slot' = NoSlot
      BY <1>3, <1>d, <1>e, <2>5 DEF ImportReads, l
    <3>2. acked = 0 \/ meta.last # 0
      BY <2>5 DEF IInv, PromiseKept, TypeOK
    <3>3. LoadFirst(t)' /\ Connected(t)' /\ Schedule(t)'
      BY <1>c, <2>1, <2>2, <3>1 DEF LoadFirst, Connected, Schedule, s, l, d
    <3>4. NewestOnScreen(t)' /\ StoreShape'
      BY <2>1, <3>1 DEF IInv, TypeOK, NewestOnScreen, StoreShape, NoSlot
    <3>5. ServiceWrite(t)' /\ ImportWrite(t)'
      BY <3>1 DEF ServiceWrite, ImportWrite, WriteSteps, s, l
    <3>6. PromiseKept(t)'
      BY <2>1, <3>1, <3>2 DEF IInv, PromiseKept, NewestHolds, NoSlot
    <3>7. QED
      BY <3>3, <3>4, <3>5, <3>6 DEF IInv
  <2>6. QED
    BY <2>3, <2>4, <2>5
<1>4. CASE ImportReadsAfter(t)
  <2>1. /\ pc[l] = "afterRead" /\ copy' = [copy EXCEPT ![l] = meta] /\ Advance(l, "mark")
        /\ UNCHANGED <<snaps, meta, slot, payload, work, dbUp, loaded, acked, rank>>
    BY <1>4 DEF ImportReadsAfter, Runs, disk, budget, l
  <2>2. /\ pc'[l] = "mark" /\ pc'[s] = "idle" /\ pc'[d] = "idle" /\ copy'[l] = meta
        /\ dbUp[t]
    BY <1>0, <1>d, <1>e, <2>1 DEF IInv, TypeOK, Connected, l
  <2>3. LoadFirst(t)' /\ Connected(t)' /\ Schedule(t)'
    BY <1>c, <2>1, <2>2 DEF LoadFirst, Connected, Schedule, s, l, d
  <2>4. NewestOnScreen(t)' /\ StoreShape'
    BY <2>1 DEF IInv, NewestOnScreen, StoreShape
  <2>5. ServiceWrite(t)' /\ ImportWrite(t)'
    BY <2>1, <2>2 DEF ServiceWrite, ImportWrite, WriteSteps, s, l
  <2>6. PromiseKept(t)'
    BY <2>1, <2>2 DEF IInv, PromiseKept, NewestHolds, l
  <2>7. QED
    BY <2>3, <2>4, <2>5, <2>6 DEF IInv
<1>5. CASE ImportMarks(t)
  <2>1. /\ pc[l] = "mark" /\ meta' = [copy[l] EXCEPT !.imported = TRUE]
        /\ Advance(l, "loadMeta")
        /\ UNCHANGED <<snaps, slot, copy, payload, work, dbUp, loaded, acked, rank>>
    BY <1>5 DEF ImportMarks, Runs, budget, l
  <2>2. meta'.last = meta.last
    <3>1. copy[l] = meta /\ meta \in MetaRecord
      BY <2>1 DEF IInv, TypeOK, ImportWrite, l
    <3>2. QED
      BY <2>1, <3>1, MetaEdits
  <2>3. pc'[l] = "loadMeta" /\ pc'[s] = "idle" /\ pc'[d] = "idle" /\ dbUp[t]
    BY <1>d, <1>e, <2>1 DEF IInv, Connected, l
  <2>4. LoadFirst(t)' /\ Connected(t)' /\ Schedule(t)'
    BY <1>c, <2>1, <2>3 DEF LoadFirst, Connected, Schedule, s, l, d
  <2>5. NewestOnScreen(t)' /\ StoreShape'
    BY <2>1, <2>2 DEF IInv, NewestOnScreen, StoreShape
  <2>6. ServiceWrite(t)' /\ ImportWrite(t)'
    BY <2>3 DEF ServiceWrite, ImportWrite, WriteSteps, s, l
  <2>7. PromiseKept(t)'
    BY <2>1, <2>2, <2>3 DEF IInv, PromiseKept, NewestHolds, l
  <2>8. QED
    BY <2>4, <2>5, <2>6, <2>7 DEF IInv
<1>6. CASE ImportFails(t)
  BY <1>6, <1>a DEF ImportFails, Fault
<1>7. CASE LoadReadsMeta(t)
  <2>1. /\ pc[l] = "loadMeta" /\ Advance(l, "loadAll")
        /\ UNCHANGED <<snaps, meta, slot, payload, work, dbUp, loaded, acked, rank>>
    BY <1>7 DEF LoadReadsMeta, Runs, disk, budget, l
  <2>2. pc'[l] = "loadAll" /\ pc'[s] = "idle" /\ pc'[d] = "idle" /\ dbUp[t]
    BY <1>d, <1>e, <2>1 DEF IInv, Connected, l
  <2>3. LoadFirst(t)' /\ Connected(t)' /\ Schedule(t)'
    BY <1>c, <2>1, <2>2 DEF LoadFirst, Connected, Schedule, s, l, d
  <2>4. NewestOnScreen(t)' /\ StoreShape'
    BY <2>1 DEF IInv, NewestOnScreen, StoreShape
  <2>5. ServiceWrite(t)' /\ ImportWrite(t)'
    BY <2>2 DEF ServiceWrite, ImportWrite, WriteSteps, s, l
  <2>6. PromiseKept(t)'
    BY <2>1, <2>2 DEF IInv, PromiseKept, NewestHolds, l
  <2>7. QED
    BY <2>3, <2>4, <2>5, <2>6 DEF IInv
<1>8. CASE LoadReadsAll(t) \/ LoadFails(t)
  <2>1. /\ pc[l] # "boot" /\ Advance(l, "ready")
        /\ UNCHANGED <<snaps, meta, slot, copy, payload, work, dbUp, acked, rank>>
    BY <1>8 DEF LoadReadsAll, LoadFails, Runs, disk, budget, l
  <2>2. pc'[l] = "ready" /\ pc'[s] = "idle" /\ pc'[d] = "idle" /\ dbUp[t]
    BY <1>d, <2>1 DEF IInv, Connected, l
  <2>3. LoadFirst(t)' /\ Connected(t)' /\ Schedule(t)'
    BY <2>1, <2>2 DEF LoadFirst, Connected, Schedule, s, l, d
  <2>4. NewestOnScreen(t)' /\ StoreShape'
    BY <2>1 DEF IInv, NewestOnScreen, StoreShape
  <2>5. ServiceWrite(t)' /\ ImportWrite(t)'
    BY <2>2 DEF ServiceWrite, ImportWrite, WriteSteps, s, l
  <2>6. PromiseKept(t)'
    BY <2>1, <2>2 DEF IInv, PromiseKept, NewestHolds, l
  <2>7. QED
    BY <2>3, <2>4, <2>5, <2>6 DEF IInv
<1>9. QED
  BY <1>1, <1>2, <1>3, <1>4, <1>5, <1>6, <1>7, <1>8 DEF Load

\* A crash cuts whatever was open; a damaged record keeps its revision and rank.
LEMMA KeepsEnvironment ==
    ASSUME NEW t, QuietTab(t), IInv(t), TypeOK',
           Environment
    PROVE  IInv(t)'
<1> DEFINE s == service(t)
           l == loader(t)
           d == discard(t)
<1>0. /\ t \in Tabs /\ s \in Proc /\ l \in Proc /\ d \in Proc
      /\ s # l /\ s # d /\ l # d
  BY OneTab, ProcOf
<1>1. CASE \E u \in Tabs : Crash(u)
  <2>1. Crash(t)
    BY <1>1, OneTab
  <2>2. pc' = [p \in Proc |-> IF p[1] # t THEN pc[p]
                              ELSE IF p[2] = "loader" THEN "boot" ELSE "idle"]
    BY <2>1 DEF Crash
  <2>3. pc'[l] = "boot" /\ pc'[s] = "idle" /\ pc'[d] = "idle"
    BY <1>0, <2>2 DEF service, loader, discard
  <2>4. UNCHANGED <<snaps, meta, slot, acked, rank>>
    BY <2>1 DEF Crash, disk
  <2>5. work'[t] = 0 /\ ~loaded'[t].done
    BY <1>0, <2>1 DEF Crash, IInv, TypeOK, NotLoaded
  <2> HIDE DEF s, l, d
  <2>6. LoadFirst(t)' /\ Connected(t)' /\ Schedule(t)'
    BY <2>3, <2>5 DEF LoadFirst, Connected, Schedule, s, l, d
  <2>7. NewestOnScreen(t)' /\ StoreShape'
    BY <2>4, <2>5 DEF IInv, NewestOnScreen, StoreShape
  <2>8. ServiceWrite(t)' /\ ImportWrite(t)'
    BY <2>3 DEF ServiceWrite, ImportWrite, WriteSteps, s, l
  <2>9. PromiseKept(t)'
    BY <2>3, <2>4 DEF IInv, PromiseKept, NewestHolds, l
  <2>10. QED
    BY <2>6, <2>7, <2>8, <2>9 DEF IInv
<1>2. ASSUME NEW r \in DOMAIN snaps, RecordDamaged(r)
      PROVE  IInv(t)'
  <2>1. /\ UNCHANGED <<meta, slot, pc, copy, payload, ahead, work, dbUp, loaded, acked, rank>>
        /\ snaps' = [snaps EXCEPT ![r].intact = FALSE]
    BY <1>2 DEF RecordDamaged, procs
  <2>2. DOMAIN snaps' = DOMAIN snaps /\ \A k \in DOMAIN snaps : snaps'[k].rank = snaps[k].rank
    BY <2>1 DEF IInv, TypeOK, Stored
  <2>3. LoadFirst(t)' /\ Connected(t)' /\ Schedule(t)'
    BY <2>1 DEF IInv, LoadFirst, Connected, Schedule
  <2>4. NewestOnScreen(t)' /\ StoreShape'
    BY <2>1, <2>2 DEF IInv, NewestOnScreen, StoreShape
  <2>5. ServiceWrite(t)' /\ ImportWrite(t)'
    BY <2>1, <2>2 DEF IInv, ServiceWrite, ImportWrite
  <2>6. PromiseKept(t)'
    BY <2>1, <2>2 DEF IInv, PromiseKept, NewestHolds
  <2>7. QED
    BY <2>3, <2>4, <2>5, <2>6 DEF IInv
<1>3. CASE SlotDamaged
  BY <1>3 DEF SlotDamaged, Fault, QuietTab
<1>4. QED
  BY <1>1, <1>2, <1>3 DEF Environment

-----------------------------------------------------------------------------
LEMMA IInvInit ==
    ASSUME NEW t, QuietTab(t), Init
    PROVE  IInv(t)
<1>0. t \in Tabs /\ service(t) \in Proc /\ loader(t) \in Proc /\ discard(t) \in Proc
  BY OneTab, ProcOf
<1>1. TypeOK
  BY TypeInit
<1>2. /\ pc[loader(t)] = "boot" /\ pc[service(t)] = "idle" /\ pc[discard(t)] = "idle"
      /\ work[t] = 0 /\ ~loaded[t].done
  BY <1>0 DEF Init, NotLoaded, service, loader, discard
<1>3. LoadFirst(t) /\ Connected(t) /\ Schedule(t)
  BY <1>2 DEF LoadFirst, Connected, Schedule
<1>4. DOMAIN snaps = {} /\ meta.last = 0 /\ ~meta.imported /\ slot.intact
      /\ slot.rank = rank /\ acked = rank /\ rank \in {0, 1}
  BY DEF Init, NoMeta, NoSlot
<1>5. NewestOnScreen(t) /\ StoreShape
  BY <1>2, <1>4, KeptAssumption DEF NewestOnScreen, StoreShape
<1>6. ServiceWrite(t) /\ ImportWrite(t) /\ PromiseKept(t)
  BY <1>2, <1>4 DEF ServiceWrite, ImportWrite, WriteSteps, PromiseKept
<1>7. QED
  BY <1>1, <1>3, <1>5, <1>6 DEF IInv

LEMMA IInvNext ==
    ASSUME NEW t, QuietTab(t), IInv(t), [Next]_vars
    PROVE  IInv(t)'
<1>1. CASE UNCHANGED vars
  BY <1>1 DEF vars, disk, procs, budget, IInv, TypeOK, LoadFirst, Connected, Schedule,
              NewestOnScreen, StoreShape, ServiceWrite, ImportWrite, PromiseKept, NewestHolds
<1>2. CASE Next
  <2>1. t \in Tabs
    BY OneTab
  <2>2. CASE User(t) \/ Load(t) \/ Clear(t)
    BY <2>1, <2>2, TypeUser, TypeLoad, TypeClear, KeepsUser, KeepsLoad, KeepsClear DEF IInv
  <2>3. CASE Write(service(t)) \/ Write(loader(t))
    <3>1. TypeOK'
      BY <2>1, <2>3, TypeWrite, ProcOf DEF IInv, service, loader
    <3>2. QED
      BY <2>3, <3>1, KeepsReadMeta, KeepsIntent, KeepsCommit, KeepsServiceFinish,
         KeepsImportFinish, KeepsWriteFails DEF Write
  <2>4. CASE Environment
    BY <2>4, TypeEnvironment, KeepsEnvironment DEF IInv
  <2>5. QED
    BY <1>2, <2>2, <2>3, <2>4, OneTab DEF Next
<1>3. QED
  BY <1>1, <1>2

\* The invariant holds in every reachable state, whatever Kept and the bounds.
THEOREM InvariantHolds == Spec => []InductiveInvariant
<1>1. Init => InductiveInvariant
  BY IInvInit DEF InductiveInvariant
<1>2. InductiveInvariant /\ [Next]_vars => InductiveInvariant'
  BY IInvNext DEF InductiveInvariant, QuietTab
<1>3. QED
  BY <1>1, <1>2, PTL DEF Spec

\* In the quiet tab a save reported `ok` and not discarded is what the next
\* load finds, after any number of saves, crashes, aborted transactions and
\* damaged records.
THEOREM AckedSavesAreRecoverable ==
    ASSUME NEW t, QuietTab(t)
    PROVE  Spec => []AckedIsRecoverable
<1>1. InductiveInvariant => AckedIsRecoverable
  <2> SUFFICES ASSUME InductiveInvariant, acked # 0 PROVE AckedIsRecoverable
    BY DEF AckedIsRecoverable
  <2>1. IInv(t)
    BY OneTab DEF InductiveInvariant
  <2>2. CASE meta.last # 0
    BY <2>1, <2>2 DEF IInv, PromiseKept, AckedIsRecoverable
  <2>3. CASE meta.last = 0
    BY <2>1, <2>3 DEF IInv, TypeOK, Stored, PromiseKept, AckedIsRecoverable
  <2>4. QED
    BY <2>2, <2>3
<1>2. QED
  BY <1>1, InvariantHolds, PTL

\* In the quiet tab the store never holds more than Kept revisions, for every
\* Kept.
THEOREM RetentionIsBounded ==
    ASSUME NEW t, QuietTab(t)
    PROVE  Spec => []RetentionWindow
<1>1. InductiveInvariant => RetentionWindow
  <2> SUFFICES ASSUME InductiveInvariant PROVE RetentionWindow
    OBVIOUS
  <2>1. StoreShape /\ meta.last \in Nat
    BY OneTab DEF InductiveInvariant, IInv, TypeOK, MetaRecord
  <2>2. PICK top \in Int : DOMAIN snaps \subseteq (top + 1 - Kept)..top
    BY <2>1, KeptAssumption DEF StoreShape
  <2> DEFINE window == (top + 1 - Kept)..top
  <2>3. IsFiniteSet(window) /\ Cardinality(window) = Kept
    BY KeptAssumption, FS_Interval
  <2>4. IsFiniteSet(DOMAIN snaps) /\ Cardinality(DOMAIN snaps) <= Cardinality(window)
    BY <2>2, <2>3, FS_Subset
  <2>5. QED
    BY <2>3, <2>4 DEF RetentionWindow
<1>2. QED
  BY <1>1, InvariantHolds, PTL

-----------------------------------------------------------------------------
(***************************************************************************)
(* What a load says.                                                       *)
(***************************************************************************)

\* A load reads the records only once the import is settled.
ImportSettled(t) == pc[loader(t)] \in {"loadMeta", "loadAll"} => meta.imported

\* How the steps of the quiet tab move its loader and the mark of the import.
LEMMA LoaderMoves ==
    ASSUME NEW t, QuietTab(t), IInv(t), [Next]_vars
    PROVE  \/ pc'[loader(t)] = pc[loader(t)] /\ meta' = meta
           \/ pc[loader(t)] = "ready" /\ pc'[loader(t)] \in {"ready", "boot"}
           \/ pc'[loader(t)] \notin {"loadMeta", "loadAll"}
           \/ pc'[loader(t)] = "loadMeta" /\ meta'.imported
           \/ pc[loader(t)] = "loadMeta" /\ pc'[loader(t)] = "loadAll" /\ meta' = meta
<1> DEFINE s == service(t)
           l == loader(t)
           d == discard(t)
           Stays == pc'[l] = pc[l] /\ meta' = meta
           Works == pc[l] = "ready" /\ pc'[l] \in {"ready", "boot"}
           Away == pc'[l] \notin {"loadMeta", "loadAll"}
           Settles == pc'[l] = "loadMeta" /\ meta'.imported
           Reads == pc[l] = "loadMeta" /\ pc'[l] = "loadAll" /\ meta' = meta
<1>0. /\ t \in Tabs /\ s \in Proc /\ l \in Proc /\ d \in Proc
      /\ s # l /\ s # d /\ l # d /\ TypeOK
      /\ s[2] = "service" /\ l[2] = "loader" /\ s[1] = t /\ l[1] = t
  BY OneTab, ProcOf DEF IInv
<1>a. DbOpens = {TRUE} /\ "importFault" \notin Hazards
  BY DEF QuietTab
<1>b. pc[l] # "ready" => pc[s] = "idle" /\ pc[d] = "idle" /\ ~loaded[t].done
  BY DEF IInv, LoadFirst
<1> SUFFICES Stays \/ Works \/ Away \/ Settles \/ Reads
  OBVIOUS
<1> HIDE DEF s, l, d
<1>c. ASSUME NEW p \in Proc, NEW at \in TxSteps \cup {"idle", "boot", "ready"}, Advance(p, at)
      PROVE  pc'[p] = at /\ \A q \in Proc \ {p} : pc'[q] = pc[q]
  BY <1>0, <1>c, AdvanceMoves
<1>d. {"importRead", "loadMeta", "readMeta", "intent", "commit", "finish", "afterRead", "mark",
       "loadAll", "clear"} \subseteq TxSteps
  BY DEF TxSteps, ReadsMeta, WritesMeta, OnSnapshots
<1>1. CASE Write(s)
  <2>1. pc[s] # "idle"
    BY <1>1 DEF Write, WriteReadsMeta, WriteDeclaresIntent, WriteCommitsRecord, WriteFinishes,
                WriteFails, Runs
  <2>2. \E at \in {"intent", "commit", "finish", "readMeta", "idle"} : Advance(s, at)
    BY <1>0, <1>1 DEF Write, WriteReadsMeta, WriteDeclaresIntent, WriteCommitsRecord,
                WriteFinishes, WriteFails, WriteReturns, ServiceReturns, s
  <2>3. pc'[l] = pc[l]
    BY <1>0, <1>c, <1>d, <2>2
  <2>4. QED
    BY <1>b, <2>1, <2>3
<1>2. CASE Write(l)
  <2>1. \E at \in {"intent", "commit", "finish", "afterRead"} : Advance(l, at)
    BY <1>0, <1>2 DEF Write, WriteReadsMeta, WriteDeclaresIntent, WriteCommitsRecord,
                WriteFinishes, WriteFails, WriteReturns, ImportReturns, l
  <2>2. Away
    BY <1>0, <1>c, <1>d, <2>1
  <2>3. QED
    BY <2>2
<1>3. CASE User(t)
  <2>1. \/ UNCHANGED pc
        \/ \E p \in {s, d}, at \in {"readMeta", "clear", "idle"} : Advance(p, at)
    BY <1>3 DEF User, Edit, RequestAutosave, RequestDegraded, Restore, Discard, procs, s, d
  <2>2. pc'[l] = pc[l]
    BY <1>0, <1>c, <1>d, <2>1
  <2>3. meta' = meta
    BY <1>3 DEF User, Edit, RequestAutosave, RequestDegraded, Restore, Discard, disk
  <2>4. QED
    BY <2>2, <2>3
<1>4. CASE Clear(t)
  <2>1. pc[d] # "idle" /\ Advance(d, "idle")
    BY <1>4 DEF Clear, ClearCommits, ClearFails, Runs, d
  <2>2. pc'[l] = pc[l]
    BY <1>0, <1>c, <2>1
  <2>3. QED
    BY <1>b, <2>1, <2>2
<1>5. CASE Load(t)
  <2>1. CASE Boot(t) \/ BootFromWorkspace(t) \/ ImportReadsAfter(t) \/ LoadReadsAll(t) \/ LoadFails(t)
    <3>1. \E at \in {"importRead", "ready", "mark"} : Advance(l, at)
      BY <1>a, <2>1 DEF Boot, BootFromWorkspace, ImportReadsAfter, LoadReadsAll, LoadFails, l
    <3>2. Away
      BY <1>0, <1>c, <1>d, <3>1
    <3>3. QED
      BY <3>2
  <2>2. CASE ImportReads(t)
    <3>1. \/ Advance(l, "loadMeta") /\ meta.imported /\ meta' = meta
          \/ \E at \in {"readMeta", "afterRead"} : Advance(l, at)
      BY <2>2 DEF ImportReads, l
    <3>2. Settles \/ Away
      BY <1>0, <1>c, <1>d, <3>1
    <3>3. QED
      BY <3>2
  <2>3. CASE ImportMarks(t)
    <3>1. meta' = [copy[l] EXCEPT !.imported = TRUE] /\ Advance(l, "loadMeta")
      BY <2>3 DEF ImportMarks, l
    <3>2. meta'.imported /\ pc'[l] = "loadMeta"
      BY <1>0, <1>c, <1>d, <3>1 DEF TypeOK, MetaRecord
    <3>3. QED
      BY <3>2
  <2>4. CASE LoadReadsMeta(t)
    <3>1. pc[l] = "loadMeta" /\ Advance(l, "loadAll") /\ meta' = meta
      BY <2>4 DEF LoadReadsMeta, Runs, disk, l
    <3>2. QED
      BY <1>0, <1>c, <1>d, <3>1
  <2>5. ~ImportFails(t)
    BY <1>a DEF ImportFails, Fault
  <2>6. QED
    BY <1>5, <2>1, <2>2, <2>3, <2>4, <2>5 DEF Load
<1>6. CASE Environment
  <2>1. CASE \E u \in Tabs : Crash(u)
    <3>1. Crash(t)
      BY <2>1, OneTab
    <3>2. pc'[l] = "boot"
      BY <1>0, <3>1 DEF Crash
    <3>3. QED
      BY <3>2
  <2>2. CASE (\E r \in DOMAIN snaps : RecordDamaged(r)) \/ SlotDamaged
    BY <2>2 DEF RecordDamaged, SlotDamaged, procs
  <2>3. QED
    BY <1>6, <2>1, <2>2 DEF Environment
<1>7. CASE UNCHANGED vars
  BY <1>7 DEF vars, procs, disk
<1>8. QED
  BY <1>1, <1>2, <1>3, <1>4, <1>5, <1>6, <1>7, OneTab DEF Next, s, l

LEMMA ImportStaysSettled ==
    ASSUME NEW t, QuietTab(t), IInv(t), ImportSettled(t), [Next]_vars
    PROVE  ImportSettled(t)'
BY LoaderMoves DEF ImportSettled

\* A read that finds less than the newest reported save has passed over a record, or finds
\* an unfinished write.
LEMMA ReadsTruthfully ==
    ASSUME NEW t, QuietTab(t), IInv(t), ImportSettled(t), LoadReadsAll(t)
    PROVE  loaded'[t].value >= loaded'[t].owed \/ loaded'[t].told
<1> DEFINE l == loader(t)
           marker == copy[l].unfinished
<1>0. t \in Tabs /\ l \in Proc /\ TypeOK
  BY OneTab, ProcOf DEF IInv
<1>1. pc[l] = "loadAll" /\ meta.imported
  BY DEF LoadReadsAll, Runs, ImportSettled
<1>2. acked # 0 => NewestHolds(snaps, acked)
  BY <1>1 DEF IInv, PromiseKept
<1>3. /\ acked \in Nat /\ marker \in Nat /\ DOMAIN snaps \subseteq Nat
      /\ \A r \in DOMAIN snaps : snaps[r].rank \in Nat
      /\ loaded \in [Tabs -> [done : BOOLEAN, value : Nat, told : BOOLEAN, owed : Nat]]
  BY <1>0 DEF TypeOK, MetaRecord, Stored
<1>4. CASE \E r \in DOMAIN snaps :
             /\ FirstSurvivor(snaps, r)
             /\ loaded' = [loaded EXCEPT ![t] =
                    Result(snaps[r].rank, marker > r \/ \E k \in DOMAIN snaps : k > r)]
  <2>1. PICK r \in DOMAIN snaps :
             loaded' = [loaded EXCEPT ![t] =
                    Result(snaps[r].rank, marker > r \/ \E k \in DOMAIN snaps : k > r)]
    BY <1>4
  <2>2. /\ loaded'[t].value = snaps[r].rank /\ loaded'[t].owed = acked
        /\ loaded'[t].told = (marker > r \/ \E k \in DOMAIN snaps : k > r)
    BY <1>0, <1>3, <2>1 DEF Result
  <2>3. CASE acked = 0
    BY <1>3, <2>2, <2>3
  <2>4. CASE acked # 0 /\ \A k \in DOMAIN snaps : ~(k > r)
    <3>1. PICK first \in DOMAIN snaps : \A k \in DOMAIN snaps : k >= first => snaps[k].rank >= acked
      BY <1>2, <2>4 DEF NewestHolds
    <3>2. r >= first
      BY <1>3, <2>4, <3>1
    <3>3. QED
      BY <2>2, <3>1, <3>2
  <2>5. QED
    BY <2>2, <2>3, <2>4
<1>5. CASE loaded' = [loaded EXCEPT ![t] = Result(0, marker # 0 \/ DOMAIN snaps # {})]
  <2>1. /\ loaded'[t].value = 0 /\ loaded'[t].owed = acked
        /\ loaded'[t].told = (marker # 0 \/ DOMAIN snaps # {})
    BY <1>0, <1>3, <1>5 DEF Result
  <2>2. acked # 0 => DOMAIN snaps # {}
    BY <1>2 DEF NewestHolds
  <2>3. acked # 0 => loaded'[t].told
    BY <2>1, <2>2, Zenon
  <2>4. acked = 0 => loaded'[t].value >= loaded'[t].owed
    BY <2>1
  <2>5. QED
    BY <2>3, <2>4
<1>6. QED
  BY <1>4, <1>5 DEF LoadReadsAll

\* What a load said changes only with another load, and is forgotten with the banner.
LEMMA LoadedSteps ==
    ASSUME NEW t, QuietTab(t), "readFault" \notin Hazards, TypeOK, [Next]_vars
    PROVE  loaded'[t] = loaded[t] \/ loaded'[t] = NotLoaded \/ LoadReadsAll(t)
<1>0. t \in Tabs /\ DbOpens = {TRUE}
      /\ loaded \in [Tabs -> [done : BOOLEAN, value : Nat, told : BOOLEAN, owed : Nat]]
  BY OneTab DEF QuietTab, TypeOK
<1>1. CASE User(t)
  BY <1>0, <1>1 DEF User, Edit, RequestAutosave, RequestDegraded, Restore, Discard
<1>2. CASE Load(t)
  <2>1. ~LoadFails(t)
    BY DEF LoadFails, Fault
  <2>2. QED
    BY <1>0, <1>2, <2>1 DEF Load, Boot, BootFromWorkspace, ImportReads, ImportReadsAfter,
       ImportMarks, ImportFails, LoadReadsMeta
<1>3. CASE Clear(t) \/ Write(service(t)) \/ Write(loader(t))
  BY <1>3 DEF Clear, ClearCommits, ClearFails, Write, WriteReadsMeta, WriteDeclaresIntent,
     WriteCommitsRecord, WriteFinishes, WriteFails
<1>4. CASE Environment
  <2>1. CASE \E u \in Tabs : Crash(u)
    <3>1. Crash(t)
      BY <2>1, OneTab
    <3>2. QED
      BY <1>0, <3>1 DEF Crash
  <2>2. QED
    BY <1>4, <2>1 DEF Environment, RecordDamaged, SlotDamaged
<1>5. CASE UNCHANGED vars
  BY <1>5 DEF vars
<1>6. QED
  BY <1>1, <1>2, <1>3, <1>4, <1>5, OneTab DEF Next

\* In the quiet tab a load whose own reads do not abort hands back the newest reported save,
\* or says that something newer was passed over or left unfinished, after any crashes and
\* damaged records.  (autosave-db.ts, autosaveRead: "the caller is told that is what
\* happened".)
THEOREM LoadsAreNeverSilent ==
    ASSUME NEW t, QuietTab(t), "readFault" \notin Hazards
    PROVE  Spec => []NoSilentDowngrade
<1> DEFINE Truthful == ImportSettled(t) /\ NoSilentDowngrade
<1>1. Init => Truthful
  BY OneTab, ProcOf DEF Init, ImportSettled, NoSilentDowngrade, NotLoaded, loader
<1>2. InductiveInvariant /\ Truthful /\ [Next]_vars => Truthful'
  <2> SUFFICES ASSUME InductiveInvariant, Truthful, [Next]_vars PROVE Truthful'
    OBVIOUS
  <2>1. IInv(t) /\ TypeOK
    BY OneTab DEF InductiveInvariant, IInv
  <2>2. ImportSettled(t)'
    BY <2>1, ImportStaysSettled
  <2>3. loaded'[t].done => loaded'[t].value >= loaded'[t].owed \/ loaded'[t].told
    BY <2>1, LoadedSteps, ReadsTruthfully, OneTab DEF NoSilentDowngrade, NotLoaded
  <2>4. NoSilentDowngrade'
    BY <2>3, OneTab DEF NoSilentDowngrade
  <2>5. QED
    BY <2>2, <2>4
<1>3. QED
  BY <1>1, <1>2, InvariantHolds, PTL DEF Spec

-----------------------------------------------------------------------------
(***************************************************************************)
(* The protocol implements the promise.                                    *)
(***************************************************************************)

\* What a load would find, of a store, the last recorded revision, the mark of the import
\* and the rank in the slot.
DurableOf(s, last, imported, rankInSlot) ==
    IF DOMAIN s # {} THEN s[CHOOSE r \in DOMAIN s : IsNewest(s, r)].rank
    ELSE IF ~imported /\ last = 0 THEN rankInSlot
    ELSE 0

LEMMA DurableIs ==
    /\ Durable = DurableOf(snaps, meta.last, meta.imported, slot.rank)
    /\ Durable' = DurableOf(snaps', meta'.last, meta'.imported, slot'.rank)
BY DEF Durable, DurableOf

LEMMA LeastOf ==
    ASSUME NEW S, S \subseteq Nat, S # {}
    PROVE  \E x \in S : \A y \in S : x <= y
<1> DEFINE Less == {z \in Nat \X Nat : z[1] < z[2]}
<1>1. IsWellFoundedOn(Less, Nat)
  BY NatLessThanWellFounded DEF OpToRel
<1>2. PICK x \in S : \A y \in S : ~(<<y, x>> \in Less)
  <2> HIDE DEF Less
  <2>1. QED
    BY <1>1, WFMin
<1>3. ASSUME NEW y \in S, y < x PROVE FALSE
  <2>1. <<y, x>> \in Nat \X Nat /\ <<y, x>>[1] < <<y, x>>[2]
    BY <1>3
  <2>2. <<y, x>> \in Less
    BY <2>1
  <2>3. QED
    BY <1>2, <2>2
<1>4. QED
  BY <1>3

\* A store of records up to a revision has a newest one.
LEMMA HasNewest ==
    ASSUME NEW s, NEW n \in Nat, DOMAIN s \subseteq 1..n, DOMAIN s # {}
    PROVE  \E r \in DOMAIN s : \A k \in DOMAIN s : k <= r
<1> DEFINE S == {n - k : k \in DOMAIN s}
<1>1. S \subseteq Nat /\ S # {}
  OBVIOUS
<1>2. PICK x \in S : \A y \in S : x <= y
  <2> HIDE DEF S
  <2>1. QED
    BY <1>1, LeastOf
<1>3. PICK r \in DOMAIN s : x = n - r
  OBVIOUS
<1>4. ASSUME NEW k \in DOMAIN s PROVE k <= r
  <2>1. n - k \in S
    OBVIOUS
  <2>2. n - r <= n - k
    BY <1>2, <1>3, <2>1
  <2>3. QED
    BY <2>2
<1>5. QED
  BY <1>4

LEMMA NewestIsDurable ==
    ASSUME NEW s, DOMAIN s \subseteq Nat, NEW r \in DOMAIN s, \A k \in DOMAIN s : k <= r,
           NEW last, NEW imported, NEW rankInSlot
    PROVE  DurableOf(s, last, imported, rankInSlot) = s[r].rank
<1>1. IsNewest(s, r)
  BY DEF IsNewest
<1>2. (CHOOSE q \in DOMAIN s : IsNewest(s, q)) = r
  <2>1. \A q \in DOMAIN s : IsNewest(s, q) => q = r
    BY DEF IsNewest
  <2>2. QED
    BY <1>1, <2>1
<1>3. QED
  BY <1>2 DEF DurableOf

LEMMA SameRanksAreDurable ==
    ASSUME NEW s, NEW u, NEW n \in Nat, DOMAIN s \subseteq 1..n, DOMAIN u = DOMAIN s,
           \A k \in DOMAIN s : u[k].rank = s[k].rank,
           NEW last, NEW imported, NEW rankInSlot
    PROVE  DurableOf(u, last, imported, rankInSlot) = DurableOf(s, last, imported, rankInSlot)
<1>1. CASE DOMAIN s = {}
  BY <1>1 DEF DurableOf
<1>2. CASE DOMAIN s # {}
  <2>1. PICK r \in DOMAIN s : \A k \in DOMAIN s : k <= r
    BY <1>2, HasNewest
  <2>2. DurableOf(s, last, imported, rankInSlot) = s[r].rank
    BY <2>1, NewestIsDurable
  <2>3. DurableOf(u, last, imported, rankInSlot) = u[r].rank
    BY <2>1, NewestIsDurable
  <2>4. QED
    BY <2>2, <2>3
<1>3. QED
  BY <1>1, <1>2

Stutters == Durable' = Durable /\ acked' = acked

\* The marker says nothing of what a load finds.
LEMMA IntentStutters ==
    ASSUME NEW t, QuietTab(t), IInv(t), NEW p \in {service(t), loader(t)}, WriteDeclaresIntent(p)
    PROVE  Stutters
<1>1. p \in Proc /\ TypeOK
  BY OneTab, ProcOf DEF IInv
<1>2. copy[p] \in MetaRecord /\ revision(p) \in Nat
  BY <1>1 DEF TypeOK, MetaRecord, revision
<1>3. copy[p].last = meta.last /\ copy[p].imported = meta.imported
  <2>1. pc[p] \in WriteSteps /\ pc[p] \in CopyIsCurrent
    BY DEF WriteDeclaresIntent, Runs, WriteSteps, CopyIsCurrent
  <2>2. CASE p = service(t)
    BY <2>1, <2>2 DEF IInv, ServiceWrite
  <2>3. CASE p = loader(t)
    <3>1. copy[p].last = 0 /\ meta.last = 0 /\ ~copy[p].imported /\ ~meta.imported
      BY <2>1, <2>3 DEF IInv, ImportWrite
    <3>2. copy[p].imported \in BOOLEAN /\ meta.imported \in BOOLEAN
      BY <1>1, <1>2 DEF TypeOK, MetaRecord
    <3>3. copy[p].imported = FALSE /\ meta.imported = FALSE
      BY <3>1, <3>2
    <3>4. QED
      BY <3>1, <3>3
  <2>4. QED
    BY <2>2, <2>3
<1>4. meta' = [copy[p] EXCEPT !.unfinished = revision(p)]
      /\ UNCHANGED <<snaps, slot, acked>>
  BY DEF WriteDeclaresIntent
<1>5. meta'.last = meta.last /\ meta'.imported = meta.imported
  BY <1>2, <1>3, <1>4, MetaEdits
<1>6. QED
  BY <1>4, <1>5, DurableIs DEF Stutters

\* The record of a write becomes the newest of the store, and is no older than what was
\* reported.
LEMMA CommitLands ==
    ASSUME NEW t, QuietTab(t), IInv(t), NEW p \in {service(t), loader(t)}, WriteCommitsRecord(p)
    PROVE  Promise!Land
<1> DEFINE r == revision(p)
           record == [rank |-> payload[p], intact |-> TRUE]
<1>1. p \in Proc /\ TypeOK /\ meta.last \in Nat
  BY OneTab, ProcOf DEF IInv, TypeOK, MetaRecord
<1>2. pc[p] = "commit" /\ snaps' = Committed(snaps, r, record) /\ acked' = acked
  BY DEF WriteCommitsRecord, Runs
<1>3. r = meta.last + 1
  BY <1>1, <1>2 DEF IInv, ServiceWrite, ImportWrite, WriteSteps, CopyIsCurrent, revision
<1>4. payload[p] \in Nat /\ payload[p] >= acked
  <2>1. payload[p] \in Nat /\ acked \in Nat /\ slot.rank \in Nat
    BY <1>1 DEF TypeOK, Stored
  <2>2. CASE p = service(t)
    BY <1>2, <2>1, <2>2 DEF IInv, ServiceWrite, WriteSteps
  <2>3. CASE p = loader(t)
    <3>1. payload[p] = slot.rank /\ meta.last = 0
      BY <1>2, <2>3 DEF IInv, ImportWrite, WriteSteps
    <3>2. acked # 0 => acked <= slot.rank
      BY <3>1 DEF IInv, PromiseKept
    <3>3. QED
      BY <2>1, <3>1, <3>2
  <2>4. QED
    BY <2>2, <2>3
<1>5. record \in Stored /\ r \in Nat \ {0} /\ record.rank = payload[p]
  BY <1>1, <1>3, <1>4 DEF Stored
<1>6. DOMAIN snaps \subseteq Nat \ {0} /\ snaps \in [DOMAIN snaps -> Stored]
      /\ DOMAIN snaps \subseteq 1..(meta.last + 1)
  BY <1>1 DEF TypeOK, IInv, StoreShape
<1> HIDE DEF r, record
<1>7. /\ DOMAIN snaps' \subseteq Nat \ {0} /\ r \in DOMAIN snaps' /\ snaps'[r] = record
      /\ \A k \in DOMAIN snaps' : k # r => k \in DOMAIN snaps
  BY <1>2, <1>5, <1>6, CommittedIsStore
<1>8. \A k \in DOMAIN snaps' : k <= r
  BY <1>1, <1>3, <1>6, <1>7
<1>9. Durable' = payload[p]
  BY <1>5, <1>7, <1>8, NewestIsDurable, DurableIs
<1>10. QED
  BY <1>2, <1>4, <1>9 DEF Promise!Land

\* A write reports its record, the newest of the store.
LEMMA FinishReports ==
    ASSUME NEW t, QuietTab(t), IInv(t), NEW p \in {service(t), loader(t)}, WriteFinishes(p)
    PROVE  Promise!Report
<1> DEFINE r == meta.last + 1
<1>1. p \in Proc /\ TypeOK /\ meta.last \in Nat
  BY OneTab, ProcOf DEF IInv, TypeOK, MetaRecord
<1>2. pc[p] = "finish" /\ snaps' = snaps /\ acked' = Larger(acked, payload[p])
  BY DEF WriteFinishes, Runs
<1>3. r \in DOMAIN snaps /\ snaps[r].rank = payload[p]
  BY <1>1, <1>2 DEF IInv, ServiceWrite, ImportWrite, WriteSteps
<1>4. payload[p] \in Nat /\ acked \in Nat /\ payload[p] >= acked
  <2>1. payload[p] \in Nat /\ acked \in Nat /\ slot.rank \in Nat
    BY <1>1 DEF TypeOK, Stored
  <2>2. CASE p = service(t)
    BY <1>2, <2>1, <2>2 DEF IInv, ServiceWrite, WriteSteps
  <2>3. CASE p = loader(t)
    <3>1. payload[p] = slot.rank /\ meta.last = 0
      BY <1>2, <2>3 DEF IInv, ImportWrite, WriteSteps
    <3>2. acked # 0 => acked <= slot.rank
      BY <3>1 DEF IInv, PromiseKept
    <3>3. QED
      BY <2>1, <3>1, <3>2
  <2>4. QED
    BY <2>2, <2>3
<1>5. DOMAIN snaps \subseteq 1..r
  BY DEF IInv, StoreShape
<1>6. DOMAIN snaps \subseteq Nat /\ \A k \in DOMAIN snaps : k <= r
  BY <1>1, <1>5
<1> HIDE DEF r
<1>7. Durable = payload[p] /\ Durable' = payload[p]
  BY <1>2, <1>3, <1>6, NewestIsDurable, DurableIs
<1>8. acked' = payload[p]
  BY <1>2, <1>4 DEF Larger
<1>9. QED
  BY <1>4, <1>7, <1>8 DEF Promise!Report

\* The import empties the slot and marks itself done when nothing is owed by the slot.
LEMMA LoadKeepsPromise ==
    ASSUME NEW t, QuietTab(t), IInv(t), Load(t)
    PROVE  Stutters \/ Promise!Land
<1> DEFINE l == loader(t)
<1>0. l \in Proc /\ TypeOK /\ "importFault" \notin Hazards
  BY OneTab, ProcOf DEF IInv, QuietTab
<1>1. CASE Boot(t) \/ BootFromWorkspace(t) \/ ImportReadsAfter(t) \/ LoadReadsMeta(t)
             \/ LoadReadsAll(t) \/ LoadFails(t)
  <2>1. UNCHANGED <<snaps, meta, slot, acked>>
    BY <1>1 DEF Boot, BootFromWorkspace, ImportReadsAfter, LoadReadsMeta, LoadReadsAll,
                LoadFails, disk
  <2>2. QED
    BY <2>1, DurableIs DEF Stutters
<1>2. CASE ImportReads(t)
  <2>1. UNCHANGED <<snaps, meta, acked>>
    BY <1>2 DEF ImportReads
  <2>2. slot' = slot \/ (slot' = NoSlot /\ ~(slot.rank # 0 /\ slot.intact /\ meta.last = 0))
    BY <1>2 DEF ImportReads
  <2>3. slot.rank = 0 \/ meta.last # 0 \/ slot' = slot
    BY <2>2 DEF IInv, PromiseKept
  <2>4. meta.last # 0 => Durable' = Durable
    BY <2>1, DurableIs DEF DurableOf
  <2>5. slot'.rank = slot.rank => Durable' = Durable
    BY <2>1, DurableIs
  <2>6. slot'.rank = slot.rank \/ meta.last # 0
    BY <2>2, <2>3 DEF NoSlot
  <2>7. QED
    BY <2>1, <2>4, <2>5, <2>6 DEF Stutters
<1>3. CASE ImportMarks(t)
  <2>1. /\ pc[l] = "mark" /\ meta' = [copy[l] EXCEPT !.imported = TRUE]
        /\ UNCHANGED <<snaps, slot, acked>>
    BY <1>3 DEF ImportMarks, Runs
  <2>2. copy[l] = meta
    BY <2>1 DEF IInv, ImportWrite
  <2>3. meta'.last = meta.last /\ meta'.imported
    BY <1>0, <2>1, <2>2 DEF TypeOK, MetaRecord
  <2>4. CASE DOMAIN snaps # {} \/ meta.last # 0
    <3>1. Durable' = Durable
      BY <2>1, <2>3, <2>4, DurableIs DEF DurableOf
    <3>2. QED
      BY <2>1, <3>1 DEF Stutters
  <2>5. CASE DOMAIN snaps = {} /\ meta.last = 0
    <3>1. acked = 0
      BY <2>1, <2>5 DEF IInv, PromiseKept
    <3>2. Durable' = 0
      BY <2>1, <2>3, <2>5, DurableIs DEF DurableOf
    <3>3. QED
      BY <2>1, <3>1, <3>2 DEF Promise!Land
  <2>6. QED
    BY <2>4, <2>5
<1>4. ~ImportFails(t)
  BY <1>0 DEF ImportFails, Fault
<1>5. QED
  BY <1>1, <1>2, <1>3, <1>4 DEF Load

\* A discard forgets; what is cleared after it was not reported.
LEMMA UserKeepsPromise ==
    ASSUME NEW t, QuietTab(t), IInv(t), User(t) \/ Clear(t)
    PROVE  Stutters \/ Promise!Land \/ Promise!Forget
<1>0. TypeOK /\ DbOpens = {TRUE}
  BY DEF IInv, QuietTab
<1>1. CASE Edit(t) \/ RequestAutosave(t) \/ Restore(t) \/ ClearFails(t)
  <2>1. UNCHANGED <<snaps, meta, slot, acked>>
    BY <1>1 DEF Edit, RequestAutosave, Restore, ClearFails, disk
  <2>2. QED
    BY <2>1, DurableIs DEF Stutters
<1>2. ~RequestDegraded(t)
  BY DEF RequestDegraded, IInv, Connected
<1>3. CASE Discard(t)
  <2>1. slot'.rank = 0 /\ acked' = 0 /\ UNCHANGED <<snaps, meta>>
    BY <1>3 DEF Discard, NoSlot
  <2>2. CASE DOMAIN snaps # {}
    <3>1. Durable' = Durable
      BY <2>1, <2>2, DurableIs DEF DurableOf
    <3>2. QED
      BY <2>1, <3>1 DEF Promise!Forget
  <2>3. CASE DOMAIN snaps = {}
    <3>1. Durable' = 0
      BY <2>1, <2>3, DurableIs DEF DurableOf
    <3>2. QED
      BY <2>1, <3>1 DEF Promise!Forget
  <2>4. QED
    BY <2>2, <2>3
<1>4. CASE ClearCommits(t)
  <2>1. snaps' = <<>> /\ meta'.imported /\ acked' = acked /\ pc[discard(t)] = "clear"
    BY <1>4 DEF ClearCommits, Runs
  <2>2. acked = 0
    BY <2>1 DEF IInv, Schedule
  <2>3. DOMAIN snaps' = {}
    BY <2>1
  <2>4. Durable' = 0
    BY <2>1, <2>3, DurableIs DEF DurableOf
  <2>5. QED
    BY <2>1, <2>2, <2>4 DEF Promise!Land
<1>5. QED
  BY <1>1, <1>2, <1>3, <1>4 DEF User, Clear

\* Crashes leave the disk as it is; a damaged record keeps its rank.
LEMMA EnvironmentStutters ==
    ASSUME NEW t, QuietTab(t), IInv(t), Environment
    PROVE  Stutters
<1>1. CASE \E u \in Tabs : Crash(u)
  <2>1. UNCHANGED <<snaps, meta, slot, acked>>
    BY <1>1 DEF Crash, disk
  <2>2. QED
    BY <2>1, DurableIs DEF Stutters
<1>2. CASE \E r \in DOMAIN snaps : RecordDamaged(r)
  <2>1. PICK r \in DOMAIN snaps : RecordDamaged(r)
    BY <1>2
  <2>2. /\ UNCHANGED <<meta, slot, acked>> /\ snaps' = [snaps EXCEPT ![r].intact = FALSE]
    BY <2>1 DEF RecordDamaged
  <2>3. DOMAIN snaps' = DOMAIN snaps /\ \A k \in DOMAIN snaps : snaps'[k].rank = snaps[k].rank
    BY <2>2 DEF IInv, TypeOK, Stored
  <2>4. DOMAIN snaps \subseteq 1..(meta.last + 1) /\ meta.last + 1 \in Nat
    BY DEF IInv, StoreShape, TypeOK, MetaRecord
  <2>5. Durable' = DurableOf(snaps', meta.last, meta.imported, slot.rank)
    BY <2>2, DurableIs
  <2>6. ASSUME NEW u, u = snaps'
        PROVE  DurableOf(u, meta.last, meta.imported, slot.rank)
               = DurableOf(snaps, meta.last, meta.imported, slot.rank)
    BY <2>3, <2>4, <2>6, SameRanksAreDurable
  <2>7. QED
    BY <2>2, <2>5, <2>6, DurableIs DEF Stutters
<1>3. CASE SlotDamaged
  BY <1>3 DEF SlotDamaged, Fault, QuietTab
<1>4. QED
  BY <1>1, <1>2, <1>3 DEF Environment

LEMMA StepKeepsPromise ==
    ASSUME NEW t, QuietTab(t), IInv(t), [Next]_vars
    PROVE  [Promise!Next]_<<Durable, acked>>
<1> SUFFICES Stutters \/ Promise!Next
  BY DEF Stutters
<1>1. CASE UNCHANGED vars
  <2>1. UNCHANGED <<snaps, meta, slot, acked>>
    BY <1>1 DEF vars, disk
  <2>2. QED
    BY <2>1, DurableIs DEF Stutters
<1>2. CASE Write(service(t)) \/ Write(loader(t))
  <2>1. PICK p \in {service(t), loader(t)} : Write(p)
    BY <1>2
  <2>2. CASE WriteReadsMeta(p)
    <3>1. UNCHANGED <<snaps, meta, slot, acked>>
      BY <2>2 DEF WriteReadsMeta, disk
    <3>2. QED
      BY <3>1, DurableIs DEF Stutters
  <2>3. CASE WriteFails(p)
    <3>1. p = service(t) /\ p[1] = t /\ p[2] = "service"
      <4>1. service(t)[1] = t /\ service(t)[2] = "service" /\ loader(t)[2] = "loader"
        BY OneTab, ProcOf
      <4>2. p[2] = "service"
        BY <2>3 DEF WriteFails, Fault, QuietTab
      <4>3. QED
        BY <4>1, <4>2
    <3>2. UNCHANGED <<snaps, meta, acked>> /\ ServiceReturns(t)
      BY <2>3, <3>1 DEF WriteFails, WriteReturns
    <3>3. slot' = slot
      BY <3>2 DEF ServiceReturns
    <3>4. QED
      BY <3>2, <3>3, DurableIs DEF Stutters
  <2>4. CASE WriteDeclaresIntent(p) \/ WriteCommitsRecord(p) \/ WriteFinishes(p)
    BY <2>4, IntentStutters, CommitLands, FinishReports DEF Promise!Next
  <2>5. QED
    BY <2>1, <2>2, <2>3, <2>4 DEF Write
<1>3. CASE Load(t)
  BY <1>3, LoadKeepsPromise DEF Promise!Next
<1>4. CASE User(t) \/ Clear(t)
  BY <1>4, UserKeepsPromise DEF Promise!Next
<1>5. CASE Environment
  BY <1>5, EnvironmentStutters
<1>6. QED
  BY <1>1, <1>2, <1>3, <1>4, <1>5, OneTab DEF Next

\* The protocol of markers, transactions, imports and clears, in the quiet tab, implements
\* the store that lands, reports and forgets: what was reported saved is never older than
\* what a load would find.  (autosave-db.ts: "an autosave may fail ... but it may never lie".)
THEOREM AutosaveKeepsPromise ==
    ASSUME NEW t, QuietTab(t)
    PROVE  Spec => KeepsPromise
<1>1. Init => Promise!Init
  <2> SUFFICES ASSUME Init PROVE Promise!Init
    OBVIOUS
  <2>1. DOMAIN snaps = {} /\ ~meta.imported /\ meta.last = 0 /\ slot.rank = acked
        /\ acked \in Nat
    BY DEF Init, NoMeta, NoSlot
  <2>2. Durable = acked
    BY <2>1, DurableIs DEF DurableOf
  <2>3. QED
    BY <2>1, <2>2 DEF Promise!Init
<1>2. InductiveInvariant /\ [Next]_vars => [Promise!Next]_<<Durable, acked>>
  BY StepKeepsPromise, OneTab DEF InductiveInvariant
<1>3. QED
  BY <1>1, <1>2, InvariantHolds, PTL DEF Spec, KeepsPromise, Promise!Spec

=============================================================================
