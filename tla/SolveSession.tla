---------------------------- MODULE SolveSession ----------------------------
(***************************************************************************)
(* Asynchronous solving in the workspace: who may publish results, and     *)
(* when.  The live calculation and the Solve event (`live-calc.ts`), the   *)
(* ribbon's Solve (`actions/solve.ts`), the reactive effect of `App.svelte`,*)
(* the results store, the memos of `solver-service.ts`, the start of the   *)
(* engine (`wasm-solver.ts`) and the project tabs (`tabs.svelte.ts`).      *)
(*                                                                         *)
(* A model is its CONTENT, a member of a small set; `version` counts the   *)
(* mutations, so contents come back under new versions (undo, retyping,    *)
(* switching tabs).  A Svelte effect runs in the microtask after the       *)
(* handler that changed its inputs, so it is part of that handler's        *)
(* action; everything that crosses an await, a worker or a timer is an     *)
(* action of its own.                                                      *)
(***************************************************************************)
EXTENDS Integers, Sequences, SequencesExt

CONSTANTS
    Tabs,         \* project tabs
    Contents,     \* distinguishable models
    Empty,        \* the content without elements
    None,         \* no result, no tab
    Combinations, \* the project has load combinations
    Helpers,      \* models have offsets or joints, whose helper nodes are pruned
    CacheMax,     \* SOLVE_CACHE_MAX
    Engine,       \* how far the start of the engine may be when the session begins
    Races,        \* the overlaps this instance allows
    MaxVersion, MaxAsks   \* bounds: mutations, and what the user asks for besides

RaceKinds ==
    {"planeSwitch",   \* 3D <-> 2D plane switch while a solve is in flight
     "settings",      \* self-weight toggled while a solve is in flight
     "mode",          \* 2D <-> 3D while a solve is in flight
     "ribbon",        \* the ribbon's 3D Solve overlaps another solve
     "newTab"}        \* a tab is created while a deferred solve is pending

ASSUME ContentsAssumption ==
    Empty \in Contents /\ Tabs # {} /\ None \notin Contents \cup Tabs
ASSUME OptionsAssumption ==
    /\ {Combinations, Helpers} \subseteq BOOLEAN
    /\ Races \subseteq RaceKinds
    /\ CacheMax \in Nat
    /\ Engine \subseteq {"starting", "ready"}
    /\ {MaxVersion, MaxAsks} \subseteq Nat

VARIABLES
    model,     \* modelStore: the content on screen
    version,   \* modelStore.modelVersion
    mode,      \* uiStore.analysisMode
    weight,    \* uiStore.includeSelfWeight
    live,      \* uiStore.liveCalc
    missed,    \* the effect's prevModelVersion or prevAnalysisMode is behind
    timer,     \* the debounced live calculation is armed
    wasm,      \* initSolver: "starting", "ready", or "failed" for good
    awaiting,  \* solves waiting for initSolver, with the guard they have taken
    unchecked, \* inputs whose refusal, for want of the engine, is memoized
    seq,       \* solveRequestSeq
    jobs,      \* solves in flight
    results,   \* results and results3D, by dimension
    combos,    \* perCase/perCombo/envelope, by dimension
    cache,     \* solveResultCache, least recently used first
    active, open, saved,  \* activeTabId, tabs, and what each inactive tab captured
    deferred,  \* the tab whose 50 ms solve is pending, or None
    asks,      \* solve requests made so far, of any kind
    newest     \* what became of the newest request

screen == <<model, version, mode, weight, live>>
engine == <<wasm, awaiting, unchecked>>
store == <<results, combos>>
tabs == <<active, open, saved>>
vars == <<screen, missed, timer, engine, seq, jobs, store, cache, tabs, deferred, asks, newest>>

-----------------------------------------------------------------------------
Dims == {"2d", "3d"}
Nothing == [d \in Dims |-> None]

\* What a result was computed from, and by which request; `seen` is the content
\* whose nodes decided which of its rows were kept.
Input(ask) == [model |-> model, weight |-> weight, seen |-> model, ask |-> ask]
Key(d, input) == [dim |-> d, model |-> input.model, weight |-> input.weight]

\* Tabs are interchangeable: the session starts with some one of them (tabs init).
FirstTab == CHOOSE t \in Tabs : TRUE

Blank == [model |-> Empty, mode |-> "2d", weight |-> FALSE, live |-> FALSE, had |-> FALSE]

Init ==
    /\ model \in Contents
    /\ version = 0
    /\ mode \in Dims
    /\ weight = FALSE
    /\ live \in BOOLEAN
    /\ missed = FALSE
    /\ timer = live
    /\ wasm \in Engine
    /\ awaiting = {}
    /\ unchecked = {}
    /\ seq = 0
    /\ jobs = {}
    /\ results = Nothing
    /\ combos = Nothing
    /\ cache = <<>>
    /\ active = FirstTab
    /\ open = {active}
    /\ saved = [t \in Tabs |-> Blank]
    /\ deferred = None
    /\ asks = 0
    /\ newest = "none"

-----------------------------------------------------------------------------
(***************************************************************************)
(* Publishing, the memo and the request guard.                             *)
(***************************************************************************)

\* Defect: the combinations shown before are left beside a single solve.
KeepsCombos(d, input, combined) ==
    /\ results' = [results EXCEPT ![d] = input]
    /\ combos' = [combos EXCEPT ![d] = IF Combinations /\ combined # None THEN combined ELSE @]

\* setResults / setResults3D drop the combinations of their own dimension only;
\* setCombinationResults(3D) follow, if the project has any.
Publish(d, input, combined) ==
    /\ results' = [results EXCEPT ![d] = input]
    /\ combos' = [combos EXCEPT ![d] = IF Combinations THEN combined ELSE None]

Entries(d, input) == {i \in DOMAIN cache : cache[i].key = Key(d, input)}

\* The memo without the entry of a key, if it has one: a key is there at most once.
Others(d, input) ==
    IF Entries(d, input) = {} THEN cache
    ELSE RemoveAt(cache, CHOOSE i \in Entries(d, input) : TRUE)

\* Defect: the memo is never evicted.
NeverEvicts(d, input) ==
    Append(Others(d, input), [key |-> Key(d, input), seen |-> input.seen])

\* solveCacheSet, with the eviction of the least recently used entry.
Cached(d, input) ==
    LET put == Append(Others(d, input), [key |-> Key(d, input), seen |-> input.seen])
    IN  IF Len(put) > CacheMax THEN Tail(put) ELSE put

\* solveCacheGet moves the entry to the end.
Touched(d, input) ==
    LET i == CHOOSE i \in Entries(d, input) : TRUE
    IN  Append(Others(d, input), cache[i])

\* Defect: only the request id is compared, as if no edit could intervene.
IgnoresVersion(j) == j.kind # "ribbon" /\ j.req # seq

\* Defect: only the version is compared, as if no other solve could intervene.
IgnoresRequest(j) == j.version # version

\* The guard of nextSolveGuard; runSolve3D compares versions only.
isStale(j) ==
    \/ j.version # version
    \/ j.kind # "ribbon" /\ j.req # seq

\* The combinations published with a single solve: 2D and the ribbon solve them
\* at once, from the model and settings of the moment of publication.
CombinedWith(j) ==
    CASE j.combined -> j.input
      [] ~j.combined /\ (j.dim = "2d" \/ j.kind = "ribbon") -> Input(j.input.ask)
      [] OTHER -> None

\* The answer reaches the screen, or is dropped as stale.
Deliver(j, input) ==
    IF isStale(j)
    THEN UNCHANGED <<store, newest>>
    ELSE /\ Publish(j.dim, input, CombinedWith(j))
         /\ newest' = IF j.input.ask = asks' THEN "shown" ELSE newest

\* A single solve is answered from the memo in the same turn of the event loop,
\* or goes to a worker.
Attempt(j, others) ==
    IF Entries(j.dim, j.input) = {}
    THEN /\ jobs' = others \cup {j}
         /\ newest' = IF j.input.ask = asks' THEN "asked" ELSE newest
         /\ UNCHANGED <<store, cache>>
    ELSE /\ jobs' = others
         /\ cache' = Touched(j.dim, j.input)
         /\ Publish(j.dim, [j.input EXCEPT !.seen = Last(cache').seen], CombinedWith(j))
         /\ newest' = IF j.input.ask = asks' THEN "shown" ELSE newest

\* A 3D Solve event with combinations solves the cases in parallel, unmemoized.
Start(j, others) ==
    IF j.combined
    THEN /\ jobs' = others \cup {j}
         /\ newest' = IF j.input.ask = asks' THEN "asked" ELSE newest
         /\ UNCHANGED <<store, cache>>
    ELSE Attempt(j, others)

\* A request: its id, which the ribbon takes none of, and its turn.
Take(kind) ==
    /\ asks' = asks + 1
    /\ seq' = IF kind = "ribbon" THEN seq ELSE seq + 1
    /\ "ribbon" \in Races \/ \A i \in jobs \cup awaiting : "ribbon" \notin {i.kind, kind}

\* The solve it asks for: the guard (request id, version) and the input as it is now.
Asked(kind) ==
    [kind |-> kind, dim |-> mode, version |-> version, req |-> seq', input |-> Input(asks'),
     combined |-> kind = "global" /\ mode = "3d" /\ Combinations]

\* 3D without the engine: the live calculation starts it and returns, the others wait
\* for it.  Once it has failed the live calculation and the ribbon say so, and the
\* Solve event throws where nobody catches.
Postponed(j) ==
    /\ j.dim = "3d"
    /\ wasm # "ready"
    /\ awaiting' = IF wasm = "starting" /\ j.kind # "live" THEN awaiting \cup {j} ELSE awaiting
    /\ newest' = CASE wasm = "starting" /\ j.kind = "live" -> "dropped"
                   [] wasm = "starting" /\ j.kind # "live" -> "asked"
                   [] wasm = "failed" /\ j.kind = "global" -> "lost"
                   [] OTHER -> "failed"
    /\ UNCHANGED <<wasm, unchecked, jobs, store, cache>>

\* Without the engine there is no verdict on the stability of a 2D model; the refusal
\* is memoized like a verdict, and outlives the reason for it.
Unverified(j) == j.dim = "2d" /\ (wasm # "ready" \/ Key("2d", j.input) \in unchecked)

\* Validation and the kinematic check, before any solve.
Refused(j) ==
    /\ j.dim = "2d" \/ wasm = "ready"
    /\ \/ /\ model = Empty
          /\ newest' = "failed"
          /\ UNCHANGED unchecked
       \/ /\ model # Empty
          /\ Unverified(j)
          /\ newest' = "unchecked"
          /\ unchecked' = unchecked \cup {Key("2d", j.input)}
    /\ UNCHANGED <<wasm, awaiting, jobs, store, cache>>

Accepted(j) == model # Empty /\ ~Unverified(j) /\ (j.dim = "2d" \/ wasm = "ready")

Request(kind) ==
    /\ Take(kind)
    /\ \/ Postponed(Asked(kind))
       \/ Refused(Asked(kind))
       \/ Accepted(Asked(kind)) /\ Start(Asked(kind), jobs) /\ UNCHANGED engine

-----------------------------------------------------------------------------
(***************************************************************************)
(* The results are cleared, and the effect of App.svelte.                  *)
(***************************************************************************)

\* resultsStore.clear()
Clear ==
    /\ results' = Nothing
    /\ combos' = Nothing
    /\ newest' = "none"

\* The effect re-runs when version, mode or liveCalc changed: its cleanup cancels
\* the timer, stale results are cleared, the live calculation is debounced anew.
Effect ==
    /\ missed' = FALSE
    /\ timer' = live'

\* The effect returns before its body while a tab is being switched: only its
\* cleanup has run, and it has not seen the version of the restored model.
EffectDuringSwitch ==
    /\ timer' = FALSE
    /\ missed' = TRUE

\* A 3D solve in flight keeps references to the maps of the model, and an edit in
\* place reaches them until an assignment of new maps has detached them.
Reached(c) ==
    {IF /\ j.dim = "3d" /\ ~j.combined
        /\ j.version = version /\ j.input.model = model
     THEN [j EXCEPT !.input.seen = c] ELSE j : j \in jobs}

\* A mutation, its undo or redo, or the opening of another project: version bump
\* and hook, the change itself, in place or not, then the effect.
Edit(c) ==
    /\ version < MaxVersion
    /\ c # model
    /\ model' = c
    /\ version' = version + 1
    /\ Clear
    /\ \/ UNCHANGED jobs
       \/ Helpers /\ jobs' = Reached(c)
    /\ UNCHANGED <<mode, weight, live, engine, seq, cache, tabs, deferred, asks>>
    /\ Effect

\* 2D <-> 3D on the same model.
SetMode ==
    /\ asks < MaxAsks
    /\ "mode" \in Races \/ jobs = {}
    /\ mode' \in Dims \ {mode}
    /\ Clear
    /\ UNCHANGED <<model, version, weight, live, engine, seq, jobs, cache, tabs, deferred, asks>>
    /\ Effect

\* replaceModelData: another model lands under the same version, a projection or a
\* slice of the 3D model, or the 3D model kept when that was taken.
PlaneSwitch(c) ==
    /\ asks < MaxAsks
    /\ "planeSwitch" \in Races \/ jobs = {}
    /\ c \notin {model, Empty}
    /\ mode = "3d" => model # Empty
    /\ model' = c
    /\ mode' \in Dims \ {mode}
    /\ Clear
    /\ UNCHANGED <<version, weight, live, engine, seq, jobs, cache, tabs, deferred, asks>>
    /\ Effect

\* The self-weight checkbox writes the setting and nothing else.
ToggleWeight ==
    /\ asks < MaxAsks
    /\ "settings" \in Races \/ jobs = {}
    /\ weight' = ~weight
    /\ UNCHANGED <<model, version, mode, live, missed, timer, engine, seq, jobs, store,
                   newest, cache, tabs, deferred, asks>>

\* liveCalc on or off: results go only if the effect had missed a change.
ToggleLive ==
    /\ asks < MaxAsks
    /\ live' = ~live
    /\ IF missed THEN Clear ELSE UNCHANGED <<store, newest>>
    /\ UNCHANGED <<model, version, mode, weight, engine, seq, jobs, cache, tabs, deferred, asks>>
    /\ Effect

-----------------------------------------------------------------------------
(***************************************************************************)
(* Solves.                                                                 *)
(***************************************************************************)

\* Defect: the debounced run is lost when another solve is in flight.
SkipsWhenBusy ==
    /\ timer
    /\ timer' = FALSE
    /\ IF model = Empty \/ jobs # {}
       THEN UNCHANGED <<asks, engine, seq, jobs, store, newest, cache>>
       ELSE Request("live")
    /\ UNCHANGED <<screen, missed, tabs, deferred>>

\* runLiveCalc, when the debounce elapses; an incomplete model is skipped before
\* a request is taken.
LiveCalc ==
    /\ timer
    /\ timer' = FALSE
    /\ IF model = Empty
       THEN UNCHANGED <<asks, engine, seq, jobs, store, newest, cache>>
       ELSE Request("live")
    /\ UNCHANGED <<screen, missed, tabs, deferred>>

\* The Solve event: cancel the debounce, runGlobalSolve.
GlobalSolve ==
    /\ timer' = FALSE
    /\ Request("global")
    /\ UNCHANGED <<screen, missed, tabs>>

SolveEvent == asks < MaxAsks /\ GlobalSolve /\ UNCHANGED deferred

\* runSolve in 2D is synchronous, and never memoized.
RibbonSolve2D ==
    /\ mode = "2d"
    /\ asks < MaxAsks
    /\ Take("ribbon")
    /\ \/ Refused(Asked("ribbon"))
       \/ /\ Accepted(Asked("ribbon"))
          /\ Publish("2d", Input(asks'), Input(asks'))
          /\ newest' = "shown"
          /\ UNCHANGED <<engine, jobs, cache>>
    /\ UNCHANGED <<screen, missed, timer, tabs, deferred>>

RibbonSolve3D ==
    /\ mode = "3d"
    /\ asks < MaxAsks
    /\ Request("ribbon")
    /\ UNCHANGED <<screen, missed, timer, tabs, deferred>>

\* initSolver resolves; App.svelte has called it when the session began.
EngineStarts ==
    /\ wasm = "starting"
    /\ wasm' = "ready"
    /\ UNCHANGED <<screen, missed, timer, awaiting, unchecked, seq, jobs, store, cache, tabs,
                   deferred, asks, newest>>

\* It rejects, and its promise is kept: what waits for it ends, the Solve event in
\* silence.
EngineFails ==
    /\ wasm = "starting"
    /\ wasm' = "failed"
    /\ awaiting' = {}
    /\ newest' = CASE newest = "dropped" -> "failed"
                   [] newest = "asked" ->
                          IF \E w \in awaiting : w.kind = "ribbon" THEN "failed" ELSE "lost"
                   [] OTHER -> newest
    /\ UNCHANGED <<screen, missed, timer, unchecked, seq, jobs, store, cache, tabs, deferred, asks>>

\* A solve goes on where it waited for the engine, with the project of now and the
\* guard it has; the ribbon looks at the version only now.
Resumed(w) ==
    [w EXCEPT !.version = IF w.kind = "ribbon" THEN version ELSE @, !.input = Input(@.ask)]

\* A stale one is solved all the same, for the memo only.
Proceed(w) ==
    /\ wasm = "ready"
    /\ awaiting' = awaiting \ {w}
    /\ UNCHANGED asks
    /\ \/ /\ model = Empty
          /\ newest' = IF ~isStale(Resumed(w)) /\ w.input.ask = asks THEN "failed" ELSE newest
          /\ UNCHANGED <<jobs, store, cache>>
       \/ /\ model # Empty
          /\ isStale(Resumed(w))
          /\ jobs' = jobs \cup {Resumed(w)}
          /\ UNCHANGED <<store, cache, newest>>
       \/ model # Empty /\ ~isStale(Resumed(w)) /\ Start(Resumed(w), jobs)
    /\ UNCHANGED <<screen, missed, timer, wasm, unchecked, seq, tabs, deferred>>

\* A worker answers.  The memo keeps the answer even when it is stale.
JobDone(j) ==
    /\ jobs' = jobs \ {j}
    /\ cache' = IF j.combined THEN cache ELSE Cached(j.dim, j.input)
    /\ UNCHANGED asks
    /\ Deliver(j, j.input)
    /\ UNCHANGED <<screen, missed, timer, engine, seq, tabs, deferred>>

\* The engine refuses the input.
JobFails(j) ==
    /\ jobs' = jobs \ {j}
    /\ newest' = IF ~isStale(j) /\ j.input.ask = asks THEN "failed" ELSE newest
    /\ UNCHANGED <<screen, missed, timer, engine, seq, store, cache, tabs, deferred, asks>>

\* A parallel combination solve that fails is followed by a single solve of the
\* model and settings as they are now, under the guard of the first.
FallBack(j) ==
    /\ j.combined
    /\ ~isStale(j)
    /\ UNCHANGED asks
    /\ Attempt([j EXCEPT !.combined = FALSE, !.input = Input(@.ask)], jobs \ {j})
    /\ UNCHANGED <<screen, missed, timer, engine, seq, tabs, deferred>>

-----------------------------------------------------------------------------
(***************************************************************************)
(* Tabs.                                                                   *)
(***************************************************************************)

\* captureCurrentState: results are not kept, only whether there were any.
Captured ==
    [model |-> model, mode |-> mode, weight |-> weight, live |-> live,
     had |-> results # Nothing]

\* restoreState: abort what the previous restore deferred, clear, restore, and
\* defer a solve if the tab had results.
RestoreState(t, entry) ==
    /\ version < MaxVersion
    /\ model' = entry.model
    /\ version' = version + 1
    /\ mode' = entry.mode
    /\ weight' = entry.weight
    /\ live' = entry.live
    /\ Clear
    /\ deferred' = IF entry.had THEN t ELSE None
    /\ UNCHANGED <<engine, seq, jobs, cache, asks>>

SwitchTab(t) ==
    /\ t \in open \ {active}
    /\ saved' = [saved EXCEPT ![active] = Captured, ![t] = Blank]
    /\ active' = t
    /\ RestoreState(t, saved[t])
    /\ EffectDuringSwitch
    /\ UNCHANGED open

\* createTab: the new tab inherits the settings; nothing deferred is aborted.
CreateTab(t) ==
    /\ t \in Tabs \ open
    /\ "newTab" \in Races \/ deferred = None
    /\ version < MaxVersion
    /\ saved' = [saved EXCEPT ![active] = Captured]
    /\ open' = open \cup {t}
    /\ active' = t
    /\ model' = Empty
    /\ version' = version + 1
    /\ Clear
    /\ UNCHANGED <<mode, weight, live, engine, seq, jobs, cache, deferred, asks>>
    /\ Effect

\* closeTab: closing the active tab restores another; the last one stays.
CloseTab(t) ==
    /\ t \in open
    /\ open # {t}
    /\ open' = open \ {t}
    /\ IF t # active
       THEN /\ saved' = [saved EXCEPT ![t] = Blank]
            /\ UNCHANGED <<screen, missed, timer, engine, seq, jobs, store, newest, cache,
                           active, deferred, asks>>
       ELSE \E u \in open \ {t} :
                /\ active' = u
                /\ saved' = [saved EXCEPT ![u] = Blank]
                /\ RestoreState(u, saved[u])
                /\ EffectDuringSwitch

\* The 50 ms timer of restoreState dispatches a Solve event.
DeferredSolve ==
    /\ deferred # None
    /\ deferred' = None
    /\ GlobalSolve

-----------------------------------------------------------------------------
User ==
    \/ \E c \in Contents : Edit(c) \/ PlaneSwitch(c)
    \/ SetMode
    \/ ToggleWeight
    \/ ToggleLive
    \/ SolveEvent
    \/ RibbonSolve2D
    \/ RibbonSolve3D
    \/ \E t \in Tabs : SwitchTab(t) \/ CreateTab(t) \/ CloseTab(t)

Workers == \E j \in jobs : JobDone(j) \/ JobFails(j) \/ FallBack(j)

Waiters == \E w \in awaiting : Proceed(w)

Next == User \/ LiveCalc \/ DeferredSolve \/ EngineStarts \/ EngineFails \/ Waiters \/ Workers

Spec == Init /\ [][Next]_vars

\* Timers fire, the engine starts or fails, workers answer; the user owes nothing.
Fairness ==
    /\ WF_vars(LiveCalc)
    /\ WF_vars(DeferredSolve)
    /\ WF_vars(EngineStarts \/ EngineFails)
    /\ WF_vars(Waiters)
    /\ WF_vars(Workers)

FairSpec == Spec /\ Fairness

-----------------------------------------------------------------------------
(***************************************************************************)
(* Properties.                                                             *)
(***************************************************************************)

InputRecord == [model : Contents, weight : BOOLEAN, seen : Contents, ask : Nat]
ASSUME NoneAssumption == None \notin InputRecord
JobRecord ==
    [kind : {"live", "global", "ribbon"}, dim : Dims, version : Nat, req : Nat,
     input : InputRecord, combined : BOOLEAN]
KeyRecord == [dim : Dims, model : Contents, weight : BOOLEAN]
TabRecord ==
    [model : Contents, mode : Dims, weight : BOOLEAN, live : BOOLEAN, had : BOOLEAN]

Outcomes == {"none", "asked", "shown", "failed", "dropped", "lost", "unchecked"}

\* The shape of the stores; the memo never exceeds SOLVE_CACHE_MAX entries.
TypeOK ==
    /\ model \in Contents
    /\ {version, seq, asks} \subseteq Nat
    /\ mode \in Dims
    /\ {weight, live, timer, missed} \subseteq BOOLEAN
    /\ wasm \in {"starting", "ready", "failed"}
    /\ jobs \cup awaiting \subseteq JobRecord
    /\ unchecked \subseteq KeyRecord
    /\ results \in [Dims -> InputRecord \cup {None}]
    /\ combos \in [Dims -> InputRecord \cup {None}]
    /\ cache \in Seq([key : KeyRecord, seen : Contents]) /\ Len(cache) <= CacheMax
    /\ active \in open /\ open \subseteq Tabs
    /\ saved \in [Tabs -> TabRecord]
    /\ deferred \in Tabs \cup {None}
    /\ newest \in Outcomes

Describes(input) == input # None => input.model = model /\ input.seen = model

\* Whatever is shown was computed from the model on screen, all of it, whatever
\* solves were in flight when the model changed.  (store/index.ts: "results never
\* persist after the model changes, regardless of whether liveCalc is ON or OFF".)
ResultsMatchModel == \A d \in Dims : Describes(results[d]) /\ Describes(combos[d])

\* The combinations shown are of the model, the settings and the request of the results
\* beside them, although some are solved when those have returned.  (live-calc.ts: "the
\* model cannot drift while it runs".)
CombosAgreeWithResults ==
    \A d \in Dims : combos[d] # None =>
        /\ results[d] # None
        /\ combos[d].model = results[d].model
        /\ combos[d].weight = results[d].weight
        /\ combos[d].ask = results[d].ask

\* Once the newest request has been shown, no older one replaces it.
\* (live-calc.ts: "only if both are still current".)
NewestRequestWins ==
    newest = "shown" => \E d \in Dims : results[d] # None /\ results[d].ask = asks

\* With the live calculation on and the engine there, an edit does not stay without an
\* answer: results or an error come for the model on screen, whatever other solves overlap,
\* are late or supersede each other.  Left out are the model a tab switch put there, which
\* the effect has not seen and the solve deferred by the switch answers, and the one that
\* was asked for in 3D while the engine was starting, which the code drops.  (runLiveCalc:
\* "Sets results/errors directly on the stores, unless the solve went stale".)
Answered == newest \in {"shown", "failed", "unchecked"} \/ model = Empty \/ ~live
EditIsAnswered ==
    []<>(Answered \/ missed \/ wasm # "ready" \/ newest = "dropped")

=============================================================================
