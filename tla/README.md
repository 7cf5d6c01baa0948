# Stabileo in TLA+

Stabileo is a structural solver (Rust, compiled to WebAssembly) with a browser
workspace (Svelte, TypeScript) around it.  The engine is floating-point algebra;
what is hard to get right and hard to test is the workspace: solves that answer
late, saves cut by a closed tab, undo through three channels, cascades over a dozen
maps, documents and certificates that outlive what they describe.  These modules are
about that part.

    cd tla
    tlc -workers 2 -config MCAutosave_legacy.cfg MCAutosave
    tlapm ModelHistoryProofs.tla

Paths below are relative to `src/web/src/` unless they start otherwise.

## Inventory

| part | code | state | operations | what makes it correct |
|---|---|---|---|---|
| Autosave | `lib/store/autosave-db.ts`, `autosave-service.ts`, `file.ts`, `App.svelte` | two IndexedDB stores, the legacy localStorage slot, one write in flight, one coalesced request | request, write (4 transactions), import, read, clear, degraded write | a reported save is recoverable, a load never lies, the newest request is served |
| Solve orchestration | `lib/engine/live-calc.ts`, `solver-service.ts`, `lib/actions/solve.ts`, `lib/store/results.svelte.ts` | request counter, start of the engine, solves waiting and in flight, published results, memos of answers and of verdicts | start, live calculation, Solve event, ribbon Solve, publish, clear | what is shown belongs to the model and the newest request, an edit is answered |
| Project tabs | `lib/store/tabs.svelte.ts` | open tabs with captured state, deferred solve | switch, create, close | nothing of one tab reaches another |
| Plane switch | `lib/store/switch-2d.ts` | the 3D model kept aside | project, slice, restore | results go with the model they describe |
| Worker pool | `lib/engine/solver-pool.ts`, `solver-worker.ts` | workers, their messages and open promises, the initialization in progress | initialize, post, answer | a worker that reported ready is known until it is terminated, every answer is filed for its case, every call returns |
| History | `lib/store/history.svelte.ts`, `index.ts`, `model.svelte.ts` | undo and redo stacks with kinds | push, undo, redo; three channels of edits; hooks | undo brings back exactly what was there, nothing derived survives it wrongly |
| Model | `lib/store/model.svelte.ts` | entities by id in some twelve maps, next ids | some 120 mutations, batch, snapshot, restore | no reference dangles, cutting a bar keeps what it carries |
| Regulations | `lib/store/regulations.svelte.ts`, `lib/codes/revisions.ts`, `roles.ts`, the panel and the loads dialog | role bindings, staged changes, revision vector | stage, cancel, preview, apply | the loads generated last are of the regulation they stand under; a fresh certificate is of the loads |
| Verification, design runs | `lib/store/verification.svelte.ts`, `design-run.svelte.ts`, `rebar-edit.ts` | contexts, cached verdicts, outcomes, marks, demand and solve revisions | solve, demand, verify, design, edit bars | no verdict for other bars or forces |
| Detailing and documents | `lib/store/detailing.svelte.ts` | cages with reviews, footing runs, current and superseded documents | generate, build, review, supersede | what reads as current is current, a number names one thing |
| Capability server | `src/backend/src/capabilities/` | none between requests | build and edit a snapshot | a refused edit changes nothing, an accepted one leaves a linked frame and, unless `create_model` gives one twice, doubles nothing |
| AI drawer | `components/AiDrawer.svelte` | requests in flight, draft, messages | send, answer, apply, cancel, retry, abort | a draft that is cancelled leaves no trace |
| Engine | `src/engine/` | none between calls | solvers | numerical |
| Formats, geometry, drawing, education, landing | the rest of `lib/` and `components/` | view state | parsing, rendering | out of scope |

How they interact: a mutation of the model calls the history (push) and the hooks of
`index.ts`, which clear results and verifications; the effect of `App.svelte` sees the
version and arms a debounced solve; a solve goes through the memo to the pool and comes
back through a staleness guard to the results store, which bumps the solve generation
of the verifications; a design run reads their demands and writes bars back into the model;
detailing reads outcomes and verifications and builds documents and certificates, which are
stamped with the revision vector the regulations move; a draft of the AI drawer replaces the
model as one undo entry; every 30 s, and after a solve or a design, the autosave service
captures the model.

The hard behaviours are awaits (a solve, a transaction, an initialization, an answer of the
server), timers (the 120/200 ms debounce, the 50 ms deferred solve, the 30 s save), crashes of
the browser tab between transactions, transactions that abort, and long legal sequences of edits,
undos and replacements.  `PROJECT.json` lists each at its line under "hazards", with the
property that would catch it or the reason there is none.

## Modules

Each module says at its head what its state abstracts.  Most have a constant `Races` (`Hazards` in
`Autosave`): circumstances the code does not guard against, by name.  The runs leave them out and
hold; adding one to a cfg makes the property named below fail, with a trace.  A definition
commented "Defect:" is not the code: it is a plausible mistake in the definition after it, which
the property of the run must find.

### Autosave, SavePromise

`Autosave` has one action per IndexedDB transaction.  `pc[p]` is the transaction process
`p` waits for; a tab has three processes: the service's write, the load at mount (which
imports the legacy slot first, by the same write) and the clear of a discard.  `ahead`
orders overlapping transactions as IndexedDB does, by creation.  A project is its *rank*,
the position of the edit that made it; so "newer" is a comparison.

| definition | code |
|---|---|
| `WriteReadsMeta`, `WriteDeclaresIntent`, `WriteCommitsRecord`, `WriteFinishes`, `WriteFails` | `autosaveWrite` |
| `ImportReads`, `ImportReadsAfter`, `ImportMarks`, `ImportFails`, `ImportReturns` | `importLegacyOnce` |
| `LoadReadsMeta`, `LoadReadsAll`, `LoadFails`, `FirstSurvivor` | `autosaveRead` |
| `RequestAutosave`, `ServiceReturns` | `requestAutosave`, `runOne` |
| `Boot`, `RequestDegraded` | `readLegacy`, `writeLegacy` |
| `Restore`, `Discard`, `Banner` | `restoreAutosave`, `discardAutosave`, the banner |
| `Crash`, `RecordDamaged`, `SlotDamaged` | the environment |

`SavePromise` is what the store promises without saying how: a project lands, a landed
project is reported, a discard takes both back.  `KeepsPromise` is the refinement, with
`durable` the project a load started now would find first and `reported` the newest rank
a write answered `ok` for.

Hazards left out: `importFault` (an aborted write of the import loses the save in the slot,
`NoSilentDowngrade`), `readFault` (a read that aborts makes a load return "nothing saved"),
`discardRace` (a discard during a write, `AckedIsRecoverable`), two browser tabs.

### SolveSession

Two dimensions of results, the memo, the three solve paths (live calculation, Solve event,
ribbon), the effect of `App.svelte`, and the tabs.  A model is its *content*, a member of a
small set, and `version` counts mutations: the same content returns under new versions (undo,
retyping, switching back), which is what makes memo and staleness interact.  A published
result carries the content, the settings and the request it was computed from.  Svelte runs an
effect in the microtask after the handler that changed its inputs, so `Effect` is a conjunct
of that handler's action; whatever crosses an await or a timer is an action.

The engine is starting when a session begins.  Until `EngineStarts` or `EngineFails`, `Postponed` says
what each path does in 3D: the live calculation returns and is not asked again, the Solve event and the ribbon
wait, in `awaiting`, with the guard they have taken, and `Proceed` is their continuation, on the project of that
moment.  In 2D there is no verdict on stability without the engine; the refusal is memoized (`unchecked`).

- `planeSwitch`: `replaceModelData` bumps no version; a solve in flight publishes the old model's
  results beside the new model (`ResultsMatchModel`);
- `mode`, `settings`: the dimension or self-weight changes during a solve;
- `ribbon`: the ribbon's 3D solve, which takes no request id, overlaps another solve;
- `newTab`: a tab is created while a deferred solve is pending (a solve then fires for the new tab);
- `Helpers = TRUE`: `validateAndSolve3DAsync` prunes its answer by the maps as they are after the
  await and memoizes it under the input captured before (`ResultsMatchModel`).

`EditIsAnswered` says that the model on screen does not stay without an answer.  It leaves out two cases the
code leaves unanswered: a model that a tab switch put there (`missed`: the effect returns before its body, and the
solve the switch defers is for tabs that had results), and a 3D edit made before the engine is there (`newest =
"dropped"`).  Mode `pro` is folded into 3D, `edu` is left out, and so are the eviction of the memo of verdicts
(`KINEMATIC_CACHE_MAX`) and the refresh of canonical sections before a solve.

### SolverPool

Workers from creation to readiness, refusal, termination or loss; the one initialization in
progress and the calls that share it; single calls (`solve2DInWorker`, `solve3DInWorker`, with the main
thread as fallback) and combination solves (`solveCombinations3DParallel`, one job per case, done again in
sequence when any is refused).  A job is posted as a numbered message: `inbox` is what a worker has not
answered, in order, `pending` the promises open for it, by number, and `results` the answers filed, with the job each
one solved.  An answer is filed when it comes, also when its call has long returned, so `AnsweredInFull` can say
that every answer is of the case it is filed under and that an answered call has one for each.

`NoOrphans` is of workers that reported ready or still may.  The ones that refuse are never terminated
(`solver-pool.ts:122-129`): their threads stay, and nothing here says otherwise.  `SolveSession` assumes that a job
in flight ends; `EveryCallReturns` is where that comes from, and up to where it holds: a worker lost after it was
ready settles nothing.

### ModelHistory

The project by slices (structure, reinforcement, foundations), the two stacks, and what is
derived: results, cached verdicts, the footing run and the document.  An entry is a full
snapshot tagged with the slice its edit touched, and undo restores that slice only.  Edits of
the structure are one action because they share one channel (`_pushUndo`); footings, ground and
mat preferences have their own actions because they differ in what they bump and which hook
they fire.  The document in `DerivedIsCurrent` is of the foundations only.

- `restoreOver`: restoring the autosave keeps the undo entries of the project it replaces; undo then
  mixes two projects (`HistoryIsExact`);
- `keepsDocument`: removing a node removes its footing and retires no document (`DerivedIsCurrent`).

### ModelGraph

What `ModelHistory` takes as one slice, in full: the maps of `model.svelte.ts` (nodes, elements,
supports, loads, quads, connectors, constraints, footings, load cases, combinations, strata,
materials) and its next ids, as one record `model`.  There is an action per edit, under the name of the
method, with every cascade the method makes: `deleteEntities` and `Cut` for the removals (`removeNode`,
`removeElement`, `removeQuad`, one by one in the order the code takes), `removeLoadCase`,
`removeMaterial`, `removeSoilProfile` for the ones that rewrite what refers to them, `updateNode`
with the loads it clamps, `mirrorNodes`, `splitElementAtPoint` and `subdivideElement`.  Nodes lie
on a line at whole positions, which is what the cutting of a bar and of the loads on it depends
on; `Cover` and `Carried` say what lies where and what is carried where, and `CutsChangeNothing`
compares them before and after.

`LoadsHaveABearer` and `FootingsKnowTheirGround` are of `removeElement`, `removeQuad` and the removal of strata; a bar
that goes with its node, or is split, is left to the settings below and to the run `v_column`.

- `cascade`: a node goes whose bars carry loads or stand on a footing (`LoadsHaveABearer`,
  `FootingsKnowTheirGround`);
- `split3d`: a bar is cut that carries 3D loads or stands on a footing (the same);
- `subdivide`: a bar is subdivided that carries point or partial loads (`CutsChangeNothing`);
- `unclamped`: a bar changes length under its loads by a way other than `updateNode`;
- `firstOne`: a bar or a load is added once the material or the case it starts with is gone
  (`ModelIsCoherent`);
- `shell`: a material goes that only shells use (`ModelIsCoherent`).

### Revisions, Regulations

`Revisions` is `codes/revisions.ts`: the ten stages, what each consumes, and what a change of each
kind bumps and preserves; it has no state.  `Downstream` is defined as the least closed set, where the
code has a worklist; `MCRegulations` checks, by assumptions TLC evaluates, that the worklist computes it, that
the guard of `bumpPreserving` never throws on the table of changes, and that what a change is reported to
invalidate is what stops reading fresh, which `RegulationsProofs` proves of any revisions (`ReportIsExact`).

`Regulations` holds the parts of the project an undo brings back together (bindings, revision vector,
loads, certificate) and the parts that stay in the store (`displaced`, the previewed `plan`, the tab,
the banner).  A set of loads is a version number with the plan of the newest generation (`from`) and those of the
earlier ones that are still there (`under`): `handleApply` clears the loads there are only when `clearExisting` is
set, which by default it is not, and `ApplyPlan` does either.  A plan is taken to generate something, and removing
loads by hand takes no origin away.  `NewestLoadsAreOfTheAppliedRoles` is about `from`.  Of the loads under them nothing of the
kind can be said: as soon as a plan of another regulation is applied without clearing, they stand under a label
they were not generated from, whatever `regulations.svelte.ts:4-6` says of relabelling.

| definition | code |
|---|---|
| `StageChange`, `ChangeDesignRole`, `CancelChange` | `requestChange`, `cancelPending`, the panel's `onSelect` |
| `Refused` | the errors of `validateStack` that name the role |
| `Applied` | `applyPending` |
| `Preview`, `ApplyPlan` | `handlePreview`, `handleApply`, load by load |
| `EditLoads`, `NewProject`, `Undo`, `Redo` | the model store and the history |
| `Solve`, `RunFloors`, `ReadsFresh` | `generateFloors`, `certificateFreshness` |

- `relabel`: a design-only change is made while a load regulation is staged: `applyPending` applies both, and no
  load is regenerated (`NewestLoadsAreOfTheAppliedRoles`), against `regulations.svelte.ts:4-6` and `:14`;
- `handEdit`: loads are edited by hand under a certificate that reads fresh
  (`FreshCertificateIsOfTheLoads`);
- `staged`: undo, redo or a new project with a staged change (`LoadRolesChangeWithTheLoads`).

### DesignFlow

From forces to documents.  Forces are the number of the solve they come from.  Bars and cages are in the
project and are undone with it; contexts, outcomes, cached verdicts, marks and documents belong to the
session and are not: every property relates one of the first kind to one of the second.
`ComputeDemands`, `ShowMember`, `AutoDesign`, `EditBars` are the verification and design stores;
`Generate`, `GenerateFloors`, `Review`, `BuildDocument`, `ChangeFoundation` the detailing store;
`EditStructure`, `Undo`, `Redo` go through the hooks.  A document records the cages it was built from, and the bars
and forces of that moment: `CurrentDocumentIsOfTheCages` holds, `CurrentDocumentIsOfTheProject`, which
the comment at `detailing.svelte.ts:889-894` claims, does not (`v_document`), since nothing but the detailing and
the foundations retires a document.  `DisplayIsHonest` is of `getDisplayStatus`; `getStatus` and
`getDisplayRatio` return what is cached without asking whether it is stale.

- `undoRebar`: an edit of bars is undone while the outcomes of its run are kept
  (`DesignedBarsAreTheOutcome`);
- `undoCages`: undo or redo brings back other cages (`CurrentDocumentIsOfTheCages`,
  `NumbersNameOneThing`);
- `noSteel`: a run refuses every member and is detailed all the same;
- `reload`: the session starts over with a frame detailed in the one before
  (`FreshCageIsOfTheDemands`).

### FrameEdits, AiBuild

`FrameEdits` is the edit executor and the plane generators of the capability server as operators on a
frame (`AddBay`, `AddStory`, `ChangeSection`, deletion, loads, portal and storeys), each with its `Can...`
condition for the refusals.  `AiBuild` composes it with the drawer and the history: a request carries the
snapshot of the canvas as it was sent, the answer replaces the canvas as a draft with one undo entry,
and cancelling is an undo.  `requests` are answered in any order or aborted; undo, tab switches and edits by hand
(`addNode`, `addElement`, `removeElement`, `removeNode`, `addLoadCase`) go on meanwhile; the other edits of the canvas are in
`ModelGraph`.

`create_model` is an action of its own (`AnswerCreateModel`): what the language model lists, `Models`, is assembled as it is
(`CreateModel`, `CanCreateModel`): references to what is not listed are refused (and ids listed twice, so that a list is a function here), but coincident
nodes and doubled bars are not, and the next load is numbered by counting the loads (`build_model.rs:433-487`).  That the
loads are numbered from 1 is asked for in the prompt (`build_model.rs:242`) and looked at nowhere: it is an assumption here
(`ModelsAssumption`).  The legacy answer that is a raw snapshot (`build_model.rs:368-390`) is left out.

- `editDraft`: edits, undo and redo while a draft waits (`CancelRestores`);
- `whileSolving`: a draft is cancelled while it is being applied;
- `reopened`: the drawer is closed while an answer is due, and opened again;
- `newCase`: a load case is added to a generated frame (`NothingIsTwice`);
- `doubles`: a node or a bar is drawn where there is one, or `create_model` gives one twice (`NothingIsTwice`; the frames
  stay linked, which is proved);
- `loadedNode`: a node is removed whose bars carry loads, which stay (`FramesAreLinked`).

## Runs

`FairSpec` runs check liveness; all others are safety.  Every run that has
`CHECK_DEADLOCK FALSE` is of a system that may stop: the user owes nothing, and the bounds on
edits, requests and faults may be exhausted.  ModelHistory never stops, so its runs check
deadlock.

| run | instance | shows |
|---|---|---|
| `faults` | 1 tab, Kept 2, two crashes, one fault of any kind, IndexedDB up in some sessions; 262k states | `TypeOK`; `RetentionWindow`: never more than Kept whole projects |
| `legacy` | fair sessions, 1 tab, Kept 3, a legacy save, three edits, three crashes, one fault; 95k states | `AckedIsRecoverable`, `NoSilentDowngrade`, the `InductiveInvariant` of the proofs, `NewestRequestIsServed`, and the refinement `KeepsPromise` |
| `session` | fair sessions, from the start of the engine on; 2 tabs, 2 contents, memo of 1, 3 mutations, 2 requests of the user; 1.5M states | results match the model and the newest request, combinations the results beside them; an edit made when the engine is there is answered |
| `pool` | 2 single calls, 1 combination solve of 4 cases, 3 cores, cap 2; 206k states | no orphan workers, every answer filed for its case and every answered call with all of its own, every call returns |
| `history` | 2 structures, rebars, designs and mats, stacks of 2, three edits and any number of undos; 1.2M states | stacks chained, undo and redo exact, results, verdicts and documents current |
| `regulations` | four roles, stacks of 3, three changes, staging without bound, plans applied over the loads there are or in their place; 2.6M states | the newest loads stand under the regulation they were generated from, a fresh certificate is of the loads |
| `design` | 2 members (symmetric), 2 arrangements, a stack of 1, four changes; 431k states | a verdict on display is of the bars and forces there are, a fresh frame of the demands, a current document of the cages; numbers name one thing |
| `graph` | a structure with one of everything, three edits; 628k states | references stay closed, loads keep a bearer, cuts change nothing |
| `ai` | a portal and an empty project, 2 requests, 1 edit by hand, a history of 1, one structure for `create_model`; 1.1M states | every structure one can come back to is linked and has nothing twice; growth keeps a grid a grid and a standing frame standing; cancelling restores |

Bounds.  One crash or fault at every point already separates every step of the autosave from
the next; more crashes make stale markers and gaps in the revisions, and three edits with three
revisions overflow the window of the `faults` run.  `MaxAsks` of the session stops the user after that many requests,
and never the live calculation or the deferred solve, so that the request of an edit is not cut off: two leave an older and a newer one
of one version, in flight together or waiting for the engine, and further ones after each edit.  Two mutations are the least that go away from a content and come back, three the least that leave
a tab whose deferred solve is pending for one that had no results; a memo of one
evicts at the second input.  A stack of two overflows at the third edit.  The pool needs more
cases than cores (a worker with two jobs) and three calls (two retries after failures).  Values of
slices come in twos, the least that tells "changed" from "kept".  A certificate takes a solve, a run and a
change of the loads, and a fourth step to undo one: three changes, since solves and undos are not bounded.
In `design` the fourth change is the edit of bars after a solve, a demand and a run.  Three edits of the
graph are the least that delete something, add something with a new id and cut a bar of the result; the
structure they start from already has the references.  Two requests of the conversation are a draft and one
more for it; with a history of one, a draft fills it and an edit after it drops the oldest entry.  The names of the bounds are the last constants of each module.

Three runs expect a violation; each is a place where a comment of the code and the code disagree, quoted
under "findings":

- `v_run`: the fingerprint of a footing run says nothing of the ground, which the run reads;
- `v_document`: a solve, or bars edited by hand, after a document was built leave it current;
- `v_column`: removing the node at the top of a column deletes the column and leaves the footing at its
  foot naming it.

Met while modelling, and in the modules as the code has it, without a run:

- a 3D edit made while the engine starts is dropped by the live calculation, which asks for the start and returns
  (`live-calc.ts:91-97`); nothing runs it again (`EditIsAnswered` fails without its last disjunct);
- a Solve event that waits for the engine ends in silence if the engine fails (`"lost"`): nobody catches it;
- a 2D model refused because the engine is not there is refused by the memo of verdicts when it is
  (`solver-service.ts:651`), although the message says to retry (`kinematic-2d.ts:235-236`);
- toggling the self-weight starts no live calculation (`App.svelte:874-877`);
- a plan applied without clearing leaves loads of the earlier regulation under the new label, and a design-only change
  applies a staged load regulation (`Regulations` above);
- the early return of the effect during a tab switch, after which toggling the live calculation clears fresh results;
- `updateFooting` on an id that is gone pushing an entry that undoes nothing; `initPool` not capping the number it is given.

## Fairness

- `Autosave`: the browser settles every transaction it has accepted, by commit or abort, so each
  process with one has weak fairness.  No fairness for the user, crashes or faults.
  `NewestRequestIsServed` holds unless the session ends or the browser aborts a transaction once more.
- `SolveSession`: timers fire, the engine starts or fails, what waits for it goes on, and workers answer (`LiveCalc`,
  `DeferredSolve`, `EngineStarts \/ EngineFails`, `Waiters`, `Workers`).  Weak fairness
  is of the set of workers, so one late answer does not block the property of a later edit.
- `SolverPool`: fetching and compiling end, a created worker reports readiness or refusal, a live
  worker answers.  A worker that hangs in its start-up, or is lost later, is outside it.

The other modules are driven by the user alone and state no fairness.

## Proofs

TLAPS proves, for every value of the constants that meets the named assumptions (so for any number of tabs,
edits, requests, workers and any limit of stacks, memo and windows):

| module | theorem | under |
|---|---|---|
| `AutosaveProofs` | `TypeCorrect`: `[]TypeOK`; `InvariantHolds`: `[]InductiveInvariant`; `AckedSavesAreRecoverable`; `RetentionIsBounded` | `QuietTab(t)`: one tab, IndexedDB opens in every session, the hazards are at most aborted writes of the service, aborted reads and clears, damaged records (all but `TypeCorrect`) |
| `AutosaveProofs` | `AutosaveKeepsPromise`: the refinement of `SavePromise`, steps included; `LoadsAreNeverSilent` | `QuietTab(t)`; `QuietTab(t)` and no read of the store ever fails |
| `ModelHistoryProofs` | `HistoryTypeCorrect`; `StacksStayChained`, `UndoIsExact` | nothing; `NothingRestoredOver` |
| `ModelHistoryProofs` | `DerivedStaysCurrent` | `DocumentFollows` |
| `SolverPoolProofs` | `PoolTypeCorrect`, `PoolHasNoOrphans`, `CombinationsAreAnsweredInFull` | nothing |
| `SolveSessionProofs` | `SessionTypeCorrect` | nothing |
| `SolveSessionProofs` | `ResultsAreOfTheModel` | `ModelsKeepTheirVersion`: no plane switch during a solve, no helper nodes |
| `SolveSessionProofs` | `NewestRequestStays` | `RibbonAlone` |
| `RegulationsProofs` | `RegulationsTypeCorrect`; `FreshCertificates` | nothing; `NoHandEdit` |
| `RegulationsProofs` | `NewestLoadsAreOfTheRegulations`: `[]NewestLoadsAreOfTheAppliedRoles`; `ForceChangesWithTheLoads`: the action property `LoadRolesChangeWithTheLoads` | `NothingCrossesAStagedChange`: no relabelling, no undo or redo across a staged change |
| `ModelGraphProofs` | `ModelTypeCorrect` | nothing |
| `ModelGraphProofs` | `ModelStaysCoherent` | `MaterialsAreKept`, `CasesAreKept`: what a bar or a load starts with is still there, no material goes that only shells use, subdivided bars carry plain loads |
| `ModelGraphProofs` | `LoadsKeepABearer`; `FootingsKeepTheirGround` | `BearersAreKept`: no node goes, and no bar is split, whose bars carry loads, or 3D loads, or stand on a footing |
| `RegulationsProofs` | `ReportIsExact`: after any change, of any revisions, exactly what is reported reads stale | nothing |
| `AiBuildProofs` | `BuildTypeCorrect` | nothing |
| `AiBuildProofs` | `FramesStayLinked`: `[]FramesAreLinked` | `LoadedNodesStay`: no node is removed whose bars carry loads |
| `AiBuildProofs` | `NothingIsDoubledByEdits`: `[]NothingIsTwice` | `NothingIsDoubled`, `CasesAreNew`: neither the user nor `create_model` doubles anything, no load case is added under a number that is in use |
| `AiBuildProofs` | `CancelBringsBack`: the action property `CancelRestores` | `DraftIsLeftAlone`: no edit, undo or tab switch while a draft waits, and the drawer is not reopened while an answer is due |
| `DesignFlowProofs` | `DesignTypeCorrect`; `DisplayStaysHonest` | nothing |
| `DesignFlowProofs` | `FreshCagesAreOfTheDemands` | `ForcesStayNumbered`: the number of the forces does not start again with a reload |
| `DesignFlowProofs` | `DesignedBarsStayTheOutcome` | `OutcomesFollowTheBars`: no undo of the bars alone |
| `DesignFlowProofs` | `CurrentDocumentsAreOfTheCages` | `CagesAreNotUndone` |
| `DesignFlowProofs` | `NumbersAlwaysNameOneThing` | `CagesAreNotUndone`, `RunsLeaveSteel` |

The assumptions are about `Races` and `Hazards`: they exclude exactly the circumstance whose setting makes the
property fail in TLC, and no other, so every race that is harmless for a property is covered by its proof.

The arguments:

- *Autosave.*  `AckedIsRecoverable` is not inductive.  It says nothing of a write in the middle, whose last step
  acknowledges what its first step captured; so `IInv` adds what each process knows at each `pc`
  (`ServiceWrite`, `ImportWrite`: its copy of the meta record is current, and before `finish` the record
  it is about to report is stored), that the stored revisions end at the one being written and fit in one
  window (`StoreShape`), that only the newest edit is on screen (`NewestOnScreen`), that a write cannot
  overtake a clear (`Schedule`), and where the acknowledged rank is kept, in the store once a revision is
  recorded and in the slot before (`PromiseKept`).  The `legacy` run checks the same formula.
- *The abstract store.*  `AutosaveKeepsPromise` follows every action to a step of `SavePromise` or to a stutter.  Two things
  need the invariant: that what a load returns is what the promise allows, and that the steps between capture and
  acknowledgement leave the abstract state alone.  `LoadsAreNeverSilent` needs that a source read as missing is
  missing, which is why a failing read is excluded: it is the hazard whose setting breaks it.
- *History.*  Restoring one slice brings back the whole project because nothing outside the slice changed between
  an entry and what followed it.  That is `Chained`, of neighbours on each stack and of the ends with the project;
  it is kept because an edit of a kind changes its slice only (`EditsOne`), dropping the oldest entry or the
  redo stack removes links, and undo moves one link from a stack to the other.  `DerivedIsCurrent` goes hook by hook.
- *Pool.*  A worker is reachable from the batch while the pool is being created, from the pool once it is, and every
  way out of creation terminates the batch; the strengthening says which of the two sets is empty at which stage.
  That a call is answered in full needs two facts of the messages: numbers are never used again, and every unanswered
  message has a promise open under its number, of the same job (`Matched`).  An answer then settles the promise of the job it solved, and a call
  that returns has the answer of each.  The jobs of a batch are dealt by a recursive function
  of the position (`Posted`), whose value at each is proved by taking the least position at which it would fail.
- *Session.*  A published result is right if every place it can come from is: a job whose version is current was taken
  from the model on screen (a mutation makes the version newer than every job's), a memo entry describes its own key,
  and a tab captured results of the model it captured.  A solve that waits for the engine takes its input
  when it goes on, so nothing is asked of it before.  For the
  newest request: two jobs, or solves that wait, that can still pass the guard are of one request.
- *Regulations.*  That a fresh certificate is of the loads is not inductive, for undo brings back other projects and
  a revision could come to equal an old stamp.  The invariant is of every snapshot on the stacks: stamps are at most the
  revisions of their own project, which only grow under one certificate, so that stale stays stale; and applying a plan moves
  the one revision the certificate compares (`LoadEditMoves`, `RegulationMoves`, from the table of `Revisions`).
  The regulations in force (`Force`) are never written by themselves: a load edit, an undo and an application move
  them.  `RolesInv` says of every snapshot that can be reached without crossing a staged change that the same regulations are in force
  in it as now, so a staged change displaces what is applied and nothing else.
- *Design.*  Freshness is a comparison of numbers, so each theorem is about what a number can stand for.  `FramesAreOfTheDemands` carries the
  number of the forces from the solve to every outcome and cage that quotes it; `CacheIsOfTheDemands` the
  same for the memo of verdicts; `DocumentsAreNumbered` and `CagesAreNumbered` bound every number in the project by its counter, so that
  a new one is new; `NumbersInv` says two things under one number are one thing.  Undo is in the assumptions because it brings back cages
  without bringing back the counter or the document.

- *Conversation.*  A structure comes back from a stack or a tab, so `Inv` says of every structure in `canvas`, on the four stacks, and
  in the snapshot of every request that it is `Settled`: linked, and what that needs to survive the next edit (ids are natural
  numbers below the next one, a bar is a record of two nodes and a section); where `NothingIsDoubled` the same formula says that nothing is there twice, so that one
  induction proves both theorems (`SettledIsLinked`, `SettledIsSingle`).  An answer may say nothing of load cases, so it is only `Whole`
  (`Framed`, the cases apart) until `restore` has supplied them (`RestoredIsSettled`).  Each operator of `FrameEdits` is a lemma of its own (`AddBayIsFramed`, `AddStoryIsFramed`,
  `MultiStoryFrameIsFramed`, `CreateModelIsFramed` and so on), over three of the operators they share: what is appended under new ids adds exactly those entries
  (`AppendedGains`); `Ascending` lists each number of a finite set once, in order, which is a count of those below (`EveryRankIsTaken`);
  flattening a sequence of sequences keeps their entries and no others (`FlattenedOnce`, by the least prefix that would not).  A new
  line of columns meets no node because its measure is positive and it stands outside the outermost one.
  A new bar doubles none because each has a new node.  For `CancelRestores` the strengthening is `DraftInv`: while a draft waits,
  its predecessor is on top of the undo stack, which the limit of the history cannot drop, and no answer is due that could bury it.
  `StacksFit` says undo and redo take from each other what they give, so undo, redo and tab switches cannot exceed the limit.

- *Graph.*  None of its invariants is inductive alone: that a load names a bar survives a deletion only if the deletion's cascade finds the
  load, and survives an addition only if the new id is none that a load still holds.  `Inv` says of one structure that it is `Sound`:
  every map has its ids below the next one and its references in the maps they name, on a line within `Reach`.  Each of the 34
  edits is a lemma, over lemmas about the operations they are made of: one entry is added (`AddedIsSound`), one map
  is replaced (`ChangedIsSound`), loads are replaced under new ids (`ReplacedIsSound`), nodes, bars and shells go (`NodesRemovedIsSound` and
  the others), a bar is cut (`SplitIsSound`, `SubdividedIsSound`).  A removal of several kinds is unsound in between:
  `SoundBut(m, G)` lets loads and footings name the bars of `G`, which went with their nodes, and `deleteEntities` ends with
  `G` empty only if nothing names them, which is `Unloaded`, or if they are removed after all, which is what `Cut` does.  The conditions are inside `Sound` as
  implications, so that one invariant holds in every circumstance and each theorem takes from it what its assumption allows.

`StartAssumption` says that the structure that was opened is sound, and `ShapesAssumption` that what is drawn is a load: the module
takes both as given, like the code, which checks neither.  TLC evaluates them for the structure of the run, which has one of everything.
`StartAssumption` of `AiBuildProofs` says the same of the two projects that are open; `AnswersAssumption` of `AiBuild` that measures are
positive, which the server checks (`require_positive`, `actions.rs`), `PointsAssumption` that nodes are drawn at points of the grid, and `ModelsAssumption` that what
`create_model` is given has the shapes of the tool's schema and the numbers its prompt asks for.  `MCAiBuild` extends the proofs, so TLC evaluates all of them.

Constants of absence.  `NoneAssumption` of `DesignFlow` and of `Regulations` say that `None`, which stands for `null` or `undefined`,
is none of the values the same variable can hold: TLC takes a model value for it, the prover has to be told.

Only model-checked: `CutsChangeNothing` of `ModelGraph`, which compares sums over sets; `GrowthKeepsTheGrid` and `GrowthKeepsItStanding` of `AiBuild`, the second of which is
about the nodes a walk over the bars reaches; `CombosAgreeWithResults` of `SolveSession`, which fails as soon as a setting is toggled during a solve; and liveness.  Liveness under fairness and ENABLED are out of the prover's reach.
So are the library's induction theorems, whose parameter is an operator, and RECURSIVE operators (no module
with a theorem reaches one).  Where an induction over the naturals was needed it is made from the well-founded order: the least
counterexample exists (`LeastOf`), and the step refutes it.

## Not modelled

- The engine's and the code checks' floating-point algorithms (`src/engine/`, most of `lib/engine/`, `lib/codes/`
  adapters): sequential, stateless, and nothing of them is finite.
- Parsing and writing of formats, rendering, geometry, drawing, translations and course texts: data and presentation.
  They are most of the repository by lines (the eight largest files are translations), so the lines these modules stand for
  stay a small share of it: what is modelled is nearly all of the code that keeps state across events.
- The feedback function and the capabilities of the server that answer in prose: stateless.
- The education mode's own solve lifecycle; `destroyPool` and the other test seams.
- Parts of modelled components, named in the notes of `PROJECT.json`: the bulk loaders and stage edits of the model store,
  frames in space in the edit executor, the raw snapshot a legacy answer of the server may be, locks of cages, material and detailing specifications.

## Plan

Written: the autosave, solving, the pool, the history; the graph, the regulations, the design flow, the conversation.
What is left, in order:

1. Proofs that growth keeps a grid (`GrowthKeepsTheGrid`): the lemmas about `AddBay` and `AddStory` say which bars are new, and the
   theorem needs in addition that none is missing.
2. The bulk loaders and stage edits of the store; frames in space of the edit executor; locks of cages in `DesignFlow`.
