----------------------------- MODULE SolverPool -----------------------------
(***************************************************************************)
(* The pool of solver workers (`solver-pool.ts`), the workers themselves   *)
(* (`solver-worker.ts`) and the calls `solver-service.ts` makes on it: a   *)
(* single solve, answered by a worker or, without a pool, on the main      *)
(* thread, and a combination solve, one job per load case.                 *)
(*                                                                         *)
(* What a job computes is SolveSession's business; here a call is where it *)
(* waits, how it ended and which answers were filed for it.  A worker      *)
(* answers its messages in the order they were posted; an answer finds its *)
(* promise by the number of the message, in the map kept for that worker,  *)
(* and is filed whether or not its call is still waiting.                  *)
(***************************************************************************)
EXTENDS Integers, Sequences, SequencesExt, Functions

CONSTANTS
    Singles, Combos,  \* the calls: single solves, combination solves
    Cases,            \* load cases of a combination solve
    Cores,            \* navigator.hardwareConcurrency
    Cap,              \* the 8 of MAX_WORKERS
    MaxCreated        \* bound: workers ever created

ASSUME CallsAssumption == Singles \cap Combos = {}
ASSUME SizesAssumption == {Cases, Cores, Cap} \subseteq Nat \ {0}
ASSUME BoundsAssumption == MaxCreated \in Nat

VARIABLES
    worker,   \* state of every worker created so far
    pool,     \* pool, in order
    init,     \* initPromise: "none", "compiling", "creating" or "done"
    batch,    \* the workers of the initialization in progress, in order
    size,     \* how many it was asked for
    nextId,   \* number of the next message
    inbox,    \* worker -> messages posted and not answered, oldest first
    pending,  \* worker -> the jobs whose promise is open, by number (PoolWorker.pending)
    results,  \* answers filed: the job, and the job that was solved
    call      \* where each call is

sent == <<nextId, inbox, pending>>
vars == <<worker, pool, init, batch, size, sent, results, call>>

-----------------------------------------------------------------------------
Calls == Singles \cup Combos
Worker == 1..MaxCreated
Smaller(a, b) == IF a < b THEN a ELSE b

\* The jobs of a call: (call, load case).
Jobs(c) == {<<c, k>> : k \in 1..(IF c \in Combos THEN Cases ELSE 1)}
AllJobs == UNION {Jobs(c) : c \in Calls}
Returned == {"byWorker", "onMainThread", "error"}

Init ==
    /\ worker = [w \in Worker |-> "none"]
    /\ pool = <<>>
    /\ init = "none"
    /\ batch = <<>>
    /\ size = 0
    /\ nextId = 0
    /\ inbox = [w \in Worker |-> <<>>]
    /\ pending = [w \in Worker |-> <<>>]
    /\ results = {}
    /\ call = [c \in Calls |-> "idle"]

-----------------------------------------------------------------------------
(***************************************************************************)
(* Initialization: one at a time, shared by every call that comes          *)
(* meanwhile, and forgotten when it fails.                                 *)
(***************************************************************************)

Created == {w \in Worker : worker[w] # "none"}

\* Defect: one worker for every case, however many there are.
OnePerCase(c) == IF c \in Combos THEN Cases ELSE Smaller(Cores, Cap)

\* How many workers a call that finds no pool asks for.
Size(c) == IF c \in Combos THEN Smaller(Cases, Cores) ELSE Smaller(Cores, Cap)

\* ensurePool, or initPool(numWorkers) for a combination solve, up to its await.
Begin(c) ==
    /\ call[c] = "idle"
    /\ call' = [call EXCEPT ![c] = "waiting"]
    /\ IF pool = <<>> /\ init = "none"
       THEN init' = "compiling" /\ size' = Size(c)
       ELSE UNCHANGED <<init, size>>
    /\ UNCHANGED <<worker, pool, batch, sent, results>>

\* The module is compiled: every worker is created in the same turn.
CompileDone ==
    \E n \in 0..MaxCreated :
        /\ init = "compiling"
        /\ Created = 1..n
        /\ n + size <= MaxCreated
        /\ init' = "creating"
        /\ batch' = [i \in 1..size |-> n + i]
        /\ worker' = [w \in Worker |-> IF w \in n + 1..n + size THEN "starting" ELSE worker[w]]
        /\ UNCHANGED <<pool, size, sent, results, call>>

\* Whoever waited solves on the main thread; the next call starts again.
InitRejected ==
    /\ init' = "none"
    /\ call' = [c \in Calls |-> IF call[c] = "waiting" THEN "onMainThread" ELSE call[c]]

\* The module cannot be fetched or compiled.
CompileFails ==
    /\ init = "compiling"
    /\ InitRejected
    /\ UNCHANGED <<worker, pool, batch, size, sent, results>>

\* The worker's answer to `init`.
WorkerReady(w) ==
    /\ worker[w] = "starting"
    /\ worker' = [worker EXCEPT ![w] = "ready"]
    /\ UNCHANGED <<pool, init, batch, size, sent, results, call>>

\* An `error` message or an error event.  The code does not terminate the thread: it
\* goes on, unused.
WorkerRefuses(w) ==
    /\ worker[w] = "starting"
    /\ worker' = [worker EXCEPT ![w] = "refused"]
    /\ UNCHANGED <<pool, init, batch, size, sent, results, call>>

\* Defect: Promise.all, which gives up at the first refusal.
GivesUpAtFirstRefusal(settled, refused) == settled \/ refused

\* Defect: only `ready` settles the creation of a worker.
WaitsForReady(settled, refused) == settled /\ ~refused

\* Promise.allSettled waits for every worker, refused or not.
AllSettled(settled, refused) == settled

\* The outcome of the batch: the pool, or nothing; workers that did start are
\* terminated when one did not.
InitSettles ==
    LET of(s) == {w \in ToSet(batch) : worker[w] \in s}
    IN  /\ init = "creating"
        /\ AllSettled(of({"starting"}) = {}, of({"refused"}) # {})
        /\ batch' = <<>>
        /\ IF of({"refused"}) = {}
           THEN /\ pool' = batch
                /\ init' = "done"
                /\ UNCHANGED <<worker, call>>
           ELSE /\ worker' = [w \in Worker |->
                                IF w \in of({"ready"}) THEN "terminated" ELSE worker[w]]
                /\ InitRejected
                /\ UNCHANGED pool
        /\ UNCHANGED <<size, sent, results>>

-----------------------------------------------------------------------------
(***************************************************************************)
(* Jobs.                                                                   *)
(***************************************************************************)

\* runJob: the worker with the fewest open promises, the first of them in the pool.
LeastBusy(open) ==
    Min({i \in DOMAIN pool :
            \A k \in DOMAIN pool :
                Cardinality(DOMAIN open[pool[i]]) <= Cardinality(DOMAIN open[pool[k]])})

\* Defect: messages are numbered by the jobs their worker has.
NumberedByWorker(s, w) == Cardinality(DOMAIN s.pending[w])

\* The number of a message to w: one count for all workers.
MessageId(s, w) == s.nextId

\* A job is posted: its promise is kept under the number of the message.
Post(s, job) ==
    LET w == pool[LeastBusy(s.pending)]
        id == MessageId(s, w)
    IN  [nextId |-> s.nextId + 1,
         inbox |-> [s.inbox EXCEPT ![w] = Append(@, [id |-> id, job |-> job])],
         pending |-> [s.pending EXCEPT ![w] =
                        [i \in DOMAIN @ \cup {id} |-> IF i = id THEN job ELSE @[i]]]]

Sent == [nextId |-> nextId, inbox |-> inbox, pending |-> pending]

\* What is sent once the cases of c have been posted, one after the other; a singleton.
Posted(c) ==
    LET after[k \in 0..Cardinality(Jobs(c))] ==
            IF k = 0 THEN {Sent} ELSE {Post(s, <<c, k>>) : s \in after[k - 1]}
    IN  after[Cardinality(Jobs(c))]

\* The call resumes with a pool: it posts its jobs.
Dispatch(c) ==
    /\ call[c] = "waiting"
    /\ pool # <<>>
    /\ call' = [call EXCEPT ![c] = "solving"]
    /\ \E s \in Posted(c) : nextId' = s.nextId /\ inbox' = s.inbox /\ pending' = s.pending
    /\ UNCHANGED <<worker, pool, init, batch, size, results>>

\* How a call ends when a job of it is refused: a combination solve is done again,
\* in sequence, on the main thread.
Refused(c) == IF c \in Combos THEN "onMainThread" ELSE "error"

\* The payload cannot be cloned: nothing is posted, the call is refused.
CannotPost(c) ==
    /\ call[c] = "waiting"
    /\ pool # <<>>
    /\ call' = [call EXCEPT ![c] = Refused(c)]
    /\ UNCHANGED <<worker, pool, init, batch, size, sent, results>>

Answered(filed) == {r.of : r \in filed}

\* A call is answered when every job of it is (Promise.all).
Outcome(c, filed) == IF Jobs(c) \subseteq Answered(filed) THEN "byWorker" ELSE "solving"

\* The promise of job `of` is settled, with the solution of another job or of its own, or
\* with the engine's error.  The call may have returned: the answer is filed and no more.
Settle(of, solved) ==
    \/ /\ results' = results \cup {[of |-> of, solved |-> solved]}
       /\ call' = IF call[of[1]] = "solving"
                  THEN [call EXCEPT ![of[1]] = Outcome(of[1], results')] ELSE call
    \/ /\ call' = IF call[of[1]] = "solving"
                  THEN [call EXCEPT ![of[1]] = Refused(of[1])] ELSE call
       /\ UNCHANGED results

\* A worker answers its oldest message; an answer with no open promise is dropped.
WorkerAnswers(w) ==
    LET m == Head(inbox[w]) IN
    /\ worker[w] = "ready"
    /\ inbox[w] # <<>>
    /\ inbox' = [inbox EXCEPT ![w] = Tail(@)]
    /\ IF m.id \in DOMAIN pending[w]
       THEN /\ pending' = [pending EXCEPT ![w] = Restrict(@, DOMAIN @ \ {m.id})]
            /\ Settle(pending[w][m.id], m.job)
       ELSE UNCHANGED <<pending, results, call>>
    /\ UNCHANGED <<worker, pool, init, batch, size, nextId>>

\* The browser drops a worker (memory): no message, and onerror settles nothing.
WorkerDies(w) ==
    /\ worker[w] = "ready"
    /\ worker' = [worker EXCEPT ![w] = "dead"]
    /\ UNCHANGED <<pool, init, batch, size, sent, results, call>>

-----------------------------------------------------------------------------
Initialize == CompileDone \/ CompileFails \/ InitSettles
Start(w) == WorkerReady(w) \/ WorkerRefuses(w)

Next ==
    \/ Initialize
    \/ \E c \in Calls : Begin(c) \/ Dispatch(c) \/ CannotPost(c)
    \/ \E w \in Worker : Start(w) \/ WorkerAnswers(w) \/ WorkerDies(w)

Spec == Init /\ [][Next]_vars

\* Fetching and compiling end, a created worker says how it fared, and a live one
\* answers; a call that may go on does.
Fairness ==
    /\ WF_vars(Initialize)
    /\ \A c \in Calls : WF_vars(Dispatch(c) \/ CannotPost(c))
    /\ \A w \in Worker : WF_vars(Start(w)) /\ WF_vars(WorkerAnswers(w))

FairSpec == Spec /\ Fairness

-----------------------------------------------------------------------------
(***************************************************************************)
(* Properties.                                                             *)
(***************************************************************************)

\* The shape of the state.
TypeOK ==
    /\ worker \in [Worker -> {"none", "starting", "ready", "refused", "terminated", "dead"}]
    /\ pool \in Seq(Worker) /\ batch \in Seq(Worker)
    /\ Len(pool) <= Cores
    /\ init \in {"none", "compiling", "creating", "done"}
    /\ size \in 0..Cores
    /\ nextId \in Nat
    /\ inbox \in [Worker -> Seq([id : 0..nextId - 1, job : AllJobs])]
    /\ DOMAIN pending = Worker
    /\ \A w \in Worker :
          /\ DOMAIN pending[w] \subseteq 0..nextId - 1
          /\ \A id \in DOMAIN pending[w] : pending[w][id] \in AllJobs
    /\ results \subseteq [of : AllJobs, solved : AllJobs]
    /\ call \in [Calls -> {"idle", "waiting", "solving"} \cup Returned]

\* A worker that has reported ready, or may still, belongs to the pool or to the one
\* initialization in progress until it is terminated, whatever calls, failures and
\* retries overlapped (solver-pool.ts: "Terminate the workers that DID start (Promise.all
\* would leak them)"); and the pool holds none that refused or was terminated.  It is not
\* about the threads of workers that refused: the code leaves them running.
NoOrphans ==
    /\ \A w \in Worker : worker[w] \in {"starting", "ready"} => w \in ToSet(pool) \cup ToSet(batch)
    /\ \A w \in ToSet(pool) : worker[w] \in {"ready", "dead"}

\* Every answer filed for a case is the solution of that case, in whatever order the
\* workers answered, calls were refused and answers came late; and a call answered by the
\* workers has one for each of its cases (runJob, solveParallel).
AnsweredInFull ==
    /\ \A r \in results : r.solved = r.of
    /\ \A c \in Calls : call[c] = "byWorker" => Jobs(c) \subseteq Answered(results)

\* Every call returns, answered, refused or solved on the main thread, unless a worker
\* was lost.  SolveSession assumes it of its jobs.
EveryCallReturns ==
    \A c \in Calls :
        call[c] = "waiting" ~> (call[c] \in Returned \/ \E w \in Worker : worker[w] = "dead")

=============================================================================
