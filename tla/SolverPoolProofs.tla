-------------------------- MODULE SolverPoolProofs --------------------------
(***************************************************************************)
(* Proofs about the pool, for any number of calls, cases, cores and        *)
(* workers.  It loses no worker that works or may: whatever                *)
(* initializations fail and are tried again while others wait, one that    *)
(* has not refused is in the pool or in the one initialization in          *)
(* progress.  And it answers a combination solve in full: every case has   *)
(* an answer, which is its own, because every message has a number of its  *)
(* own and a promise is found by it, however late the answer comes.        *)
(***************************************************************************)
EXTENDS SolverPool, FiniteSetTheorems, WellFoundedInduction, TLAPS

Statuses == {"none", "starting", "ready", "refused", "terminated", "dead"}

\* What each stage of the initialization holds: workers are being created only while
\* `creating`, and never while there is a pool.
Stage ==
    /\ init \in {"none", "compiling", "creating", "done"}
    /\ init # "creating" => batch = <<>>
    /\ init # "done" => pool = <<>>

\* What a batch consists of: workers created, none of them terminated.
Batch == \A w \in ToSet(batch) : w \in Worker /\ worker[w] \in {"starting", "ready", "refused", "dead"}

\* NoOrphans is not inductive: a second initialization could replace the pool or the
\* batch of the first.
IInv ==
    /\ worker \in [Worker -> Statuses]
    /\ size \in Nat
    /\ Stage
    /\ Batch
    /\ ToSet(pool) \subseteq Worker
    /\ NoOrphans

LEMMA NoneIsEmpty == ToSet(<<>>) = {}
  BY DEF ToSet

LEMMA SizeIsNat == \A c : Size(c) \in Nat
  BY SizesAssumption DEF Size, Smaller

LEMMA InitHolds == Init => IInv
  BY NoneIsEmpty DEF Init, IInv, Stage, Batch, Statuses, NoOrphans

LEMMA BeginHolds ==
    ASSUME IInv, NEW c \in Calls, Begin(c)
    PROVE  IInv'
<1>1. size' \in Nat
  BY SizeIsNat DEF Begin, IInv
<1>2. Stage'
  BY DEF Begin, IInv, Stage
<1>3. NoOrphans' /\ Batch' /\ (ToSet(pool) \subseteq Worker)'
  BY DEF Begin, IInv, NoOrphans, Batch
<1>4. QED
  BY <1>1, <1>2, <1>3 DEF Begin, IInv

\* The batch is exactly the workers created: none is left over from another.
LEMMA CompileDoneHolds ==
    ASSUME IInv, CompileDone
    PROVE  IInv'
<1>1. PICK n \in 0..MaxCreated :
        /\ init = "compiling" /\ init' = "creating" /\ n + size <= MaxCreated
        /\ batch' = [i \in 1..size |-> n + i]
        /\ worker' = [w \in Worker |-> IF w \in n + 1..n + size THEN "starting" ELSE worker[w]]
        /\ pool' = pool /\ size' = size
  BY DEF CompileDone
<1>2. n \in Nat /\ size \in Nat /\ MaxCreated \in Nat
  BY <1>1, BoundsAssumption DEF IInv
<1>3. batch = <<>> /\ pool = <<>>
  BY <1>1 DEF IInv, Stage
<1>4. ASSUME NEW w \in Worker, worker'[w] \in {"starting", "ready"}
      PROVE  w \in ToSet(batch')
  <2>1. w \in n + 1..n + size
    <3>1. worker[w] \notin {"starting", "ready"}
      BY <1>3, NoneIsEmpty DEF IInv, NoOrphans
    <3>2. QED
      BY <1>1, <1>4, <3>1
  <2>2. w - n \in 1..size /\ n + (w - n) = w
    BY <1>2, <2>1 DEF Worker
  <2>3. DOMAIN batch' = 1..size /\ batch'[w - n] = w
    BY <1>1, <2>2
  <2>4. QED
    BY <2>2, <2>3 DEF ToSet
<1>5. worker' \in [Worker -> Statuses]
  BY <1>1 DEF IInv, Statuses
<1>6. \A w \in ToSet(batch') : w \in Worker /\ worker'[w] = "starting"
  <2> SUFFICES ASSUME NEW i \in 1..size
               PROVE  n + i \in Worker /\ worker'[n + i] = "starting"
    BY <1>1 DEF ToSet
  <2>1. n + i \in n + 1..n + size /\ n + i \in 1..MaxCreated
    BY <1>1, <1>2
  <2>2. QED
    BY <1>1, <2>1 DEF Worker
<1>7. ToSet(pool') = {}
  BY <1>1, <1>3, NoneIsEmpty
<1>8. NoOrphans' /\ Batch'
  BY <1>4, <1>6, <1>7 DEF NoOrphans, Batch
<1>9. Stage'
  BY <1>1, <1>3 DEF Stage
<1>10. size' \in Nat /\ (ToSet(pool) \subseteq Worker)'
  BY <1>1, <1>2, <1>7
<1>11. QED
  BY <1>5, <1>8, <1>9, <1>10 DEF IInv

LEMMA CompileFailsHolds ==
    ASSUME IInv, CompileFails
    PROVE  IInv'
  BY DEF CompileFails, InitRejected, IInv, Stage, Batch, NoOrphans

\* A worker that starts, refuses or is lost: the same workers are where they were.
LEMMA StatusHolds ==
    ASSUME IInv, NEW w \in Worker, NEW s \in Statuses,
           \/ worker[w] = "starting" /\ s \in {"ready", "refused"}
           \/ worker[w] = "ready" /\ s = "dead",
           worker' = [worker EXCEPT ![w] = s],
           UNCHANGED <<pool, init, batch, size>>
    PROVE  IInv'
<1>1. worker' \in [Worker -> Statuses]
  BY DEF IInv
<1>2. \A v \in Worker : worker'[v] \in {"starting", "ready"} =>
                            worker[v] \in {"starting", "ready"}
  BY DEF IInv
<1>3. \A v \in Worker : worker'[v] = IF v = w THEN s ELSE worker[v]
  BY DEF IInv
<1>4. Batch'
  BY <1>3 DEF IInv, Batch
<1>5. NoOrphans'
  BY <1>2, <1>3 DEF IInv, NoOrphans
<1>6. QED
  BY <1>1, <1>4, <1>5 DEF IInv, Stage

\* Every worker of the batch has settled, so a batch that is kept has no live worker
\* outside the pool, and of one that is dropped the ready ones are terminated.
LEMMA InitSettlesHolds ==
    ASSUME IInv, InitSettles
    PROVE  IInv'
<1> DEFINE refused == {w \in ToSet(batch) : worker[w] \in {"refused"}}
<1>1. /\ init = "creating" /\ batch' = <<>> /\ size' = size
      /\ \A w \in ToSet(batch) : worker[w] # "starting"
  BY DEF InitSettles, AllSettled
<1>2. pool = <<>>
  BY <1>1 DEF IInv, Stage
<1>3. \A w \in Worker : worker[w] \in {"starting", "ready"} =>
                            w \in ToSet(batch) /\ worker[w] = "ready"
  BY <1>1, <1>2, NoneIsEmpty DEF IInv, NoOrphans
<1>4. CASE refused = {}
  <2>1. pool' = batch /\ init' = "done" /\ worker' = worker
    BY <1>4 DEF InitSettles
  <2>2. \A w \in ToSet(pool') : w \in Worker /\ worker'[w] \in {"ready", "dead"}
    BY <1>1, <1>4, <2>1 DEF IInv, Batch
  <2>3. Batch' /\ Stage'
    BY <1>1, <2>1, NoneIsEmpty DEF Batch, Stage
  <2>4. NoOrphans'
    BY <1>3, <2>1, <2>2 DEF NoOrphans
  <2>5. QED
    BY <1>1, <2>1, <2>2, <2>3, <2>4 DEF IInv
<1>5. CASE refused # {}
  <2>1. /\ init' = "none" /\ pool' = pool
        /\ worker' = [w \in Worker |->
               IF w \in {v \in ToSet(batch) : worker[v] \in {"ready"}}
               THEN "terminated" ELSE worker[w]]
    BY <1>5 DEF InitSettles, InitRejected
  <2>2. worker' \in [Worker -> Statuses]
    BY <2>1 DEF IInv, Statuses
  <2>3. \A w \in Worker : worker'[w] \notin {"starting", "ready"}
    BY <1>3, <2>1
  <2>4. ToSet(pool') = {} /\ ToSet(batch') = {}
    BY <1>1, <1>2, <2>1, NoneIsEmpty
  <2>5. NoOrphans' /\ Batch' /\ Stage'
    BY <1>1, <1>2, <2>1, <2>3, <2>4 DEF NoOrphans, Batch, Stage
  <2>6. QED
    BY <1>1, <2>1, <2>2, <2>4, <2>5 DEF IInv
<1>6. QED
  BY <1>4, <1>5

\* Posting and answering move jobs and calls only.
LEMMA JobsHold ==
    ASSUME IInv, UNCHANGED <<worker, pool, init, batch, size>>
    PROVE  IInv'
  BY DEF IInv, Stage, Batch, NoOrphans

LEMMA NextHolds ==
    ASSUME IInv, [Next]_vars
    PROVE  IInv'
<1>1. CASE Initialize
  BY <1>1, CompileDoneHolds, CompileFailsHolds, InitSettlesHolds DEF Initialize
<1>2. ASSUME NEW c \in Calls, Begin(c) \/ Dispatch(c) \/ CannotPost(c)
      PROVE  IInv'
  BY <1>2, BeginHolds, JobsHold DEF Dispatch, CannotPost
<1>3. ASSUME NEW w \in Worker, Start(w) \/ WorkerDies(w)
      PROVE  IInv'
  <2>1. CASE WorkerReady(w)
    BY <2>1, StatusHolds DEF WorkerReady, Statuses
  <2>2. CASE WorkerRefuses(w)
    BY <2>2, StatusHolds DEF WorkerRefuses, Statuses
  <2>3. CASE WorkerDies(w)
    BY <2>3, StatusHolds DEF WorkerDies, Statuses
  <2>4. QED
    BY <1>3, <2>1, <2>2, <2>3 DEF Start
<1>4. ASSUME NEW w \in Worker, WorkerAnswers(w)
      PROVE  IInv'
  BY <1>4, JobsHold DEF WorkerAnswers
<1>5. CASE UNCHANGED vars
  BY <1>5, JobsHold DEF vars
<1>6. QED
  BY <1>1, <1>2, <1>3, <1>4, <1>5 DEF Next

-----------------------------------------------------------------------------
\* No call, failure or retry loses a worker that works or may: it is in the pool or in the
\* initialization in progress until it refuses, is lost or is terminated, and the pool
\* holds no other (initPool: "Terminate the workers that DID start").  The threads of
\* workers that refused are not spoken of: nothing terminates them.
THEOREM PoolHasNoOrphans == Spec => []NoOrphans
<1>1. IInv => NoOrphans
  BY DEF IInv
<1>2. QED
  BY <1>1, InitHolds, NextHolds, PTL DEF Spec

-----------------------------------------------------------------------------
(***************************************************************************)
(* The jobs.  What has been sent after a dispatch is a recursive function  *)
(* of how many cases have been posted; that there is one is proved by the  *)
(* least number for which there would be none.                             *)
(***************************************************************************)

Follows(f, c, n) ==
    f = [k \in 0..n |-> IF k = 0 THEN {Sent} ELSE {Post(s, <<c, k>>) : s \in f[k - 1]}]

\* A set of naturals has a least element.
LEMMA LeastOf ==
    ASSUME NEW S, S \subseteq Nat, S # {}
    PROVE  \E x \in S : \A y \in S : x <= y
<1> DEFINE Less == {z \in Nat \X Nat : z[1] < z[2]}
<1>1. IsWellFoundedOn(Less, Nat)
  BY NatLessThanWellFounded DEF OpToRel
<1>2. PICK x \in S : \A y \in S : ~(<<y, x>> \in Less)
  <2> HIDE DEF Less
  <2>1. QED
    BY <1>1, WFMin
<1>3. ASSUME NEW y \in S, y < x PROVE FALSE
  <2>1. <<y, x>> \in Nat \X Nat /\ <<y, x>>[1] < <<y, x>>[2]
    BY <1>3
  <2>2. <<y, x>> \in Less
    BY <2>1
  <2>3. QED
    BY <1>2, <2>2
<1>4. QED
  BY <1>3

LEMMA FollowsStep ==
    ASSUME NEW c, NEW n \in Nat, NEW f, Follows(f, c, n)
    PROVE  \E g : Follows(g, c, n + 1)
<1> DEFINE g == [k \in 0..n + 1 |-> IF k = n + 1 THEN {Post(s, <<c, n + 1>>) : s \in f[n]} ELSE f[k]]
<1>1. \A k \in 0..n + 1 : g[k] = IF k = 0 THEN {Sent} ELSE {Post(s, <<c, k>>) : s \in g[k - 1]}
  <2> SUFFICES ASSUME NEW k \in 0..n + 1
               PROVE  g[k] = IF k = 0 THEN {Sent} ELSE {Post(s, <<c, k>>) : s \in g[k - 1]}
    OBVIOUS
  <2>1. CASE k = 0
    BY <2>1 DEF Follows
  <2>2. CASE k = n + 1
    <3>1. g[k - 1] = f[n] /\ k # 0
      BY <2>2
    <3>2. QED
      BY <2>2, <3>1
  <2>3. CASE k \in 1..n
    <3>1. k - 1 \in 0..n + 1 /\ k - 1 # n + 1 /\ k # n + 1 /\ k # 0 /\ k \in 0..n
      BY <2>3
    <3>2. g[k] = f[k] /\ g[k - 1] = f[k - 1]
      BY <3>1
    <3> HIDE DEF g
    <3>3. QED
      BY <3>1, <3>2 DEF Follows
  <2>4. QED
    BY <2>1, <2>2, <2>3
<1>2. Follows(g, c, n + 1)
  <2> DEFINE h == [k \in 0..n + 1 |->
                     IF k = 0 THEN {Sent} ELSE {Post(s, <<c, k>>) : s \in g[k - 1]}]
  <2>1. DOMAIN g = 0..n + 1 /\ g = [k \in 0..n + 1 |-> g[k]]
    OBVIOUS
  <2> HIDE DEF g
  <2>2. h = g
    BY <1>1, <2>1
  <2>3. QED
    BY <2>2 DEF Follows
<1>3. QED
  BY <1>2

LEMMA FollowsExists == \A c : \A n \in Nat : \E f : Follows(f, c, n)
<1> SUFFICES ASSUME NEW c PROVE \A n \in Nat : \E f : Follows(f, c, n)
  OBVIOUS
<1> DEFINE Bad == {n \in Nat : ~\E f : Follows(f, c, n)}
<1>1. CASE Bad = {}
  BY <1>1
<1>2. CASE Bad # {}
  <2>0. Bad \subseteq Nat
    OBVIOUS
  <2>1. PICK n \in Bad : \A m \in Bad : n <= m
    <3> HIDE DEF Bad
    <3>1. QED
      BY <1>2, <2>0, LeastOf
  <2>2. n # 0
    <3> DEFINE f == [k \in 0..0 |-> {Sent}]
    <3>1. f = [k \in 0..0 |-> IF k = 0 THEN {Sent} ELSE {Post(s, <<c, k>>) : s \in f[k - 1]}]
      OBVIOUS
    <3> HIDE DEF f
    <3>2. Follows(f, c, 0)
      BY <3>1 DEF Follows
    <3>3. QED
      BY <3>2
  <2>3. n - 1 \in Nat /\ n - 1 \notin Bad /\ (n - 1) + 1 = n
    BY <2>1, <2>2
  <2>4. PICK f : Follows(f, c, n - 1)
    BY <2>3
  <2>5. \E g : Follows(g, c, n)
    BY <2>3, <2>4, FollowsStep
  <2>6. QED
    BY <2>5
<1>3. QED
  BY <1>1, <1>2

LEMMA PostedUnfold ==
    ASSUME NEW c, Cardinality(Jobs(c)) \in Nat
    PROVE  \E f : Follows(f, c, Cardinality(Jobs(c))) /\ Posted(c) = f[Cardinality(Jobs(c))]
<1> DEFINE n == Cardinality(Jobs(c))
           f == CHOOSE f : Follows(f, c, n)
<1>1. Posted(c) = f[n]
  BY DEF Posted, Follows
<1>2. \E g : Follows(g, c, n)
  BY FollowsExists
<1>3. Follows(f, c, n)
  <2> HIDE DEF Follows, n
  <2>1. QED
    BY <1>2
<1>4. QED
  BY <1>1, <1>3

-----------------------------------------------------------------------------
\* A call's jobs are numbered from one.
JobCount(c) == IF c \in Combos THEN Cases ELSE 1

LEMMA JobsAreCounted == \A c : JobCount(c) \in Nat /\ Cardinality(Jobs(c)) = JobCount(c)
<1> SUFFICES ASSUME NEW c
             PROVE  JobCount(c) \in Nat /\ Cardinality(Jobs(c)) = JobCount(c)
  OBVIOUS
<1> DEFINE n == JobCount(c)
           number == [k \in 1..n |-> <<c, k>>]
<1>1. n \in Nat /\ n >= 1
  BY SizesAssumption DEF JobCount
<1>2. Jobs(c) = {<<c, k>> : k \in 1..n}
  BY DEF Jobs, JobCount
<1> HIDE DEF n
<1>3. IsFiniteSet(1..n) /\ Cardinality(1..n) = n
  <2>1. 1 \in Int /\ n \in Int /\ ~(1 > n) /\ n - 1 + 1 = n
    BY <1>1
  <2>2. Cardinality(1..n) = IF 1 > n THEN 0 ELSE n - 1 + 1
    BY <2>1, FS_Interval
  <2>3. IsFiniteSet(1..n)
    BY <2>1, FS_Interval
  <2>4. QED
    BY <2>1, <2>2, <2>3
<1>4. number \in Surjection(1..n, Jobs(c)) /\ number \in Injection(1..n, Jobs(c))
  <2>1. number \in [1..n -> Jobs(c)]
    BY <1>2
  <2>2. \A j \in Jobs(c) : \E k \in 1..n : number[k] = j
    BY <1>2
  <2>3. \A j, k \in 1..n : number[j] = number[k] => j = k
    OBVIOUS
  <2> HIDE DEF number
  <2>4. QED
    BY <2>1, <2>2, <2>3 DEF Surjection, Injection, IsInjective
<1>5. Cardinality(Jobs(c)) = n
  BY <1>3, <1>4, FS_Surjection
<1>6. QED
  BY <1>1, <1>5 DEF n

\* The messages and promises have their shape.
Fits(n, box, open) ==
    /\ n \in Nat
    /\ box \in [Worker -> Seq([id : 0..n - 1, job : AllJobs])]
    /\ DOMAIN open = Worker
    /\ \A w \in Worker :
          /\ DOMAIN open[w] \subseteq 0..n - 1
          /\ \A id \in DOMAIN open[w] : open[w][id] \in AllJobs

\* Every message in a box has its promise, for its own job, and a number no other has.
Matched(box, open) ==
    \A w \in Worker :
        /\ IsFiniteSet(DOMAIN open[w])
        /\ \A i \in DOMAIN box[w] :
              box[w][i].id \in DOMAIN open[w] /\ open[w][box[w][i].id] = box[w][i].job
        /\ \A i, j \in DOMAIN box[w] : box[w][i].id = box[w][j].id => i = j

Boxed(box, w, n, job) == [box EXCEPT ![w] = Append(@, [id |-> n, job |-> job])]
Opened(open, w, n, job) ==
    [open EXCEPT ![w] = [i \in DOMAIN @ \cup {n} |-> IF i = n THEN job ELSE @[i]]]

\* A message with a new number keeps the boxes and the promises matched.
LEMMA PostOne ==
    ASSUME NEW n, NEW box, NEW open, Fits(n, box, open), Matched(box, open),
           NEW w \in Worker, NEW job \in AllJobs, NEW box2, NEW open2,
           box2 = Boxed(box, w, n, job), open2 = Opened(open, w, n, job)
    PROVE  Fits(n + 1, box2, open2) /\ Matched(box2, open2)
<1> DEFINE m == [id |-> n, job |-> job]
           l == Len(box[w])
           R == [id : 0..n - 1, job : AllJobs]
           R2 == [id : 0..n, job : AllJobs]
<1>1. n \in Nat /\ (n + 1) - 1 = n /\ m \in R2 /\ R \subseteq R2 /\ n \notin 0..n - 1
  BY DEF Fits
<1>2. \A v \in Worker : box[v] \in Seq(R) /\ box[v] \in Seq(R2)
  <2> SUFFICES ASSUME NEW v \in Worker PROVE box[v] \in Seq(R) /\ box[v] \in Seq(R2)
    OBVIOUS
  <2>1. box[v] \in Seq(R)
    BY DEF Fits
  <2> HIDE DEF R, R2
  <2>2. QED
    BY <1>1, <2>1
<1>3. /\ l \in Nat /\ DOMAIN box[w] = 1..l
      /\ box2[w] = Append(box[w], m) /\ \A v \in Worker : v # w => box2[v] = box[v]
      /\ DOMAIN box2 = Worker /\ box2 = [v \in Worker |-> box2[v]]
  <2>1. DOMAIN box = Worker /\ box = [v \in Worker |-> box[v]]
    BY DEF Fits
  <2> HIDE DEF R, R2, m
  <2>2. l \in Nat /\ DOMAIN box[w] = 1..l
    BY <1>2
  <2>3. box2[w] = Append(box[w], m) /\ \A v \in Worker : v # w => box2[v] = box[v]
    BY <2>1 DEF m, Boxed
  <2>4. DOMAIN box2 = Worker /\ box2 = [v \in Worker |-> box2[v]]
    BY <2>1 DEF Boxed
  <2>5. QED
    BY <2>2, <2>3, <2>4
<1>4. /\ box2[w] \in Seq(R2) /\ DOMAIN box2[w] = 1..l + 1 /\ box2[w][l + 1] = m
      /\ \A i \in 1..l : box2[w][i] = box[w][i]
  <2> HIDE DEF R, R2, m
  <2>1. QED
    BY <1>1, <1>2, <1>3
<1>5. /\ DOMAIN open2 = Worker /\ \A v \in Worker : v # w => open2[v] = open[v]
      /\ DOMAIN open2[w] = DOMAIN open[w] \cup {n}
      /\ \A id \in DOMAIN open2[w] : open2[w][id] = IF id = n THEN job ELSE open[w][id]
  BY DEF Fits, Opened
<1>6. \A v \in Worker : DOMAIN open[v] \subseteq 0..n - 1 /\ \A id \in DOMAIN open[v] : open[v][id] \in AllJobs
  BY DEF Fits
<1>7. Fits(n + 1, box2, open2)
  <2>1. box2 \in [Worker -> Seq(R2)]
    <3>1. \A v \in Worker : box2[v] \in Seq(R2)
      <4> HIDE DEF R, R2
      <4>1. QED
        BY <1>2, <1>3, <1>4
    <3> HIDE DEF R2
    <3>2. QED
      BY <1>3, <3>1
  <2>2. ASSUME NEW v \in Worker
        PROVE  /\ DOMAIN open2[v] \subseteq 0..n
               /\ \A id \in DOMAIN open2[v] : open2[v][id] \in AllJobs
    <3>1. 0..n - 1 \subseteq 0..n /\ n \in 0..n
      BY <1>1
    <3>2. CASE v = w
      BY <1>5, <1>6, <3>1, <3>2
    <3>3. CASE v # w
      BY <1>5, <1>6, <3>1, <3>3
    <3>4. QED
      BY <3>2, <3>3
  <2>3. n + 1 \in Nat /\ 0..(n + 1) - 1 = 0..n
    BY <1>1
  <2>4. box2 \in [Worker -> Seq([id : 0..(n + 1) - 1, job : AllJobs])]
    BY <2>1, <2>3
  <2>5. QED
    BY <1>5, <2>2, <2>3, <2>4 DEF Fits
<1>8. Matched(box2, open2)
  <2> SUFFICES ASSUME NEW v \in Worker
               PROVE  /\ IsFiniteSet(DOMAIN open2[v])
                      /\ \A i \in DOMAIN box2[v] :
                            /\ box2[v][i].id \in DOMAIN open2[v]
                            /\ open2[v][box2[v][i].id] = box2[v][i].job
                      /\ \A i, j \in DOMAIN box2[v] : box2[v][i].id = box2[v][j].id => i = j
    BY DEF Matched
  <2>1. CASE v # w
    <3>1. box2[v] = box[v] /\ open2[v] = open[v]
      BY <1>3, <1>5, <2>1
    <3> HIDE DEF m, l, R, R2
    <3>2. /\ IsFiniteSet(DOMAIN open[v])
          /\ \A i \in DOMAIN box[v] :
                box[v][i].id \in DOMAIN open[v] /\ open[v][box[v][i].id] = box[v][i].job
          /\ \A i, j \in DOMAIN box[v] : box[v][i].id = box[v][j].id => i = j
      BY DEF Matched
    <3>3. QED
      BY ONLY <3>1, <3>2
  <2>2. CASE v = w
    <3>1. IsFiniteSet(DOMAIN open2[w])
      <4>1. IsFiniteSet(DOMAIN open[w])
        BY DEF Matched
      <4>2. IsFiniteSet(DOMAIN open[w] \cup {n})
        BY <4>1, FS_AddElement
      <4>3. QED
        BY <1>5, <4>2
    <3>2. \A i \in 1..l : /\ box[w][i].id \in DOMAIN open[w] /\ box[w][i].id # n
                          /\ open[w][box[w][i].id] = box[w][i].job
      <4> SUFFICES ASSUME NEW i \in 1..l
                   PROVE  /\ box[w][i].id \in DOMAIN open[w] /\ box[w][i].id # n
                          /\ open[w][box[w][i].id] = box[w][i].job
        OBVIOUS
      <4>1. /\ box[w][i].id \in DOMAIN open[w]
            /\ open[w][box[w][i].id] = box[w][i].job
        BY <1>3 DEF Matched
      <4>2. QED
        BY <1>1, <1>6, <4>1
    <3>3. \A i \in 1..l + 1 : i = l + 1 \/ i \in 1..l
      BY <1>3
    <3>4. m.id = n /\ m.job = job
      OBVIOUS
    <3>5. ASSUME NEW i \in 1..l + 1
          PROVE  /\ box2[w][i].id \in DOMAIN open2[w]
                 /\ open2[w][box2[w][i].id] = box2[w][i].job
      <4> HIDE DEF m
      <4>1. CASE i = l + 1
        BY <1>4, <1>5, <3>4, <4>1
      <4>2. CASE i \in 1..l
        <5>1. box2[w][i] = box[w][i]
          BY <1>4, <4>2
        <5>2. /\ box[w][i].id \in DOMAIN open[w] /\ box[w][i].id # n
              /\ open[w][box[w][i].id] = box[w][i].job
          BY <3>2, <4>2
        <5>3. box[w][i].id \in DOMAIN open2[w]
              /\ open2[w][box[w][i].id] = open[w][box[w][i].id]
          BY ONLY <1>5, <5>2
        <5>4. QED
          BY ONLY <5>1, <5>2, <5>3
      <4>3. QED
        BY <3>3, <4>1, <4>2
    <3>6. ASSUME NEW i \in 1..l + 1, NEW j \in 1..l + 1, box2[w][i].id = box2[w][j].id
          PROVE  i = j
      <4> HIDE DEF m
      <4>1. CASE i \in 1..l /\ j \in 1..l
        <5>1. box[w][i].id = box[w][j].id
          BY <1>4, <3>6, <4>1
        <5>2. QED
          BY <1>3, <4>1, <5>1 DEF Matched
      <4>2. CASE i = l + 1 /\ j \in 1..l
        BY <1>4, <3>2, <3>4, <3>6, <4>2
      <4>3. CASE j = l + 1 /\ i \in 1..l
        BY <1>4, <3>2, <3>4, <3>6, <4>3
      <4>4. QED
        BY <3>3, <4>1, <4>2, <4>3
    <3>7. DOMAIN box2[w] = 1..l + 1
      BY <1>4
    <3> HIDE DEF m, l, R, R2
    <3>8. QED
      BY ONLY <2>2, <3>1, <3>5, <3>6, <3>7
  <2>3. QED
    BY <2>1, <2>2
<1>9. QED
  BY <1>7, <1>8

\* There is a least busy worker: one of the pool.
LEMMA LeastBusyIsOfThePool ==
    ASSUME pool \in Seq(Worker), pool # <<>>, NEW open,
           \A w \in Worker : IsFiniteSet(DOMAIN open[w])
    PROVE  LeastBusy(open) \in DOMAIN pool /\ pool[LeastBusy(open)] \in Worker
<1> DEFINE Size1(i) == Cardinality(DOMAIN open[pool[i]])
           Load == {Size1(i) : i \in DOMAIN pool}
           Free == {i \in DOMAIN pool : \A k \in DOMAIN pool : Size1(i) <= Size1(k)}
<1>1. \A i \in DOMAIN pool : pool[i] \in Worker /\ Size1(i) \in Nat
  BY FS_CardinalityType
<1>2. DOMAIN pool \subseteq Nat /\ 1 \in DOMAIN pool
  OBVIOUS
<1>3. LeastBusy(open) = CHOOSE i \in Free : \A k \in Free : i <= k
  BY DEF LeastBusy, Min
<1> HIDE DEF Size1
<1>4. Load \subseteq Nat /\ Load # {}
  BY <1>1, <1>2
<1>5. PICK least \in Load : \A y \in Load : least <= y
  <2> HIDE DEF Load
  <2>1. QED
    BY <1>4, LeastOf
<1>6. Free \subseteq Nat /\ Free # {}
  <2>1. PICK i \in DOMAIN pool : least = Size1(i)
    BY <1>5
  <2>2. \A k \in DOMAIN pool : Size1(k) \in Load
    OBVIOUS
  <2>3. \A k \in DOMAIN pool : Size1(i) <= Size1(k)
    BY <1>5, <2>1, <2>2
  <2>4. i \in Free
    BY <2>3
  <2>5. QED
    BY <1>2, <2>4
<1>7. \E i \in Free : \A k \in Free : i <= k
  <2> HIDE DEF Free
  <2>1. QED
    BY <1>6, LeastOf
<1>8. LeastBusy(open) \in Free
  <2> HIDE DEF Free
  <2>1. QED
    BY <1>3, <1>7
<1>9. QED
  BY <1>1, <1>8

Good(s) == Fits(s.nextId, s.inbox, s.pending) /\ Matched(s.inbox, s.pending)

LEMMA FollowsPosts ==
    ASSUME NEW c \in Calls, pool \in Seq(Worker), pool # <<>>, Good(Sent),
           NEW f, Follows(f, c, JobCount(c))
    PROVE  \A k \in 0..JobCount(c) : \A s \in f[k] : Good(s)
<1> DEFINE n == JobCount(c)
           Bad == {k \in 0..n : ~\A s \in f[k] : Good(s)}
<1>0. n \in Nat /\ \A k \in 1..n : <<c, k>> \in AllJobs
  BY JobsAreCounted DEF Jobs, JobCount, AllJobs
<1>1. /\ f[0] = {Sent}
      /\ \A k \in 1..n : f[k] = {Post(s, <<c, k>>) : s \in f[k - 1]}
  <2>1. 0 \in 0..n /\ \A k \in 1..n : k \in 0..n /\ k # 0
    BY <1>0
  <2>2. \A k \in 0..n :
            f[k] = IF k = 0 THEN {Sent} ELSE {Post(s, <<c, k>>) : s \in f[k - 1]}
    BY DEF Follows
  <2>3. QED
    BY <2>1, <2>2
<1> HIDE DEF n
<1>2. CASE Bad = {}
  BY <1>2 DEF n
<1>3. CASE Bad # {}
  <2>1. Bad \subseteq Nat
    BY <1>0
  <2>2. PICK k \in Bad : \A l \in Bad : k <= l
    <3> HIDE DEF Bad
    <3>1. QED
      BY <1>3, <2>1, LeastOf
  <2>3. PICK u \in f[k] : ~Good(u)
    OBVIOUS
  <2>4. k # 0
    <3>1. SUFFICES ASSUME k = 0 PROVE FALSE
      OBVIOUS
    <3>2. u = Sent
      BY <1>1, <2>3, <3>1
    <3>3. QED
      BY <2>3, <3>2
  <2>5. k \in 1..n /\ k - 1 \in 0..n /\ k - 1 \notin Bad
    BY <1>0, <2>2, <2>4
  <2>6. PICK s \in f[k - 1] : u = Post(s, <<c, k>>)
    <3>1. f[k] = {Post(s, <<c, k>>) : s \in f[k - 1]}
      BY <1>1, <2>5
    <3>2. QED
      BY <2>3, <3>1
  <2>7. Good(s)
    BY <2>5
  <2>8. PICK w \in Worker : w = pool[LeastBusy(s.pending)]
    <3>1. \A w \in Worker : IsFiniteSet(DOMAIN s.pending[w])
      BY <2>7 DEF Good, Matched
    <3>2. QED
      BY <3>1, LeastBusyIsOfThePool
  <2>9. /\ u.nextId = s.nextId + 1
        /\ u.inbox = Boxed(s.inbox, w, s.nextId, <<c, k>>)
        /\ u.pending = Opened(s.pending, w, s.nextId, <<c, k>>)
    BY <2>6, <2>8 DEF Post, MessageId, Boxed, Opened
  <2>10. <<c, k>> \in AllJobs
    BY <1>0, <2>5
  <2>11. Fits(s.nextId + 1, u.inbox, u.pending) /\ Matched(u.inbox, u.pending)
    <3>1. Fits(s.nextId, s.inbox, s.pending) /\ Matched(s.inbox, s.pending)
      BY <2>7 DEF Good
    <3> HIDE DEF Bad
    <3>2. QED
      BY <2>9, <2>10, <3>1, PostOne
  <2>12. QED
    BY <2>3, <2>9, <2>11 DEF Good
<1>4. QED
  BY <1>2, <1>3

\* What is sent by a dispatch has its shape, and its messages their promises.
LEMMA PostedIsGood ==
    ASSUME NEW c \in Calls, pool \in Seq(Worker), pool # <<>>, Good(Sent), NEW u \in Posted(c)
    PROVE  Good(u)
<1> DEFINE n == JobCount(c)
<1>1. n \in Nat /\ Cardinality(Jobs(c)) = n
  BY JobsAreCounted
<1>2. PICK f : Follows(f, c, n) /\ Posted(c) = f[n]
  BY <1>1, PostedUnfold
<1>3. n \in 0..n
  BY <1>1
<1>4. QED
  BY <1>2, <1>3, FollowsPosts

-----------------------------------------------------------------------------
\* AnsweredInFull is not inductive: a message must find the promise of its own job.
JobsInv ==
    /\ TypeOK
    /\ Len(batch) <= Cores
    /\ Matched(inbox, pending)
    /\ AnsweredInFull

LEMMA SizeIsOfTheCores == \A c : Size(c) \in 0..Cores /\ Cores \in Nat
  BY SizesAssumption DEF Size, Smaller

LEMMA SentIsGood == JobsInv => Fits(nextId, inbox, pending)
  BY DEF JobsInv, TypeOK, Fits

LEMMA InitJobs == Init => JobsInv
<1> SUFFICES ASSUME Init PROVE JobsInv
  OBVIOUS
<1>1. Cores \in Nat /\ 0 <= Cores /\ 0 \in 0..Cores
  BY SizesAssumption
<1>2. \A w \in Worker : inbox[w] = <<>> /\ pending[w] = <<>> /\ DOMAIN pending[w] = {}
  BY DEF Init
<1>3. nextId = 0 /\ DOMAIN pending = Worker /\ results = {}
      /\ inbox \in [Worker -> Seq([id : 0..nextId - 1, job : AllJobs])]
  BY DEF Init
<1>4. TypeOK
  BY <1>1, <1>2, <1>3 DEF Init, TypeOK
<1>5. Matched(inbox, pending)
  BY <1>2, FS_EmptySet DEF Matched
<1>6. AnsweredInFull
  BY <1>3 DEF Init, AnsweredInFull
<1>7. QED
  BY <1>1, <1>4, <1>5, <1>6 DEF Init, JobsInv

\* A step that sends, answers and files nothing.
LEMMA QuietJobs ==
    ASSUME JobsInv, UNCHANGED <<sent, results>>,
           worker' \in [Worker -> Statuses],
           pool' \in Seq(Worker), batch' \in Seq(Worker), Len(pool') <= Cores, Len(batch') <= Cores,
           init' \in {"none", "compiling", "creating", "done"}, size' \in 0..Cores,
           call' \in [Calls -> {"idle", "waiting", "solving"} \cup Returned],
           \A c \in Calls : call'[c] = "byWorker" => call[c] = "byWorker"
    PROVE  JobsInv'
<1>1. nextId' = nextId /\ inbox' = inbox /\ pending' = pending /\ results' = results
  BY DEF sent
<1>2. TypeOK'
  BY <1>1 DEF JobsInv, TypeOK, Statuses
<1>3. Matched(inbox, pending)'
  BY <1>1 DEF JobsInv, Matched
<1>4. AnsweredInFull'
  BY <1>1 DEF JobsInv, AnsweredInFull, Answered
<1>5. QED
  BY <1>2, <1>3, <1>4 DEF JobsInv

\* The initialization posts nothing and answers no call.
LEMMA InitializeJobs ==
    ASSUME JobsInv, Initialize \/ \E w \in Worker : Start(w) \/ WorkerDies(w)
    PROVE  JobsInv'
<1>1. UNCHANGED <<sent, results>>
      /\ \A c \in Calls : call'[c] = call[c] \/ call'[c] = "onMainThread"
  BY DEF Initialize, CompileDone, CompileFails, InitSettles, InitRejected, Start, WorkerReady,
         WorkerRefuses, WorkerDies, JobsInv, TypeOK
<1>4. call' \in [Calls -> {"idle", "waiting", "solving"} \cup Returned]
  BY DEF Initialize, CompileDone, CompileFails, InitSettles, InitRejected, Start, WorkerReady,
         WorkerRefuses, WorkerDies, JobsInv, TypeOK, Returned
<1>5. worker' \in [Worker -> Statuses]
  BY DEF Initialize, CompileDone, CompileFails, InitSettles, InitRejected, Start, WorkerReady,
         WorkerRefuses, WorkerDies, JobsInv, TypeOK, Statuses
<1>6. size' \in 0..Cores /\ init' \in {"none", "compiling", "creating", "done"}
  BY DEF Initialize, CompileDone, CompileFails, InitSettles, InitRejected, Start, WorkerReady,
         WorkerRefuses, WorkerDies, JobsInv, TypeOK
<1>7. /\ pool' \in Seq(Worker) /\ batch' \in Seq(Worker)
      /\ Len(pool') <= Cores /\ Len(batch') <= Cores
  <2>1. CASE CompileDone
    <3>1. PICK n \in 0..MaxCreated :
             n + size <= MaxCreated /\ batch' = [i \in 1..size |-> n + i] /\ pool' = pool
      BY <2>1 DEF CompileDone
    <3>2. size \in Nat /\ size <= Cores /\ n \in Nat /\ MaxCreated \in Nat /\ Cores \in Nat
      BY BoundsAssumption, SizesAssumption DEF JobsInv, TypeOK
    <3>3. \A i \in 1..size : n + i \in Worker
      BY <3>1, <3>2 DEF Worker
    <3>4. batch' \in Seq(Worker) /\ Len(batch') = size
      BY <3>1, <3>2, <3>3
    <3>5. QED
      BY <3>1, <3>2, <3>4 DEF JobsInv, TypeOK
  <2>2. CASE InitSettles
    <3>1. batch' = <<>> /\ (pool' = pool \/ pool' = batch)
      BY <2>2 DEF InitSettles
    <3>2. QED
      BY <3>1, SizesAssumption DEF JobsInv, TypeOK
  <2>3. CASE CompileFails \/ \E w \in Worker : Start(w) \/ WorkerDies(w)
    BY <2>3 DEF CompileFails, Start, WorkerReady, WorkerRefuses, WorkerDies, JobsInv, TypeOK
  <2>4. QED
    BY <2>1, <2>2, <2>3 DEF Initialize
<1>8. QED
  BY <1>1, <1>4, <1>5, <1>6, <1>7, QuietJobs

\* A call that begins joins the initialization; one whose payload cannot be cloned is refused.
LEMMA CallMovesJobs ==
    ASSUME JobsInv, NEW c \in Calls, Begin(c) \/ CannotPost(c)
    PROVE  JobsInv'
<1>1. UNCHANGED <<worker, pool, batch, sent, results>>
      /\ \A d \in Calls : call'[d] = call[d] \/ call'[d] \in {"waiting", "onMainThread", "error"}
  BY DEF Begin, CannotPost, Refused, JobsInv, TypeOK
<1>2. call' \in [Calls -> {"idle", "waiting", "solving"} \cup Returned]
  BY DEF Begin, CannotPost, Refused, JobsInv, TypeOK, Returned
<1>3. size' \in 0..Cores /\ init' \in {"none", "compiling", "creating", "done"}
  BY SizeIsOfTheCores DEF Begin, CannotPost, JobsInv, TypeOK
<1>4. worker' \in [Worker -> Statuses] /\ pool' \in Seq(Worker) /\ batch' \in Seq(Worker)
      /\ Len(pool') <= Cores /\ Len(batch') <= Cores
  BY <1>1 DEF JobsInv, TypeOK, Statuses
<1>5. \A d \in Calls : call'[d] = "byWorker" => call[d] = "byWorker"
  BY <1>1
<1>6. UNCHANGED <<sent, results>>
  BY <1>1
<1>7. QED
  BY <1>2, <1>3, <1>4, <1>5, <1>6, QuietJobs

LEMMA DispatchJobs ==
    ASSUME JobsInv, NEW c \in Calls, Dispatch(c)
    PROVE  JobsInv'
<1>1. /\ pool # <<>> /\ call' = [call EXCEPT ![c] = "solving"]
      /\ UNCHANGED <<worker, pool, init, batch, size, results>>
  BY DEF Dispatch
<1>2. PICK u \in Posted(c) : nextId' = u.nextId /\ inbox' = u.inbox /\ pending' = u.pending
  BY DEF Dispatch
<1>3. Good(Sent) /\ pool \in Seq(Worker)
  <2>1. Sent.nextId = nextId /\ Sent.inbox = inbox /\ Sent.pending = pending
    BY DEF Sent
  <2>2. Fits(nextId, inbox, pending) /\ Matched(inbox, pending)
    BY SentIsGood DEF JobsInv
  <2>3. QED
    BY <2>1, <2>2 DEF Good, JobsInv, TypeOK
<1>4. Fits(nextId', inbox', pending') /\ Matched(inbox', pending')
  <2>1. Good(u)
    BY <1>1, <1>3, PostedIsGood
  <2>2. QED
    BY <1>2, <2>1 DEF Good
<1>5. call' \in [Calls -> {"idle", "waiting", "solving"} \cup Returned]
  BY <1>1 DEF JobsInv, TypeOK
<1>6. TypeOK'
  BY <1>1, <1>4, <1>5 DEF JobsInv, TypeOK, Fits
<1>7. AnsweredInFull'
  BY <1>1 DEF JobsInv, TypeOK, AnsweredInFull, Answered
<1>8. QED
  BY <1>1, <1>4, <1>6, <1>7 DEF JobsInv

\* A message leaves its box, and the promise under its number, which is that of its job.
LEMMA TakeOne ==
    ASSUME JobsInv, NEW w \in Worker, inbox[w] # <<>>,
           inbox' = [inbox EXCEPT ![w] = Tail(@)],
           pending' = [pending EXCEPT ![w] = Restrict(@, DOMAIN @ \ {Head(inbox[w]).id})],
           nextId' = nextId
    PROVE  /\ Fits(nextId', inbox', pending') /\ Matched(inbox', pending')
           /\ Head(inbox[w]).id \in DOMAIN pending[w]
           /\ pending[w][Head(inbox[w]).id] = Head(inbox[w]).job
           /\ Head(inbox[w]).job \in AllJobs
<1> DEFINE m == Head(inbox[w])
           n == Len(inbox[w])
           R == [id : 0..nextId - 1, job : AllJobs]
<1>1. Fits(nextId, inbox, pending) /\ Matched(inbox, pending)
  BY SentIsGood DEF JobsInv
<1>2. inbox[w] \in Seq(R) /\ n \in Nat /\ DOMAIN inbox[w] = 1..n /\ n # 0
  <2>1. inbox[w] \in Seq(R)
    BY <1>1 DEF Fits
  <2> HIDE DEF R
  <2>2. QED
    BY <2>1
<1>3. m = inbox[w][1] /\ 1 \in DOMAIN inbox[w] /\ m \in R
  <2> HIDE DEF R
  <2>1. QED
    BY <1>2
<1>4. m.id \in DOMAIN pending[w] /\ pending[w][m.id] = m.job /\ m.job \in AllJobs
  BY <1>1, <1>3 DEF Matched
<1>5. /\ inbox'[w] \in Seq(R) /\ DOMAIN inbox'[w] = 1..n - 1
      /\ \A i \in 1..n - 1 : inbox'[w][i] = inbox[w][i + 1]
      /\ \A v \in Worker : v # w => inbox'[v] = inbox[v]
      /\ inbox' \in [Worker -> Seq(R)]
  <2>1. inbox'[w] = Tail(inbox[w]) /\ inbox \in [Worker -> Seq(R)]
    BY <1>1 DEF Fits
  <2> HIDE DEF R
  <2>2. QED
    BY <1>2, <2>1
<1>6. /\ DOMAIN pending' = Worker /\ \A v \in Worker : v # w => pending'[v] = pending[v]
      /\ DOMAIN pending'[w] = DOMAIN pending[w] \ {m.id}
      /\ \A id \in DOMAIN pending'[w] : pending'[w][id] = pending[w][id]
  BY <1>1 DEF Fits, Restrict
<1>7. Fits(nextId', inbox', pending')
  <2> HIDE DEF m
  <2>1. \A v \in Worker : DOMAIN pending[v] \subseteq 0..nextId - 1
                          /\ \A id \in DOMAIN pending[v] : pending[v][id] \in AllJobs
    BY <1>1 DEF Fits
  <2>2. ASSUME NEW v \in Worker
        PROVE  /\ DOMAIN pending'[v] \subseteq 0..nextId - 1
               /\ \A id \in DOMAIN pending'[v] : pending'[v][id] \in AllJobs
    BY <1>6, <2>1
  <2>3. QED
    BY <1>1, <1>5, <1>6, <2>2 DEF Fits
<1>8. Matched(inbox', pending')
  <2> HIDE DEF m
  <2> SUFFICES ASSUME NEW v \in Worker
               PROVE  /\ IsFiniteSet(DOMAIN pending'[v])
                      /\ \A i \in DOMAIN inbox'[v] :
                            /\ inbox'[v][i].id \in DOMAIN pending'[v]
                            /\ pending'[v][inbox'[v][i].id] = inbox'[v][i].job
                      /\ \A i, j \in DOMAIN inbox'[v] : inbox'[v][i].id = inbox'[v][j].id => i = j
    BY DEF Matched
  <2>1. CASE v # w
    BY <1>1, <1>5, <1>6, <2>1 DEF Matched
  <2>2. CASE v = w
    <3>1. IsFiniteSet(DOMAIN pending'[w])
      <4>1. IsFiniteSet(DOMAIN pending[w])
        BY <1>1 DEF Matched
      <4>2. IsFiniteSet(DOMAIN pending[w] \ {m.id})
        BY <4>1, FS_RemoveElement
      <4>3. QED
        BY <1>6, <4>2
    <3>2. \A i \in 1..n - 1 : i + 1 \in 1..n /\ i + 1 # 1 /\ i \in Int
      BY <1>2
    <3>3. ASSUME NEW i \in 1..n - 1
          PROVE  /\ inbox'[w][i].id \in DOMAIN pending'[w]
                 /\ pending'[w][inbox'[w][i].id] = inbox'[w][i].job
      <4>1. inbox'[w][i] = inbox[w][i + 1] /\ i + 1 \in DOMAIN inbox[w] /\ i + 1 # 1
        BY <1>2, <1>5, <3>2
      <4>2. /\ inbox[w][i + 1].id \in DOMAIN pending[w]
            /\ pending[w][inbox[w][i + 1].id] = inbox[w][i + 1].job
        BY <1>1, <4>1 DEF Matched
      <4>3. inbox[w][i + 1].id # m.id
        BY <1>1, <1>3, <4>1 DEF Matched
      <4>4. /\ inbox[w][i + 1].id \in DOMAIN pending'[w]
            /\ pending'[w][inbox[w][i + 1].id] = pending[w][inbox[w][i + 1].id]
        BY ONLY <1>6, <4>2, <4>3
      <4>5. QED
        BY ONLY <4>1, <4>2, <4>4
    <3>4. ASSUME NEW i \in 1..n - 1, NEW j \in 1..n - 1, inbox'[w][i].id = inbox'[w][j].id
          PROVE  i = j
      <4>1. /\ inbox'[w][i] = inbox[w][i + 1] /\ i + 1 \in DOMAIN inbox[w]
            /\ inbox'[w][j] = inbox[w][j + 1] /\ j + 1 \in DOMAIN inbox[w]
        BY <1>2, <1>5, <3>2
      <4>2. i + 1 = j + 1
        BY <1>1, <3>4, <4>1 DEF Matched
      <4>3. QED
        BY <3>2, <4>2
    <3>5. QED
      BY <1>5, <2>2, <3>1, <3>3, <3>4
  <2>3. QED
    BY <2>1, <2>2
<1>9. QED
  BY <1>4, <1>7, <1>8

\* The answer is filed for its own job, and a call it completes has all of its answers.
LEMMA WorkerAnswersJobs ==
    ASSUME JobsInv, NEW w \in Worker, WorkerAnswers(w)
    PROVE  JobsInv'
<1> DEFINE m == Head(inbox[w])
           of == pending[w][m.id]
<1>1. /\ inbox[w] # <<>> /\ inbox' = [inbox EXCEPT ![w] = Tail(@)]
      /\ UNCHANGED <<worker, pool, init, batch, size, nextId>>
  BY DEF WorkerAnswers
<1>2. m.id \in DOMAIN pending[w] /\ of = m.job /\ of \in AllJobs
  <2>1. Fits(nextId, inbox, pending) /\ Matched(inbox, pending)
    BY SentIsGood DEF JobsInv
  <2>2. inbox[w] \in Seq([id : 0..nextId - 1, job : AllJobs])
    BY <2>1 DEF Fits
  <2>3. m = inbox[w][1] /\ 1 \in DOMAIN inbox[w]
    BY <1>1, <2>2
  <2>4. m.id \in DOMAIN pending[w] /\ of = m.job
    BY <2>1, <2>3 DEF Matched
  <2>5. pending[w][m.id] \in AllJobs
    BY <2>1, <2>4 DEF Fits
  <2>6. QED
    BY <2>4, <2>5
<1>3. pending' = [pending EXCEPT ![w] = Restrict(@, DOMAIN @ \ {m.id})] /\ Settle(of, m.job)
  BY <1>2 DEF WorkerAnswers
<1>4. Fits(nextId', inbox', pending') /\ Matched(inbox', pending')
  BY <1>1, <1>3, TakeOne
<1>5. PICK c \in Calls : of[1] = c /\ of \in Jobs(c)
  BY <1>2 DEF AllJobs, Jobs
<1> HIDE DEF m, of
<1>6. \/ /\ results' = results \cup {[of |-> of, solved |-> of]}
         /\ call' = IF call[c] = "solving" THEN [call EXCEPT ![c] = Outcome(c, results')] ELSE call
      \/ /\ results' = results
         /\ call' = IF call[c] = "solving" THEN [call EXCEPT ![c] = Refused(c)] ELSE call
  BY <1>2, <1>3, <1>5 DEF Settle
<1>7. /\ results \subseteq results'
      /\ \A r \in results' : r \in results \/ (r.of = of /\ r.solved = of)
      /\ results' \subseteq [of : AllJobs, solved : AllJobs]
  BY <1>2, <1>6 DEF JobsInv, TypeOK
<1>8. call \in [Calls -> {"idle", "waiting", "solving"} \cup Returned]
  BY DEF JobsInv, TypeOK
<1>9. \A filed : Outcome(c, filed) \in {"byWorker", "solving"}
                 /\ (Outcome(c, filed) = "byWorker" => Jobs(c) \subseteq Answered(filed))
      /\ Refused(c) \in {"onMainThread", "error"}
  BY DEF Outcome, Refused
<1>10. call' \in [Calls -> {"idle", "waiting", "solving"} \cup Returned]
  BY <1>6, <1>8, <1>9 DEF Returned
<1>11. Answered(results) \subseteq Answered(results')
  BY <1>7 DEF Answered
<1>12. \A d \in Calls : call'[d] = "byWorker" =>
          call[d] = "byWorker" \/ Jobs(d) \subseteq Answered(results')
  BY <1>6, <1>8, <1>9
<1>13. AnsweredInFull'
  <2>1. \A r \in results' : r.solved = r.of
    BY <1>7 DEF JobsInv, AnsweredInFull
  <2>2. \A d \in Calls : call'[d] = "byWorker" => Jobs(d) \subseteq Answered(results')
    BY <1>11, <1>12 DEF JobsInv, AnsweredInFull
  <2>3. Answered(results)' = Answered(results')
    BY DEF Answered
  <2>4. QED
    BY <2>1, <2>2, <2>3 DEF AnsweredInFull
<1>14. TypeOK'
  BY <1>1, <1>4, <1>7, <1>10 DEF JobsInv, TypeOK, Fits
<1>15. QED
  BY <1>1, <1>4, <1>13, <1>14 DEF JobsInv

LEMMA NextJobs ==
    ASSUME JobsInv, [Next]_vars
    PROVE  JobsInv'
<1>1. CASE UNCHANGED vars
  BY <1>1, QuietJobs DEF vars, JobsInv, TypeOK, Statuses
<1>2. CASE Next
  BY <1>2, InitializeJobs, CallMovesJobs, DispatchJobs, WorkerAnswersJobs DEF Next
<1>3. QED
  BY <1>1, <1>2

\* The state has its shape: the pool is never larger than the cores, and every message and
\* promise is of a job of a call, under a number already given (solver-pool.ts, runJob).
THEOREM PoolTypeCorrect == Spec => []TypeOK
<1>1. JobsInv => TypeOK
  BY DEF JobsInv
<1>2. QED
  BY <1>1, InitJobs, NextJobs, PTL DEF Spec

\* Every answer filed is of the case it is filed for, and a combination solve answered by
\* the workers has one for each of its cases, however the pool spread them, in whatever
\* order the workers answered and however late (runJob, solveParallel).
THEOREM CombinationsAreAnsweredInFull == Spec => []AnsweredInFull
<1>1. JobsInv => AnsweredInFull
  BY DEF JobsInv
<1>2. QED
  BY <1>1, InitJobs, NextJobs, PTL DEF Spec

=============================================================================
