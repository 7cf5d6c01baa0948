------------------------- MODULE SolveSessionProofs -------------------------
(***************************************************************************)
(* Proofs about the solves of a session: for any models, tabs, requests    *)
(* and size of the memo, what is shown was computed from the model on      *)
(* screen, and no older request replaces the newest one shown.             *)
(***************************************************************************)
EXTENDS SolveSession, SequenceTheorems, TLAPS

\* No solve is in flight when the plane is switched, and no helper nodes are pruned.
ModelsKeepTheirVersion == "planeSwitch" \notin Races /\ Helpers = FALSE

\* The ribbon's 3D solve, which takes no request id, overlaps no other.
RibbonAlone == "ribbon" \notin Races

Kinds == {"live", "global", "ribbon"}
MemoRecord == [key : KeyRecord, seen : Contents]

-----------------------------------------------------------------------------
(***************************************************************************)
(* Sequences and the memo.                                                 *)
(***************************************************************************)

LEMMA LengthAfter ==
    ASSUME NEW n \in Nat, NEW i \in 1..n
    PROVE  (IF i + 1 <= n THEN n - (i + 1) + 1 ELSE 0) = n - i
  OBVIOUS

LEMMA RemovedAt ==
    ASSUME NEW S, NEW s \in Seq(S), NEW i \in 1..Len(s)
    PROVE  RemoveAt(s, i) \in Seq(S) /\ Len(RemoveAt(s, i)) = Len(s) - 1
<1> DEFINE before == SubSeq(s, 1, i - 1)
           after == SubSeq(s, i + 1, Len(s))
<1>1. Len(s) \in Nat /\ i \in Nat /\ 1 <= i /\ i <= Len(s) /\ s \in [1..Len(s) -> S]
  BY LenProperties
<1>2. before \in Seq(S) /\ Len(before) = i - 1
  <2>1. 1 \in Int /\ i - 1 \in Int /\ (\A k \in 1..(i - 1) : s[k] \in S)
    BY <1>1
  <2>2. before \in Seq(S) /\ Len(before) = IF 1 <= i - 1 THEN (i - 1) - 1 + 1 ELSE 0
    BY <2>1, SubSeqProperties
  <2>3. QED
    BY <1>1, <2>2
<1>3. after \in Seq(S) /\ Len(after) = Len(s) - i
  <2>1. i + 1 \in Int /\ Len(s) \in Int /\ (\A k \in (i + 1)..Len(s) : s[k] \in S)
    BY <1>1
  <2>2. after \in Seq(S)
        /\ Len(after) = IF i + 1 <= Len(s) THEN Len(s) - (i + 1) + 1 ELSE 0
    BY <2>1, SubSeqProperties
  <2>3. (IF i + 1 <= Len(s) THEN Len(s) - (i + 1) + 1 ELSE 0) = Len(s) - i
    BY <1>1, LengthAfter
  <2>4. QED
    BY <2>2, <2>3
<1>4. before \o after \in Seq(S) /\ Len(before \o after) = Len(before) + Len(after)
  BY <1>2, <1>3, ConcatProperties
<1> HIDE DEF before, after
<1>5. Len(before) + Len(after) = Len(s) - 1
  BY <1>1, <1>2, <1>3
<1>6. RemoveAt(s, i) = before \o after
  BY DEF RemoveAt, before, after
<1>7. QED
  BY <1>4, <1>5, <1>6

LEMMA OthersStay ==
    ASSUME NEW S, cache \in Seq(S), NEW d, NEW input
    PROVE  /\ Others(d, input) \in Seq(S)
           /\ Len(Others(d, input)) \in Nat
           /\ Len(Others(d, input)) =
                  IF Entries(d, input) = {} THEN Len(cache) ELSE Len(cache) - 1
<1> DEFINE i == CHOOSE i \in Entries(d, input) : TRUE
<1>1. CASE Entries(d, input) = {}
  BY <1>1 DEF Others
<1>2. CASE Entries(d, input) # {}
  <2>1. i \in 1..Len(cache)
    BY <1>2 DEF Entries
  <2>2. Others(d, input) = RemoveAt(cache, i)
    BY <1>2 DEF Others
  <2> HIDE DEF i
  <2>3. RemoveAt(cache, i) \in Seq(S) /\ Len(RemoveAt(cache, i)) = Len(cache) - 1
    BY <2>1, RemovedAt
  <2>4. QED
    BY <1>2, <2>2, <2>3
<1>3. QED
  BY <1>1, <1>2

\* solveCacheSet: the memo holds entries of the same kind and keeps within its limit.
LEMMA CachedStays ==
    ASSUME NEW S, cache \in Seq(S), Len(cache) <= CacheMax,
           NEW d, NEW input, [key |-> Key(d, input), seen |-> input.seen] \in S
    PROVE  Cached(d, input) \in Seq(S) /\ Len(Cached(d, input)) <= CacheMax
<1> DEFINE rest == Others(d, input)
           entry == [key |-> Key(d, input), seen |-> input.seen]
           put == Append(rest, entry)
<1>1. rest \in Seq(S) /\ Len(rest) \in Nat /\ Len(rest) <= Len(cache)
  BY OthersStay
<1>2. Cached(d, input) = IF Len(put) > CacheMax THEN Tail(put) ELSE put
  BY DEF Cached
<1> HIDE DEF rest, entry
<1>3. entry \in S
  BY DEF entry
<1>4. put \in Seq(S) /\ Len(put) = Len(rest) + 1 /\ put # <<>>
  BY <1>1, <1>3, AppendProperties
<1>5. Len(cache) \in Nat /\ CacheMax \in Nat
  BY OptionsAssumption
<1> HIDE DEF put
<1>6. Len(put) <= CacheMax + 1
  BY <1>1, <1>4, <1>5
<1>7. Tail(put) \in Seq(S) /\ Len(Tail(put)) = Len(put) - 1
  BY <1>4
<1>8. QED
  BY <1>1, <1>2, <1>4, <1>5, <1>6, <1>7

\* solveCacheGet: the entry found is the last one afterwards.
LEMMA TouchedStays ==
    ASSUME NEW S, cache \in Seq(S), Len(cache) <= CacheMax,
           NEW d, NEW input, Entries(d, input) # {}
    PROVE  /\ Touched(d, input) \in Seq(S)
           /\ Len(Touched(d, input)) <= CacheMax
           /\ Last(Touched(d, input)) \in S
           /\ Last(Touched(d, input)).key = Key(d, input)
<1> DEFINE rest == Others(d, input)
           i == CHOOSE i \in Entries(d, input) : TRUE
<1>1. i \in 1..Len(cache) /\ cache[i].key = Key(d, input)
  BY DEF Entries
<1>2. cache[i] \in S
  BY <1>1
<1>3. rest \in Seq(S) /\ Len(rest) \in Nat /\ Len(rest) = Len(cache) - 1
  BY OthersStay
<1>4. Touched(d, input) = Append(rest, cache[i])
  BY DEF Touched
<1> HIDE DEF rest, i
<1>5. Append(rest, cache[i]) \in Seq(S) /\ Len(Append(rest, cache[i])) = Len(rest) + 1
      /\ Append(rest, cache[i])[Len(rest) + 1] = cache[i]
  BY <1>2, <1>3
<1>6. Last(Touched(d, input)) = cache[i]
  BY <1>4, <1>5 DEF Last
<1>7. Len(cache) \in Nat /\ CacheMax \in Nat
  BY OptionsAssumption
<1>8. Len(Append(rest, cache[i])) <= CacheMax
  BY <1>3, <1>5, <1>7
<1>9. QED
  BY <1>1, <1>2, <1>4, <1>5, <1>6, <1>8

-----------------------------------------------------------------------------
(***************************************************************************)
(* Types.                                                                  *)
(***************************************************************************)

ScreenTyped ==
    /\ model \in Contents
    /\ version \in Nat
    /\ mode \in Dims
    /\ weight \in BOOLEAN
    /\ live \in BOOLEAN
TimersTyped == timer \in BOOLEAN /\ missed \in BOOLEAN
CountersTyped == seq \in Nat /\ asks \in Nat
StoreTyped ==
    /\ results \in [Dims -> InputRecord \cup {None}]
    /\ combos \in [Dims -> InputRecord \cup {None}]
    /\ newest \in Outcomes
EngineTyped ==
    /\ wasm \in {"starting", "ready", "failed"}
    /\ awaiting \subseteq JobRecord
    /\ unchecked \subseteq KeyRecord
MemoTyped == cache \in Seq(MemoRecord) /\ Len(cache) <= CacheMax
TabsTyped ==
    /\ active \in open /\ open \subseteq Tabs
    /\ saved \in [Tabs -> TabRecord]
    /\ deferred \in Tabs \cup {None}

LEMMA TypeOKIs ==
    TypeOK <=> /\ ScreenTyped /\ TimersTyped /\ CountersTyped /\ jobs \subseteq JobRecord
               /\ StoreTyped /\ EngineTyped /\ MemoTyped /\ TabsTyped
  BY DEF TypeOK, ScreenTyped, TimersTyped, CountersTyped, StoreTyped, EngineTyped, MemoTyped,
         MemoRecord, TabsTyped

LEMMA TypeOKIsNext ==
    /\ ScreenTyped' /\ TimersTyped' /\ CountersTyped' /\ jobs' \subseteq JobRecord
    /\ StoreTyped' /\ EngineTyped' /\ MemoTyped' /\ TabsTyped'
    => TypeOK'
  BY DEF TypeOK, ScreenTyped, TimersTyped, CountersTyped, StoreTyped, EngineTyped, MemoTyped,
         MemoRecord, TabsTyped

LEMMA InputTyped ==
    ASSUME model \in Contents, weight \in BOOLEAN, NEW a \in Nat
    PROVE  Input(a) \in InputRecord
  BY DEF Input, InputRecord

LEMMA JobFields ==
    ASSUME NEW j \in JobRecord
    PROVE  /\ j.kind \in {"live", "global", "ribbon"}
           /\ j.dim \in Dims /\ j.version \in Nat /\ j.req \in Nat
           /\ j.input \in InputRecord /\ j.combined \in BOOLEAN
           /\ j.input.ask \in Nat
           /\ j.input.model \in Contents /\ j.input.seen \in Contents
           /\ j.input.weight \in BOOLEAN
  BY DEF JobRecord, InputRecord

LEMMA SeenTyped ==
    ASSUME NEW input \in InputRecord, NEW c \in Contents
    PROVE  /\ [input EXCEPT !.seen = c] \in InputRecord
           /\ [input EXCEPT !.seen = c].model = input.model
           /\ [input EXCEPT !.seen = c].weight = input.weight
           /\ [input EXCEPT !.seen = c].seen = c
           /\ [input EXCEPT !.seen = c].ask = input.ask
  BY DEF InputRecord

LEMMA JobInputTyped ==
    ASSUME NEW j \in JobRecord, NEW input \in InputRecord
    PROVE  /\ [j EXCEPT !.input = input] \in JobRecord
           /\ [j EXCEPT !.input = input].input = input
           /\ [j EXCEPT !.input = input].version = j.version
           /\ [j EXCEPT !.input = input].req = j.req
           /\ [j EXCEPT !.input = input].kind = j.kind
           /\ [j EXCEPT !.combined = FALSE, !.input = input] \in JobRecord
           /\ [j EXCEPT !.combined = FALSE, !.input = input].input = input
           /\ [j EXCEPT !.combined = FALSE, !.input = input].version = j.version
           /\ [j EXCEPT !.combined = FALSE, !.input = input].req = j.req
           /\ [j EXCEPT !.combined = FALSE, !.input = input].kind = j.kind
           /\ [j EXCEPT !.combined = FALSE, !.input = input].dim = j.dim
           /\ ~[j EXCEPT !.combined = FALSE, !.input = input].combined
<1>1. [j EXCEPT !.input = input] \in JobRecord
  BY DEF JobRecord
<1>2. [j EXCEPT !.combined = FALSE] \in JobRecord
  BY DEF JobRecord
<1>3. [[j EXCEPT !.combined = FALSE] EXCEPT !.input = input] \in JobRecord
  BY <1>2 DEF JobRecord
<1>4. [j EXCEPT !.combined = FALSE, !.input = input]
          = [[j EXCEPT !.combined = FALSE] EXCEPT !.input = input]
  BY Zenon
<1>5. QED
  BY <1>1, <1>3, <1>4 DEF JobRecord

LEMMA CombinedWithTyped ==
    ASSUME model \in Contents, weight \in BOOLEAN, NEW j \in JobRecord
    PROVE  CombinedWith(j) \in InputRecord \cup {None}
  BY InputTyped, JobFields DEF CombinedWith

LEMMA ClearTyped == Clear => StoreTyped'
  BY DEF Clear, Nothing, StoreTyped, Outcomes

LEMMA EngineUntouched == TypeOK /\ UNCHANGED engine => EngineTyped'
  BY TypeOKIs DEF engine, EngineTyped

\* setResults and setCombinationResults of one dimension.
LEMMA PublishTyped ==
    ASSUME StoreTyped, NEW d \in Dims, NEW input \in InputRecord,
           NEW combined \in InputRecord \cup {None}, Publish(d, input, combined)
    PROVE  /\ results' \in [Dims -> InputRecord \cup {None}]
           /\ combos' \in [Dims -> InputRecord \cup {None}]
  BY DEF Publish, StoreTyped

LEMMA MemoEntryTyped ==
    ASSUME NEW d \in Dims, NEW input \in InputRecord
    PROVE  [key |-> Key(d, input), seen |-> input.seen] \in MemoRecord
  BY DEF Key, InputRecord, MemoRecord, KeyRecord

LEMMA AttemptTyped ==
    ASSUME StoreTyped, MemoTyped, model \in Contents, weight \in BOOLEAN,
           NEW j \in JobRecord, NEW others \in SUBSET JobRecord, Attempt(j, others)
    PROVE  jobs' \subseteq JobRecord /\ StoreTyped' /\ MemoTyped'
<1>1. CASE Entries(j.dim, j.input) = {}
  BY <1>1 DEF Attempt, StoreTyped, MemoTyped, store, Outcomes
<1>2. CASE Entries(j.dim, j.input) # {}
  <2>1. /\ jobs' = others
        /\ cache' = Touched(j.dim, j.input)
        /\ Publish(j.dim, [j.input EXCEPT !.seen = Last(cache').seen], CombinedWith(j))
        /\ newest' = IF j.input.ask = asks' THEN "shown" ELSE newest
    BY <1>2 DEF Attempt
  <2>2. cache' \in Seq(MemoRecord) /\ Len(cache') <= CacheMax /\ Last(cache') \in MemoRecord
    BY <1>2, <2>1, TouchedStays DEF MemoTyped
  <2>3. [j.input EXCEPT !.seen = Last(cache').seen] \in InputRecord
    <3>1. Last(cache').seen \in Contents
      BY <2>2 DEF MemoRecord
    <3>2. QED
      BY <3>1, JobFields, SeenTyped
  <2>4. /\ results' \in [Dims -> InputRecord \cup {None}]
        /\ combos' \in [Dims -> InputRecord \cup {None}]
    BY <2>1, <2>3, JobFields, CombinedWithTyped, PublishTyped
  <2>5. newest' \in Outcomes
    BY <2>1 DEF StoreTyped, Outcomes
  <2>6. QED
    BY <2>1, <2>2, <2>4, <2>5 DEF StoreTyped, MemoTyped
<1>3. QED
  BY <1>1, <1>2

LEMMA StartTyped ==
    ASSUME StoreTyped, MemoTyped, model \in Contents, weight \in BOOLEAN,
           NEW j \in JobRecord, NEW others \in SUBSET JobRecord, Start(j, others)
    PROVE  jobs' \subseteq JobRecord /\ StoreTyped' /\ MemoTyped'
<1>1. CASE j.combined
  BY <1>1 DEF Start, StoreTyped, MemoTyped, store, Outcomes
<1>2. CASE ~j.combined
  BY <1>2, AttemptTyped DEF Start
<1>3. QED
  BY <1>1, <1>2

LEMMA AskedTyped ==
    ASSUME ScreenTyped, seq' \in Nat, asks' \in Nat, NEW kind \in Kinds
    PROVE  /\ Asked(kind) \in JobRecord
           /\ Asked(kind).version = version
           /\ Asked(kind).input = Input(asks')
           /\ Asked(kind).kind = kind /\ Asked(kind).req = seq'
<1>1. Input(asks') \in InputRecord
  BY InputTyped DEF ScreenTyped
<1>2. (kind = "global" /\ mode = "3d" /\ Combinations) \in BOOLEAN
  OBVIOUS
<1>3. QED
  BY <1>1, <1>2 DEF Asked, JobRecord, ScreenTyped, Kinds

LEMMA TakeTyped ==
    ASSUME CountersTyped, NEW kind, Take(kind)
    PROVE  CountersTyped'
  BY DEF Take, CountersTyped

\* A request that starts no solve: the engine or the project is not there for it.
LEMMA UnsolvedTyped ==
    ASSUME TypeOK, NEW j \in JobRecord, Postponed(j) \/ Refused(j)
    PROVE  jobs' \subseteq JobRecord /\ StoreTyped' /\ MemoTyped' /\ EngineTyped'
<1>1. jobs \subseteq JobRecord /\ StoreTyped /\ MemoTyped /\ EngineTyped
  BY TypeOKIs
<1>2. UNCHANGED <<jobs, store, cache, wasm>> /\ newest' \in Outcomes
  BY DEF Postponed, Refused, Outcomes
<1>3. awaiting' \subseteq JobRecord
  BY <1>1 DEF Postponed, Refused, EngineTyped
<1>4. Key("2d", j.input) \in KeyRecord
  BY JobFields DEF Key, KeyRecord, Dims
<1>5. unchecked' \subseteq KeyRecord
  BY <1>1, <1>4 DEF Postponed, Refused, EngineTyped
<1>6. QED
  BY <1>1, <1>2, <1>3, <1>5 DEF StoreTyped, MemoTyped, EngineTyped, store

LEMMA RequestTyped ==
    ASSUME TypeOK, NEW kind \in Kinds, Request(kind)
    PROVE  /\ CountersTyped' /\ jobs' \subseteq JobRecord /\ StoreTyped' /\ MemoTyped'
           /\ EngineTyped'
<1>1. ScreenTyped /\ CountersTyped /\ jobs \subseteq JobRecord /\ StoreTyped /\ MemoTyped
  BY TypeOKIs
<1>2. CountersTyped'
  BY <1>1, TakeTyped DEF Request
<1>3. Asked(kind) \in JobRecord
  BY <1>1, <1>2, AskedTyped DEF CountersTyped
<1>4. CASE Postponed(Asked(kind)) \/ Refused(Asked(kind))
  BY <1>2, <1>3, <1>4, UnsolvedTyped
<1>5. CASE Start(Asked(kind), jobs) /\ UNCHANGED engine
  BY <1>1, <1>2, <1>3, <1>5, StartTyped, EngineUntouched DEF ScreenTyped
<1>6. QED
  BY <1>4, <1>5 DEF Request

-----------------------------------------------------------------------------
(***************************************************************************)
(* Every action keeps the types.                                           *)
(***************************************************************************)

\* An edit in place: the jobs it reaches see other nodes, and are otherwise the same.
LEMMA ReachedJobs ==
    ASSUME jobs \subseteq JobRecord, NEW c \in Contents
    PROVE  /\ Reached(c) \subseteq JobRecord
           /\ \A k \in Reached(c) : \E j \in jobs :
                  /\ k.version = j.version /\ k.req = j.req /\ k.kind = j.kind
                  /\ k.input.ask = j.input.ask
<1> SUFFICES ASSUME NEW k \in Reached(c)
             PROVE  /\ k \in JobRecord
                    /\ \E j \in jobs :
                           /\ k.version = j.version /\ k.req = j.req /\ k.kind = j.kind
                           /\ k.input.ask = j.input.ask
  OBVIOUS
<1>1. PICK j \in jobs : k \in {j, [j EXCEPT !.input.seen = c]}
  BY DEF Reached
<1>2. [j EXCEPT !.input.seen = c] = [j EXCEPT !.input = [j.input EXCEPT !.seen = c]]
  BY Zenon
<1>3. [j.input EXCEPT !.seen = c] \in InputRecord
      /\ [j.input EXCEPT !.seen = c].ask = j.input.ask
  BY JobFields, SeenTyped
<1>4. CASE k = j
  BY <1>4
<1>5. CASE k = [j EXCEPT !.input.seen = c]
  <2> DEFINE input == [j.input EXCEPT !.seen = c]
  <2>1. k = [j EXCEPT !.input = input] /\ input \in InputRecord /\ input.ask = j.input.ask
    BY <1>2, <1>3, <1>5
  <2>2. j \in JobRecord
    OBVIOUS
  <2> HIDE DEF input
  <2>3. /\ k \in JobRecord /\ k.input = input
        /\ k.version = j.version /\ k.req = j.req /\ k.kind = j.kind
    BY <2>1, <2>2, JobInputTyped
  <2>4. QED
    BY <2>1, <2>3
<1>6. QED
  BY <1>1, <1>4, <1>5

LEMMA EditTyped ==
    ASSUME TypeOK, NEW c \in Contents, Edit(c)
    PROVE  TypeOK'
<1>1. ScreenTyped' /\ TimersTyped' /\ CountersTyped'
  <2>1. ScreenTyped'
    BY TypeOKIs DEF Edit, ScreenTyped
  <2>2. TimersTyped'
    BY <2>1 DEF Edit, Effect, ScreenTyped, TimersTyped
  <2>3. QED
    BY <2>1, <2>2, TypeOKIs DEF Edit, CountersTyped
<1>2. jobs' \subseteq JobRecord
  BY TypeOKIs, ReachedJobs DEF Edit
<1>3. StoreTyped'
  BY ClearTyped DEF Edit
<1>4. MemoTyped' /\ TabsTyped'
  BY TypeOKIs DEF Edit, tabs, MemoTyped, TabsTyped
<1>5. EngineTyped'
  BY EngineUntouched DEF Edit
<1>6. QED
  BY <1>1, <1>2, <1>3, <1>4, <1>5, TypeOKIsNext

\* The mode, the plane, the self-weight and the live calculation.
LEMMA SettingsTyped ==
    ASSUME TypeOK, NEW c \in Contents,
           SetMode \/ PlaneSwitch(c) \/ ToggleWeight \/ ToggleLive
    PROVE  TypeOK'
<1>1. ScreenTyped' /\ TimersTyped'
  BY TypeOKIs
     DEF SetMode, PlaneSwitch, ToggleWeight, ToggleLive, Effect, ScreenTyped, TimersTyped
<1>2. CountersTyped' /\ jobs' \subseteq JobRecord
  BY TypeOKIs DEF SetMode, PlaneSwitch, ToggleWeight, ToggleLive, CountersTyped
<1>3. Clear \/ UNCHANGED <<store, newest>>
  BY DEF SetMode, PlaneSwitch, ToggleWeight, ToggleLive
<1>4. StoreTyped'
  BY <1>3, ClearTyped, TypeOKIs DEF StoreTyped, store
<1>5. MemoTyped' /\ TabsTyped'
  BY TypeOKIs DEF SetMode, PlaneSwitch, ToggleWeight, ToggleLive, tabs, MemoTyped, TabsTyped
<1>6. EngineTyped'
  BY EngineUntouched DEF SetMode, PlaneSwitch, ToggleWeight, ToggleLive
<1>7. QED
  BY <1>1, <1>2, <1>4, <1>5, <1>6, TypeOKIsNext

LEMMA LiveCalcTyped ==
    ASSUME TypeOK, LiveCalc
    PROVE  TypeOK'
<1>1. ScreenTyped' /\ TimersTyped' /\ TabsTyped'
  BY TypeOKIs DEF LiveCalc, screen, tabs, ScreenTyped, TimersTyped, TabsTyped
<1>2. CASE model = Empty
  BY <1>1, <1>2, TypeOKIs, TypeOKIsNext, EngineUntouched
     DEF LiveCalc, CountersTyped, StoreTyped, MemoTyped, store
<1>3. CASE model # Empty
  <2>1. Request("live")
    BY <1>3 DEF LiveCalc
  <2>2. QED
    BY <1>1, <2>1, RequestTyped, TypeOKIsNext DEF Kinds
<1>4. QED
  BY <1>2, <1>3

LEMMA GlobalSolveTyped ==
    ASSUME TypeOK, GlobalSolve, deferred' \in {deferred, None}
    PROVE  TypeOK'
<1>1. ScreenTyped' /\ TimersTyped' /\ TabsTyped'
  BY TypeOKIs DEF GlobalSolve, screen, tabs, ScreenTyped, TimersTyped, TabsTyped
<1>2. QED
  BY <1>1, RequestTyped, TypeOKIsNext DEF GlobalSolve, Kinds

LEMMA RibbonTyped ==
    ASSUME TypeOK, RibbonSolve2D \/ RibbonSolve3D
    PROVE  TypeOK'
<1>1. ScreenTyped' /\ TimersTyped' /\ TabsTyped'
  BY TypeOKIs DEF RibbonSolve2D, RibbonSolve3D, screen, tabs, ScreenTyped, TimersTyped, TabsTyped
<1>2. CASE RibbonSolve2D
  <2>1. CountersTyped'
    BY <1>2, TakeTyped, TypeOKIs DEF RibbonSolve2D
  <2>2. Input(asks') \in InputRecord /\ Asked("ribbon") \in JobRecord
    BY <2>1, InputTyped, AskedTyped, TypeOKIs DEF CountersTyped, ScreenTyped, Kinds
  <2>3. CASE Refused(Asked("ribbon"))
    BY <1>1, <2>1, <2>2, <2>3, UnsolvedTyped, TypeOKIsNext
  <2>4. CASE /\ Publish("2d", Input(asks'), Input(asks')) /\ newest' = "shown"
             /\ UNCHANGED <<engine, jobs, cache>>
    <3>1. StoreTyped'
      BY <2>2, <2>4, PublishTyped, TypeOKIs DEF StoreTyped, Outcomes, Dims
    <3>2. jobs' \subseteq JobRecord /\ MemoTyped' /\ EngineTyped'
      BY <2>4, EngineUntouched, TypeOKIs DEF MemoTyped
    <3>3. QED
      BY <1>1, <2>1, <3>1, <3>2, TypeOKIsNext
  <2>5. QED
    BY <1>2, <2>3, <2>4 DEF RibbonSolve2D
<1>3. CASE RibbonSolve3D
  BY <1>1, <1>3, RequestTyped, TypeOKIsNext DEF RibbonSolve3D, Kinds
<1>4. QED
  BY <1>2, <1>3

LEMMA ResumedTyped ==
    ASSUME TypeOK, NEW w \in awaiting
    PROVE  /\ w \in JobRecord
           /\ Resumed(w) \in JobRecord
           /\ Resumed(w).version = IF w.kind = "ribbon" THEN version ELSE w.version
           /\ Resumed(w).req = w.req /\ Resumed(w).kind = w.kind
           /\ Resumed(w).input = Input(w.input.ask)
           /\ Resumed(w).input.ask = w.input.ask
<1>1. w \in JobRecord /\ version \in Nat
  BY TypeOKIs DEF EngineTyped, ScreenTyped
<1>2. Input(w.input.ask) \in InputRecord
  BY <1>1, JobFields, InputTyped, TypeOKIs DEF ScreenTyped
<1> DEFINE at == [w EXCEPT !.version = IF w.kind = "ribbon" THEN version ELSE w.version]
<1>3. /\ at \in JobRecord
      /\ at.version = IF w.kind = "ribbon" THEN version ELSE w.version
      /\ at.req = w.req /\ at.kind = w.kind
  BY <1>1 DEF JobRecord
<1>4. Resumed(w) = [at EXCEPT !.input = Input(w.input.ask)]
  BY Zenon DEF Resumed
<1> HIDE DEF at
<1>5. ASSUME NEW j \in JobRecord, NEW input \in InputRecord
      PROVE  /\ [j EXCEPT !.input = input] \in JobRecord
             /\ [j EXCEPT !.input = input].input = input
             /\ [j EXCEPT !.input = input].version = j.version
             /\ [j EXCEPT !.input = input].req = j.req
             /\ [j EXCEPT !.input = input].kind = j.kind
  BY JobInputTyped
<1>6. /\ [at EXCEPT !.input = Input(w.input.ask)] \in JobRecord
      /\ [at EXCEPT !.input = Input(w.input.ask)].input = Input(w.input.ask)
      /\ [at EXCEPT !.input = Input(w.input.ask)].version = at.version
      /\ [at EXCEPT !.input = Input(w.input.ask)].req = at.req
      /\ [at EXCEPT !.input = Input(w.input.ask)].kind = at.kind
  BY <1>2, <1>3, <1>5, Zenon
<1>7. Input(w.input.ask).ask = w.input.ask
  BY DEF Input
<1>8. QED
  BY <1>1, <1>3, <1>4, <1>6, <1>7, Zenon

\* The engine starts or fails, and what waited for it goes on.
LEMMA EngineStaysTyped ==
    ASSUME TypeOK, EngineStarts \/ EngineFails \/ Waiters
    PROVE  TypeOK'
<1>1. ScreenTyped' /\ TimersTyped' /\ TabsTyped' /\ CountersTyped'
  BY TypeOKIs
     DEF EngineStarts, EngineFails, Waiters, Proceed, screen, tabs, ScreenTyped, TimersTyped,
         TabsTyped, CountersTyped
<1>2. jobs \subseteq JobRecord /\ StoreTyped /\ MemoTyped /\ EngineTyped /\ ScreenTyped
  BY TypeOKIs
<1>3. CASE EngineStarts \/ EngineFails
  <2>1. newest' \in Outcomes
    BY <1>2, <1>3 DEF EngineStarts, EngineFails, StoreTyped, Outcomes
  <2>2. jobs' \subseteq JobRecord /\ StoreTyped' /\ MemoTyped'
    BY <1>2, <1>3, <2>1 DEF EngineStarts, EngineFails, StoreTyped, MemoTyped, store
  <2>3. EngineTyped'
    BY <1>2, <1>3 DEF EngineStarts, EngineFails, EngineTyped
  <2>4. QED
    BY <1>1, <2>2, <2>3, TypeOKIsNext
<1>4. ASSUME NEW w \in awaiting, Proceed(w) PROVE TypeOK'
  <2>1. Resumed(w) \in JobRecord
    BY ResumedTyped
  <2>2. EngineTyped'
    BY <1>2, <1>4 DEF Proceed, EngineTyped
  <2>3. CASE UNCHANGED <<store, cache>> /\ newest' \in {newest, "failed"}
             /\ jobs' \subseteq jobs \cup {Resumed(w)}
    <3>1. jobs' \subseteq JobRecord /\ StoreTyped' /\ MemoTyped'
      BY <1>2, <2>1, <2>3 DEF StoreTyped, MemoTyped, store, Outcomes
    <3>2. QED
      BY <1>1, <2>2, <3>1, TypeOKIsNext
  <2>4. CASE Start(Resumed(w), jobs)
    BY <1>1, <1>2, <2>1, <2>2, <2>4, StartTyped, TypeOKIsNext DEF ScreenTyped
  <2>5. QED
    BY <1>4, <2>3, <2>4 DEF Proceed
<1>5. QED
  BY <1>3, <1>4 DEF Waiters

LEMMA WorkersTyped ==
    ASSUME TypeOK, NEW j \in jobs, JobDone(j) \/ JobFails(j) \/ FallBack(j)
    PROVE  TypeOK'
<1>1. j \in JobRecord /\ jobs \ {j} \subseteq JobRecord
      /\ StoreTyped /\ MemoTyped /\ CountersTyped /\ ScreenTyped
  BY TypeOKIs
<1>2. ScreenTyped' /\ TimersTyped' /\ TabsTyped' /\ CountersTyped'
  BY TypeOKIs
     DEF JobDone, JobFails, FallBack, screen, tabs, ScreenTyped, TimersTyped, TabsTyped,
         CountersTyped
<1> EngineTyped'
  BY EngineUntouched DEF JobDone, JobFails, FallBack
<1>3. CASE JobDone(j)
  <2>1. jobs' = jobs \ {j} /\ Deliver(j, j.input)
        /\ cache' = IF j.combined THEN cache ELSE Cached(j.dim, j.input)
    BY <1>3 DEF JobDone
  <2>2. MemoTyped'
    <3>1. [key |-> Key(j.dim, j.input), seen |-> j.input.seen] \in MemoRecord
      BY <1>1, JobFields, MemoEntryTyped
    <3>2. Cached(j.dim, j.input) \in Seq(MemoRecord) /\ Len(Cached(j.dim, j.input)) <= CacheMax
      BY <1>1, <3>1, CachedStays DEF MemoTyped
    <3>3. QED
      BY <1>1, <2>1, <3>2 DEF MemoTyped
  <2>3. CASE isStale(j)
    BY <1>1, <1>2, <2>1, <2>2, <2>3, TypeOKIsNext DEF Deliver, store, StoreTyped
  <2>4. CASE ~isStale(j)
    <3>1. Publish(j.dim, j.input, CombinedWith(j))
          /\ newest' \in {"shown", newest}
      BY <2>1, <2>4 DEF Deliver
    <3>2. StoreTyped'
      BY <1>1, <3>1, JobFields, CombinedWithTyped, PublishTyped
         DEF StoreTyped, ScreenTyped, Outcomes
    <3>3. QED
      BY <1>1, <1>2, <2>1, <2>2, <3>2, TypeOKIsNext
  <2>5. QED
    BY <2>3, <2>4
<1>4. CASE JobFails(j)
  <2>1. jobs' \subseteq JobRecord /\ StoreTyped' /\ MemoTyped'
    BY <1>1, <1>4 DEF JobFails, StoreTyped, MemoTyped, store, Outcomes
  <2>2. QED
    BY <1>2, <2>1, TypeOKIsNext
<1>5. CASE FallBack(j)
  <2>1. Attempt([j EXCEPT !.combined = FALSE, !.input = Input(j.input.ask)], jobs \ {j})
    BY <1>5, Zenon DEF FallBack
  <2>2. [j EXCEPT !.combined = FALSE, !.input = Input(j.input.ask)] \in JobRecord
    BY <1>1, JobFields, InputTyped, JobInputTyped DEF ScreenTyped
  <2>3. jobs' \subseteq JobRecord /\ StoreTyped' /\ MemoTyped'
    BY <1>1, <2>1, <2>2, AttemptTyped DEF ScreenTyped
  <2>4. QED
    BY <1>2, <2>3, TypeOKIsNext
<1>6. QED
  BY <1>3, <1>4, <1>5

LEMMA BlankTyped == Blank \in TabRecord /\ (TypeOK => Captured \in TabRecord)
<1>1. Blank \in TabRecord
  BY ContentsAssumption DEF Blank, TabRecord, Dims
<1>2. ASSUME TypeOK PROVE Captured \in TabRecord
  <2>1. (results # Nothing) \in BOOLEAN
    OBVIOUS
  <2>2. QED
    BY <1>2, <2>1, TypeOKIs DEF Captured, TabRecord, ScreenTyped
<1>3. QED
  BY <1>1, <1>2

\* restoreState, with what the tab that is shown had captured.
LEMMA RestoreStateTyped ==
    ASSUME TypeOK, NEW t \in Tabs, NEW entry \in TabRecord, RestoreState(t, entry), EffectDuringSwitch
    PROVE  /\ ScreenTyped' /\ TimersTyped' /\ CountersTyped' /\ jobs' \subseteq JobRecord
           /\ StoreTyped' /\ EngineTyped' /\ MemoTyped' /\ deferred' \in Tabs \cup {None}
<1>1. ScreenTyped' /\ TimersTyped' /\ CountersTyped' /\ jobs' \subseteq JobRecord /\ MemoTyped'
      /\ deferred' \in Tabs \cup {None}
  <2>1. ScreenTyped'
    BY TypeOKIs DEF RestoreState, TabRecord, ScreenTyped
  <2>2. TimersTyped'
    BY DEF EffectDuringSwitch, TimersTyped
  <2>3. QED
    BY <2>1, <2>2, TypeOKIs DEF RestoreState, CountersTyped, MemoTyped
<1>2. StoreTyped' /\ EngineTyped'
  BY ClearTyped, EngineUntouched DEF RestoreState
<1>3. QED
  BY <1>1, <1>2

LEMMA TabsStayTyped ==
    ASSUME TypeOK, NEW t \in Tabs, SwitchTab(t) \/ CreateTab(t) \/ CloseTab(t)
    PROVE  TypeOK'
<1>1. active \in Tabs /\ active \in open /\ open \subseteq Tabs
      /\ saved \in [Tabs -> TabRecord] /\ deferred \in Tabs \cup {None}
  BY TypeOKIs DEF TabsTyped
<1>2. Blank \in TabRecord /\ Captured \in TabRecord
  BY BlankTyped
<1>3. CASE SwitchTab(t)
  <2>1. active' \in open' /\ open' \subseteq Tabs /\ saved' \in [Tabs -> TabRecord]
    BY <1>1, <1>2, <1>3 DEF SwitchTab
  <2>2. saved[t] \in TabRecord /\ RestoreState(t, saved[t]) /\ EffectDuringSwitch
    BY <1>1, <1>3 DEF SwitchTab
  <2>3. QED
    BY <2>1, <2>2, RestoreStateTyped, TypeOKIsNext DEF TabsTyped
<1>4. CASE CreateTab(t)
  <2>1. TabsTyped'
    BY <1>1, <1>2, <1>4 DEF CreateTab, TabsTyped
  <2>2. ScreenTyped' /\ TimersTyped' /\ CountersTyped' /\ jobs' \subseteq JobRecord /\ MemoTyped'
    <3>1. ScreenTyped'
      BY <1>4, TypeOKIs, ContentsAssumption DEF CreateTab, ScreenTyped
    <3>2. TimersTyped'
      BY <1>4, <3>1 DEF CreateTab, Effect, ScreenTyped, TimersTyped
    <3>3. QED
      BY <1>4, <3>1, <3>2, TypeOKIs DEF CreateTab, CountersTyped, MemoTyped
  <2>3. StoreTyped' /\ EngineTyped'
    BY <1>4, ClearTyped, EngineUntouched DEF CreateTab
  <2>4. QED
    BY <2>1, <2>2, <2>3, TypeOKIsNext
<1>5. CASE CloseTab(t) /\ t # active
  <2>1. TabsTyped'
    BY <1>1, <1>2, <1>5 DEF CloseTab, TabsTyped
  <2>2. EngineTyped'
    BY <1>5, EngineUntouched DEF CloseTab
  <2>3. QED
    BY <1>5, <2>1, <2>2, TypeOKIs, TypeOKIsNext
       DEF CloseTab, screen, store, ScreenTyped, TimersTyped, CountersTyped, StoreTyped, MemoTyped
<1>6. CASE CloseTab(t) /\ t = active
  <2>1. PICK u \in open \ {t} :
           /\ active' = u /\ open' = open \ {t}
           /\ saved' = [saved EXCEPT ![u] = Blank]
           /\ RestoreState(u, saved[u])
           /\ EffectDuringSwitch
    BY <1>6 DEF CloseTab
  <2>2. active' \in open' /\ open' \subseteq Tabs /\ saved' \in [Tabs -> TabRecord]
    BY <1>1, <1>2, <2>1
  <2>3. u \in Tabs /\ saved[u] \in TabRecord
    BY <1>1, <2>1
  <2>4. QED
    BY <2>1, <2>2, <2>3, RestoreStateTyped, TypeOKIsNext DEF TabsTyped
<1>7. QED
  BY <1>3, <1>4, <1>5, <1>6

LEMMA InitTyped == Init => TypeOK
<1> SUFFICES ASSUME Init PROVE TypeOK
  OBVIOUS
<1>1. FirstTab \in Tabs
  BY ContentsAssumption DEF FirstTab
<1>2. ScreenTyped /\ TimersTyped /\ CountersTyped /\ jobs \subseteq JobRecord
  BY DEF Init, ScreenTyped, TimersTyped, CountersTyped
<1>3. StoreTyped /\ MemoTyped /\ EngineTyped
  BY OptionsAssumption, EmptySeq DEF Init, Nothing, StoreTyped, MemoTyped, EngineTyped, Outcomes
<1>4. TabsTyped
  BY <1>1, BlankTyped DEF Init, TabsTyped
<1>5. QED
  BY <1>2, <1>3, <1>4, TypeOKIs

LEMMA StutterTyped == TypeOK /\ UNCHANGED vars => TypeOK'
<1> SUFFICES ASSUME TypeOK, UNCHANGED vars PROVE TypeOK'
  OBVIOUS
<1>1. ScreenTyped' /\ TimersTyped' /\ CountersTyped' /\ jobs' \subseteq JobRecord
  BY TypeOKIs DEF vars, screen, ScreenTyped, TimersTyped, CountersTyped
<1>2. StoreTyped' /\ EngineTyped' /\ MemoTyped' /\ TabsTyped'
  BY TypeOKIs, EngineUntouched DEF vars, store, tabs, StoreTyped, MemoTyped, TabsTyped
<1>3. QED
  BY <1>1, <1>2, TypeOKIsNext

LEMMA NextTyped ==
    ASSUME TypeOK, [Next]_vars
    PROVE  TypeOK'
<1>1. ASSUME NEW c \in Contents, Edit(c) \/ PlaneSwitch(c) PROVE TypeOK'
  BY <1>1, EditTyped, SettingsTyped
<1>2. ASSUME SetMode \/ ToggleWeight \/ ToggleLive PROVE TypeOK'
  BY <1>2, SettingsTyped, ContentsAssumption
<1>3. ASSUME SolveEvent \/ DeferredSolve PROVE TypeOK'
  BY <1>3, GlobalSolveTyped DEF SolveEvent, DeferredSolve
<1>4. ASSUME RibbonSolve2D \/ RibbonSolve3D PROVE TypeOK'
  BY <1>4, RibbonTyped
<1>5. ASSUME NEW t \in Tabs, SwitchTab(t) \/ CreateTab(t) \/ CloseTab(t) PROVE TypeOK'
  BY <1>5, TabsStayTyped
<1>6. ASSUME LiveCalc PROVE TypeOK'
  BY <1>6, LiveCalcTyped
<1>7. ASSUME Workers PROVE TypeOK'
  BY <1>7, WorkersTyped DEF Workers
<1>8. ASSUME EngineStarts \/ EngineFails \/ Waiters PROVE TypeOK'
  BY <1>8, EngineStaysTyped
<1>9. CASE UNCHANGED vars
  BY <1>9, StutterTyped
<1>10. QED
  BY <1>1, <1>2, <1>3, <1>4, <1>5, <1>6, <1>7, <1>8, <1>9 DEF Next, User

-----------------------------------------------------------------------------
(***************************************************************************)
(* What is shown is of the model on screen.                                *)
(***************************************************************************)

\* An entry of the memo was computed from the model of its own key.
SoundMemo == {e \in MemoRecord : e.seen = e.key.model}

\* A job whose version is still current was taken from the model on screen.
OfItsVersion(j) ==
    /\ j.version <= version
    /\ j.version = version => j.input.model = model
    /\ j.input.seen = j.input.model

ModelInv ==
    /\ \A j \in jobs : OfItsVersion(j)
    /\ \A w \in awaiting : w.version <= version
    /\ cache \in Seq(SoundMemo)
    /\ ResultsMatchModel

LEMMA ClearDescribes == Clear => ResultsMatchModel'
  BY DEF Clear, Nothing, ResultsMatchModel, Describes

LEMMA PublishDescribes ==
    ASSUME StoreTyped, ResultsMatchModel, model' = model, NEW d \in Dims,
           NEW input, NEW combined, Describes(input), Describes(combined),
           Publish(d, input, combined)
    PROVE  ResultsMatchModel'
<1>1. ASSUME NEW e \in Dims
      PROVE  results'[e] \in {results[e], input} /\ combos'[e] \in {combos[e], combined, None}
  BY <1>1 DEF Publish, StoreTyped
<1>2. \A e \in Dims : Describes(results[e]) /\ Describes(combos[e])
  BY DEF ResultsMatchModel
<1>3. Describes(None)
  BY DEF Describes
<1>4. ASSUME NEW e \in Dims PROVE Describes(results'[e]) /\ Describes(combos'[e])
  BY <1>1, <1>2, <1>3
<1>5. QED
  BY <1>4 DEF ResultsMatchModel, Describes

LEMMA CombinedDescribes ==
    ASSUME NEW j, Describes(j.input)
    PROVE  Describes(CombinedWith(j))
<1>1. \A a : Describes(Input(a)) /\ Describes(None)
  BY DEF Describes, Input
<1>2. QED
  BY <1>1 DEF CombinedWith

\* The model on screen is the same, and what is shown is kept or cleared.
LEMMA ScreenKept ==
    ASSUME TypeOK, ModelInv, model' = model, version' = version, jobs' \subseteq jobs,
           \A w \in awaiting' : w \in awaiting \/ w.version = version,
           cache' \in Seq(SoundMemo), UNCHANGED store \/ Clear
    PROVE  ModelInv'
<1>1. \A j \in jobs' : OfItsVersion(j)'
  BY DEF ModelInv, OfItsVersion
<1>2. \A w \in awaiting' : w.version <= version'
  BY TypeOKIs DEF ModelInv, ScreenTyped
<1>3. ResultsMatchModel'
  BY ClearDescribes DEF ModelInv, ResultsMatchModel, Describes, store
<1>4. QED
  BY <1>1, <1>2, <1>3 DEF ModelInv

\* Another model comes under a new version: every job in flight is of an older one.
LEMMA ScreenReplaced ==
    ASSUME TypeOK, ModelInv, version' = version + 1, UNCHANGED <<engine, jobs, cache>>, Clear
    PROVE  ModelInv'
<1>1. version \in Nat /\ jobs \subseteq JobRecord /\ awaiting \subseteq JobRecord
  BY TypeOKIs DEF ScreenTyped, EngineTyped
<1>2. ASSUME NEW j \in jobs PROVE OfItsVersion(j)'
  <2>1. j.version \in Nat /\ j.version <= version /\ j.input.seen = j.input.model
    BY <1>1, JobFields DEF ModelInv, OfItsVersion
  <2>2. j.version <= version' /\ j.version # version'
    BY <1>1, <2>1
  <2>3. QED
    BY <2>1, <2>2 DEF OfItsVersion
<1>3. ASSUME NEW w \in awaiting PROVE w.version <= version'
  <2>1. w.version \in Nat /\ w.version <= version
    BY <1>1, JobFields DEF ModelInv
  <2>2. QED
    BY <1>1, <2>1
<1>4. QED
  BY <1>2, <1>3, ClearDescribes DEF ModelInv, engine

\* A single solve of the model on screen, answered from the memo or posted.
LEMMA AttemptSound ==
    ASSUME TypeOK, ModelInv, model' = model, version' = version,
           awaiting' \subseteq awaiting,
           NEW j \in JobRecord, OfItsVersion(j), j.input.model = model,
           NEW others \in SUBSET jobs, Attempt(j, others)
    PROVE  ModelInv'
<1>1. StoreTyped /\ MemoTyped
  BY TypeOKIs
<1>2. CASE Entries(j.dim, j.input) = {}
  <2>1. jobs' = others \cup {j} /\ UNCHANGED <<store, cache>>
    BY <1>2 DEF Attempt
  <2>2. \A i \in jobs' : OfItsVersion(i)
    BY <2>1 DEF ModelInv
  <2>3. QED
    BY <2>1, <2>2 DEF ModelInv, OfItsVersion, ResultsMatchModel, Describes, store
<1>3. CASE Entries(j.dim, j.input) # {}
  <2>1. /\ jobs' = others
        /\ cache' = Touched(j.dim, j.input)
        /\ Publish(j.dim, [j.input EXCEPT !.seen = Last(cache').seen], CombinedWith(j))
    BY <1>3 DEF Attempt
  <2>2. /\ cache' \in Seq(SoundMemo)
        /\ Last(cache') \in SoundMemo
        /\ Last(cache').key = Key(j.dim, j.input)
    BY <1>1, <1>3, <2>1, TouchedStays DEF ModelInv, MemoTyped
  <2>3. Last(cache').seen = model /\ model \in Contents
    BY <2>2, TypeOKIs DEF SoundMemo, Key, ScreenTyped
  <2>4. Describes([j.input EXCEPT !.seen = Last(cache').seen])
    BY <2>3, JobFields, SeenTyped DEF Describes
  <2>5. Describes(CombinedWith(j))
    BY CombinedDescribes DEF Describes, OfItsVersion
  <2>6. ResultsMatchModel'
    BY <1>1, <2>1, <2>4, <2>5, JobFields, PublishDescribes DEF ModelInv
  <2>7. QED
    BY <2>1, <2>2, <2>6 DEF ModelInv, OfItsVersion
<1>4. QED
  BY <1>2, <1>3

LEMMA StartSound ==
    ASSUME TypeOK, ModelInv, model' = model, version' = version, awaiting' \subseteq awaiting,
           NEW j \in JobRecord, OfItsVersion(j), j.input.model = model,
           NEW others \in SUBSET jobs, Start(j, others)
    PROVE  ModelInv'
<1>1. CASE j.combined
  <2>1. jobs' = others \cup {j} /\ UNCHANGED <<store, cache>>
    BY <1>1 DEF Start
  <2>2. \A i \in jobs' : OfItsVersion(i)
    BY <2>1 DEF ModelInv
  <2>3. QED
    BY <2>1, <2>2 DEF ModelInv, OfItsVersion, ResultsMatchModel, Describes, store
<1>2. CASE ~j.combined
  BY <1>2, AttemptSound DEF Start
<1>3. QED
  BY <1>1, <1>2

LEMMA RequestSound ==
    ASSUME TypeOK, ModelInv, NEW kind \in Kinds, Request(kind), UNCHANGED screen
    PROVE  ModelInv'
<1>1. seq' \in Nat /\ asks' \in Nat
  BY RequestTyped DEF CountersTyped
<1>2. Asked(kind) \in JobRecord /\ Asked(kind).version = version
      /\ Asked(kind).input = Input(asks')
  BY <1>1, AskedTyped, TypeOKIs
<1>3. OfItsVersion(Asked(kind)) /\ Asked(kind).input.model = model
  BY <1>2, TypeOKIs DEF OfItsVersion, Input, ScreenTyped
<1>4. model' = model /\ version' = version
  BY DEF screen
<1>5. CASE Postponed(Asked(kind)) \/ Refused(Asked(kind))
  <2>1. UNCHANGED <<jobs, store, cache>> /\ awaiting' \subseteq awaiting \cup {Asked(kind)}
    BY <1>5 DEF Postponed, Refused
  <2>2. \A w \in awaiting' : w \in awaiting \/ w.version = version
    BY <1>2, <2>1
  <2>3. QED
    BY <1>4, <2>1, <2>2, ScreenKept DEF ModelInv
<1>6. CASE Start(Asked(kind), jobs) /\ UNCHANGED engine
  BY <1>2, <1>3, <1>4, <1>6, StartSound DEF engine
<1>7. QED
  BY <1>5, <1>6 DEF Request

\* The live calculation, the Solve event and the ribbon, of a model with elements or not.
LEMMA SolvesSound ==
    ASSUME TypeOK, ModelInv, LiveCalc \/ GlobalSolve \/ RibbonSolve2D \/ RibbonSolve3D
    PROVE  ModelInv'
<1>1. UNCHANGED screen
  BY DEF LiveCalc, GlobalSolve, RibbonSolve2D, RibbonSolve3D
<1>2. CASE \E kind \in Kinds : Request(kind)
  BY <1>1, <1>2, RequestSound
<1>3. CASE UNCHANGED <<awaiting, jobs, store, cache>>
  BY <1>1, <1>3, ScreenKept DEF screen, ModelInv
<1>4. CASE /\ Publish("2d", Input(asks'), Input(asks'))
           /\ UNCHANGED <<engine, jobs, cache>>
  <2>1. Describes(Input(asks')) /\ "2d" \in Dims
    BY DEF Describes, Input, Dims
  <2>2. model' = model /\ version' = version
    BY <1>1 DEF screen
  <2>3. ResultsMatchModel'
    BY <1>4, <2>1, <2>2, PublishDescribes, TypeOKIs DEF ModelInv
  <2>4. QED
    BY <1>4, <2>2, <2>3 DEF ModelInv, OfItsVersion, engine
<1>5. QED
  BY <1>2, <1>3, <1>4
     DEF LiveCalc, GlobalSolve, RibbonSolve2D, RibbonSolve3D, Refused, Kinds, engine

\* The engine starts or fails, and what waited for it is solved as the project is now.
LEMMA EngineSound ==
    ASSUME TypeOK, ModelInv, EngineStarts \/ EngineFails \/ Waiters
    PROVE  ModelInv'
<1>1. model' = model /\ version' = version
  BY DEF EngineStarts, EngineFails, Waiters, Proceed, screen
<1>2. CASE EngineStarts \/ EngineFails
  BY <1>1, <1>2, ScreenKept DEF EngineStarts, EngineFails, ModelInv
<1>3. ASSUME NEW w \in awaiting, Proceed(w) PROVE ModelInv'
  <2>1. /\ Resumed(w) \in JobRecord /\ Resumed(w).input = Input(w.input.ask)
        /\ Resumed(w).version \in {version, w.version}
    BY ResumedTyped
  <2>2. w.version <= version /\ version \in Nat
    BY TypeOKIs DEF ModelInv, ScreenTyped
  <2>3. OfItsVersion(Resumed(w)) /\ Resumed(w).input.model = model
    BY <2>1, <2>2 DEF OfItsVersion, Input
  <2>4. awaiting' \subseteq awaiting
    BY <1>3 DEF Proceed
  <2>5. CASE UNCHANGED <<jobs, store, cache>>
    BY <1>1, <2>4, <2>5, ScreenKept DEF ModelInv
  <2>6. CASE jobs' = jobs \cup {Resumed(w)} /\ UNCHANGED <<store, cache>>
    <3>1. \A i \in jobs' : OfItsVersion(i)
      BY <2>3, <2>6 DEF ModelInv
    <3>2. QED
      BY <1>1, <2>4, <2>6, <3>1 DEF ModelInv, OfItsVersion, ResultsMatchModel, Describes, store
  <2>7. CASE Start(Resumed(w), jobs)
    BY <1>1, <2>1, <2>3, <2>4, <2>7, StartSound
  <2>8. QED
    BY <1>3, <2>5, <2>6, <2>7 DEF Proceed
<1>4. QED
  BY <1>2, <1>3 DEF Waiters

LEMMA WorkersSound ==
    ASSUME TypeOK, ModelInv, NEW j \in jobs, JobDone(j) \/ JobFails(j) \/ FallBack(j)
    PROVE  ModelInv'
<1>1. j \in JobRecord /\ jobs \ {j} \subseteq jobs /\ StoreTyped /\ MemoTyped
  BY TypeOKIs
<1>2. model' = model /\ version' = version /\ awaiting' = awaiting
  BY DEF JobDone, JobFails, FallBack, screen, engine
<1>3. OfItsVersion(j) /\ (~isStale(j) => j.input.model = model)
  BY DEF ModelInv, OfItsVersion, isStale
<1>4. CASE JobDone(j)
  <2>1. jobs' = jobs \ {j} /\ Deliver(j, j.input)
        /\ cache' = IF j.combined THEN cache ELSE Cached(j.dim, j.input)
    BY <1>4 DEF JobDone
  <2>2. cache' \in Seq(SoundMemo)
    <3>1. [key |-> Key(j.dim, j.input), seen |-> j.input.seen] \in SoundMemo
      BY <1>1, <1>3, JobFields, MemoEntryTyped DEF SoundMemo, Key, OfItsVersion
    <3>2. Cached(j.dim, j.input) \in Seq(SoundMemo)
      BY <1>1, <3>1, CachedStays DEF ModelInv, MemoTyped
    <3>3. QED
      BY <2>1, <3>2 DEF ModelInv
  <2>3. CASE isStale(j)
    BY <1>2, <2>1, <2>2, <2>3, ScreenKept DEF Deliver, store
  <2>4. CASE ~isStale(j)
    <3>1. Publish(j.dim, j.input, CombinedWith(j))
      BY <2>1, <2>4 DEF Deliver
    <3>2. Describes(j.input)
      BY <1>3, <2>4 DEF Describes, OfItsVersion
    <3>3. ResultsMatchModel'
      BY <1>1, <1>2, <3>1, <3>2, JobFields, CombinedDescribes, PublishDescribes DEF ModelInv
    <3>4. QED
      BY <1>2, <2>1, <2>2, <3>3 DEF ModelInv, OfItsVersion
  <2>5. QED
    BY <2>3, <2>4
<1>5. CASE JobFails(j)
  BY <1>1, <1>2, <1>5, ScreenKept DEF JobFails, ModelInv
<1>6. CASE FallBack(j)
  <2> DEFINE single == [j EXCEPT !.combined = FALSE, !.input = Input(j.input.ask)]
  <2>1. Attempt(single, jobs \ {j})
    BY <1>6, Zenon DEF FallBack
  <2>2. single \in JobRecord /\ single.input = Input(j.input.ask) /\ single.version = j.version
    BY <1>1, JobFields, InputTyped, JobInputTyped, TypeOKIs DEF ScreenTyped
  <2> HIDE DEF single
  <2>3. OfItsVersion(single) /\ single.input.model = model
    BY <1>3, <2>2 DEF OfItsVersion, Input
  <2>4. QED
    BY <1>2, <2>1, <2>2, <2>3, AttemptSound
<1>7. QED
  BY <1>4, <1>5, <1>6

LEMMA TabsSound ==
    ASSUME TypeOK, ModelInv, NEW t \in Tabs, SwitchTab(t) \/ CreateTab(t) \/ CloseTab(t)
    PROVE  ModelInv'
<1>1. \/ version' = version + 1 /\ UNCHANGED <<engine, jobs, cache>> /\ Clear
      \/ UNCHANGED <<screen, engine, jobs, store, cache>>
  BY DEF SwitchTab, CreateTab, CloseTab, RestoreState
<1>2. QED
  BY <1>1, ScreenReplaced, ScreenKept DEF screen, engine, ModelInv

LEMMA NextSound ==
    ASSUME ModelsKeepTheirVersion, TypeOK, ModelInv, [Next]_vars
    PROVE  ModelInv'
<1>1. ASSUME NEW c \in Contents, Edit(c) PROVE ModelInv'
  BY <1>1, ScreenReplaced DEF Edit, ModelsKeepTheirVersion
<1>2. ASSUME NEW c \in Contents, PlaneSwitch(c) PROVE ModelInv'
  <2>1. jobs' = {} /\ cache' = cache /\ Clear /\ awaiting' = awaiting /\ version' = version
    BY <1>2 DEF PlaneSwitch, ModelsKeepTheirVersion, engine
  <2>2. QED
    BY <2>1, ClearDescribes DEF ModelInv
<1>3. ASSUME SetMode \/ ToggleWeight \/ ToggleLive PROVE ModelInv'
  BY <1>3, ScreenKept DEF SetMode, ToggleWeight, ToggleLive, engine, ModelInv
<1>4. ASSUME SolveEvent \/ DeferredSolve \/ RibbonSolve2D \/ RibbonSolve3D \/ LiveCalc
      PROVE  ModelInv'
  BY <1>4, SolvesSound DEF SolveEvent, DeferredSolve
<1>5. ASSUME NEW t \in Tabs, SwitchTab(t) \/ CreateTab(t) \/ CloseTab(t) PROVE ModelInv'
  BY <1>5, TabsSound
<1>6. ASSUME Workers PROVE ModelInv'
  BY <1>6, WorkersSound DEF Workers
<1>7. ASSUME EngineStarts \/ EngineFails \/ Waiters PROVE ModelInv'
  BY <1>7, EngineSound
<1>8. CASE UNCHANGED vars
  BY <1>8, ScreenKept DEF vars, screen, engine, ModelInv
<1>9. QED
  BY <1>1, <1>2, <1>3, <1>4, <1>5, <1>6, <1>7, <1>8 DEF Next, User

LEMMA InitSound == Init => ModelInv
  BY EmptySeq DEF Init, Nothing, ModelInv, ResultsMatchModel, Describes

-----------------------------------------------------------------------------
(***************************************************************************)
(* The newest request wins.                                                *)
(***************************************************************************)

\* A job is of a request already made, and of a version already reached.
Past(j) == j.version <= version /\ j.req <= seq /\ j.input.ask <= asks

\* Two jobs that may both be current are of one request.
OfOneRequest(i, j) ==
    \/ i.input.ask = j.input.ask
    \/ i.kind # "ribbon" /\ j.kind # "ribbon" /\ i.req # j.req

NewestShown == \E d \in Dims : results[d] # None /\ results[d].ask = asks

Pending == jobs \cup awaiting

\* A solve goes on as another step of the same request.
SameRequest(k, j) ==
    /\ k.version = j.version /\ k.req = j.req /\ k.kind = j.kind
    /\ k.input.ask = j.input.ask

\* While the ribbon waits for the engine nothing else is asked, and nothing is shown.
RibbonWaitsAlone ==
    \A w \in awaiting : w.kind = "ribbon" =>
        jobs = {} /\ awaiting = {w} /\ newest # "shown"

NewestInv ==
    /\ \A j \in Pending : Past(j)
    /\ \A i, j \in Pending : OfOneRequest(i, j)
    /\ RibbonWaitsAlone
    /\ newest = "shown" => /\ NewestShown
                           /\ \A j \in Pending : isStale(j) \/ j.input.ask = asks

\* Nothing is requested, published or edited; solves may end, or go on.
LEMMA NewestKept ==
    ASSUME NewestInv, UNCHANGED <<version, seq, asks>>,
           \A k \in Pending' : \E j \in Pending : SameRequest(k, j),
           awaiting' \subseteq awaiting,
           jobs' = {} \/ \A w \in awaiting' : w.kind # "ribbon",
           UNCHANGED <<store, newest>> \/ newest' # "shown"
    PROVE  NewestInv'
<1>1. \A k \in Pending' : Past(k)'
  BY DEF NewestInv, Past, SameRequest
<1>2. \A k, l \in Pending' : OfOneRequest(k, l)'
  BY DEF NewestInv, OfOneRequest, SameRequest
<1>3. RibbonWaitsAlone'
  BY DEF NewestInv, RibbonWaitsAlone
<1>4. ASSUME newest' = "shown"
      PROVE  NewestShown' /\ \A k \in Pending' : isStale(k)' \/ k.input.ask = asks'
  <2>1. NewestShown'
    BY <1>4 DEF NewestInv, NewestShown, store
  <2>2. \A k \in Pending' : isStale(k)' \/ k.input.ask = asks'
    BY <1>4 DEF NewestInv, isStale, SameRequest
  <2>3. QED
    BY <2>1, <2>2
<1>5. QED
  BY <1>1, <1>2, <1>3, <1>4 DEF NewestInv

\* A new version, or requests counted without a solve: what was shown is no longer the
\* newest.  An edit in place keeps the requests of the jobs it reaches.
LEMMA NewestForgotten ==
    ASSUME TypeOK, TypeOK', NewestInv, version <= version', seq <= seq', asks <= asks',
           newest' # "shown",
           \A k \in jobs' : \E j \in jobs : SameRequest(k, j),
           awaiting' \subseteq awaiting
    PROVE  NewestInv'
<1>1. /\ {version, seq, asks, version', seq', asks'} \subseteq Nat
      /\ Pending \subseteq JobRecord
  BY DEF TypeOK, Pending
<1>2. \A k \in Pending' : \E j \in Pending : SameRequest(k, j)
  BY DEF Pending, SameRequest
<1>3. ASSUME NEW k \in Pending' PROVE Past(k)'
  <2>1. PICK j \in Pending : SameRequest(k, j)
    BY <1>2
  <2>2. j.version \in Nat /\ j.req \in Nat /\ j.input.ask \in Nat /\ Past(j)
    BY <1>1, JobFields DEF NewestInv
  <2>3. k.version <= version' /\ k.req <= seq' /\ k.input.ask <= asks'
    BY <1>1, <2>1, <2>2 DEF Past, SameRequest
  <2>4. QED
    BY <2>3 DEF Past
<1>4. ASSUME NEW k \in Pending', NEW l \in Pending' PROVE OfOneRequest(k, l)'
  <2>1. PICK i \in Pending : SameRequest(k, i)
    BY <1>2
  <2>2. PICK j \in Pending : SameRequest(l, j)
    BY <1>2
  <2>3. OfOneRequest(i, j)
    BY DEF NewestInv
  <2>4. QED
    BY <2>1, <2>2, <2>3 DEF OfOneRequest, SameRequest
<1>5. RibbonWaitsAlone'
  BY DEF NewestInv, RibbonWaitsAlone
<1>6. QED
  BY <1>3, <1>4, <1>5 DEF NewestInv

\* A solve that is current delivers the newest request, or what is shown is not it.
LEMMA DeliveryIsNewest ==
    ASSUME TypeOK, NewestInv, UNCHANGED <<version, seq, asks>>,
           NEW j \in Pending, ~isStale(j),
           \A k \in Pending' : \E i \in Pending : SameRequest(k, i),
           \A w \in awaiting' : w.kind # "ribbon",
           NEW d \in Dims, NEW input, input # None, input.ask = j.input.ask, NEW combined,
           Publish(d, input, combined),
           newest' = IF j.input.ask = asks' THEN "shown" ELSE newest
    PROVE  NewestInv'
<1>1. results \in [Dims -> InputRecord \cup {None}]
  BY TypeOKIs DEF StoreTyped
<1>2. results'[d] = input
  BY <1>1 DEF Publish
<1>3. \A k \in Pending' : Past(k)'
  BY DEF NewestInv, Past, SameRequest
<1>4. \A k, l \in Pending' : OfOneRequest(k, l)'
  BY DEF NewestInv, OfOneRequest, SameRequest
<1>5. ASSUME newest' = "shown"
      PROVE  NewestShown' /\ \A k \in Pending' : isStale(k)' \/ k.input.ask = asks'
  <2>1. j.input.ask = asks
    BY <1>5 DEF NewestInv
  <2>2. NewestShown'
    BY <1>1, <1>2, <2>1 DEF NewestShown
  <2>3. ASSUME NEW k \in Pending' PROVE isStale(k) \/ k.input.ask = asks
    <3>1. PICK i \in Pending : SameRequest(k, i)
      BY <2>3
    <3>2. OfOneRequest(i, j)
      BY DEF NewestInv
    <3>3. QED
      BY <2>1, <3>1, <3>2 DEF OfOneRequest, isStale, SameRequest
  <2>4. QED
    BY <2>2, <2>3 DEF isStale
<1>6. RibbonWaitsAlone'
  BY DEF RibbonWaitsAlone
<1>7. QED
  BY <1>3, <1>4, <1>5, <1>6 DEF NewestInv

\* A solve that starts is posted, or answered at once by the memo.
LEMMA StartShows ==
    ASSUME TypeOK, NEW j \in JobRecord, NEW others, Start(j, others),
           newest # "shown" \/ j.input.ask = asks'
    PROVE  /\ jobs' \subseteq others \cup {j}
           /\ newest' = "shown" => jobs' = others /\ NewestShown'
<1>1. CASE j.combined
  BY <1>1 DEF Start
<1>2. CASE ~j.combined /\ Entries(j.dim, j.input) = {}
  BY <1>2 DEF Start, Attempt
<1>3. CASE ~j.combined /\ Entries(j.dim, j.input) # {}
  <2> DEFINE input == [j.input EXCEPT !.seen = Last(cache').seen]
  <2>1. /\ jobs' = others /\ cache' = Touched(j.dim, j.input)
        /\ Publish(j.dim, input, CombinedWith(j))
        /\ newest' = IF j.input.ask = asks' THEN "shown" ELSE newest
    BY <1>3 DEF Start, Attempt
  <2>2. Last(cache') \in MemoRecord
    BY <1>3, <2>1, TouchedStays, TypeOKIs DEF MemoTyped
  <2>3. Last(cache').seen \in Contents
    BY <2>2 DEF MemoRecord
  <2>4. input \in InputRecord /\ input.ask = j.input.ask
    BY <2>3, JobFields, SeenTyped
  <2> HIDE DEF input
  <2>5. j.dim \in Dims /\ results'[j.dim] = input
    BY <2>1, JobFields, TypeOKIs DEF Publish, StoreTyped
  <2>6. ASSUME newest' = "shown" PROVE NewestShown'
    <3>1. j.input.ask = asks'
      BY <2>1, <2>6
    <3>2. QED
      BY <2>4, <2>5, <3>1, NoneAssumption DEF NewestShown
  <2>7. QED
    BY <2>1, <2>6
<1>4. QED
  BY <1>1, <1>2, <1>3

\* A current solve goes on as another step of its own request.
LEMMA StepIsNewest ==
    ASSUME TypeOK, NewestInv, UNCHANGED <<version, seq, asks>>,
           NEW i \in Pending, ~isStale(i), NEW j \in JobRecord, SameRequest(j, i),
           NEW others \in SUBSET jobs, Start(j, others),
           awaiting' \subseteq awaiting, \A w \in awaiting' : w.kind # "ribbon"
    PROVE  NewestInv'
<1>1. ASSUME jobs' \subseteq others \cup {j}
      PROVE  \A k \in Pending' : \E l \in Pending : SameRequest(k, l)
  BY <1>1 DEF Pending, SameRequest
<1>2. CASE j.combined \/ Entries(j.dim, j.input) = {}
  <2>1. /\ jobs' = others \cup {j} /\ UNCHANGED store
        /\ newest' = IF j.input.ask = asks' THEN "asked" ELSE newest
    BY <1>2 DEF Start, Attempt
  <2>2. UNCHANGED <<store, newest>> \/ newest' # "shown"
    BY <2>1
  <2>3. QED
    BY <1>1, <2>1, <2>2, NewestKept
<1>3. CASE ~j.combined /\ Entries(j.dim, j.input) # {}
  <2> DEFINE input == [j.input EXCEPT !.seen = Last(cache').seen]
  <2>1. /\ jobs' = others /\ cache' = Touched(j.dim, j.input)
        /\ Publish(j.dim, input, CombinedWith(j))
        /\ newest' = IF j.input.ask = asks' THEN "shown" ELSE newest
    BY <1>3 DEF Start, Attempt
  <2>2. Last(cache') \in MemoRecord
    BY <1>3, <2>1, TouchedStays, TypeOKIs DEF MemoTyped
  <2>3. Last(cache').seen \in Contents
    BY <2>2 DEF MemoRecord
  <2>4. input \in InputRecord /\ input.ask = j.input.ask
    BY <2>3, JobFields, SeenTyped
  <2> HIDE DEF input
  <2>5. input # None /\ j.dim \in Dims /\ j.input.ask = i.input.ask
    BY <2>4, JobFields, NoneAssumption DEF SameRequest
  <2>6. QED
    BY <1>1, <2>1, <2>4, <2>5, DeliveryIsNewest
<1>4. QED
  BY <1>2, <1>3

\* A request of a kind: every solve in flight or waiting is of an older one.
LEMMA RequestNewest ==
    ASSUME RibbonAlone, TypeOK, NewestInv, NEW kind \in Kinds, Request(kind), UNCHANGED screen
    PROVE  NewestInv'
<1> DEFINE j == Asked(kind)
<1>1. seq \in Nat /\ asks \in Nat /\ Pending \subseteq JobRecord /\ ScreenTyped
      /\ version' = version
  BY TypeOKIs DEF CountersTyped, EngineTyped, Pending, screen
<1>2. asks' = asks + 1 /\ seq' = IF kind = "ribbon" THEN seq ELSE seq + 1
  BY DEF Request, Take
<1>3. /\ j \in JobRecord /\ j.version = version /\ j.input.ask = asks'
      /\ j.kind = kind /\ j.req = seq'
  BY <1>1, <1>2, AskedTyped DEF Input
<1>4. ASSUME NEW i \in Pending
      PROVE  kind # "ribbon" /\ i.kind # "ribbon" /\ i.req < seq' /\ i.input.ask < asks'
             /\ i.version <= version
  <2>1. kind # "ribbon" /\ i.kind # "ribbon"
    BY DEF RibbonAlone, Request, Take, Pending
  <2>2. i.req \in Nat /\ i.input.ask \in Nat /\ Past(i)
    BY <1>1, JobFields DEF NewestInv
  <2>3. i.req <= seq /\ i.input.ask <= asks /\ i.version <= version
    BY <2>2 DEF Past
  <2>4. QED
    BY <1>1, <1>2, <2>1, <2>2, <2>3
<1>5. j.version <= version' /\ j.req <= seq' /\ j.input.ask <= asks'
  BY <1>1, <1>2, <1>3 DEF ScreenTyped
<1>6. /\ Pending' \subseteq Pending \cup {j} /\ RibbonWaitsAlone'
      /\ newest' = "shown" => Pending' \subseteq Pending /\ NewestShown'
  <2>1. CASE Postponed(j) \/ Refused(j)
    <3>1. jobs' = jobs /\ awaiting' \subseteq awaiting \cup {j} /\ newest' # "shown"
      BY <2>1 DEF Postponed, Refused
    <3>2. RibbonWaitsAlone'
      <4>1. ASSUME NEW w \in awaiting', w.kind = "ribbon"
            PROVE  jobs' = {} /\ awaiting' = {w}
        <5>1. w = j /\ kind = "ribbon"
          BY <1>3, <1>4, <3>1, <4>1 DEF Pending
        <5>2. Pending = {}
          BY <1>4, <5>1
        <5>3. QED
          BY <3>1, <5>1, <5>2 DEF Pending
      <4>2. QED
        BY <3>1, <4>1 DEF RibbonWaitsAlone
    <3>3. QED
      BY <3>1, <3>2 DEF Pending
  <2>2. CASE Start(j, jobs) /\ UNCHANGED engine
    <3>1. /\ jobs' \subseteq jobs \cup {j}
          /\ newest' = "shown" => jobs' = jobs /\ NewestShown'
      BY <1>3, <2>2, StartShows
    <3>2. awaiting' = awaiting
      BY <2>2 DEF engine
    <3>3. RibbonWaitsAlone'
      BY <1>4, <3>2 DEF RibbonWaitsAlone, Pending
    <3>4. QED
      BY <3>1, <3>2, <3>3 DEF Pending
  <2>3. QED
    BY <2>1, <2>2 DEF Request
<1> HIDE DEF j
<1>7. ASSUME NEW i \in Pending' PROVE Past(i)'
  <2>1. CASE i \in Pending
    <3>1. i.req \in Nat /\ i.input.ask \in Nat /\ seq' \in Nat /\ asks' \in Nat
      BY <1>1, <1>2, <2>1, JobFields
    <3>2. i.version <= version' /\ i.req <= seq' /\ i.input.ask <= asks'
      BY <1>1, <1>4, <2>1, <3>1
    <3>3. QED
      BY <3>2 DEF Past
  <2>2. CASE i = j
    BY <1>5, <2>2 DEF Past
  <2>3. QED
    BY <1>6, <2>1, <2>2
<1>8. ASSUME NEW i \in Pending', NEW k \in Pending' PROVE OfOneRequest(i, k)
  <2>1. ASSUME NEW l \in Pending PROVE l.kind # "ribbon" /\ j.kind # "ribbon" /\ l.req # j.req
    <3>1. l.req \in Nat /\ seq' \in Nat /\ l.req < seq'
      BY <1>1, <1>2, <1>4, <2>1, JobFields
    <3>2. QED
      BY <1>3, <1>4, <2>1, <3>1
  <2>2. i \in Pending \cup {j} /\ k \in Pending \cup {j}
    BY <1>6
  <2>3. CASE i \in Pending /\ k \in Pending
    BY <2>3 DEF NewestInv
  <2>4. CASE i = j \/ k = j
    BY <2>1, <2>2, <2>4 DEF OfOneRequest
  <2>5. QED
    BY <2>2, <2>3, <2>4
<1>9. ASSUME newest' = "shown", NEW i \in Pending' PROVE isStale(i)'
  <2>1. i \in Pending
    BY <1>6, <1>9
  <2>2. i.req \in Nat /\ seq' \in Nat /\ i.req < seq' /\ i.kind # "ribbon"
    BY <1>1, <1>2, <1>4, <2>1, JobFields
  <2>3. i.req # seq'
    BY <2>2
  <2>4. QED
    BY <2>2, <2>3 DEF isStale
<1>10. QED
  BY <1>6, <1>7, <1>8, <1>9 DEF NewestInv, OfOneRequest

LEMMA SolvesNewest ==
    ASSUME RibbonAlone, TypeOK, TypeOK', NewestInv,
           LiveCalc \/ GlobalSolve \/ RibbonSolve2D \/ RibbonSolve3D
    PROVE  NewestInv'
<1>1. UNCHANGED screen /\ seq \in Nat /\ asks \in Nat /\ version \in Nat
  BY TypeOKIs DEF LiveCalc, GlobalSolve, RibbonSolve2D, RibbonSolve3D, CountersTyped, ScreenTyped
<1>2. CASE \E kind \in Kinds : Request(kind)
  BY <1>1, <1>2, RequestNewest
<1>3. CASE UNCHANGED <<awaiting, jobs, store, newest, seq, asks>>
  <2>1. \A k \in Pending' : \E j \in Pending : SameRequest(k, j)
    BY <1>3 DEF Pending, SameRequest
  <2>2. jobs' = {} \/ \A w \in awaiting' : w.kind # "ribbon"
    BY <1>3 DEF NewestInv, RibbonWaitsAlone
  <2>3. QED
    BY <1>1, <1>3, <2>1, <2>2, NewestKept DEF screen
<1>4. CASE RibbonSolve2D
  <2>1. /\ Pending = {} /\ asks' = asks + 1
    BY <1>4 DEF RibbonSolve2D, Take, RibbonAlone, Pending
  <2>2. \/ Refused(Asked("ribbon"))
        \/ Publish("2d", Input(asks'), Input(asks')) /\ UNCHANGED <<engine, jobs>>
    BY <1>4 DEF RibbonSolve2D
  <2>3. Pending' = {} /\ awaiting' = {}
    BY <2>1, <2>2 DEF Refused, Pending, engine
  <2>4. CASE Refused(Asked("ribbon"))
    BY <2>3, <2>4 DEF Refused, NewestInv, RibbonWaitsAlone
  <2>5. CASE Publish("2d", Input(asks'), Input(asks'))
    <3>1. Input(asks') \in InputRecord /\ Input(asks').ask = asks' /\ "2d" \in Dims
      BY <1>1, <2>1, InputTyped, TypeOKIs DEF ScreenTyped, Input, Dims
    <3>2. results'["2d"] = Input(asks')
      BY <2>5, <3>1, TypeOKIs DEF Publish, StoreTyped
    <3>3. NewestShown'
      BY <3>1, <3>2, NoneAssumption DEF NewestShown
    <3>4. QED
      BY <2>3, <3>3 DEF NewestInv, RibbonWaitsAlone
  <2>6. QED
    BY <2>2, <2>4, <2>5
<1>5. QED
  BY <1>2, <1>3, <1>4 DEF LiveCalc, GlobalSolve, RibbonSolve3D, Kinds, engine

\* The engine starts or fails; what waited for it goes on under the request it has.
LEMMA EngineNewest ==
    ASSUME TypeOK, TypeOK', NewestInv, EngineStarts \/ EngineFails \/ Waiters
    PROVE  NewestInv'
<1>1. UNCHANGED <<version, seq, asks>> /\ awaiting' \subseteq awaiting
      /\ version \in Nat /\ Pending \subseteq JobRecord
  BY TypeOKIs DEF EngineStarts, EngineFails, Waiters, Proceed, screen, ScreenTyped, EngineTyped,
                  Pending
<1>2. CASE EngineStarts \/ EngineFails
  <2>1. jobs' = jobs /\ UNCHANGED store /\ (newest' = newest \/ newest' # "shown")
    BY <1>2 DEF EngineStarts, EngineFails
  <2>2. \A k \in Pending' : \E j \in Pending : SameRequest(k, j)
    BY <1>1, <2>1 DEF Pending, SameRequest
  <2>3. jobs' = {} \/ \A w \in awaiting' : w.kind # "ribbon"
    BY <1>1, <2>1 DEF NewestInv, RibbonWaitsAlone
  <2>4. QED
    BY <1>1, <2>1, <2>2, <2>3, NewestKept
<1>3. ASSUME NEW w \in awaiting, Proceed(w), w.kind # "ribbon" PROVE NewestInv'
  <2> DEFINE r == Resumed(w)
  <2>1. /\ r \in JobRecord /\ r.version = w.version /\ r.req = w.req /\ r.kind = w.kind
        /\ r.input.ask = w.input.ask /\ w \in Pending
    BY <1>3, ResumedTyped, Zenon DEF Pending
  <2>2. \A v \in awaiting' : v.kind # "ribbon"
    BY <1>1, <1>3 DEF NewestInv, RibbonWaitsAlone
  <2>3. SameRequest(r, w) /\ (isStale(w) <=> isStale(r))
    BY <2>1 DEF isStale, SameRequest
  <2> HIDE DEF r
  <2>4. ASSUME jobs' \subseteq jobs \cup {r}
        PROVE  \A k \in Pending' : \E j \in Pending : SameRequest(k, j)
    BY <1>1, <2>1, <2>3, <2>4 DEF Pending, SameRequest
  <2>5. CASE UNCHANGED <<jobs, store>> /\ (newest' = newest \/ newest' # "shown")
    BY <1>1, <2>2, <2>4, <2>5, NewestKept
  <2>6. CASE jobs' = jobs \cup {r} /\ UNCHANGED <<store, newest>>
    BY <1>1, <2>2, <2>4, <2>6, NewestKept
  <2>7. CASE ~isStale(r) /\ Start(r, jobs)
    BY <1>1, <2>1, <2>2, <2>3, <2>7, StepIsNewest
  <2>8. QED
    BY <1>3, <2>5, <2>6, <2>7 DEF Proceed, r
<1>4. ASSUME NEW w \in awaiting, Proceed(w), w.kind = "ribbon" PROVE NewestInv'
  <2> DEFINE r == Resumed(w)
  <2>1. /\ r \in JobRecord /\ r.version = version /\ r.kind = "ribbon" /\ r.req = w.req
        /\ r.input.ask = w.input.ask
    BY <1>4, ResumedTyped, Zenon
  <2>2. jobs = {} /\ awaiting = {w} /\ newest # "shown" /\ w \in Pending
    BY <1>4 DEF NewestInv, RibbonWaitsAlone, Pending
  <2>3. ~isStale(r)
    BY <2>1 DEF isStale
  <2>4. r.version <= version' /\ r.req <= seq' /\ r.input.ask <= asks'
    <3>1. Past(w)
      BY <2>2 DEF NewestInv
    <3>2. QED
      BY <1>1, <2>1, <3>1 DEF Past
  <2> HIDE DEF r
  <2>5. awaiting' = {} /\ (\/ jobs' = {} /\ newest' # "shown"
                           \/ Start(r, jobs))
    BY <1>4, <2>2, <2>3 DEF Proceed, r
  <2>6. jobs' \subseteq {r} /\ (newest' = "shown" => jobs' = {} /\ NewestShown')
    BY <2>1, <2>2, <2>5, StartShows
  <2>7. QED
    BY <2>4, <2>5, <2>6 DEF NewestInv, RibbonWaitsAlone, Pending, OfOneRequest, Past
<1>5. QED
  BY <1>2, <1>3, <1>4 DEF Waiters

LEMMA WorkersNewest ==
    ASSUME TypeOK, NewestInv, NEW j \in jobs, JobDone(j) \/ JobFails(j) \/ FallBack(j)
    PROVE  NewestInv'
<1>1. j \in JobRecord /\ j \in Pending /\ jobs \ {j} \in SUBSET jobs
  BY TypeOKIs DEF Pending
<1>2. UNCHANGED <<version, seq, asks>> /\ awaiting' = awaiting
  BY DEF JobDone, JobFails, FallBack, screen, engine
<1>3. j.input # None /\ \A w \in awaiting' : w.kind # "ribbon"
  BY <1>1, <1>2, JobFields, NoneAssumption DEF NewestInv, RibbonWaitsAlone
<1>4. ASSUME jobs' \subseteq jobs
      PROVE  \A k \in Pending' : \E i \in Pending : SameRequest(k, i)
  BY <1>2, <1>4 DEF Pending, SameRequest
<1>5. CASE JobDone(j)
  <2>1. jobs' = jobs \ {j} /\ Deliver(j, j.input)
    BY <1>5 DEF JobDone
  <2>2. CASE isStale(j)
    BY <1>2, <1>3, <1>4, <2>1, <2>2, NewestKept DEF Deliver
  <2>3. CASE ~isStale(j)
    <3>1. /\ Publish(j.dim, j.input, CombinedWith(j)) /\ j.dim \in Dims
          /\ newest' = IF j.input.ask = asks' THEN "shown" ELSE newest
      BY <1>1, <2>1, <2>3, JobFields DEF Deliver
    <3>2. QED
      BY <1>1, <1>2, <1>3, <1>4, <2>1, <2>3, <3>1, DeliveryIsNewest
  <2>4. QED
    BY <2>2, <2>3
<1>6. CASE JobFails(j)
  BY <1>2, <1>3, <1>4, <1>6, NewestKept DEF JobFails
<1>7. CASE FallBack(j)
  <2> DEFINE single == [j EXCEPT !.combined = FALSE, !.input = Input(j.input.ask)]
  <2>1. Attempt(single, jobs \ {j}) /\ ~isStale(j)
    BY <1>7, Zenon DEF FallBack
  <2>2. /\ single \in JobRecord /\ single.input = Input(j.input.ask)
        /\ single.version = j.version /\ single.req = j.req /\ single.kind = j.kind
        /\ ~single.combined
    BY <1>1, JobFields, InputTyped, JobInputTyped, TypeOKIs DEF ScreenTyped
  <2> HIDE DEF single
  <2>3. Start(single, jobs \ {j}) /\ SameRequest(single, j)
    BY <2>1, <2>2 DEF Start, SameRequest, Input
  <2>4. QED
    BY <1>1, <1>2, <1>3, <2>1, <2>2, <2>3, StepIsNewest
<1>8. QED
  BY <1>5, <1>6, <1>7

\* What solves and what waits is the same, and what is shown is kept or cleared.
LEMMA ScreenNewest ==
    ASSUME NewestInv, UNCHANGED <<version, seq, asks, jobs, engine>>,
           UNCHANGED <<store, newest>> \/ newest' # "shown"
    PROVE  NewestInv'
<1>1. awaiting' = awaiting /\ \A k \in Pending' : \E j \in Pending : SameRequest(k, j)
  BY DEF engine, Pending, SameRequest
<1>2. jobs' = {} \/ \A w \in awaiting' : w.kind # "ribbon"
  BY <1>1 DEF NewestInv, RibbonWaitsAlone
<1>3. QED
  BY <1>1, <1>2, NewestKept

LEMMA NextNewest ==
    ASSUME RibbonAlone, TypeOK, TypeOK', NewestInv, [Next]_vars
    PROVE  NewestInv'
<1>1. version \in Nat /\ seq \in Nat /\ asks \in Nat /\ jobs \subseteq JobRecord
  BY TypeOKIs DEF ScreenTyped, CountersTyped
<1>2. ASSUME NEW c \in Contents, Edit(c) PROVE NewestInv'
  <2>1. \A k \in jobs' : \E j \in jobs : SameRequest(k, j)
    BY <1>1, <1>2, ReachedJobs DEF Edit, SameRequest
  <2>2. /\ version <= version' /\ seq <= seq' /\ asks <= asks' /\ newest' # "shown"
        /\ awaiting' \subseteq awaiting
    BY <1>1, <1>2 DEF Edit, Clear, engine
  <2>3. jobs' = {} \/ \A w \in awaiting' : w.kind # "ribbon"
    BY <2>1, <2>2 DEF NewestInv, RibbonWaitsAlone
  <2>4. QED
    BY <2>1, <2>2, <2>3, NewestForgotten
<1>3. ASSUME NEW c \in Contents, SetMode \/ ToggleWeight \/ ToggleLive \/ PlaneSwitch(c)
      PROVE  NewestInv'
  <2>1. UNCHANGED <<version, seq, asks, jobs, engine>>
        /\ (UNCHANGED <<store, newest>> \/ newest' # "shown")
    BY <1>3 DEF SetMode, ToggleWeight, ToggleLive, PlaneSwitch, Clear
  <2>2. QED
    BY <2>1, ScreenNewest
<1>4. ASSUME SolveEvent \/ DeferredSolve \/ RibbonSolve2D \/ RibbonSolve3D \/ LiveCalc
      PROVE  NewestInv'
  BY <1>4, SolvesNewest DEF SolveEvent, DeferredSolve
<1>5. ASSUME NEW t \in Tabs, SwitchTab(t) \/ CreateTab(t) \/ CloseTab(t) PROVE NewestInv'
  <2>1. \/ /\ version' = version + 1 /\ UNCHANGED <<seq, asks, jobs, engine>>
           /\ newest' = "none"
        \/ UNCHANGED <<version, seq, asks, jobs, engine, store, newest>>
    BY <1>5 DEF SwitchTab, CreateTab, CloseTab, RestoreState, Clear, screen
  <2>2. CASE /\ version' = version + 1 /\ UNCHANGED <<seq, asks, jobs, engine>>
             /\ newest' = "none"
    <3>1. /\ version <= version' /\ seq <= seq' /\ asks <= asks' /\ awaiting' = awaiting
          /\ \A k \in jobs' : \E j \in jobs : SameRequest(k, j)
      BY <1>1, <2>2 DEF engine, SameRequest
    <3>2. jobs' = {} \/ \A w \in awaiting' : w.kind # "ribbon"
      BY <2>2, <3>1 DEF NewestInv, RibbonWaitsAlone
    <3>3. QED
      BY <2>2, <3>1, <3>2, NewestForgotten
  <2>3. QED
    BY <2>1, <2>2, ScreenNewest
<1>6. ASSUME Workers PROVE NewestInv'
  BY <1>6, WorkersNewest DEF Workers
<1>7. ASSUME EngineStarts \/ EngineFails \/ Waiters PROVE NewestInv'
  BY <1>7, EngineNewest
<1>8. CASE UNCHANGED vars
  BY <1>8, ScreenNewest DEF vars, screen
<1>9. QED
  BY <1>2, <1>3, <1>4, <1>5, <1>6, <1>7, <1>8, ContentsAssumption DEF Next, User

LEMMA InitNewest == Init => NewestInv
  BY DEF Init, NewestInv, Pending, RibbonWaitsAlone

-----------------------------------------------------------------------------
(***************************************************************************)
(* Theorems.                                                               *)
(***************************************************************************)

\* The stores of the session keep their shape, and the memo its limit.
THEOREM SessionTypeCorrect == Spec => []TypeOK
  BY InitTyped, NextTyped, PTL DEF Spec

\* Whatever solves were in flight, answered late, failed or found in the memo, what is
\* shown was computed from the model on screen (nextSolveGuard, solveCacheGet).
THEOREM ResultsAreOfTheModel ==
    ASSUME ModelsKeepTheirVersion
    PROVE  Spec => []ResultsMatchModel
<1>1. TypeOK /\ ModelInv /\ [Next]_vars => TypeOK' /\ ModelInv'
  BY NextTyped, NextSound
<1>2. ModelInv => ResultsMatchModel
  BY DEF ModelInv
<1>3. QED
  BY <1>1, <1>2, InitTyped, InitSound, PTL DEF Spec

\* Once the newest request has been shown, no late answer to an older one replaces it
\* (nextSolveGuard).
THEOREM NewestRequestStays ==
    ASSUME RibbonAlone
    PROVE  Spec => []NewestRequestWins
<1>1. TypeOK /\ NewestInv /\ [Next]_vars => TypeOK' /\ NewestInv'
  BY NextTyped, NextNewest
<1>2. NewestInv => NewestRequestWins
  BY DEF NewestInv, NewestShown, NewestRequestWins
<1>3. QED
  BY <1>1, <1>2, InitTyped, InitNewest, PTL DEF Spec

=============================================================================
