--------------------------- MODULE PipelineProofs ---------------------------
(* What the pool and one verification guarantee.                             *)
EXTENDS Pipeline, FiniteSetTheorems, TLAPS

-----------------------------------------------------------------------------
(* What IndexedPool guarantees for every slice length, every Jobs and every  *)
(* fallback width.  TypeOK and the safety properties are not inductive by    *)
(* themselves: that every slot is full after wg.Wait needs to know where the *)
(* index of an empty slot is (not sent yet, or held by exactly one busy      *)
(* worker), and that the WaitGroup counts exactly the workers that still     *)
(* run.  IInv says both.                                                     *)

Running == {w \in Workers : worker[w] \in {"ready", "busy"}}

\* What the position of the main goroutine says about the workers.
Staged ==
    /\ main = "spawn" => next = 0 /\ \A w \in Workers : worker[w] \in {"unborn", "ready"}
    /\ main # "spawn" => \A w \in Workers : worker[w] # "unborn"
    /\ main \in {"spawn", "feed"} => \A w \in Workers : worker[w] # "gone"
    /\ main \in {"wait", "merge", "done"} => next = N
    /\ main \in {"merge", "done"} => \A w \in Workers : worker[w] = "gone"

\* Every index is unsent with an empty slot, or held by a busy worker, or done.
Handed ==
    /\ \A i \in Items : slot[i] \in {i, Nothing}
    /\ \A i \in Items : i >= next => slot[i] = Nothing
    /\ \A i \in Items : i < next =>
          slot[i] = i \/ \E w \in Workers : worker[w] = "busy" /\ holds[w] = i
    /\ \A w \in Workers : worker[w] = "busy" => holds[w] \in Items /\ holds[w] < next

Collected ==
    /\ main \notin {"merge", "done"} => merged = <<>>
    /\ Len(merged) <= N
    /\ \A k \in 1 .. Len(merged) : merged[k] = k - 1
    /\ main = "done" => Len(merged) = N

IInv ==
    /\ TypeOK
    /\ group = Cardinality(Running)
    /\ Staged
    /\ Handed
    /\ SlotHasOneWriter
    /\ Collected

----------------------------------------------------------------------------

\* The width is a natural number, and a pool over a non-empty slice has a
\* worker: no send of the main goroutine can be without a receiver.
LEMMA WidthFits ==
    /\ Width \in Nat
    /\ Width <= N
    /\ N > 0 => Width > 0
BY PoolAssumption DEF Width

LEMMA WorkersFinite == IsFiniteSet(Workers) /\ Cardinality(Workers) = Width
BY WidthFits, FS_Interval DEF Workers

\* The WaitGroup never counts more than the goroutines there are.
LEMMA RunningBounded ==
    /\ IsFiniteSet(Running)
    /\ Cardinality(Running) \in 0 .. Width
<1>1. Running \subseteq Workers
  BY DEF Running
<1>2. IsFiniteSet(Running) /\ Cardinality(Running) <= Width
  BY <1>1, WorkersFinite, FS_Subset
<1> QED
  BY <1>2, WidthFits, FS_CardinalityType

LEMMA InitEstablishes == Init => IInv
<1> SUFFICES ASSUME Init PROVE IInv
  OBVIOUS
<1>1. Running = {}
  BY DEF Init, Running
<1>2. TypeOK
  BY PoolAssumption, WidthFits DEF Init, TypeOK, Items, Nothing
<1>3. group = Cardinality(Running)
  BY <1>1, FS_EmptySet DEF Init
<1>4. Staged /\ SlotHasOneWriter /\ Collected
  BY PoolAssumption DEF Init, Staged, SlotHasOneWriter, Collected
<1>5. Handed
  BY PoolAssumption DEF Init, Handed, Items, Nothing
<1> QED
  BY <1>2, <1>3, <1>4, <1>5 DEF IInv

LEMMA NextPreserves == IInv /\ [Next]_vars => IInv'
<1> SUFFICES ASSUME IInv, [Next]_vars PROVE IInv'
  OBVIOUS
<1> USE PoolAssumption
<1>t. TypeOK /\ group = Cardinality(Running) /\ Staged /\ Handed /\ SlotHasOneWriter /\ Collected
  BY DEF IInv
\* It is enough that the counter stays the number of running workers: its
\* bounds follow from RunningBounded.
<1>g. (Running \in SUBSET Workers)'
  BY DEF Running
<1>h. IsFiniteSet(Running') /\ Cardinality(Running') \in 0 .. Width
  <2>1. IsFiniteSet(Running') /\ Cardinality(Running') <= Width
    BY <1>g, WorkersFinite, FS_Subset DEF Workers, Width
  <2> QED
    BY <2>1, WidthFits, FS_CardinalityType
<1>1. ASSUME NEW w \in Workers, Spawn(w) PROVE IInv'
  <2>1. Running' = Running \cup {w} /\ w \notin Running
    BY <1>1, <1>t DEF Spawn, Running, TypeOK
  <2>2. group' = Cardinality(Running')
    BY <2>1, <1>1, <1>t, RunningBounded, FS_AddElement DEF Spawn
  <2>3. TypeOK'
    BY <1>1, <1>t, <1>h, <2>2 DEF Spawn, TypeOK
  <2>4. Staged'
    BY <1>1, <1>t DEF Spawn, TypeOK, Staged
  <2>5. Handed'
    BY <1>1, <1>t DEF Spawn, TypeOK, Staged, Handed
  <2>6. SlotHasOneWriter' /\ Collected'
    BY <1>1, <1>t DEF Spawn, TypeOK, SlotHasOneWriter, Collected
  <2> QED
    BY <2>2, <2>3, <2>4, <2>5, <2>6 DEF IInv
<1>2. CASE Spawned
  <2>1. Running' = Running
    BY <1>2 DEF Spawned, Running
  <2>2. TypeOK' /\ group' = Cardinality(Running')
    BY <1>2, <1>t, <2>1 DEF Spawned, TypeOK
  <2>3. Staged'
    BY <1>2, <1>t DEF Spawned, Staged, TypeOK
  <2>4. Handed' /\ SlotHasOneWriter' /\ Collected'
    BY <1>2, <1>t DEF Spawned, Handed, SlotHasOneWriter, Collected
  <2> QED
    BY <2>2, <2>3, <2>4 DEF IInv
<1>3. ASSUME NEW w \in Workers, Send(w) PROVE IInv'
  <2>1. Running' = Running
    BY <1>3, <1>t DEF Send, Running, TypeOK
  <2>2. TypeOK' /\ group' = Cardinality(Running')
    BY <1>3, <1>t, <2>1 DEF Send, TypeOK, Items
  <2>3. Staged'
    BY <1>3, <1>t DEF Send, Staged, TypeOK
  <2>4. Handed'
    <3>1. \A i \in Items : i < next =>
             slot[i] = i \/ \E v \in Workers : worker'[v] = "busy" /\ holds'[v] = i
      BY <1>3, <1>t DEF Send, Handed, TypeOK
    <3>2. worker'[w] = "busy" /\ holds'[w] = next
      BY <1>3, <1>t DEF Send, TypeOK
    <3>3. \A i \in Items : i < next' =>
             slot'[i] = i \/ \E v \in Workers : worker'[v] = "busy" /\ holds'[v] = i
      BY <1>3, <1>t, <3>1, <3>2 DEF Send, TypeOK, Items
    <3> QED
      BY <1>3, <1>t, <3>3 DEF Send, Handed, TypeOK, Items
  <2>5. SlotHasOneWriter'
    BY <1>3, <1>t DEF Send, SlotHasOneWriter, Handed, TypeOK, Items
  <2>6. Collected'
    BY <1>3, <1>t DEF Send, Collected
  <2> QED
    BY <2>2, <2>3, <2>4, <2>5, <2>6 DEF IInv
<1>4. ASSUME NEW w \in Workers, Finish(w) PROVE IInv'
  <2>1. Running' = Running
    BY <1>4, <1>t DEF Finish, Running, TypeOK
  <2>2. TypeOK' /\ group' = Cardinality(Running')
    BY <1>4, <1>t, <2>1 DEF Finish, TypeOK
  <2>3. Staged'
    BY <1>4, <1>t DEF Finish, Staged, TypeOK
  <2>4. Handed'
    BY <1>4, <1>t DEF Finish, Handed, TypeOK, Items, Nothing
  <2>5. SlotHasOneWriter'
    BY <1>4, <1>t DEF Finish, SlotHasOneWriter, Handed, TypeOK
  <2>6. Collected'
    BY <1>4, <1>t DEF Finish, Collected
  <2> QED
    BY <2>2, <2>3, <2>4, <2>5, <2>6 DEF IInv
<1>5. CASE Close
  <2>1. Running' = Running
    BY <1>5 DEF Close, Running
  <2>2. TypeOK' /\ group' = Cardinality(Running')
    BY <1>5, <1>t, <2>1 DEF Close, TypeOK
  <2>3. Staged'
    BY <1>5, <1>t DEF Close, Staged, TypeOK
  <2>4. Handed' /\ SlotHasOneWriter' /\ Collected'
    BY <1>5, <1>t DEF Close, Handed, SlotHasOneWriter, Collected
  <2> QED
    BY <2>2, <2>3, <2>4 DEF IInv
<1>6. ASSUME NEW w \in Workers, Leave(w) PROVE IInv'
  <2>1. Running' = Running \ {w} /\ w \in Running
    BY <1>6, <1>t DEF Leave, Running, TypeOK
  <2>2. group' = Cardinality(Running')
    BY <2>1, <1>6, <1>t, RunningBounded, FS_RemoveElement DEF Leave
  <2>3. TypeOK'
    BY <1>6, <1>t, <1>h, <2>2 DEF Leave, TypeOK
  <2>4. Staged'
    BY <1>6, <1>t DEF Leave, Staged, TypeOK
  <2>5. Handed'
    BY <1>6, <1>t DEF Leave, Handed, TypeOK
  <2>6. SlotHasOneWriter' /\ Collected'
    BY <1>6, <1>t DEF Leave, SlotHasOneWriter, Collected, TypeOK
  <2> QED
    BY <2>2, <2>3, <2>4, <2>5, <2>6 DEF IInv
<1>7. CASE Join
  <2>1. Running = {}
    BY <1>7, <1>t, RunningBounded, FS_EmptySet DEF Join
  <2>2. \A w \in Workers : worker[w] = "gone"
    BY <2>1, <1>7, <1>t DEF Join, Running, Staged, TypeOK
  <2>3. Running' = Running
    BY <1>7 DEF Join, Running
  <2>4. TypeOK' /\ group' = Cardinality(Running')
    BY <1>7, <1>t, <2>3 DEF Join, TypeOK
  <2>5. Staged'
    BY <1>7, <1>t, <2>2 DEF Join, Staged, TypeOK
  <2>6. Handed' /\ SlotHasOneWriter' /\ Collected'
    BY <1>7, <1>t DEF Join, Handed, SlotHasOneWriter, Collected
  <2> QED
    BY <2>4, <2>5, <2>6 DEF IInv
<1>8. CASE Merge
  <2>1. Running' = Running
    BY <1>8 DEF Merge, Running
  <2>2. Len(merged) \in Items /\ slot[Len(merged)] = Len(merged)
    BY <1>8, <1>t DEF Merge, Staged, Handed, TypeOK, Items
  <2>3. merged' = Append(merged, Len(merged)) /\ merged \in Seq(Items \cup {Nothing})
    BY <1>8, <1>t, <2>2 DEF Merge, TypeOK
  <2>4. /\ Len(merged') = Len(merged) + 1
        /\ \A k \in 1 .. Len(merged') : merged'[k] = k - 1
        /\ merged' \in Seq(Items \cup {Nothing})
    BY <1>t, <2>2, <2>3 DEF Collected
  <2>5. TypeOK' /\ group' = Cardinality(Running')
    BY <1>8, <1>t, <2>1, <2>4 DEF Merge, TypeOK
  <2>6. Staged' /\ Handed' /\ SlotHasOneWriter'
    BY <1>8, <1>t DEF Merge, Staged, Handed, SlotHasOneWriter
  <2>7. Collected'
    BY <1>8, <1>t, <2>2, <2>4 DEF Merge, Collected, Items
  <2> QED
    BY <2>5, <2>6, <2>7 DEF IInv
<1>9. CASE Return
  <2>1. Running' = Running
    BY <1>9 DEF Return, Running
  <2>2. TypeOK' /\ group' = Cardinality(Running')
    BY <1>9, <1>t, <2>1 DEF Return, TypeOK
  <2>3. Staged' /\ Handed' /\ SlotHasOneWriter' /\ Collected'
    BY <1>9, <1>t DEF Return, Staged, Handed, SlotHasOneWriter, Collected, TypeOK
  <2> QED
    BY <2>2, <2>3 DEF IInv
<1>10. CASE UNCHANGED vars
  BY <1>10, <1>t DEF vars, IInv, TypeOK, Running, Staged, Handed, SlotHasOneWriter, Collected
<1> QED
  BY <1>1, <1>2, <1>3, <1>4, <1>5, <1>6, <1>7, <1>8, <1>9, <1>10
  DEF Next, Main, Worker, Stopped

LEMMA Inductive == Spec => []IInv
BY InitEstablishes, NextPreserves, PTL DEF Spec

\* The type invariant, for every slice, every Jobs and every fallback.
THEOREM PoolTypeCorrect == Spec => []TypeOK
<1>1. IInv => TypeOK
  BY DEF IInv
<1> QED
  BY <1>1, Inductive, PTL

\* Two workers never write one slot, and a written slot is never written
\* again: the pool has no data race on parsedFiles and results.
THEOREM PoolSlotHasOneWriter == Spec => []SlotHasOneWriter
<1>1. IInv => SlotHasOneWriter
  BY DEF IInv
<1> QED
  BY <1>1, Inductive, PTL

\* After wg.Wait no worker runs and every slot holds its own result.
THEOREM PoolJoinIsComplete == Spec => []JoinIsComplete
<1>1. IInv => JoinIsComplete
  BY PoolAssumption DEF IInv, JoinIsComplete, Staged, Handed, TypeOK, Items
<1> QED
  BY <1>1, Inductive, PTL

\* What is collected is what the sequential loop would collect.
THEOREM PoolMergedAsSequential == Spec => []MergedAsSequential
<1>1. IInv => MergedAsSequential
  BY DEF IInv, Collected, MergedAsSequential
<1> QED
  BY <1>1, Inductive, PTL

\* A stored result is never overwritten.
THEOREM PoolWriteOnce == Spec => WriteOnce
<1> DEFINE Kept == \A i \in Items : slot[i] # Nothing => slot'[i] = slot[i]
<1>1. IInv /\ [Next]_vars => [Kept]_vars
  <2> SUFFICES ASSUME IInv, Next PROVE Kept
    BY DEF vars
  <2>1. ASSUME NEW w \in Workers, Finish(w) PROVE Kept
    BY <2>1 DEF Finish, IInv, SlotHasOneWriter, Handed, TypeOK
  <2>2. CASE \A w \in Workers : ~ Finish(w)
    BY <2>2 DEF Next, Main, Worker, Stopped, vars, Spawn, Spawned, Send, Close, Leave,
                Join, Merge, Return
  <2> QED
    BY <2>1, <2>2
<1> QED
  BY <1>1, Inductive, PTL DEF Spec, WriteOnce


-----------------------------------------------------------------------------
(* What one verification guarantees for every number of files and workers,   *)
(* every schedule, every edit and everything other verifiers store: the      *)
(* workers, with their loop bodies written out, are still the pool, and the  *)
(* report is the one VerifyContract promises.  Neither is inductive: that    *)
(* the trees in hand are those of the bytes that were read has to be known   *)
(* of every slot as it is filled, and of a hit only because the cache holds  *)
(* nothing but what was offered under the key.                               *)

Before == {"configuration", "discovery", "manifests", "image"}
Working == {"read", "ask", "answer", "parse"}

PipelineTyped ==
    /\ stage \in Before \cup {"frontend", "link", "done"}
    /\ disk \in [Items -> Texts \cup {Gone}]
    /\ observed \in [Items -> Texts \cup {Gone, Unread}]
    /\ at \in [Workers -> Working \cup {"rest", "store"}]
    /\ data \in [Workers -> Texts \cup {Gone, Unread}]
    /\ parsed = [i \in Items |-> parsed[i]]
    /\ DOMAIN asked = Workers \cup {Others}

\* The program counter of a loop body agrees with the pool's.
InStep ==
    /\ \A w \in Workers : at[w] \in Working <=> worker[w] = "busy"
    /\ \A w \in Workers : at[w] = "store" => worker[w] = "ready" /\ holds[w] \in Items

\* What the position of the main goroutine says about the rest.
Staging ==
    /\ stage \in Before => main = "spawn" /\ \A w \in Workers : at[w] = "rest"
    /\ stage # "done" => report = NoReport
    /\ stage = "link" => main = "done" /\ \A i \in Items : observed[i] \notin Malformed \cup {Gone}
    /\ stage = "done" => main \in {"spawn", "done"}

\* No file is read before its index is handed out, nor twice.
ReadOnce ==
    /\ \A i \in Items : i >= next => observed[i] = Unread
    /\ \A w \in Workers : at[w] = "read" => observed[holds[w]] = Unread

\* What a worker has in hand is what it has read, and what it waits for is
\* the answer to that.
InHand ==
    /\ \A w \in Workers : at[w] \in {"ask", "answer", "parse"} => data[w] = observed[holds[w]]
    /\ \A w \in Workers : at[w] \in {"ask", "answer", "parse", "store"} => data[w] \in Texts
    /\ \A w \in Workers : at[w] = "answer" => asked[w] = KeyOf(Version, holds[w], data[w])

\* A full slot has the summary of what was read.
Faithful ==
    \A i \in Items : slot[i] = i => observed[i] # Unread /\ parsed[i] = Summary(Version, i, observed[i])

\* Whoever offered it: what the cache holds was made of its key.
HonestOffers ==
    \A offer \in offered : \E v \in Versions, i \in Items, x \in Texts :
        offer = <<KeyOf(v, i, x), Summary(v, i, x)>>

Tied ==
    /\ PipelineTyped /\ InStep /\ Staging /\ ReadOnce /\ InHand /\ Faithful /\ HonestOffers
    /\ QuiescentReport

PipelineInv == IInv /\ Tied

----------------------------------------------------------------------------
(* The pool.                                                                 *)

\* Every step of a verification is a step of the pool or leaves it alone.
LEMMA PoolMoves == [PipelineNext]_pvars => [Next]_vars
<1> SUFFICES ASSUME [PipelineNext]_pvars PROVE [Next]_vars
  OBVIOUS
<1> USE DEF pool, vars
<1>1. ASSUME NEW from, NEW to, NEW codes, StageOrFail(from, to, codes) PROVE UNCHANGED vars
  BY <1>1 DEF StageOrFail
<1>2. CASE Configure \/ Discover \/ LoadManifests \/ ReadImage
  BY <1>1, <1>2 DEF Configure, Discover, LoadManifests, ReadImage
<1>3. CASE PoolStep
  BY <1>3 DEF PoolStep, Next, Main, Worker
<1>4. ASSUME NEW w \in Workers, Loop(w) PROVE [Next]_vars
  <2>1. Send(w) \/ Finish(w) \/ UNCHANGED vars
    BY <1>4 DEF Loop, Receive, ReadSource, LookUp, Restore, NotFound, Parse, Store
  <2> QED
    BY <2>1 DEF Next, Worker
<1>5. CASE Collect
  BY <1>5 DEF Collect, Next, Main
<1>6. CASE Link \/ Reported \/ UNCHANGED pvars
  BY <1>6 DEF Link, Reported, pvars
<1>7. CASE Environment
  BY <1>7 DEF Environment, Edit, OtherVerifier
<1> QED
  BY <1>2, <1>3, <1>4, <1>5, <1>6, <1>7 DEF PipelineNext, Verifier

LEMMA PoolKept == ASSUME PipelineInv, [PipelineNext]_pvars PROVE IInv'
BY PoolMoves, NextPreserves DEF PipelineInv

\* For every number of files and workers, with files that cannot be read, hits
\* and misses: the workers of a verification implement the pool.
THEOREM PipelineImplementsPool == PipelineSpec => RefinesPool
<1>1. PipelineInit => Init
  BY DEF PipelineInit
<1> QED
  BY <1>1, PoolMoves, PTL DEF PipelineSpec, RefinesPool

----------------------------------------------------------------------------
(* Facts about the pool that the steps need.                                 *)

LEMMA BusyFacts ==
    ASSUME PipelineInv, NEW w \in Workers, at[w] \in Working
    PROVE  /\ worker[w] = "busy" /\ holds[w] \in Items /\ holds[w] < next /\ slot[holds[w]] = Nothing
           /\ \A v \in Workers : at[v] \in Working /\ holds[v] = holds[w] => v = w
           /\ holds[w] # Nothing
BY PoolAssumption
DEF PipelineInv, Tied, InStep, IInv, Handed, SlotHasOneWriter, Items, Nothing

LEMMA Joined ==
    ASSUME PipelineInv, main \in {"merge", "done"}
    PROVE  /\ \A i \in Items : slot[i] = i
           /\ \A w \in Workers : at[w] = "rest"
<1>1. \A i \in Items : slot[i] = i
  BY PoolAssumption DEF PipelineInv, IInv, TypeOK, Staged, Handed, Items
<1>2. \A w \in Workers : worker[w] = "gone"
  BY DEF PipelineInv, IInv, Staged
<1> QED
  BY <1>1, <1>2 DEF PipelineInv, Tied, InStep, PipelineTyped

----------------------------------------------------------------------------
(* The steps of a verification keep what ties it to the pool.                *)

LEMMA InitTies == ASSUME PipelineInit PROVE PipelineInv
<1> USE PoolAssumption, PipelineAssumption
<1>1. IInv
  BY InitEstablishes DEF PipelineInit
<1>2. PipelineTyped
  BY DEF PipelineInit, PipelineTyped, Before, Working, Verify!VerifyInit, Cache!ContractInit
<1>3. InStep /\ Staging /\ ReadOnce /\ InHand /\ QuiescentReport
  BY DEF PipelineInit, Init, Verify!VerifyInit, InStep, Staging, ReadOnce, InHand, QuiescentReport,
         Before, Working
<1>4. Faithful
  BY DEF PipelineInit, Init, Faithful, Nothing, Items
<1>5. HonestOffers
  BY DEF PipelineInit, Cache!ContractInit, HonestOffers
<1> QED
  BY <1>1, <1>2, <1>3, <1>4, <1>5 DEF PipelineInv, Tied

LEMMA StageTies ==
    ASSUME PipelineInv, Configure \/ Discover \/ LoadManifests \/ ReadImage
    PROVE  Tied'
<1> USE DEF PipelineInv, Tied
<1>1. /\ UNCHANGED <<pool, cache, environment, observed, at, data, parsed>>
      /\ stage \in Before
      /\ \/ stage' \in Before \cup {"frontend"} /\ UNCHANGED report
         \/ stage' = "done"
  BY DEF Configure, Discover, LoadManifests, ReadImage, StageOrFail, Before
<1>2. PipelineTyped'
  BY <1>1 DEF PipelineTyped, environment, cache
<1>3. InStep' /\ ReadOnce' /\ InHand' /\ Faithful' /\ HonestOffers'
  BY <1>1 DEF InStep, ReadOnce, InHand, Faithful, HonestOffers, pool, cache
<1>4. main = "spawn" /\ report = NoReport /\ \A w \in Workers : at[w] = "rest"
  BY <1>1 DEF Staging, Before
<1>5. Staging' /\ QuiescentReport'
  BY <1>1, <1>4 DEF Staging, QuiescentReport, pool, Before
<1> QED
  BY <1>2, <1>3, <1>5

\* What a step of the pool leaves alone while no worker's call is under way.
LEMMA PoolStepTies == ASSUME PipelineInv, PoolStep PROVE Tied'
<1> USE DEF PipelineInv, Tied
<1>1. /\ UNCHANGED <<cache, environment, stage, observed, report, at, data, parsed>>
      /\ stage = "frontend"
      /\ UNCHANGED <<holds, slot, next>>
  BY DEF PoolStep, Spawn, Leave, Spawned, Close, Join, Merge
<1>2. \A w \in Workers :
         \/ worker'[w] = worker[w]
         \/ worker[w] = "unborn" /\ worker'[w] = "ready"
         \/ worker[w] = "ready" /\ worker'[w] = "gone" /\ at[w] = "rest"
  BY DEF PoolStep, Spawn, Leave, Spawned, Close, Join, Merge, IInv, TypeOK
<1>3. PipelineTyped'
  BY <1>1 DEF PipelineTyped, environment, cache
<1>4. InStep'
  BY <1>1, <1>2 DEF InStep, Working
<1>5. ReadOnce' /\ InHand' /\ Faithful' /\ HonestOffers'
  BY <1>1 DEF ReadOnce, InHand, Faithful, HonestOffers, cache
<1>6. Staging' /\ QuiescentReport'
  BY <1>1 DEF Staging, QuiescentReport, Before
<1> QED
  BY <1>3, <1>4, <1>5, <1>6

LEMMA ReceiveTies == ASSUME PipelineInv, NEW w \in Workers, Receive(w) PROVE Tied'
<1> USE DEF PipelineInv, Tied
<1>1. /\ UNCHANGED <<cache, environment, stage, observed, report, data, parsed>>
      /\ stage = "frontend" /\ at[w] = "rest" /\ at' = [at EXCEPT ![w] = "read"]
      /\ worker' = [worker EXCEPT ![w] = "busy"] /\ holds' = [holds EXCEPT ![w] = next]
      /\ next' = next + 1 /\ next \in Items /\ UNCHANGED slot
  BY PoolAssumption DEF Receive, Send, IInv, TypeOK, Items
<1>2. /\ worker \in [Workers -> {"unborn", "ready", "busy", "gone"}]
      /\ DOMAIN holds = Workers /\ next \in Nat /\ Items \subseteq Int
  BY PoolAssumption DEF IInv, TypeOK, Items
<1>3. PipelineTyped'
  BY <1>1 DEF PipelineTyped, Working, environment, cache
<1>4. InStep'
  BY <1>1, <1>2 DEF InStep, PipelineTyped, Working
<1>5. ReadOnce'
  BY <1>1, <1>2 DEF ReadOnce, PipelineTyped
<1>6. InHand' /\ Faithful' /\ HonestOffers'
  BY <1>1, <1>2 DEF InHand, Faithful, HonestOffers, PipelineTyped, cache
<1>7. Staging' /\ QuiescentReport'
  BY <1>1 DEF Staging, QuiescentReport, Before
<1> QED
  BY <1>3, <1>4, <1>5, <1>6, <1>7

\* Nobody is at work but in the frontend.
LEMMA AtWork ==
    ASSUME PipelineInv, NEW w \in Workers, at[w] # "rest"
    PROVE  stage = "frontend"
BY DEF PipelineInv, Tied, PipelineTyped, Staging, QuiescentReport

\* The slot of w is filled with the summary of what was read.
LEMMA FillTies ==
    ASSUME PipelineInv, NEW w \in Workers, at[w] \in Working, Finish(w), NEW x \in Texts \cup {Gone},
           NEW to \in {"rest", "store"}, to = "store" => x \in Texts /\ data'[w] = x,
           parsed' = [parsed EXCEPT ![holds[w]] = Summary(Version, holds[w], x)],
           at' = [at EXCEPT ![w] = to],
           observed' = [observed EXCEPT ![holds[w]] = x],
           data' \in [Workers -> Texts \cup {Gone, Unread}],
           \A v \in Workers \ {w} : data'[v] = data[v] /\ asked'[v] = asked[v],
           DOMAIN asked' = Workers \cup {Others},
           UNCHANGED <<environment, stage, report, offered>>
    PROVE  Tied'
<1> USE DEF PipelineInv, Tied
<1>1. /\ holds[w] \in Items /\ holds[w] < next /\ slot[holds[w]] = Nothing /\ holds[w] # Nothing
      /\ \A v \in Workers : at[v] \in Working /\ holds[v] = holds[w] => v = w
  BY BusyFacts
<1>2. stage = "frontend"
  BY AtWork DEF Working
<1>3. /\ slot' = [slot EXCEPT ![holds[w]] = holds[w]] /\ worker' = [worker EXCEPT ![w] = "ready"]
      /\ UNCHANGED <<main, next, group, holds, merged>>
      /\ DOMAIN slot = Items /\ DOMAIN worker = Workers
  BY DEF Finish, IInv, TypeOK
<1>4. PipelineTyped'
  BY <1>1, <1>2 DEF PipelineTyped, environment
<1>5. InStep'
  BY <1>1, <1>3 DEF InStep, PipelineTyped, Working
<1>6. ReadOnce'
  BY <1>1, <1>3 DEF ReadOnce, PipelineTyped, Working, IInv, TypeOK, Items
<1>7. InHand'
  BY <1>1, <1>3 DEF InHand, PipelineTyped, Working
<1>8. Faithful'
  BY <1>1, <1>3, PipelineAssumption DEF Faithful, PipelineTyped
<1>9. HonestOffers'
  BY DEF HonestOffers
<1>10. Staging' /\ QuiescentReport'
  BY <1>2, <1>3 DEF Staging, QuiescentReport, Before
<1> QED
  BY <1>4, <1>5, <1>6, <1>7, <1>8, <1>9, <1>10

\* A worker takes a step within its loop body.
LEMMA WithinTies ==
    ASSUME PipelineInv, NEW w \in Workers, at[w] \in Working,
           NEW to \in {"ask", "answer", "parse"}, at' = [at EXCEPT ![w] = to],
           NEW x \in Texts, data' = [data EXCEPT ![w] = x],
           observed' = [observed EXCEPT ![holds[w]] = x],
           DOMAIN asked' = Workers \cup {Others},
           \A v \in Workers \ {w} : asked'[v] = asked[v],
           to = "answer" => asked'[w] = KeyOf(Version, holds[w], x),
           UNCHANGED <<pool, environment, stage, report, parsed, offered>>
    PROVE  Tied'
<1> USE DEF PipelineInv, Tied
<1>1. /\ holds[w] \in Items /\ holds[w] < next /\ slot[holds[w]] = Nothing /\ holds[w] # Nothing
      /\ \A v \in Workers : at[v] \in Working /\ holds[v] = holds[w] => v = w
  BY BusyFacts
<1>2. stage = "frontend"
  BY AtWork DEF Working
<1>3. UNCHANGED <<main, next, worker, holds, slot>>
  BY DEF pool
<1>4. PipelineTyped'
  BY <1>1, <1>2 DEF PipelineTyped, Working, environment
<1>5. InStep'
  BY <1>1, <1>3 DEF InStep, PipelineTyped, Working
<1>6. ReadOnce'
  BY <1>1, <1>3 DEF ReadOnce, PipelineTyped, Working, IInv, TypeOK, Items
<1>7. InHand'
  BY <1>1, <1>3 DEF InHand, PipelineTyped, Working
<1>8. Faithful'
  BY <1>1, <1>3, PipelineAssumption DEF Faithful, PipelineTyped
<1>9. HonestOffers'
  BY DEF HonestOffers
<1>10. Staging' /\ QuiescentReport'
  BY <1>2, <1>3 DEF Staging, QuiescentReport, Before
<1> QED
  BY <1>4, <1>5, <1>6, <1>7, <1>8, <1>9, <1>10

LEMMA LoopTies == ASSUME PipelineInv, NEW w \in Workers, Loop(w) PROVE Tied'
<1> USE PipelineAssumption DEF PipelineInv, Tied
<1>1. /\ observed \in [Items -> Texts \cup {Gone, Unread}]
      /\ data \in [Workers -> Texts \cup {Gone, Unread}]
      /\ disk \in [Items -> Texts \cup {Gone}]
      /\ DOMAIN asked = Workers \cup {Others} /\ DOMAIN at = Workers
  BY DEF PipelineTyped
<1>2. at[w] \in Working => holds[w] \in Items
  BY BusyFacts
<1>3. CASE Receive(w)
  BY <1>3, ReceiveTies
<1>4. CASE ReadSource(w)
  <2> DEFINE x == disk[holds[w]]
  <2>1. at[w] \in Working /\ x \in Texts \cup {Gone}
    BY <1>1, <1>2, <1>4 DEF ReadSource, Working
  <2>2. /\ observed' = [observed EXCEPT ![holds[w]] = x]
        /\ data' = [data EXCEPT ![w] = x]
        /\ UNCHANGED <<environment, stage, report, offered, asked>>
    BY <1>4 DEF ReadSource, cache
  <2>3. data' \in [Workers -> Texts \cup {Gone, Unread}] /\ \A v \in Workers \ {w} : data'[v] = data[v]
    BY <1>1, <2>1, <2>2
  <2>4. CASE x = Gone
    <3>1. Finish(w) /\ parsed' = [parsed EXCEPT ![holds[w]] = Summary(Version, holds[w], x)]
          /\ at' = [at EXCEPT ![w] = "rest"]
      BY <1>4, <2>4 DEF ReadSource
    <3> QED
      BY <1>1, <2>1, <2>2, <2>3, <3>1, FillTies
  <2>5. CASE x # Gone
    <3>1. PICK to \in {"ask", "parse"} : at' = [at EXCEPT ![w] = to]
      BY <1>4, <2>5 DEF ReadSource
    <3>2. UNCHANGED <<pool, parsed>> /\ x \in Texts
      BY <1>4, <2>1, <2>5 DEF ReadSource
    <3> QED
      BY <1>1, <2>1, <2>2, <3>1, <3>2, WithinTies
  <2> QED
    BY <2>4, <2>5
<1>5. CASE at[w] \in {"ask", "answer", "parse"}
  <2> DEFINE x == data[w]
  <2>1. at[w] \in Working /\ x \in Texts /\ x = observed[holds[w]] /\ holds[w] \in Items
    BY <1>2, <1>5 DEF InHand, Working
  <2>2. observed = [observed EXCEPT ![holds[w]] = x] /\ data = [data EXCEPT ![w] = x]
    BY <1>1, <2>1
  <2>3. CASE LookUp(w)
    <3>1. /\ at' = [at EXCEPT ![w] = "answer"]
          /\ asked' = [asked EXCEPT ![w] = KeyOf(Version, holds[w], x)]
          /\ UNCHANGED <<pool, environment, stage, report, parsed, offered, observed, data>>
      BY <2>3 DEF LookUp, Cache!Ask
    <3> QED
      BY <1>1, <2>1, <2>2, <3>1, WithinTies
  <2>4. CASE NotFound(w)
    <3>1. /\ at' = [at EXCEPT ![w] = "parse"]
          /\ asked' = [asked EXCEPT ![w] = Nobody]
          /\ UNCHANGED <<pool, environment, stage, report, parsed, offered, observed, data>>
      BY <2>4 DEF NotFound, Cache!Answer
    <3> QED
      BY <1>1, <2>1, <2>2, <3>1, WithinTies
  <2>5. CASE Restore(w)
    <3>1. PICK s \in Cache!Served(asked[w]) \ {Miss} :
             Cache!Answer(w, s) /\ parsed' = [parsed EXCEPT ![holds[w]] = s]
      BY <2>5 DEF Restore
    <3>2. <<KeyOf(Version, holds[w], x), s>> \in offered
      BY <2>5, <3>1 DEF Restore, Cache!Served, InHand
    <3>3. s = Summary(Version, holds[w], x)
      BY <3>2 DEF HonestOffers, KeyOf
    <3>4. /\ Finish(w) /\ at' = [at EXCEPT ![w] = "rest"]
          /\ asked' = [asked EXCEPT ![w] = Nobody]
          /\ UNCHANGED <<environment, stage, report, offered, observed, data>>
      BY <2>5, <3>1 DEF Restore, Cache!Answer
    <3> QED
      BY <1>1, <2>1, <2>2, <3>1, <3>3, <3>4, FillTies
  <2>6. CASE Parse(w)
    <3>1. PICK to \in {"rest", "store"} : at' = [at EXCEPT ![w] = to]
      BY <2>6 DEF Parse
    <3>2. /\ Finish(w) /\ parsed' = [parsed EXCEPT ![holds[w]] = Summary(Version, holds[w], x)]
          /\ UNCHANGED <<environment, stage, report, offered, asked, observed, data>>
      BY <2>6 DEF Parse, cache
    <3> QED
      BY <1>1, <2>1, <2>2, <3>1, <3>2, FillTies
  <2> QED
    BY <1>4, <1>5, <1>3, <2>3, <2>4, <2>5, <2>6 DEF Loop, Store
<1>6. CASE Store(w)
  <2>1. /\ at[w] = "store" /\ at' = [at EXCEPT ![w] = "rest"]
        /\ offered' = offered \cup {<<KeyOf(Version, holds[w], data[w]), Summary(Version, holds[w], data[w])>>}
        /\ UNCHANGED <<pool, environment, stage, observed, report, data, parsed, asked>>
    BY <1>6 DEF Store, Cache!Offer
  <2>2. UNCHANGED <<main, next, worker, holds, slot>>
    BY <2>1 DEF pool
  <2>3. stage = "frontend"
    BY <2>1, AtWork
  <2>4. PipelineTyped'
    BY <2>1 DEF PipelineTyped, Working, environment
  <2>5. InStep' /\ ReadOnce' /\ InHand' /\ Faithful'
    BY <1>1, <2>1, <2>2 DEF InStep, ReadOnce, InHand, Faithful, Working
  <2>6. Version \in Versions /\ holds[w] \in Items /\ data[w] \in Texts
    BY <2>1 DEF InStep, InHand
  <2>7. HonestOffers'
    BY <2>1, <2>6 DEF HonestOffers
  <2>8. Staging' /\ QuiescentReport'
    BY <2>1, <2>2, <2>3 DEF Staging, QuiescentReport, Before
  <2> QED
    BY <2>4, <2>5, <2>7, <2>8
<1> QED
  BY <1>3, <1>4, <1>5, <1>6 DEF Loop, LookUp, Restore, NotFound, Parse

\* In a complete pool the trees in hand are those of the bytes that were read.
LEMMA Complete ==
    ASSUME PipelineInv, main \in {"merge", "done"}
    PROVE  /\ \A i \in Items : observed[i] # Unread
           /\ parsed = [i \in Items |-> Summary(Version, i, observed[i])]
<1>1. \A i \in Items : observed[i] # Unread /\ parsed[i] = Summary(Version, i, observed[i])
  BY Joined DEF PipelineInv, Tied, Faithful
<1> QED
  BY <1>1 DEF PipelineInv, Tied, PipelineTyped

LEMMA CollectTies == ASSUME PipelineInv, Collect \/ Link PROVE Tied'
<1> USE DEF PipelineInv, Tied
<1>1. /\ UNCHANGED <<cache, environment, observed, at, data, parsed>>
      /\ UNCHANGED <<next, worker, holds, slot>> /\ main' = "done"
      /\ main \in {"merge", "done"}
  BY DEF Collect, Link, Return, Staging, pool
<1>2. \A w \in Workers : at[w] = "rest"
  BY <1>1, Joined
<1>3. stage' \in {"link", "done"} /\ (stage' = "link" => UNCHANGED report /\ stage = "frontend")
  BY DEF Collect, Link
<1>4. PipelineTyped' /\ InStep' /\ ReadOnce' /\ InHand' /\ Faithful' /\ HonestOffers'
  BY <1>1, <1>3
  DEF PipelineTyped, InStep, ReadOnce, InHand, Faithful, HonestOffers, environment, cache
<1>5. QuiescentReport'
  BY <1>1, <1>2 DEF QuiescentReport
<1>6. stage' = "link" => \A i \in Items : observed[i] \notin Malformed \cup {Gone}
  <2> SUFFICES ASSUME stage' = "link", NEW i \in Items PROVE observed[i] \notin Malformed \cup {Gone}
    OBVIOUS
  <2>1. parsed[i].text \notin Malformed \cup {Gone}
    BY DEF Collect, Link
  <2>2. parsed[i].text = observed[i]
    BY <1>1, Complete DEF Summary, Verify!Summary
  <2> QED
    BY <2>1, <2>2
<1>7. Staging'
  BY <1>1, <1>3, <1>6 DEF Staging, Before
<1> QED
  BY <1>4, <1>5, <1>7

LEMMA EnvironmentTies == ASSUME PipelineInv, Environment PROVE Tied'
<1> USE DEF PipelineInv, Tied
<1>1. ASSUME NEW i \in Items, NEW x \in Texts \cup {Gone}, Edit(i, x) PROVE Tied'
  <2>1. disk' = [disk EXCEPT ![i] = x] /\ UNCHANGED <<pool, cache, stage, at, data, parsed, observed, report>>
    BY <1>1 DEF Edit, Verify!EditDisk
  <2>2. PipelineTyped'
    BY <2>1 DEF PipelineTyped, cache
  <2> QED
    BY <2>1, <2>2
    DEF InStep, Staging, ReadOnce, InHand, Faithful, HonestOffers, QuiescentReport, pool, cache
<1>2. ASSUME NEW v \in Versions, NEW i \in Items, NEW x \in Texts, OtherVerifier(v, i, x) PROVE Tied'
  <2>1. /\ offered' = offered \cup {<<KeyOf(v, i, x), Summary(v, i, x)>>}
        /\ UNCHANGED <<pool, disk, stage, at, data, parsed, observed, report, asked>>
    BY <1>2 DEF OtherVerifier, Cache!Offer
  <2>2. PipelineTyped'
    BY <2>1 DEF PipelineTyped
  <2>3. HonestOffers'
    BY <2>1 DEF HonestOffers
  <2> QED
    BY <2>1, <2>2, <2>3
    DEF InStep, Staging, ReadOnce, InHand, Faithful, QuiescentReport, pool
<1> QED
  BY <1>1, <1>2 DEF Environment

LEMMA StepTies == ASSUME PipelineInv, [PipelineNext]_pvars PROVE PipelineInv'
<1>1. CASE UNCHANGED pvars
  <2>1. Tied'
    BY <1>1 DEF PipelineInv, Tied, PipelineTyped, InStep, Staging, ReadOnce, InHand, Faithful, HonestOffers,
                QuiescentReport, pvars, pool, cache, environment
  <2> QED
    BY <2>1, PoolKept DEF PipelineInv
<1>2. CASE PipelineNext
  BY <1>1, <1>2, PoolKept, StageTies, PoolStepTies, LoopTies, CollectTies, EnvironmentTies
  DEF PipelineInv, PipelineNext, Verifier, Reported
<1> QED
  BY <1>1, <1>2

LEMMA PipelineInductive == PipelineSpec => []PipelineInv
<1>1. PipelineInit => PipelineInv
  BY InitTies
<1>2. PipelineInv /\ [PipelineNext]_pvars => PipelineInv'
  BY StepTies
<1> QED
  BY <1>1, <1>2, PTL DEF PipelineSpec

\* No cache write is under way when the report is made: wg.Done is deferred
\* past the whole loop, the store that follows the slot included.
THEOREM ReportIsQuiescent == PipelineSpec => []QuiescentReport
<1>1. PipelineInv => QuiescentReport
  BY DEF PipelineInv, Tied
<1> QED
  BY <1>1, PipelineInductive, PTL

----------------------------------------------------------------------------
(* The report.                                                               *)

\* No source was read when a stage before the frontend fails.
LEMMA StageRefuses ==
    ASSUME PipelineInv, Configure \/ Discover \/ LoadManifests \/ ReadImage
    PROVE  Verify!Refuse \/ UNCHANGED Verify!vvars
<1>1. /\ UNCHANGED <<environment, observed>> /\ stage \in Before
      /\ UNCHANGED report \/ \E code \in {"PP001", "PP101", "PP601"} : report' = Verify!Failed(code)
  BY DEF Configure, Discover, LoadManifests, ReadImage, StageOrFail, Before
<1>2. report = NoReport /\ \A i \in Items : observed[i] = Unread
  BY <1>1, PoolAssumption DEF PipelineInv, Tied, Staging, ReadOnce, IInv, Staged, Items, Before
<1> QED
  BY <1>1, <1>2 DEF Verify!Refuse, Verify!vvars, environment

LEMMA LoopLooks ==
    ASSUME PipelineInv, NEW w \in Workers, Loop(w)
    PROVE  (\E i \in Items : Verify!Look(i)) \/ UNCHANGED Verify!vvars
<1>1. CASE ReadSource(w)
  <2>1. at[w] = "read" /\ observed' = [observed EXCEPT ![holds[w]] = disk[holds[w]]]
        /\ UNCHANGED <<disk, report>>
    BY <1>1 DEF ReadSource, environment
  <2>2. holds[w] \in Items /\ observed[holds[w]] = Unread
    BY <2>1, BusyFacts DEF PipelineInv, Tied, ReadOnce, Working
  <2> QED
    BY <2>1, <2>2 DEF Verify!Look
<1>2. CASE ~ ReadSource(w)
  BY <1>2 DEF Loop, Receive, LookUp, Restore, NotFound, Parse, Store, Verify!vvars, environment
<1> QED
  BY <1>1, <1>2

\* With and without diagnostics of the frontend, what is reported is the
\* verdict on the bytes that were read.
LEMMA ReportPublishes ==
    ASSUME PipelineInv, Collect \/ Link
    PROVE  Verify!Publish \/ UNCHANGED Verify!vvars
<1> USE DEF PipelineInv, Tied
<1> DEFINE made == [i \in Items |-> Verify!Summary(Version, i, observed[i])]
           faulty == {i \in Items : observed[i] \in Malformed \cup {Gone}}
<1>1. main \in {"merge", "done"} /\ UNCHANGED <<disk, observed>>
  BY DEF Collect, Link, Return, Staging, environment
<1>2. parsed = made /\ \A i \in Items : observed[i] # Unread
  BY <1>1, Complete DEF Summary
<1>3. report = NoReport
  BY DEF Collect, Link, Staging
<1>4. CASE Collect
  <2>1. {i \in Items : parsed[i].text \in Malformed \cup {Gone}} = faulty
    BY <1>2 DEF Verify!Summary
  <2>2. CASE faulty = {}
    BY <1>1, <1>4, <2>1, <2>2 DEF Collect, Verify!vvars
  <2>3. CASE faulty # {}
    <3>1. report' = Verify!Rejected({made[i] : i \in faulty})
      BY <1>2, <1>4, <2>1, <2>3 DEF Collect
    <3>2. Verify!Verdict(observed) = Verify!Rejected({made[i] : i \in faulty})
      BY <2>3 DEF Verify!Verdict
    <3> QED
      BY <1>1, <1>2, <1>3, <3>1, <3>2 DEF Verify!Publish
  <2> QED
    BY <2>2, <2>3
<1>5. CASE Link
  <2>1. faulty = {}
    BY <1>5 DEF Link, Staging
  <2>2. report' = Verify!Checked(made)
    BY <1>2, <1>5 DEF Link
  <2>3. Verify!Verdict(observed) = Verify!Checked(made)
    BY <2>1 DEF Verify!Verdict
  <2> QED
    BY <1>1, <1>2, <1>3, <2>2, <2>3 DEF Verify!Publish
<1> QED
  BY <1>4, <1>5

LEMMA StepVerifies == PipelineInv /\ [PipelineNext]_pvars => [Verify!VerifyNext]_(Verify!vvars)
<1> SUFFICES ASSUME PipelineInv, [PipelineNext]_pvars
             PROVE  Verify!VerifyNext \/ UNCHANGED Verify!vvars
  OBVIOUS
<1>1. CASE PoolStep \/ Reported \/ UNCHANGED pvars
  BY <1>1 DEF PoolStep, Reported, pvars, environment, Verify!vvars
<1>2. CASE Environment
  <2>1. ASSUME NEW i \in Items, NEW x \in Texts \cup {Gone}, Edit(i, x) PROVE Verify!VerifyNext
    BY <2>1 DEF Edit, Verify!VerifyNext
  <2>2. ASSUME NEW v \in Versions, NEW i \in Items, NEW x \in Texts, OtherVerifier(v, i, x)
        PROVE  UNCHANGED Verify!vvars
    BY <2>2 DEF OtherVerifier, Verify!vvars
  <2> QED
    BY <1>2, <2>1, <2>2 DEF Environment
<1>3. CASE Configure \/ Discover \/ LoadManifests \/ ReadImage
  BY <1>3, StageRefuses DEF Verify!VerifyNext
<1>4. ASSUME NEW w \in Workers, Loop(w) PROVE Verify!VerifyNext \/ UNCHANGED Verify!vvars
  BY <1>4, LoopLooks DEF Verify!VerifyNext
<1>5. CASE Collect \/ Link
  BY <1>5, ReportPublishes DEF Verify!VerifyNext
<1> QED
  BY <1>1, <1>2, <1>3, <1>4, <1>5 DEF PipelineNext, Verifier

\* Whatever the number of workers, the schedule, the cache and the edits: the
\* report is the verdict of one worker without a cache on the bytes that were
\* read, each file once.
THEOREM PipelineImplementsContract == PipelineSpec => ReportsAsSequential
<1>1. PipelineInit => Verify!VerifyInit
  BY DEF PipelineInit
<1> QED
  BY <1>1, StepVerifies, PipelineInductive, PTL
  DEF PipelineSpec, ReportsAsSequential, Verify!VerifySpec
=============================================================================
