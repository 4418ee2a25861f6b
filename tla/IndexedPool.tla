---------------------------- MODULE IndexedPool ----------------------------
(* The bounded worker pool that the verifier writes out twice: the frontend  *)
(* pool of Check (internal/app/check.go) and the function pool of            *)
(* CheckFunctions (internal/check/flow.go).  The main goroutine starts the   *)
(* workers, hands the indices of a slice to them over an unbuffered channel, *)
(* closes the channel, waits for the WaitGroup, and only then reads the      *)
(* result slots, in index order.                                             *)
(*                                                                           *)
(* What a worker computes is abstracted to the index it computed it for:     *)
(* a slot holds the index whose work was stored in it, or Nothing.           *)
EXTENDS Integers, Sequences, FiniteSets

CONSTANTS N,        \* length of the slice that is worked through
          Jobs,     \* Options.Jobs, any integer
          Fallback  \* the width used when Jobs < 1: GOMAXPROCS, or 1

ASSUME PoolAssumption ==
    /\ N \in Nat
    /\ Jobs \in Int
    /\ Fallback \in Nat \ {0}

Items == 0 .. N - 1

\* Slip: jobs < 1 clamped to nothing instead of replaced.
WidthWithoutFallback == IF Jobs > N THEN N ELSE IF Jobs < 1 THEN 0 ELSE Jobs

\* The number of goroutines: Jobs, replaced when it is below one and never
\* more than there are items.
Width ==
    LET asked == IF Jobs < 1 THEN Fallback ELSE Jobs
    IN  IF asked > N THEN N ELSE asked

Workers == 0 .. Width - 1

Nothing == N    \* no index of the slice

VARIABLES
    main,     \* where the main goroutine is
    next,     \* the index it sends next
    group,    \* the counter of the sync.WaitGroup
    worker,   \* where each worker is: unborn, ready to receive, busy, gone
    holds,    \* the index a worker received last
    slot,     \* the result slice
    merged    \* what the main goroutine has read from it

vars == <<main, next, group, worker, holds, slot, merged>>

Init ==
    /\ main = "spawn"
    /\ next = 0
    /\ group = 0
    /\ worker = [w \in Workers |-> "unborn"]
    /\ holds = [w \in Workers |-> Nothing]
    /\ slot = [i \in Items |-> Nothing]
    /\ merged = <<>>

\* for i := 0; i < jobs; i++ { wg.Add(1); go func() { ... } }
Spawn(w) ==
    /\ main = "spawn"
    /\ worker[w] = "unborn"
    /\ \A v \in Workers : v < w => worker[v] # "unborn"
    /\ worker' = [worker EXCEPT ![w] = "ready"]
    /\ group' = group + 1
    /\ UNCHANGED <<main, next, holds, slot, merged>>

Spawned ==
    /\ main = "spawn"
    /\ \A w \in Workers : worker[w] # "unborn"
    /\ main' = "feed"
    /\ UNCHANGED <<next, group, worker, holds, slot, merged>>

\* Slip: the index is read but not yet advanced when the next worker asks.
SendStale(w) ==
    /\ main = "feed" /\ next < N /\ worker[w] = "ready"
    /\ worker' = [worker EXCEPT ![w] = "busy"]
    /\ holds' = [holds EXCEPT ![w] = next]
    /\ \/ next' = next + 1
       \/ next' = next
    /\ UNCHANGED <<main, group, slot, merged>>

\* work <- i: the channel has no buffer, so the send and one worker's
\* receive are the same step.
Send(w) ==
    /\ main = "feed"
    /\ next < N
    /\ worker[w] = "ready"
    /\ worker' = [worker EXCEPT ![w] = "busy"]
    /\ holds' = [holds EXCEPT ![w] = next]
    /\ next' = next + 1
    /\ UNCHANGED <<main, group, slot, merged>>

\* Slip: the worker stores under a loop variable shared with the sender.
FinishUnderSharedIndex(w) ==
    /\ worker[w] = "busy"
    /\ slot' = [slot EXCEPT ![next - 1] = holds[w]]
    /\ worker' = [worker EXCEPT ![w] = "ready"]
    /\ UNCHANGED <<main, next, group, holds, merged>>

\* The body of the worker's loop stores its result in the slot of its index.
Finish(w) ==
    /\ worker[w] = "busy"
    /\ slot' = [slot EXCEPT ![holds[w]] = holds[w]]
    /\ worker' = [worker EXCEPT ![w] = "ready"]
    /\ UNCHANGED <<main, next, group, holds, merged>>

Close ==
    /\ main = "feed"
    /\ next = N
    /\ main' = "wait"
    /\ UNCHANGED <<next, group, worker, holds, slot, merged>>

\* Slip: wg.Done once in the loop and once more in the defer.
LeaveCountedTwice(w) ==
    /\ main = "wait" /\ worker[w] = "ready"
    /\ worker' = [worker EXCEPT ![w] = "gone"]
    /\ group' = group - 2
    /\ UNCHANGED <<main, next, holds, slot, merged>>

\* The range over the closed channel ends; the deferred wg.Done runs.
Leave(w) ==
    /\ main = "wait"
    /\ worker[w] = "ready"
    /\ worker' = [worker EXCEPT ![w] = "gone"]
    /\ group' = group - 1
    /\ UNCHANGED <<main, next, holds, slot, merged>>

\* Slip: the slots are read once the channel is closed, without wg.Wait.
JoinAtOnce ==
    /\ main = "wait"
    /\ main' = "merge"
    /\ UNCHANGED <<next, group, worker, holds, slot, merged>>

\* wg.Wait returns
Join ==
    /\ main = "wait"
    /\ group = 0
    /\ main' = "merge"
    /\ UNCHANGED <<next, group, worker, holds, slot, merged>>

\* for i := range slots { out = append(out, slots[i]...) }
Merge ==
    /\ main = "merge"
    /\ Len(merged) < N
    /\ merged' = Append(merged, slot[Len(merged)])
    /\ UNCHANGED <<main, next, group, worker, holds, slot>>

Return ==
    /\ main = "merge"
    /\ Len(merged) = N
    /\ main' = "done"
    /\ UNCHANGED <<next, group, worker, holds, slot, merged>>

Main == Spawned \/ Close \/ Join \/ Merge \/ Return

Worker(w) == Spawn(w) \/ Send(w) \/ Finish(w) \/ Leave(w)

\* The pool has returned; nothing of it runs any more.
Stopped == main = "done" /\ UNCHANGED vars

Next == Main \/ (\E w \in Workers : Worker(w)) \/ Stopped

\* Every goroutine that can run is eventually run (the Go scheduler), and a
\* send that some worker waits for eventually happens, to whichever worker.
Fairness == WF_vars(Main) /\ \A w \in Workers : WF_vars(Spawn(w) \/ Finish(w) \/ Leave(w))
                          /\ WF_vars(\E v \in Workers : Send(v))

Spec == Init /\ [][Next]_vars /\ Fairness

----------------------------------------------------------------------------

TypeOK ==
    /\ main \in {"spawn", "feed", "wait", "merge", "done"}
    /\ next \in 0 .. N
    /\ group \in 0 .. Width
    /\ worker \in [Workers -> {"unborn", "ready", "busy", "gone"}]
    /\ holds \in [Workers -> Items \cup {Nothing}]
    /\ slot \in [Items -> Items \cup {Nothing}]
    /\ merged \in Seq(Items \cup {Nothing})

\* No two workers ever work on the same index, and nobody works on an index
\* whose slot is already written: the unsynchronised writes parsedFiles[i] and
\* results[i] are never two writes to one slot.
SlotHasOneWriter ==
    \A w \in Workers : worker[w] = "busy" =>
        /\ slot[holds[w]] = Nothing
        /\ \A v \in Workers : worker[v] = "busy" /\ holds[v] = holds[w] => v = w

\* When wg.Wait has returned no worker can touch a slot any more, and every
\* slot has been written with the result of its own index: the main goroutine
\* reads parsedFiles and results without a lock and never reads a zero value.
JoinIsComplete ==
    main \in {"merge", "done"} =>
        /\ \A w \in Workers : worker[w] = "gone"
        /\ \A i \in Items : slot[i] = i

\* What Check and CheckFunctions collect is what a loop over the indices
\* would have produced, whatever the number of workers and however they were
\* scheduled.
MergedAsSequential ==
    /\ \A k \in 1 .. Len(merged) : merged[k] = k - 1
    /\ main = "done" => Len(merged) = N

\* A result once stored is never overwritten.
WriteOnce ==
    [][\A i \in Items : slot[i] # Nothing => slot'[i] = slot[i]]_vars

\* The pool returns for every Jobs, zero and negative ones included, and for
\* an empty slice: the main goroutine never blocks on a send nobody receives.
Terminates == <>(main = "done")

============================================================================
