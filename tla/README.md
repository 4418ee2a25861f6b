# A TLA+ model of purepy

`purepy` is a verifier for a pure subset of Python, written in Go. It reads a
project's sources with a bounded pool of goroutines and a cache on disk, links
the modules, checks every function with a second pool, and reports diagnostics.
The repository also has an example service with its host and load test
(`examples/reference_service`), and tools that test, measure, audit and package
the verifier (`tools`).

What is modelled here is what tests of such a program hardly reach: the order
in which goroutines, processes and the file system act, and what the recursive
algorithms of the checker decide about graphs and programs nobody wrote a test
for. `PROJECT.json` lists the components, runs, mutants, hazards and theorems;
its `map` ties each definition to the lines it models.

Run from this directory: `tlc -config MCPipeline.cfg MCPipeline` (and likewise
for the other runs), `tlapm PipelineProofs.tla` (and likewise).

## 1. The system

| component | state | operations | what makes it correct |
|---|---|---|---|
| pipeline, `internal/app/check.go` | stage, `parsedFiles`, report | `Check`: configuration, discovery, manifests, image key, frontend pool, link, function pool, report | the report depends on the bytes read and on nothing else; it always comes |
| worker pools, `check.go:166-242`, `check/flow.go:28-88` | channel of indices, `WaitGroup`, result slots | spawn, send, store, close, wait, merge | one writer per slot, the join covers all writes, the merge is in index order, no deadlock |
| summary cache, `internal/cache` | files in `.purepy-cache` | `Read`, `Write`, `Clean` | a hit is what was written under that key; a kill leaves no half artifact; what the user keeps there stays |
| linker, `check/program.go` | symbols, bindings, imports, walk states | `Link`: index, imports, cycles, signatures, constants | cycles are found and real; constants come after those of their imports; order does not matter |
| flow checker, `check/flow.go`, `expression.go` | environment `vars`, `loop`, diagnostics | `block`, `statement`, `bind`, `join`, `narrow` | an accepted body reads no unbound local, passes no `None` for an `int`, returns its result |
| calls and capabilities, `check/calls.go` | call edges, parameters | forwarding, unpacking, callbacks | a capability reaches only parameters that declare it |
| callback provenance, `functional_*.go` | slots and origins, a budget | `resolveCallbacks`, generic closures | least fixpoint; the budget is reported; no unbounded instantiation |
| report queries, `app/reports.go` | call edges | capability and explain | no reachable external function is hidden by a callback or by recursion |
| diagnostics, `diag` | list | `SortModules` | a total order on what a run can produce |
| configuration, manifests, discovery, command line | parsed tables, declarations, paths | load, register, walk | same result in whichever order declarations come |
| frontend, `frontend` | tree, budgets | parse, lower | a function of path and bytes |
| type model, `model` | types | accept, equal, unify | laws of the operators |
| reference service, `examples/reference_service` | asyncio tasks, transports, SQLite connection and lock, threads | accept, read, update, stream, cancel, close | updates atomic and answered truthfully; streams are the history; shutdown ends, and no operation meets a closed connection |
| load test, `loadtest/load.py` | ledger of acknowledgments and events, pending events, counters | workers, stream readers, sampler, drain, cleanup, report | a report that says ok is true; a correct service is never accused |
| differential gates, `tools/differential_*.py` | corpus, results of verifier and CPython | validate, run both, compare | passing means that both really did what each case says |
| fuzz campaign, `robustness_campaign.py` | thread pool, process groups, report on disk | start, poll, kill, verdict | only completed targets are credited; no process is left over |
| benchmark, `benchmark.py`, `benchmark_process.py` | launcher, command, metrics file; project, cache, samples | run a process, measure, compare worker counts | no command without an owner; only right outputs are reported; edits are undone |
| benchmark comparison, `benchmark_compare.py`, `performance_acceptance.py` | two reports, a profile | validate, compare, accept | a regression fails, an improvement passes, an incomparable report does neither |
| release packaging, `package_binary.py` | archives, index, checksums | package, finalize, verify | a verified release is of one snapshot, complete and intact |
| specification audit, `spec_coverage.py` | specification, maps, tests, report | inventory, audit, render | an up-to-date report leaves no obligation unmapped |

**Interaction.** `Check` calls the stages in turn. Its workers read source
files, ask the cache, parse, store into their own slot of `parsedFiles` and then
write the cache; the main goroutine reads the slots after `wg.Wait`, without a
lock. The same directory is used by other verifier processes and by
`purepy cache clean`. `Link` hands one shared `Program` to the workers of
`CheckFunctions`, each of which owns its checker. The clients of the service
talk to one asyncio event loop, which hands SQLite operations to threads under
one lock; the load test is such a client. Each tool runs verifiers,
interpreters or compilers as processes of their own and believes what they
return only after comparing it.

**What is hard.** Unsynchronised slots whose safety rests on the pool; an
unbuffered channel that needs a receiver; a cache of plain files with no lock,
where a process may be killed between any two calls and names and inode numbers
are used again; files edited during a run; recursion over graphs with cycles;
an analysis that checks a loop body once and must be right for every iteration;
fixpoints over maps without an order, within a budget; cancellation that meets a thread which cannot be
cancelled; clients that never read; nested deadlines, signals and exits that
race one another; and tools that certify what they did not do themselves.
`PROJECT.json` lists 39 such hazards, each at its line. Those with no property
yet are named in the plan below.

## 2. The modules

```
IndexedPool <--EXTENDS-- Pipeline --INSTANCE--> VerifyContract  (abstract)
                          ^  \------INSTANCE--> CacheContract   (abstract)
                          |                          ^ implemented by
                     PipelineProofs                 SummaryCache <-- SummaryCacheProofs

MCChecker --EXTENDS--> ImportGraph                        <-- ImportGraphProofs
          --EXTENDS--> FlowExec --> FlowCheck             <-- FlowProofs
          --EXTENDS--> CallbackProvenance, GenericCycles  <-- ResolutionProofs

ReferenceService --implements--> ServiceContract (abstract) <--INSTANCE-- LoadTest
     ^                                                                      ^
ReferenceServiceProofs                                              LoadTestProofs

MCTools --EXTENDS--> DifferentialGate, FuzzCampaign, BenchmarkProcess, BenchmarkMeasure,
                     BenchmarkComparison, EvidenceAudit, Release
                     (<-- ToolsProofs)
```

`MCChecker` and `MCTools` put parts that share no state side by side; a
behaviour belongs to one of them, the others stay where they start.

**IndexedPool** is the pool that the source writes out twice. The result of a
worker is abstracted to the index it was computed for. `Send` is the send and
the receive of the unbuffered channel in one step, `Finish` the write of the
slot, `Leave` the end of the range over the closed channel with its deferred
`wg.Done`, `Join` the return of `wg.Wait`. `Width` models the two clamps of
`Jobs`. `Fallback` is what replaces a `Jobs` below one: `GOMAXPROCS` in the
frontend pool, 1 in the function pool.

**Pipeline** is one `Check`. It extends the pool and gives its workers their
loop body: `ReadSource`, `LookUp`, `Restore` or `NotFound`, `Parse`, `Store`. The step
that fills the slot is the pool's `Finish`; `parsed` is `parsedFiles`. The
stages before and after it return early as the code does. Texts are model
values: fine, ill-typed, malformed with a tree and malformed without one (a
summary without a tree is written but `validSummary` refuses it on reading).
`Edit` is an editor that changes files during the run, `OtherVerifier` another
process, of this version or another, that writes the cache.

**VerifyContract** says what the report may depend on; **CacheContract** says
what the pipeline may assume of the cache: a lossy store that answers a key only
with what was offered under it. Pipeline uses the latter instead of the files.

**SummaryCache** is the cache as system calls on one directory, an action per
call, for any number of processes. `names` maps directory entries to inodes and `content`
inodes to bytes; an inode without name and descriptor is free and may be given
out again. A checksum is represented by the payload it was taken of, so damaged
bytes never have theirs (SHA-256 is taken to have no collisions).
`Crash` kills a process between two calls, `Damage` changes bytes, failing calls
and reused temporary names are switched by `Faults`. Several writers may use one final name at once, and `os.Rename` moves whatever
the temporary name refers to by then. Failing calls include the deferred `os.Remove` of a temporary file, whose error
nobody looks at (`DropFails`, counted in `stuck`).

A name may also refer to a directory or a symbolic link (`Folder`, `Link`), which are the user's. `Layouts` says what
he has in the directory at the start, and with the fault "user" he puts such things under final names at any time
(`Meddle`). The two name tests of `Clean` are two sets, `Suffixed` (ends in `.json`) and `HexStem` (64 hex digits but for
such an ending); names in both are artifacts' names, one per key, and the user has names that pass only one. `List`
notes the entries with the type they have then and settles by the whole test of `cache.go:365` which of them the loop will remove; `Sweep` removes
one of these by name, whatever it refers to by then. `MaxMishaps` bounds kills and failed removals of
temporary files together, `MaxTaken` how many final names the user has taken at a time.

**FlowCheck** is the flow checker as operators: `Bind`, `Join`, `Narrow` and
`ResetRefinements` are the functions of `flow.go` of the same names. The code
recurses over the tree of statements. Here a body is that tree written down
in order, with a line where a block ends (`Else`, `EndIf`, `EndLoop`), and the one call
of `statement` for an `If` or a loop is cut at those lines: `CheckIf`,
`CheckElse`, `CheckEndIf`, `CheckLoop`, `CheckEndLoop`. `After` is the checker
after a line, and `Walk` the checker before every line. What the call keeps in local
variables between its blocks (`before`, `left`) is read from the walk at the line
where it was computed. A checker is a record of environment, reported
codes and whether its block goes on (`alive`). `Body` says which listings are trees. Types are int,
`None` and the optional of int, which is all that narrowing distinguishes. A test may be a test for
`None` or the literal `True`, negated or not, or one the checker cannot see through,
and `and` or `or` may follow with a use that the left side guards. **FlowExec** is what
the interpreter does with a body that FlowCheck accepted: one action per kind of
statement, tests the checker cannot see through come out either way.

**ImportGraph** is the two recursive walks of the linker, `cycles` and
`constants`, with a frame per call. `state[name] == 1` (or `visiting`) is
membership in the stack, `state[name] == 2` (or `done`) membership in `finished`
(or `checked`), which also record the order.

**CallbackProvenance** is `resolveCallbacks`: one action per binding, per
target of an invocation and per argument, with the budget decremented where the
code does. Go's maps are iterated in any order, and entries added to the map
under iteration may be visited or not; both are choices here. `Origins` has no
case for the result of a result: the targets of calls are names of locals, so
that results nest one level and the limit of 128 levels in the code is not reached. The same
program may be checked several times (`CheckAgain`), and when it was resolved it runs: `Flow`, `CallBack` and
`CallOf` are what CPython does with its bindings and calls, against which the
resolved slots and the walk of the capability report (`Walks`) are held.

**GenericCycles** is `checkGenericCycles`: for each call with type arguments a
search from its callee for its caller, with the queue, the seen names and the
budget of the code, and the test that a call on a cycle passes the type
parameters on as they are. A type argument is a type parameter of the caller or
another type, by itself or wrapped in a further one. An accepted program is
then instantiated (`FirstInstance`, `Instantiate`): what is tracked of an
instance is how deep each of its types is wrapped. Closures have the types of
the instance that creates them, and a callback runs an instance made before.

**ServiceContract** is what the clients of the reference service may rely on: an
update happens once and whole or not at all, the answer says which, and a
stream is a prefix of the history. **ReferenceService** is the host with the application: an action
is a stretch of a task from one suspending `await` to the next, a statement of a
thread, or a step of the network. The two statements of an update are
two actions (`Execute`, `Insert`), and a cancelled task still joins its thread (`Joined`).
`Interrupt`, `CloseService`, `Gathered`, `ServerClosed` and `CloseDatabase` are the
shutdown.

**LoadTest** plays against ServiceContract, so it relies on nothing the service
does not promise; a bounded number of times the service, the
network or the drain fails. The number of dispatched requests is the clock. The ledger's
settling, its bound on pending events, the sampler's thread, and the part of the acceptance
profile about the ledger follow the code.

**DifferentialGate** has the real behaviour of verifier and CPython as history
variables, and the lists they return as what the parent sees. **FuzzCampaign**
has one process group per target, whose leader may end while its fuzz
workers live, and signals at any moment. **BenchmarkProcess** is one measured command with its launcher,
pipes, two deadlines and interrupts. **BenchmarkMeasure** is the protocol of
runs, edits and cross-checks around a cache; an invocation may go wrong in its output or its count
of hits. **BenchmarkComparison** decides between two reports on medians,
noise and growth. **Release** has machines with their own
checkouts, edited while they compile, and one gathering directory in which files are damaged.
**EvidenceAudit** has an editor of the specification, the maps, the
tests and the report, and the two options `--write` and `--check`.

Definitions marked "Slip" are plausible mistakes in the code next to the
definition they would replace. No specification uses them; they serve to show
that each property can be violated by a bug of that kind.

## 3. The runs

| run | what is asked | bounds | states |
|---|---|---|---|
| `pool` | one writer per slot, complete join, sequential merge, termination | 4 items, `Jobs = -1` replaced by 3 | 1 445 |
| `cache_races` | a hit is faithful; the files implement `CacheContract` | 2 processes reading and writing 2 keys and 2 summaries through 1 temporary name, damage, name reuse, inode reuse | 1.2 million |
| `cache_orderly` | only whole artifacts carry final names; only a kill or a failed removal leaves litter; what the user keeps stays | a writer, a process that writes, reads or cleans; 2 keys, 1 summary, 2 temporary names; failing calls, 1 kill or failed removal; 2 files of the user's, 1 final name he takes | 1.8 million |
| `cache_clean_after_kill` | does a clean remove every artifact? (violated) | 1 process, 1 kill | small |
| `pipeline` | the report is that of a sequential run without cache; the workers refine the pool; no store outlives the report; a report always comes | 2 files, `Jobs = 0` replaced by 3 and cut to 2 workers, 4 kinds of text and a missing file, 1 edit, 1 foreign cache entry of 2 versions | 835 thousand |
| `checker` | cycles real and complete, accepted graphs acyclic, constants in order; accepted bodies read no unbound local, use no `None` as an `int`, do not fall through; callbacks are resolved to the least fixpoint and hide nothing; an accepted generic program has finitely many instances | every graph of 4 modules with at most 2 imports each, the last at most 1; every accepted body of the form before, loop or branch, after, with one nested in it, and branches whose test guards a use, over 1 local or parameter; 5 670 callback programs of 3 bindings and at most 1 invocation, checked up to twice with a budget of 60; 1 541 lists of at most 3 calls between 3 functions and a closure, a budget of 4 | 635 thousand |
| `callbacks_budget` | is the verdict on a program the same in every check? (violated) | the same programs, a budget of 50, 2 checks | small |
| `service` | updates atomic and truthfully answered; the service implements its contract; no operation outlives the database; the host stops; streams catch up | a client that updates and one that asks anything; 1 event before, pages of 1; SQLite errors, clients that leave or go deaf | 233 thousand |
| `service_cancel` | is a cancelled invocation cancelled? (violated) | 1 client, SQLite errors | small |
| `service_stop` | does every cancelled invocation end? (violated) | 1 client of a stream | small |
| `load` | a report that says ok is true and acceptable; a correct service is not accused; the sampler meets an open database | 2 workers, 4 requests, up to 2 streams, 4 pending events, 1 fault with fewer than 2 streams | 1.1 million |
| `tools` | each tool's certificate is honest, and no process is left without an owner | see below | 736 thousand |

Why the bounds are enough to be interesting:

* `pool`: fewer workers than items, so a worker takes several and the sender
  has to wait. `Jobs` is replaced there and not cut; `pipeline` has it replaced and cut. An empty slice is in no run;
  the proofs of the safety properties cover it like all other sizes, and with nothing to send nothing can block.
* `cache_races`: one temporary name makes every reuse collide. Two processes
  suffice for a read to see the file of another between its `Lstat` and its
  `Open`, and five inodes for one to be freed and taken again in between.
  `PublishedWhole` is not asked here: with a name reused by a second writer,
  `Rename` may publish a file that is still being written. `Read` refuses it, so `HitIsFaithful` holds
  nevertheless. `cache_orderly` excludes reuse (the random names of `CreateTemp`
  collide with negligible probability) and asks for the stronger property.
* `cache_orderly`: two processes are enough for a clean whose listing another process or the user
  overtakes, and for a rename over what has just appeared; one of the user's files has the ending alone, the other
  the hex digits alone, and what he puts under a final name is a directory, empty or not, or a link.
* `pipeline`: two files on two workers give every overlap of two loop bodies; one
  foreign entry, of either version and for either file, is what a key that
  lacks a part can confuse.
* `checker`, imports: four modules allow two overlapping cycles, a cycle behind
  a path, and a module that leads into two cycles.
* `checker`, bodies: a fault of the analysis needs an assignment or a refinement, a
  join or back edge that must forget it, and a later use; the shapes hold
  two more levels than that. Two locals do not interact in the checker's
  environment except through tests on each. The proofs cover every body and set of locals.
* `checker`, callbacks: two functions that pass each other and an external one
  through parameters, results and a local need up to three passes; a
  budget of 60 lets most programs resolve and stops some. The proofs cover every program and budget.
* `checker`, generic calls: three calls make a cycle through the closure and
  back, one through another function, and a call that leads onto a cycle
  without being on it; parameters are passed on, swapped, wrapped or dropped. A budget of 4 judges
  most of these programs and stops some. The proof covers every program.
* `service`: with one event before and pages of one, a stream takes several
  pages while an update is on its way, or pauses between two; two
  clients contend for the lock, and one of them may be cancelled while the
  other waits. A request that needs no database comes in two parts, so that it can be cut
  in between.
* `load`: two workers give acknowledgments out of order; two requests of four are
  writes, so events may come before and after both. As many events may be pending as there are
  requests, which is what `NoFalseAlarm` supposes of the limit (8192 in the code); the two updates never fill the ledger in this run,
  and that a correct service never does is part of the proof. With two streams no faults are added, to keep the run small: what a fault does
  to one stream it does to each.
* `tools`: two function cases and two departures let one error mask another; two
  targets on two slots end in each order; two repeats times two worker counts
  and 7 mistaken invocations. That bound is exact: a report that is wrong the same way
  in all repeats and columns is accepted by the benchmark, and takes 8 equal
  mistakes here, 2 for each repeat and column. Two sizes and worker counts with values up to 4
  noise units separate every branch of the comparison; one report is spoiled. Three lines of specification make a
  list with its introduction, two rows of maps make duplicates and gaps. Two machines and one damaged file
  make a release that is mixed or incomplete.

**Fairness.** The runs that ask for termination use weak fairness of the main
goroutine, of each worker and of the send as a whole: the Go scheduler runs every runnable
goroutine, and an unbuffered send completes with some waiting receiver, but
nothing says with which. In Pipeline it is weak fairness of the verifier as a whole; nothing is
assumed of editors or other verifiers. ImportGraph states weak fairness of the
sequential program but is asked only for safety. In ReferenceService the event
loop runs every task that is ready, a thread runs what it was given, the network
carries or loses what was sent, and a close that has begun goes on; nothing is
assumed of clients, nor that anyone stops the host. So `StopFinishes` says that
the host stops *once its clients are gone*; without that it may not, see `service_stop`.

**Deadlock** is checked in every run. The terminal states have explicit
stuttering actions (`Stopped`, `Reported`, `Halted`, `Linked`, `Rests`, `BenchmarkOver`,
`ReleaseOver` and their like), so that any other state without a step is an error.

**Symmetry** is used in the two large cache runs: keys in both; temporary names in one; processes with
the same roles and summaries in the other; and of the workers in `load` and the machines in `tools`. Their properties are invariants and step properties that
do not tell the permuted values apart; no liveness is checked with symmetry.

**What the runs found.**

* `cache_clean_after_kill`: `docs/PUREPY_SPEC.md:2056` says that `purepy cache
  clean` "Removes verifier analysis artifacts." `Clean` (`cache.go:365`) takes
  only regular files named `<64 hex digits>.json` for artifacts. If a verifier is
  killed in `Write` between `os.CreateTemp` and the deferred `os.Remove`, as in the trace, or that `Remove` fails, its `.purepy-*` file
  stays through every later clean, which reports success.
* `callbacks_budget`: the worklist spends its budget while it iterates over maps that it also adds to
  (`functional_dependencies.go:78`), so the amount spent depends on their order. A program close to the
  budget is accepted by one check and rejected with PP203 by the next, while
  `docs/PUREPY_SPEC.md:2246` asks for deterministic results.
* `service_stop`: the host's `_invoke` waits for its transport to flush
  (`host/main.py:52`). A client that stays connected and does not read keeps
  the cancelled invocation, and with it `Service.close`, waiting for ever;
  the service's `README.md:40` says that stopping the host closes their resources.
* `service_cancel`: if the SQLite operation of a cancelled invocation fails, the
  `raise` in the `finally` (`host/database.py:93`) raises the SQLite error in place of
  the cancellation, and the invocation goes on to answer 503.

Two observations of the same code that no run asks about: a task that is
cancelled before its first step never enters its `try`, so its `finally` does not
close the transport (the comment at `host/main.py:62` takes every task to have
one); and a connection that is accepted after `close` took its snapshot of the
tasks is not cancelled, but waited for.

## 4. The proofs

| module | theorems |
|---|---|
| `PipelineProofs` | of the pool `TypeOK`, `SlotHasOneWriter`, `JoinIsComplete`, `MergedAsSequential`, `WriteOnce`, for every `N`, `Jobs` and `Fallback`; `RefinesPool`, `QuiescentReport`, and that the report is that of a sequential run (`ReportsAsSequential`), for any files, texts, workers, edits and other verifiers |
| `SummaryCacheProofs` | `TypeOK`, `HitIsFaithful`, `UserEntriesKept`, `NoLitter`, and that SummaryCache implements CacheContract, for any processes, keys, names, layouts, inodes, faults and kills; `PublishedWhole`, without name reuse and damage |
| `ImportGraphProofs` | `TypeOK`, `CycleIsReal`, `AcceptedIsAcyclic`, `EveryKnotReported`, `ConstantsAfterImports`, `ConstantsOnce`, `RecursionBounded`, for every set of modules, order and family of graphs |
| `FlowProofs` | `NoUnboundRead`, `NoneNeverEscapes`, `NoFallThrough`, `TypeIsFunctionWide`, for every set of locals and every body of any length and nesting |
| `ResolutionProofs` | `ResolvedIsLeast`, `NothingHidden`, for every program, budget, number of checks and order of the maps; `InstancesAreBounded`, for every list of calls, nesting of functions, arities and budget |
| `ReferenceServiceProofs` | `TypeOK`, `BalanceMatchesEvents`, `OwnOperationsFinish`, and that the service implements ServiceContract, for any clients, requests, earlier updates and sizes of a page |
| `LoadTestProofs` | `SamplerMeetsOpenDatabase`, `OkIsAcceptable` and `NoFalseAlarm`, for any workers, requests, streams and misbehaviour of the service; `OkIsTrue`, while at most one thing went wrong |
| `ToolsProofs` | `CommandHasAnOwner`, `CampaignIsHonest`, `ReleaseIsWhole`, `GateIsHonest`, `MeasureIsHonest`, `ComparisonIsFair`, `AuditIsComplete`, for any targets, slots, machines, corpora, repeats, sizes, values and specifications |

Assumptions are those named in the modules: `PoolAssumption` (`N` a natural
number, `Fallback` positive), `PipelineAssumption` (kinds of texts, and special values that
are none of them), `CacheAssumption` (the kinds of names are disjoint, a name is an artifact's iff it has the ending and the digits, regular
files that are there at the start have names of the user's, and the special values are none of these), `ProvenanceAssumption` (functions and slots are
apart, the signatures and programs are made of them, and only verified functions have calls), `GenericAssumption`
(finitely many functions, nested without a cycle, and calls of the form the checker collects), `FlowAssumption` (bodies
are listings of trees, what a parser produces), `GraphAssumption` (`Order` lists every module,
imports are sequences of modules), `ServiceAssumption` (every request has a part, a page has a row), `LoadAssumption`
(natural numbers, `WriteEvery` above one), `GateAssumption` (a corpus with cases, each with calls), `MeasureAssumption`
(finitely many files, one of them edited, positive counts), `CompareAssumption` (positive sizes, some worker count), `LinesAssumption`
(a line is a heading, a blank, a fence or text, and whether a text has a keyword, is an item or ends in a colon is
decided by that text, as the patterns of `spec_coverage.py` do).
Five theorems have a hypothesis of their own:

* `RecursionIsBounded`: the modules are finite.
* `CachePublishesWhole`: `Faults` has neither "damage" nor "reuse". With either
  `PublishedWhole` is false, and what is then true is `HitIsFaithful`.
* `ComparisonsAreFair`: at least two worker counts. With one, the identity of the
  edited input, which a spoiled report alters, has nothing it could contradict.
* `MeasuresAreHonest`: `MaxMistakes < 2 * (Workers * Repeats)`. The run shows the
  property at the largest bound this allows, 7 with two of each; with as many mistakes as that the benchmark can be deceived.
* `OkIsBelieved`: `MaxFaults` is at most 1 for every number of streams, as in the run. `OneFaultIsNoticed`
  says it of the states with at most one fault, whatever `MaxFaults`. With two faults `OkIsTrue` is false: two updates
  under way at once, each answered with the other's balance, leave nothing the test could notice.

**The pool.** That every slot is full after `wg.Wait` is not inductive: one has to
know where the index of an empty slot is. The invariant says that every index is
unsent with an empty slot, or held by exactly one busy worker, or stored; and
that the `WaitGroup` counts exactly the workers that run. When the counter is
zero nobody holds an index, and since all were sent all are stored.

**The cache.** `Honest` says of every inode, whatever name it has by now: if its
payload equals its checksum, then that payload was offered under the key the
artifact carries. Every system call
keeps it, and `Read` returns only a payload that equals its checksum under the
key asked for. So `HitIsFaithful` needs nothing about names, inode numbers or
interleavings. For the refinement each step is shown to be an `Ask`, `Answer`,
`Offer` or `Forget` of the contract, or to leave its variables unchanged.

`NoLitter` is not inductive either: while a process is at work its file is no litter
yet. `LitterBound` counts the temporary names in use that no writer will remove
any more, whoever is at work; a kill adds one, and so does a deferred `Remove` that fails, and nothing else: every other way out of `Write`
comes to `Drop`.

`UserEntriesKept` has two exceptions, which the code makes: `os.Rename` replaces a link under an artifact's name by the
artifact, and `Clean`, which removes by name what it listed before, removes a link or an empty directory that the user has put in the
place of an artifact since. The proof shows that there is no third. A rename writes only final names, and those and the removed temporary name
are never names of the user's (`OwnTemp`: while a writer works, its temporary name carries a file or nothing); what a clean has left to remove
are listed files with an artifact's name (`TodoOwned`), by the test of `cache.go:365` alone (`OwnedAreArtifacts`). For `PublishedWhole` the invariant
`Tidy` says who may write what: two writers never share a name, the file a writer fills is
the one under its name, before the rename that file is complete, and no inode has two names.

**The pipeline.** A loop body that reads, asks, restores or parses and stores is
a stutter of the pool but for the one step that fills the slot. `Tied` follows the bytes: what
a worker has in hand is what it has read of the file of its index, what it waits for is the answer to that,
and a full slot has the summary of what was read. A hit is as good as a parse
because the cache, by its contract, answers with what was offered under the key, and the
key determines version, file and text (`HonestOffers`). The pool's invariant then gives the report all slots.

**The import walks.** The two walks share their shape, so the invariant is stated
once, for the sequence that the walk in progress fills (`Seen`) and an excuse
for the imports it passed over: that a cycle has been reported, or that the imported module
needs this one. The stack is a simple path of imports (`Path`, `Simple`); what
a call has followed is seen, excused, or the call above it (`Followed`); hence
what leaves the stack comes after its imports (`Ordered`). A reported cycle is a
segment of that path. Without one, `finished` lists every module after all it
imports, the modules before any position are closed under imports, and so no
module needs itself. That every knot is reported rests on what `Followed` and
`Phases` keep of an import that was passed over: its cycle was reported *from the
imported module*. If no reported cycle started in the knot of `m`, every module of that
knot would come after those of the knot that it imports, and the modules of the knot up to any
position would be closed; then `m` would not need itself. `Needs(m)` is defined as the intersection of all closed sets
around `m`, which makes these facts provable without induction.

**The flow checker.** Its two halves are tied by `FlowInv`: there is a walk of the
checker that reported nothing and describes the state. It is needed because
`NoUnboundRead` and the others say nothing of where execution is. `Passes` is a
walk that has nothing to report. A type that it finds anywhere is the one it ends with,
although a second branch starts without what the first one found: it waits at the
end of that branch (`Keeps`) and the join has it back. Execution only stands where the walk is alive.
`Standing` relates the values of the locals to the walk at the line that comes next
*and at every loop around it*: the values fit what the checker knew when it entered
that loop, refinements of what the loop assigns removed (`At`). That is what makes
a `continue`, a `break` and the next iteration sound although the body was walked once. What the loop
assigns was reset when the walk entered it, what it does not assign still has the value it was
entered with. What a walk computes is shown by induction over its lines: not with an
operator, but for the set of the lines of which it holds, from the well-foundedness
of the naturals.

**Callback provenance.** That a resolved assignment is the least closed one is
not inductive. `Least` says that what has been found at any time is below every
closed assignment; `Progress` says what is closed already in a pass that has found
nothing new so far: the bindings and invocations before the current one, and of
the current one the targets visited. A pass that ends without a change has
closed everything. Since `Add` only grows values, and a pass that grows one starts
another, neither the order nor the set of targets that an iteration
happens to see matters. `Running` says that what the running program holds is
below what was resolved, and that every active function is one the report's walk
reaches; both follow because the resolved assignment is closed.

**Generic calls.** The searches are about reachability, the instances about
depths, and the invariant has to join them. `Frontier` says of a search that
every name seen has its callees seen or queued, and the caller is not among the seen; so a search that
ends without the caller has shown that the callee does not lead back
(`Judged`: each judged call is refused, passes its parameters on, or is on no cycle). `Grown`
bounds the depth of an instance of `f` by the number of outermost functions that
lead to the one around `f` and that it does not lead back to. A call off every
cycle adds its caller to that set and may wrap once; a call on a cycle keeps it
and may not wrap. Reachability is, as in the import walks, the
intersection of closed sets, which needs no induction.

**The service.** Nearly everything is about one connection: `InOrder` relates its task, its
operation, its request and what it was sent. What connects them is the lock
(`Locked`: only between the two statements of an update do balance and events differ, and
then the holder knows by how much), the table (`Numbered`, `Attributed`: every event is of an
update whose operation says so) and the shutdown (`Stopping`: after `gather` every
task the host cancelled has ended, and a task that was cancelled has joined its thread
before). The refinement maps the second statement of an update, with its commit, to `Apply`, the statement of a
read to `Look`, the step that gives the answer to `Answer`, and the writing of events to `Deliver`.

**The load test.** `Books` holds whatever the service does: the tally of attempts is
the number of dispatched requests, without errors that of successes is the number of requests returned, and a report
without errors was reconciled; so a report that says ok satisfies the profile. `NoFalseAlarm` needs
the whole of class `Events`. `Unaccused` says that, while nothing has gone wrong, the acknowledgments
up to `floor` and in `ahead` are exactly the updates whose workers have their answers; an entry
is pending iff its event was acknowledged or seen, but not acknowledged and seen by all; what a
worker noted as its watermark was applied before its read looked; and an event in hand is
the one after the last of its stream. From these every comparison the test makes succeeds:
an acknowledgment is never known already, an arrival never precedes its request's start, a read lies between its bounds,
the books never overflow (a pending event has a request of its own), and after a drain that
caught up the counts agree.

`OkIsTrue` is about a service that may err, so that no conjunct of `Unaccused` is left. `Sound` separates what
the service did from what the test was told. Of the service it says that what it remembers of an update is
what the ledger holds, and that one fault makes one false answer or one entry of the ledger nobody remembers, but
not both (`OneSlip`). Of the test it says that without an error every request that returned was answered, the
balances of the updates among them are what is acknowledged, each of one update (`Numbered`), the
streams were read in order, and an event that came too early still waits for its acknowledgment or was
acknowledged to an update dispatched by then (`Foretold`). At the end the counts of `Books` agree, so as many balances as
updates fill `1 .. floor`. An answer that is true is in the ledger where it says; and if one is false, the entry it
points at was applied for an update whose answer is true and names the same balance, which `Numbered` forbids.

**The tools.** *Process:* `Measured` says that a launcher that has its measurement has reaped the command,
and one that killed it has reported a timeout. *Campaign:* a verdict `passed` is given to a target
whose leader ended by itself and is gone, and a report, the one being written included, credits only
such targets. *Release:* an intact archive is made of the tree its inventory
declares (`Faithful`), wherever it is copied, so that archives whose inventories
agree are of one tree. *Gates:* what a worker returns lists the outcomes of its
calls in order; the comparison then has one outcome for each call, of what was really done.
*Measure:* mistakes are counted: a wrong output that was recorded has cost two
mistakes in every repeat so far (`Spent`), a wrong baseline as well (`SpentOnBaseline`), and everything that
went wrong and counts has left one of the two behind (`Traced`). *Comparison:* a report that was
spoiled is inconsistent with itself at the place where it was. *Audit:* `Kept` says what
the pass over the lines knows after each of them: its section, whether it is in an
example, one clause of every text, and the lines that introduce lists; it is shown by induction over the lines, like the walks of the flow
checker. Since an item stays in the section of its list and only the last of equal items is kept, the
keys of the mandatory clauses are exactly those of the obligations, each once, and an
audit without errors has one row for each.

`PoolTypeCorrect`, `PoolWriteOnce`, `CacheTypeCorrect`, `ServiceIsTyped`, `ChecksConstantsOnce` and
`RecursionIsBounded` are proved and not asked of a run.

**Only model-checked.** Liveness (`Terminates`, `AlwaysReports`, `StopFinishes`, `StreamsCatchUp`) and `ENABLED`
are beyond the prover. Every safety property and every refinement a passing run checks is also a theorem.

## 5. What is left out

* In the modelled parts: text, spans, timings and the wording of diagnostics;
  the structural validation of a summary beyond "without a tree";
  what `Link` decides inside Pipeline (a property of the texts there); expressions other than
  reading a local, testing for `None`, and `and` and `or` of these; closures, records and callables as locals; `else` of loops, which is rejected.
* The cache: what can fail in `Write` before there is a temporary file (`Mkdir`, `safeDir`, `Marshal`) ends it with an error like a
  failing `CreateTemp` and is not told apart from it. `Clean`'s `Lstat`, `safeDir` and `ReadDir` are one step. A `Link` leads out of the directory, and
  whether a `Folder` is empty is a choice when it is removed. The user puts nothing under a name of the
  form `.purepy-*` while the verifier runs, and does not take the cache directory away.
* The cache key is modelled by the parts that a summary depends on: version, file and
  text. That the configuration and the manifests are read twice
  (`check.go:144`) can only add misses and is not modelled beyond its stage.
* Callbacks and generic calls: what the checker collects for `resolveCallbacks` and
  `checkGenericCycles` is an input; calls of external functions, which lead nowhere, are left
  out of the latter. The captures and the equality of closures (`functional_closures.go:11-150`)
  and recursive record types (`functional_types.go:448`) are not modelled.
* The service: parsing of bytes, the bounds of an increment, rendering; a second
  cancellation of `close`.
* The load test: latencies, memory trends, budgets of bytes; without `--duration`
  the workers stop by the count alone, which is a part of the behaviours modelled with it; that
  `run` itself asks for the memory of the service (`load.py:403`). Its cleanup (`load.py:438-465`)
  is one step that succeeds; what fails in it adds an error to the report, which then does not say ok.
* The benchmark: a launcher that is killed from outside, an interrupt between
  `Popen` and the `try` behind it, or between `wait4` and the end of its loop
  (`benchmark.py:201`): they leave a command that nobody owns, or end a measurement although it
  succeeded, and the code has no provision for them. The first two are steps of the
  module (`abandoned`), which `CommandHasAnOwner` excepts; the third is left out.
* The campaign: `main` prints a last line after the report is written (`robustness_campaign.py:257`); if
  that print fails, the command returns 1 although the report says passed.
* The release: `finalize` reads the directory in one step. The audit: a call
  with neither `--write` nor `--check`, which changes nothing.
* The call checker, the unsafe ancestors of imports (`program.go:350`), the marks of alias
  expansion (`flow.go:152`), the rest of the linker and of the reports: planned below.
* The corpora and generators of the differential tests, the syntax gate, the
  other example programs, generated Unicode tables: data and straight-line code
  that keeps no state.

## 6. The plan

Done, in this order: the pool, the cache, their contracts, the pipeline, the
flow checker, the import walks; callback provenance with the walk of the
reports; generic calls; the reference service with its contract; the load test; the tools; and the proofs of
section 4. Still to come:

1. `Authority`: forwarding of capabilities in calls (`calls.go`).
2. `Linker`: indexing, bindings and unsafe ancestors of imports; `ManifestSet`:
   declarations in whichever order.
3. `DiagSort`: `SortModules` as a total order; `Cli`: exit codes and the recovery of panics.
4. `AliasExpansion` and `TypeAlgebra`: marks and budgets of alias expansion,
   acceptance and unification against reference definitions.
5. FlowCheck: narrowing inside conditional expressions, and closures over locals.

Theorems to come: the invariants of the modules above as they are written.
