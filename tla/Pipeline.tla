------------------------------ MODULE Pipeline ------------------------------
(* One verification (Check in internal/app/check.go): the stages, the        *)
(* frontend pool with the steps of a worker written out, and the cache it    *)
(* shares with other verifiers, by way of CacheContract.  The pool is        *)
(* IndexedPool: its actions are reused, and its Finish(w), the step that     *)
(* fills a slot, is where a worker's iteration here has its result.          *)
(* CheckFunctions is a second IndexedPool; it appears as one step (Link),    *)
(* because the pool's contract is that it does what a loop would do.         *)
EXTENDS IndexedPool

CONSTANTS Version, Versions, Texts, Malformed, Illtyped, Gone, Unread, NoReport,
          Treeless,   \* malformed texts of which the frontend keeps no tree
          Miss, Nobody, Others,
          MaxEdits,   \* bound: edits of source files during the run
          MaxOthers   \* bound: cache entries written by other verifiers

ASSUME PipelineAssumption ==
    /\ Version \in Versions
    /\ Malformed \subseteq Texts /\ Illtyped \subseteq Texts /\ Treeless \subseteq Malformed
    /\ Gone \notin Texts /\ Unread \notin Texts \cup {Gone}
    /\ Miss \notin [version : Versions, file : Items, text : Texts]
    /\ Nobody \notin Versions \X Items \X Texts
    /\ Others \notin Workers
    /\ MaxEdits \in Nat /\ MaxOthers \in Nat

VARIABLES
    stage,     \* the stage of Check
    nocache,   \* Options.NoCache
    disk, observed, report,   \* as in VerifyContract
    at,        \* the next call of each worker's loop body, or "rest"
    data,      \* the bytes the worker has read
    parsed,    \* parsedFiles: the summary stored for each file
    offered, asked, answer,   \* the cache, as in CacheContract
    edits, others             \* counters of the bounds

Verify == INSTANCE VerifyContract

\* The summary this verifier's frontend makes of what a worker has read.
Summary(v, i, x) == Verify!Summary(v, i, x)

\* Slip: the path is left out of the key.
KeyWithoutPath(v, i, x) == <<v, x>>

\* cache.Key(imageKey, f.Module, f.Path, cache.Digest(data)).  The image key
\* is represented by the part of it a summary depends on, the version.
KeyOf(v, i, x) == <<v, i, x>>

Cache == INSTANCE CacheContract WITH
    Procs <- Workers \cup {Others},
    Keys <- {KeyOf(v, i, x) : v \in Versions, i \in Items, x \in Texts},
    Summaries <- {Summary(v, i, x) : v \in Versions, i \in Items, x \in Texts}

pool == <<main, next, group, worker, holds, slot, merged>>
cache == <<offered, asked, answer>>
environment == <<disk, edits, others, nocache>>
pvars == <<pool, cache, environment, stage, observed, report, at, data, parsed>>

PipelineInit ==
    /\ Init
    /\ Cache!ContractInit
    /\ Verify!VerifyInit
    /\ stage = "configuration"
    /\ nocache \in BOOLEAN
    /\ at = [w \in Workers |-> "rest"]
    /\ data = [w \in Workers |-> Unread]
    /\ parsed = [i \in Items |-> Unread]
    /\ edits = 0 /\ others = 0

----------------------------------------------------------------------------
(* The stages before the frontend: each returns early with a report.         *)

StageOrFail(from, to, codes) ==
    /\ stage = from
    /\ \/ stage' = to /\ UNCHANGED report
       \/ /\ stage' = "done"
          /\ \E code \in codes : report' = Verify!Failed(code)
    /\ UNCHANGED <<pool, cache, environment, observed, at, data, parsed>>

Configure == StageOrFail("configuration", "discovery", {"PP001"})
Discover == StageOrFail("discovery", "manifests", {"PP101"})
LoadManifests == StageOrFail("manifests", "image", {"PP601"})
\* The manifests and the configuration are read a second time for the key.
ReadImage == StageOrFail("image", "frontend", {"PP601", "PP001"})

----------------------------------------------------------------------------
(* The frontend pool                                                         *)

\* Slip: wg.Done runs while the worker is still storing its summary.
PoolStepUnjoined ==
    /\ stage = "frontend"
    /\ (\E w \in Workers : Spawn(w) \/ Leave(w)) \/ Spawned \/ Close \/ Join \/ Merge
    /\ UNCHANGED <<cache, environment, stage, observed, report, at, data, parsed>>

\* The steps that the pool takes by itself; wg.Done is deferred past the loop.
PoolStep ==
    /\ stage = "frontend"
    /\ \/ \E w \in Workers : Spawn(w) \/ (Leave(w) /\ at[w] = "rest")
       \/ Spawned \/ Close \/ Join \/ Merge
    /\ UNCHANGED <<cache, environment, stage, observed, report, at, data, parsed>>

Receive(w) ==
    /\ stage = "frontend"
    /\ at[w] = "rest"
    /\ Send(w)
    /\ at' = [at EXCEPT ![w] = "read"]
    /\ UNCHANGED <<cache, environment, stage, observed, report, data, parsed>>

\* Slip: a file that cannot be read is skipped instead of diagnosed.
ReadSourceSkipping(w) ==
    /\ at[w] = "read"
    /\ observed' = [observed EXCEPT ![holds[w]] = disk[holds[w]]]
    /\ data' = [data EXCEPT ![w] = disk[holds[w]]]
    /\ IF disk[holds[w]] = Gone
       THEN /\ worker' = [worker EXCEPT ![w] = "ready"]
            /\ at' = [at EXCEPT ![w] = "rest"]
            /\ UNCHANGED <<main, next, group, holds, slot, merged, parsed>>
       ELSE /\ at' = [at EXCEPT ![w] = IF nocache THEN "parse" ELSE "ask"]
            /\ UNCHANGED <<pool, parsed>>
    /\ UNCHANGED <<cache, environment, stage, report>>

\* os.ReadFile; a failure is this file's diagnostic and ends the iteration.
ReadSource(w) ==
    /\ at[w] = "read"
    /\ observed' = [observed EXCEPT ![holds[w]] = disk[holds[w]]]
    /\ data' = [data EXCEPT ![w] = disk[holds[w]]]
    /\ IF disk[holds[w]] = Gone
       THEN /\ Finish(w)
            /\ parsed' = [parsed EXCEPT ![holds[w]] = Summary(Version, holds[w], Gone)]
            /\ at' = [at EXCEPT ![w] = "rest"]
       ELSE /\ at' = [at EXCEPT ![w] = IF nocache THEN "parse" ELSE "ask"]
            /\ UNCHANGED <<pool, parsed>>
    /\ UNCHANGED <<cache, environment, stage, report>>

\* cache.Read begins ...
LookUp(w) ==
    /\ at[w] = "ask"
    /\ Cache!Ask(w, KeyOf(Version, holds[w], data[w]))
    /\ at' = [at EXCEPT ![w] = "answer"]
    /\ UNCHANGED <<pool, environment, stage, observed, report, data, parsed>>

\* Of the summaries a frontend makes, validSummary rejects those without a tree.
Restorable(s) == s.text \notin Treeless

\* ... and hits: the summary found is stored as if it had been parsed.
Restore(w) ==
    /\ at[w] = "answer"
    /\ \E s \in Cache!Served(asked[w]) \ {Miss} :
          /\ Restorable(s)
          /\ Cache!Answer(w, s)
          /\ parsed' = [parsed EXCEPT ![holds[w]] = s]
    /\ Finish(w)
    /\ at' = [at EXCEPT ![w] = "rest"]
    /\ UNCHANGED <<environment, stage, observed, report, data>>

NotFound(w) ==
    /\ at[w] = "answer"
    /\ Cache!Answer(w, Miss)
    /\ at' = [at EXCEPT ![w] = "parse"]
    /\ UNCHANGED <<pool, environment, stage, observed, report, data, parsed>>

\* frontend.Parse, and the slot.
Parse(w) ==
    /\ at[w] = "parse"
    /\ Finish(w)
    /\ parsed' = [parsed EXCEPT ![holds[w]] = Summary(Version, holds[w], data[w])]
    /\ at' = [at EXCEPT ![w] = IF nocache THEN "rest" ELSE "store"]
    /\ UNCHANGED <<cache, environment, stage, observed, report, data>>

\* cache.Write, whose error is ignored.
Store(w) ==
    /\ at[w] = "store"
    /\ Cache!Offer(w, KeyOf(Version, holds[w], data[w]), Summary(Version, holds[w], data[w]))
    /\ at' = [at EXCEPT ![w] = "rest"]
    /\ UNCHANGED <<pool, environment, stage, observed, report, data, parsed>>

----------------------------------------------------------------------------
(* After the pool                                                            *)

\* The diagnostics of all files are put together; with any, Check returns
\* before linking.
Collect ==
    /\ stage = "frontend"
    /\ Return
    /\ LET faulty == {i \in Items : parsed[i].text \in Malformed \cup {Gone}}
       IN  IF faulty = {}
           THEN stage' = "link" /\ UNCHANGED report
           ELSE stage' = "done" /\ report' = Verify!Rejected({parsed[i] : i \in faulty})
    /\ UNCHANGED <<cache, environment, observed, at, data, parsed>>

\* check.Link, CheckFunctions, SortModules and r.OK, on the trees in hand.
Link ==
    /\ stage = "link"
    /\ stage' = "done"
    /\ report' = Verify!Checked(parsed)
    /\ UNCHANGED <<pool, cache, environment, observed, at, data, parsed>>

----------------------------------------------------------------------------
(* Everybody else                                                            *)

\* An editor or a checkout changes a source file at any moment.
Edit(i, x) ==
    /\ edits < MaxEdits
    /\ Verify!EditDisk(i, x)
    /\ edits' = edits + 1
    /\ UNCHANGED <<pool, cache, stage, nocache, at, data, parsed, others>>

\* Another verifier, of this version or another, stores what it made of some
\* text it found in some file, now or before this run.
OtherVerifier(v, i, x) ==
    /\ others < MaxOthers
    /\ Cache!Offer(Others, KeyOf(v, i, x), Summary(v, i, x))
    /\ others' = others + 1
    /\ UNCHANGED <<pool, disk, edits, nocache, stage, observed, report, at, data, parsed>>

Loop(w) ==
    \/ Receive(w) \/ ReadSource(w) \/ LookUp(w) \/ Restore(w) \/ NotFound(w)
    \/ Parse(w) \/ Store(w)

Verifier ==
    \/ Configure \/ Discover \/ LoadManifests \/ ReadImage
    \/ PoolStep \/ (\E w \in Workers : Loop(w)) \/ Collect \/ Link

Environment ==
    \/ \E i \in Items, x \in Texts \cup {Gone} : Edit(i, x)
    \/ \E v \in Versions, i \in Items, x \in Texts : OtherVerifier(v, i, x)

Reported == stage = "done" /\ UNCHANGED pvars

PipelineNext == Verifier \/ Environment \/ Reported

\* The verifier's own goroutines keep running; nothing is assumed of others.
PipelineSpec == PipelineInit /\ [][PipelineNext]_pvars /\ WF_pvars(Verifier)

----------------------------------------------------------------------------

\* The report is the one a single worker without a cache would make of the
\* bytes that were read in this run, each file once: whatever the schedule,
\* whatever other verifiers stored, whatever was edited meanwhile.
ReportsAsSequential == Verify!VerifySpec

\* The workers, with files that cannot be read, hits and misses, still are
\* the pool the main goroutine relies on when it reads parsedFiles unlocked:
\* one writer per slot, and wg.Wait covers them all.
RefinesPool == Init /\ [][Next]_vars

\* No worker that has finished its iteration is still storing its summary
\* when the report is made: a verification leaves no cache write behind it.
QuiescentReport == stage \in {"link", "done"} => \A w \in Workers : at[w] = "rest"

\* Every verification ends with a report.
AlwaysReports == <>(stage = "done" /\ report # NoReport)

============================================================================
