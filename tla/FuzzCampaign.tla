---------------------------- MODULE FuzzCampaign ----------------------------
(* tools/robustness_campaign.py: a thread pool that runs one Go fuzz process *)
(* per target in a session of its own, polls it, kills its process group on  *)
(* a timeout or a signal, and a main thread that keeps a report on disk.     *)
EXTENDS Naturals, FiniteSets

CONSTANTS
    Targets,     \* the selected fuzz targets
    Concurrent   \* --concurrent-targets

VARIABLES
    main,      \* how far main is
    runner,    \* each target's run_target: where it is, and its record's verdict
    process,   \* each target's process group: the leader, and its fuzz workers alive
    log,       \* what each leader left: its exit status and the evidence it logged
    cancelled, \* the event the signal handler sets
    sources,   \* the Go inputs were edited (also by Go, which saves failing seeds)
    records,   \* the targets whose results main has collected
    temp,      \* the report being written to the temporary file
    disk,      \* report.json
    returned   \* what main returned, or "killed" or "raised"

campaignVars == <<main, runner, process, log, cancelled, sources, records, temp, disk, returned>>

\* The evidence run_target asks for: PASS and ok, executions, a completed
\* baseline with all mutation workers, the whole budget, no failing input.
Evidence == {"pass", "executions", "baseline", "budget", "seedless"}
NoReport == [status |-> "none", passed |-> {}, failed |-> {}]
Verdicts == [t \in Targets |-> runner[t].verdict]
ReportOf(status, done) ==
    [status |-> status, passed |-> {t \in done : Verdicts[t] = "passed"},
     failed |-> {t \in done : Verdicts[t] # "passed"}]

CampaignInit ==
    /\ main = "start"
    /\ runner = [t \in Targets |-> [at |-> "queued", verdict |-> "none", killed |-> FALSE]]
    /\ process = [t \in Targets |-> [leader |-> "none", workers |-> FALSE]]
    /\ log = [t \in Targets |-> [exit |-> "none", evidence |-> {}]]
    /\ cancelled = FALSE /\ sources = "asTaken"
    /\ records = {} /\ temp = NoReport /\ disk = NoReport /\ returned = "none"

Returns(r) == main' = "exited" /\ returned' = r
PoolGone == \A t \in Targets : runner[t].at = "done"

----------------------------------------------------------------------------
(* The fuzz processes.                                                       *)

\* go test ends, with some of the evidence in its log.  A failing input is
\* saved as a seed, one of the Go inputs.  After a crash of the leader its fuzz
\* workers may go on.
LeaderEnds(t) ==
    /\ process[t].leader = "alive"
    /\ \E missing \in {{}} \cup {{e} : e \in Evidence}, exit \in {"0", "1"}, orphans \in BOOLEAN :
          /\ exit = "0" => ~ orphans
          /\ log' = [log EXCEPT ![t] = [exit |-> exit, evidence |-> Evidence \ missing]]
          /\ process' = [process EXCEPT ![t] = [leader |-> "zombie", workers |-> orphans]]
          /\ sources' = IF "seedless" \in missing THEN "edited" ELSE sources
    /\ UNCHANGED <<main, runner, cancelled, records, temp, disk, returned>>

----------------------------------------------------------------------------
(* run_command and run_target, in a thread of the pool.                      *)

Busy == {t \in Targets : runner[t].at = "polling"}
Ran(t, v, killed) ==
    runner' = [runner EXCEPT ![t] = [at |-> "done", verdict |-> v, killed |-> killed]]

\* The pool takes the target up: it is cancelled before its launch, cannot be
\* launched (OSError), or runs.
Launch(t) ==
    /\ main \in {"running", "writing", "failing"} /\ disk # NoReport
    /\ runner[t].at = "queued" /\ Cardinality(Busy) < Concurrent
    /\ \/ cancelled /\ Ran(t, "failed", FALSE) /\ UNCHANGED process
       \/ ~ cancelled /\ Ran(t, "failed", FALSE) /\ UNCHANGED process
       \/ /\ ~ cancelled
          /\ runner' = [runner EXCEPT ![t].at = "polling"]
          /\ process' = [process EXCEPT ![t] = [leader |-> "alive", workers |-> TRUE]]
    /\ UNCHANGED <<main, log, cancelled, sources, records, temp, disk, returned>>

\* What run_target makes of an exit status and a log.
Verdict(l) == IF l.exit = "0" /\ l.evidence = Evidence THEN "passed" ELSE "failed"

\* The poll finds that the process has ended.
Reap(t) ==
    /\ runner[t].at = "polling" /\ process[t].leader = "zombie"
    /\ process' = [process EXCEPT ![t].leader = "reaped"]
    /\ Ran(t, Verdict(log[t]), FALSE)
    /\ UNCHANGED <<main, log, cancelled, sources, records, temp, disk, returned>>

\* Slip: only the leader is killed.
KillLeader(t) ==
    /\ runner[t].at = "polling"
    /\ process' = [process EXCEPT ![t].leader = "reaped"]
    /\ Ran(t, "failed", TRUE)
    /\ UNCHANGED <<main, log, cancelled, sources, records, temp, disk, returned>>

\* The campaign was interrupted or the parent's deadline is over: the group is
\* killed, the leader waited for.  It may have ended meanwhile.
Kill(t) ==
    /\ runner[t].at = "polling"
    /\ process' = [process EXCEPT ![t] = [leader |-> "reaped", workers |-> FALSE]]
    /\ Ran(t, "failed", TRUE)
    /\ UNCHANGED <<main, log, cancelled, sources, records, temp, disk, returned>>

----------------------------------------------------------------------------
(* main.                                                                     *)

\* The report is written to a temporary file, which then replaces report.json.
WriteReport(r, next) == temp' = r /\ main' = next

\* The sources are fingerprinted and a first report says "running".
CampaignBegins ==
    /\ main = "start"
    /\ WriteReport(ReportOf("running", {}), "writing")
    /\ UNCHANGED <<runner, process, log, cancelled, sources, records, disk, returned>>

ReplaceReport ==
    /\ main \in {"writing", "concluding"}
    /\ disk' = temp
    /\ IF main = "writing" THEN main' = "running" /\ UNCHANGED returned
       ELSE Returns(IF temp.status = "passed" THEN "0" ELSE "1")
    /\ UNCHANGED <<runner, process, log, cancelled, sources, records, temp>>

\* An OSError of the write.  The pool's context waits for all its threads.
WriteFails ==
    /\ main \in {"writing", "concluding"}
    /\ IF main = "writing" /\ disk # NoReport THEN main' = "failing" /\ UNCHANGED returned ELSE Returns("1")
    /\ UNCHANGED <<runner, process, log, cancelled, sources, records, temp, disk>>

PoolJoinedAfterFailure ==
    /\ main = "failing" /\ PoolGone
    /\ Returns("1")
    /\ UNCHANGED <<runner, process, log, cancelled, sources, records, temp, disk>>

\* as_completed yields the future of t.
Collect(t) ==
    /\ main = "running" /\ runner[t].at = "done" /\ t \notin records
    /\ records' = records \cup {t}
    /\ WriteReport(ReportOf("running", records'), "writing")
    /\ UNCHANGED <<runner, process, log, cancelled, sources, disk, returned>>

\* SIGINT or SIGTERM.  Outside the handlers' time it raises in the main thread.
Signal ==
    \/ /\ main \in {"running", "writing", "failing"} /\ disk # NoReport
       /\ cancelled' = TRUE
       /\ UNCHANGED <<main, runner, process, log, sources, records, temp, disk, returned>>
    \/ /\ \/ main \in {"start", "concluding"}
          \/ main = "writing" /\ disk = NoReport
          \/ main = "running" /\ ~ cancelled /\ \A t \in Targets : runner[t].at = "queued"
       /\ Returns("raised")
       /\ UNCHANGED <<runner, process, log, cancelled, sources, records, temp, disk>>

\* Somebody edits the Go inputs, and does not undo it.  What is edited after
\* the second fingerprint does not matter.
EditSources ==
    /\ main \notin {"concluding", "exited"} /\ sources' = "edited"
    /\ UNCHANGED <<main, runner, process, log, cancelled, records, temp, disk, returned>>

FinalUninterrupted ==   \* Slip
    IF sources = "asTaken" /\ \A t \in records : Verdicts[t] = "passed" THEN "passed" ELSE "failed"
Final ==
    IF ~ cancelled /\ sources = "asTaken" /\ \A t \in records : Verdicts[t] = "passed"
    THEN "passed" ELSE "failed"

\* All targets are done, the handlers restored, the sources fingerprinted again.
Conclude ==
    /\ main = "running" /\ records = Targets
    /\ WriteReport(ReportOf(Final, records), "concluding")
    /\ UNCHANGED <<runner, process, log, cancelled, sources, records, disk, returned>>

\* The campaign's own process is killed; its children are in other sessions.
CampaignKilled ==
    /\ main \notin {"start", "exited"}
    /\ Returns("killed")
    /\ UNCHANGED <<runner, process, log, cancelled, sources, records, temp, disk>>

CampaignEnded ==
    main = "exited" /\ (\A t \in Targets : process[t].leader # "alive") /\ UNCHANGED campaignVars

CampaignNext ==
    \/ CampaignBegins \/ ReplaceReport \/ WriteFails \/ PoolJoinedAfterFailure
    \/ Signal \/ EditSources \/ Conclude \/ CampaignKilled \/ CampaignEnded
    \/ \E t \in Targets :
          LeaderEnds(t) \/ (returned # "killed" /\ (Launch(t) \/ Reap(t) \/ Kill(t))) \/ Collect(t)

----------------------------------------------------------------------------
\* A report that says passed is of a campaign in which every selected target
\* ended by itself with status 0 and all the evidence, no signal came and no
\* input was edited; main returns 0 with such a report only and 1 with another; no report
\* credits a target that did not earn it, whenever the campaign dies; and when
\* main has returned, nothing it killed or waited for is left running.
CampaignIsHonest ==
    /\ disk.status = "passed" =>
          disk.passed = Targets /\ ~ cancelled /\ sources = "asTaken"
    /\ returned = "0" => disk.status = "passed"
    /\ returned = "1" => disk.status # "passed"
    /\ \A t \in disk.passed : log[t].exit = "0" /\ log[t].evidence = Evidence /\ ~ runner[t].killed
    /\ returned \in {"0", "1"} =>
          \A t \in Targets : /\ process[t].leader \notin {"alive", "zombie"}
                             /\ runner[t].killed => ~ process[t].workers
=============================================================================
