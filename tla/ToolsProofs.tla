----------------------------- MODULE ToolsProofs -----------------------------
(* What the release, measurement and verification tools guarantee, for any   *)
(* number of targets, machines, files and repetitions.                       *)
EXTENDS DifferentialGate, FuzzCampaign, BenchmarkProcess, BenchmarkMeasure, BenchmarkComparison,
        EvidenceAudit, Release, FiniteSetTheorems, FunctionTheorems, SequenceTheorems,
        WellFoundedInduction, TLAPS

----------------------------------------------------------------------------
(* The measured command (BenchmarkProcess).                                  *)

ProcessSpec == ProcessInit /\ [][ProcessNext]_processVars

\* How the command got where it is, and what the launcher knows of it.
CommandEnd ==
    /\ direct \in BOOLEAN
    /\ metrics \in [end : {"none", "errno", "exited", "killed"}, timedOut : BOOLEAN]
    /\ \/ child \in {"none", "forked", "running"} /\ end = "none"
       \/ child = "zombie" /\ end \in {"errno", "exited"}
       \/ child = "reaped" /\ end \in {"errno", "exited", "killed"}

\* Nothing is started before Popen; without a launcher nothing can fail
\* between the fork and the exec, and nobody reports a timeout.
Started ==
    /\ parent = "launch" => child = "none" /\ launcher = "none"
    /\ direct => /\ launcher = "none" /\ child # "forked" /\ end # "errno"
                 /\ metrics.timedOut = FALSE
    /\ launcher = "started" => child = "none"
    /\ launcher \in {"reading", "polling"} => child # "none"

\* A measurement is read from a launcher that has been reaped.  From its
\* measurement on the launcher has reaped the command, and a command
\* that was killed is one that timed out; the report says so.
Measured ==
    /\ parent \in {"reading", "sample"} => launcher \in {"none", "reaped"}
    /\ launcher \in {"measured", "zombie0"} \/ parent = "reading" =>
          child = "reaped" /\ (end = "killed" => metrics.timedOut = TRUE)
    /\ launcher = "zombie0" \/ parent = "reading" => metrics.end = end

ProcessInv == CommandEnd /\ Started /\ Measured /\ CommandHasAnOwner

LEMMA ProcessInitially == ProcessInit => ProcessInv
BY DEF ProcessInit, ProcessInv, CommandEnd, Started, Measured, CommandHasAnOwner, Live

LEMMA ProcessKept == ProcessInv /\ [ProcessNext]_processVars => ProcessInv'
<1> SUFFICES ASSUME ProcessInv, [ProcessNext]_processVars PROVE ProcessInv'
  OBVIOUS
<1> USE DEF ProcessInv, CommandEnd, Started, Measured, CommandHasAnOwner, Live, Supervising
<1>1. CASE Exec
  BY <1>1 DEF Exec
<1>2. CASE CommandEnds
  BY <1>2 DEF CommandEnds
<1>3. CASE Fork
  BY <1>3 DEF Fork
<1>4. CASE ExecReported
  BY <1>4 DEF ExecReported
<1>5. CASE PollReaps
  BY <1>5 DEF PollReaps
<1>6. CASE TimesOut
  BY <1>6 DEF TimesOut, Slain
<1>7. CASE WriteMetrics
  BY <1>7 DEF WriteMetrics
<1>8. CASE LauncherRaises
  BY <1>8 DEF LauncherRaises, Slain
<1>9. CASE LauncherKilled
  BY <1>9 DEF LauncherKilled
<1>10. CASE Popen
  BY <1>10 DEF Popen
<1>11. CASE PopenFails
  BY <1>11 DEF PopenFails
<1>12. CASE ProcessReaped
  BY <1>12 DEF ProcessReaped
<1>13. CASE Abort
  BY <1>13 DEF Abort, Slain
<1>14. CASE ReadMetrics
  BY <1>14 DEF ReadMetrics
<1>15. CASE UNCHANGED processVars
  BY <1>15 DEF processVars
<1> QED
  BY <1>1, <1>2, <1>3, <1>4, <1>5, <1>6, <1>7, <1>8, <1>9, <1>10, <1>11, <1>12, <1>13,
     <1>14, <1>15 DEF ProcessNext, MeasurementOver

\* Whatever ends first, the command, its timeout, the launcher or the
\* benchmark's patience: a live command has somebody who will reap it, and a
\* sample is of a command that ran to its own end.
THEOREM BenchmarkOwnsItsCommand == ProcessSpec => []CommandHasAnOwner
<1>1. ProcessInv => CommandHasAnOwner
  BY DEF ProcessInv
<1> QED
  BY <1>1, ProcessInitially, ProcessKept, PTL DEF ProcessSpec

----------------------------------------------------------------------------
(* The fuzz campaign (FuzzCampaign).                                         *)

CampaignSpec == CampaignInit /\ [][CampaignNext]_campaignVars

Reports == [status : {"none", "running", "passed", "failed"},
            passed : SUBSET Targets, failed : SUBSET Targets]

Runners == [at : {"queued", "polling", "done"},
            verdict : {"none", "passed", "failed"}, killed : BOOLEAN]
Groups == [leader : {"none", "alive", "zombie", "reaped"}, workers : BOOLEAN]

CampaignTyped ==
    /\ main \in {"start", "writing", "running", "failing", "concluding", "exited"}
    /\ runner \in [Targets -> Runners]
    /\ process \in [Targets -> Groups]
    /\ log \in [Targets -> [exit : {"none", "0", "1"}, evidence : SUBSET Evidence]]
    /\ cancelled \in BOOLEAN /\ sources \in {"asTaken", "edited"}
    /\ records \subseteq Targets
    /\ temp \in Reports /\ disk \in Reports
    /\ returned \in {"none", "0", "1", "raised", "killed"}

\* A target and its processes: nothing runs but what is polled, a kill takes
\* the whole group, and a pass was earned by a leader that is gone.
Earned(t) == log[t].exit = "0" /\ log[t].evidence = Evidence /\ runner[t].killed = FALSE
TargetSound(t) ==
    /\ runner[t].at = "queued" => process[t].leader = "none"
    /\ runner[t].at # "done" => runner[t].verdict = "none" /\ runner[t].killed = FALSE
    /\ runner[t].at = "done" => process[t].leader \in {"none", "reaped"}
    /\ runner[t].killed = TRUE => process[t].workers = FALSE
    /\ runner[t].verdict = "passed" => Earned(t)

\* Reports credit what has passed; a verdict on the campaign is only there
\* once all is over, and can then not be overtaken by a signal or an edit.
PassedNow == {t \in Targets : runner[t].verdict = "passed"}
Settled(r) == r.passed = Targets /\ cancelled = FALSE /\ sources = "asTaken"
ReportsSound ==
    /\ temp.passed \subseteq PassedNow /\ disk.passed \subseteq PassedNow
    /\ temp.status = "passed" => Settled(temp) /\ main \in {"concluding", "exited"}
    /\ disk.status = "passed" => Settled(disk) /\ main = "exited"
    /\ main = "writing" => temp.status = "running"
    /\ main = "concluding" => temp.status \in {"passed", "failed"} /\ PoolGone
    /\ disk.status = "none" => disk = NoReport /\ \A t \in Targets : runner[t].at = "queued"
    /\ main \in {"running", "concluding", "failing"} => disk.status # "none"
    /\ \A t \in records : runner[t].at = "done"

\* What main returned, and that it waited for its threads.
ReturnSound ==
    /\ returned = "0" => disk.status = "passed"
    /\ returned = "1" => disk.status # "passed"
    /\ returned \in {"0", "1"} => main = "exited" /\ \A t \in Targets : runner[t].at # "polling"
    /\ returned # "none" => main = "exited"

CampaignInv ==
    CampaignTyped /\ (\A t \in Targets : TargetSound(t)) /\ ReportsSound /\ ReturnSound

LEMMA CampaignInitially == CampaignInit => CampaignInv
<1> SUFFICES ASSUME CampaignInit PROVE CampaignInv
  OBVIOUS
<1>1. NoReport \in Reports /\ temp = NoReport /\ disk = NoReport
  BY DEF NoReport, Reports, CampaignInit
<1>2. CampaignTyped
  BY <1>1 DEF CampaignInit, CampaignTyped, Runners, Groups
<1>3. /\ \A t \in Targets : TargetSound(t)
      /\ \A t \in Targets : runner[t].at = "queued"
  BY DEF CampaignInit, TargetSound
<1>4. temp.status = "none" /\ disk.status = "none" /\ temp.passed = {} /\ disk.passed = {}
  BY <1>1 DEF NoReport
<1>5. ReportsSound /\ ReturnSound
  BY <1>1, <1>3, <1>4 DEF CampaignInit, ReportsSound, ReturnSound
<1> QED
  BY <1>2, <1>3, <1>5 DEF CampaignInv

LEMMA CampaignSuffices == CampaignInv => CampaignIsHonest
<1> SUFFICES ASSUME CampaignInv PROVE CampaignIsHonest
  OBVIOUS
<1>1. /\ disk.status = "passed" => disk.passed = Targets /\ ~ cancelled /\ sources = "asTaken"
      /\ returned = "0" => disk.status = "passed"
      /\ returned = "1" => disk.status # "passed"
  BY DEF CampaignInv, CampaignTyped, ReportsSound, ReturnSound, Settled
<1>2. \A t \in disk.passed : log[t].exit = "0" /\ log[t].evidence = Evidence /\ ~ runner[t].killed
  <2> SUFFICES ASSUME NEW t \in disk.passed
               PROVE  log[t].exit = "0" /\ log[t].evidence = Evidence /\ ~ runner[t].killed
    OBVIOUS
  <2>1. t \in Targets /\ runner[t].verdict = "passed"
    BY DEF CampaignInv, ReportsSound, PassedNow
  <2>2. Earned(t)
    BY <2>1 DEF CampaignInv, TargetSound
  <2> QED
    BY <2>2 DEF Earned
<1>3. ASSUME returned \in {"0", "1"}, NEW t \in Targets
      PROVE  /\ process[t].leader \notin {"alive", "zombie"}
             /\ runner[t].killed => ~ process[t].workers
  <2>1. runner[t] \in Runners
    BY DEF CampaignInv, CampaignTyped
  <2>2. runner[t].at \in {"queued", "done"}
    BY <1>3, <2>1 DEF CampaignInv, ReturnSound, Runners
  <2>3. TargetSound(t)
    BY DEF CampaignInv
  <2>4. process[t].leader \in {"none", "reaped"}
    BY <2>2, <2>3 DEF TargetSound
  <2>5. runner[t].killed => ~ process[t].workers
    BY <2>1, <2>3 DEF TargetSound, Runners
  <2> QED
    BY <2>4, <2>5
<1> QED
  BY <1>1, <1>2, <1>3 DEF CampaignIsHonest

\* A step of one target that no report has credited: the other targets, main
\* and the reports stay as they are, and what the campaign relies on too.
LEMMA TargetMoves ==
    ASSUME CampaignInv, CampaignTyped', NEW t \in Targets, TargetSound(t)',
           \A u \in Targets \ {t} :
               runner'[u] = runner[u] /\ process'[u] = process[u] /\ log'[u] = log[u],
           runner[t].verdict # "passed",
           runner[t].at = "done" => runner'[t].at = "done",
           runner'[t].at = "polling" => main # "exited" \/ runner[t].at = "polling",
           runner[t].at # "queued" \/ disk.status # "none",
           sources' = "asTaken" => sources = "asTaken",
           UNCHANGED <<main, cancelled, records, temp, disk, returned>>
    PROVE  CampaignInv'
<1>1. \A u \in Targets : TargetSound(u)'
  <2> SUFFICES ASSUME NEW u \in Targets PROVE TargetSound(u)'
    OBVIOUS
  <2>1. CASE u = t
    BY <2>1
  <2>2. CASE u # t
    BY <2>2 DEF CampaignInv, TargetSound, Earned
  <2> QED
    BY <2>1, <2>2
<1>2. /\ t \notin PassedNow
      /\ PassedNow \subseteq PassedNow'
  BY DEF PassedNow
<1>3. temp.status # "passed" /\ disk.status # "passed"
  BY <1>2 DEF CampaignInv, ReportsSound, Settled
<1>4. \A u \in Targets : runner[u].at = "done" => runner'[u].at = "done"
  OBVIOUS
<1>5. PoolGone => PoolGone'
  BY <1>4 DEF PoolGone
<1>6. disk.status = "none" => FALSE
  BY DEF CampaignInv, ReportsSound
<1>7. ReportsSound'
  BY <1>2, <1>3, <1>4, <1>5, <1>6 DEF CampaignInv, CampaignTyped, ReportsSound
<1>8. ReturnSound'
  BY DEF CampaignInv, ReturnSound
<1> QED
  BY <1>1, <1>7, <1>8 DEF CampaignInv

\* A step of main, a signal or an edit.
LEMMA MainMoves ==
    ASSUME CampaignInv, CampaignTyped', ReportsSound', ReturnSound',
           UNCHANGED <<runner, process, log>>
    PROVE  CampaignInv'
BY DEF CampaignInv, TargetSound, Earned

LEMMA ReportOfSound ==
    ASSUME NEW st \in {"none", "running", "passed", "failed"}, NEW done \in SUBSET Targets
    PROVE  /\ ReportOf(st, done) \in Reports
           /\ ReportOf(st, done).status = st
           /\ ReportOf(st, done).passed = done \cap PassedNow
BY DEF ReportOf, Reports, Verdicts, PassedNow

LEMMA LeaderEndsSound ==
    ASSUME CampaignInv, NEW t \in Targets, LeaderEnds(t)
    PROVE  CampaignInv'
<1>1. PICK missing \in {{}} \cup {{e} : e \in Evidence}, exit \in {"0", "1"}, orphans \in BOOLEAN :
         /\ log' = [log EXCEPT ![t] = [exit |-> exit, evidence |-> Evidence \ missing]]
         /\ process' = [process EXCEPT ![t] = [leader |-> "zombie", workers |-> orphans]]
         /\ sources' = IF "seedless" \in missing THEN "edited" ELSE sources
  BY DEF LeaderEnds
<1>2. /\ process[t].leader = "alive"
      /\ UNCHANGED <<main, runner, cancelled, records, temp, disk, returned>>
  BY DEF LeaderEnds
<1>3. runner[t].at = "polling"
  <2>1. TargetSound(t) /\ runner[t].at \in {"queued", "polling", "done"}
    BY DEF CampaignInv, CampaignTyped, Runners
  <2> QED
    BY <1>2, <2>1 DEF TargetSound
<1>4. /\ runner[t].verdict = "none" /\ runner[t].killed = FALSE
  BY <1>3 DEF CampaignInv, TargetSound
<1>5. sources' \in {"asTaken", "edited"} /\ (sources' = "asTaken" => sources = "asTaken")
  BY <1>1 DEF CampaignInv, CampaignTyped
<1>6. CampaignTyped'
  <2>1. log' \in [Targets -> [exit : {"none", "0", "1"}, evidence : SUBSET Evidence]]
    BY <1>1 DEF CampaignInv, CampaignTyped
  <2>2. process' \in [Targets -> Groups]
    BY <1>1 DEF CampaignInv, CampaignTyped, Groups
  <2> QED
    BY <1>2, <1>5, <2>1, <2>2 DEF CampaignInv, CampaignTyped
<1>7. TargetSound(t)'
  BY <1>2, <1>3, <1>4 DEF TargetSound
<1>8. \A u \in Targets \ {t} :
          runner'[u] = runner[u] /\ process'[u] = process[u] /\ log'[u] = log[u]
  BY <1>1, <1>2 DEF CampaignInv, CampaignTyped
<1> QED
  BY <1>2, <1>3, <1>4, <1>5, <1>6, <1>7, <1>8, TargetMoves

LEMMA LaunchSound ==
    ASSUME CampaignInv, NEW t \in Targets, Launch(t)
    PROVE  CampaignInv'
<1>1. /\ runner[t].at = "queued" /\ disk # NoReport /\ main \in {"running", "writing", "failing"}
      /\ UNCHANGED <<main, log, cancelled, sources, records, temp, disk, returned>>
      /\ \/ /\ runner' = [runner EXCEPT ![t] = [at |-> "done", verdict |-> "failed", killed |-> FALSE]]
            /\ UNCHANGED process
         \/ /\ runner' = [runner EXCEPT ![t].at = "polling"]
            /\ process' = [process EXCEPT ![t] = [leader |-> "alive", workers |-> TRUE]]
  BY DEF Launch, Ran
<1>2. /\ process[t].leader = "none" /\ runner[t].verdict = "none" /\ runner[t].killed = FALSE
  BY <1>1 DEF CampaignInv, TargetSound
\* Before the first report is in place nothing is launched.
<1>3. disk.status # "none"
  BY <1>1 DEF CampaignInv, ReportsSound
<1>4. CampaignTyped'
  <2>1. runner' \in [Targets -> Runners]
    <3>1. runner \in [Targets -> Runners]
      BY DEF CampaignInv, CampaignTyped
    <3>2. [runner[t] EXCEPT !.at = "polling"] \in Runners
      BY <3>1 DEF Runners
    <3>3. [at |-> "done", verdict |-> "failed", killed |-> FALSE] \in Runners
      BY DEF Runners
    <3> QED
      BY <1>1, <3>1, <3>2, <3>3
  <2>2. process' \in [Targets -> Groups]
    <3>1. process \in [Targets -> Groups]
      BY DEF CampaignInv, CampaignTyped
    <3>2. [leader |-> "alive", workers |-> TRUE] \in Groups
      BY DEF Groups
    <3> QED
      BY <1>1, <3>1, <3>2
  <2> QED
    BY <1>1, <2>1, <2>2 DEF CampaignInv, CampaignTyped
<1>5. TargetSound(t)'
  <2>1. runner[t] \in Runners
    BY DEF CampaignInv, CampaignTyped
  <2>2. \/ /\ runner'[t].at = "done" /\ runner'[t].verdict = "failed" /\ runner'[t].killed = FALSE
           /\ process'[t] = process[t]
        \/ /\ runner'[t].at = "polling" /\ runner'[t].verdict = "none" /\ runner'[t].killed = FALSE
           /\ process'[t].leader = "alive"
    BY <1>1, <1>2, <2>1 DEF CampaignInv, CampaignTyped, Runners
  <2> QED
    BY <1>2, <2>2 DEF TargetSound
<1>6. \A u \in Targets \ {t} :
          runner'[u] = runner[u] /\ process'[u] = process[u] /\ log'[u] = log[u]
  BY <1>1 DEF CampaignInv, CampaignTyped
<1> QED
  BY <1>1, <1>2, <1>3, <1>4, <1>5, <1>6, TargetMoves

LEMMA ReapSound ==
    ASSUME CampaignInv, NEW t \in Targets, Reap(t) \/ Kill(t)
    PROVE  CampaignInv'
<1> DEFINE v == Verdict(log[t])
<1>1. v \in {"passed", "failed"} /\ (v = "passed" => log[t].exit = "0" /\ log[t].evidence = Evidence)
  BY DEF Verdict
<1>2. /\ runner[t].at = "polling"
      /\ UNCHANGED <<main, log, cancelled, sources, records, temp, disk, returned>>
      /\ \/ /\ runner' = [runner EXCEPT ![t] = [at |-> "done", verdict |-> v, killed |-> FALSE]]
            /\ process' = [process EXCEPT ![t].leader = "reaped"]
         \/ /\ runner' = [runner EXCEPT ![t] = [at |-> "done", verdict |-> "failed", killed |-> TRUE]]
            /\ process' = [process EXCEPT ![t] = [leader |-> "reaped", workers |-> FALSE]]
  BY DEF Reap, Kill, Ran
<1> HIDE DEF v
<1>3. runner[t].verdict = "none"
  BY <1>2 DEF CampaignInv, TargetSound
<1>4. CampaignTyped'
  <2>1. runner' \in [Targets -> Runners]
    <3>1. /\ [at |-> "done", verdict |-> v, killed |-> FALSE] \in Runners
          /\ [at |-> "done", verdict |-> "failed", killed |-> TRUE] \in Runners
      BY <1>1 DEF Runners
    <3> QED
      BY <1>2, <3>1 DEF CampaignInv, CampaignTyped
  <2>2. process' \in [Targets -> Groups]
    <3>1. process \in [Targets -> Groups]
      BY DEF CampaignInv, CampaignTyped
    <3>2. /\ [process[t] EXCEPT !.leader = "reaped"] \in Groups
          /\ [leader |-> "reaped", workers |-> FALSE] \in Groups
      BY <3>1 DEF Groups
    <3> QED
      BY <1>2, <3>1, <3>2
  <2> QED
    BY <1>2, <2>1, <2>2 DEF CampaignInv, CampaignTyped
<1>5. TargetSound(t)'
  <2>1. \/ /\ runner'[t].at = "done" /\ runner'[t].verdict = v /\ runner'[t].killed = FALSE
           /\ process'[t].leader = "reaped"
        \/ /\ runner'[t].at = "done" /\ runner'[t].verdict = "failed" /\ runner'[t].killed = TRUE
           /\ process'[t].leader = "reaped" /\ process'[t].workers = FALSE
    <3>1. process[t] \in Groups /\ process \in [Targets -> Groups] /\ runner \in [Targets -> Runners]
      BY DEF CampaignInv, CampaignTyped
    <3>2. CASE /\ runner' = [runner EXCEPT ![t] = [at |-> "done", verdict |-> v, killed |-> FALSE]]
               /\ process' = [process EXCEPT ![t].leader = "reaped"]
      BY <3>1, <3>2 DEF Groups
    <3>3. CASE /\ runner' = [runner EXCEPT ![t] = [at |-> "done", verdict |-> "failed", killed |-> TRUE]]
               /\ process' = [process EXCEPT ![t] = [leader |-> "reaped", workers |-> FALSE]]
      BY <3>1, <3>3
    <3> QED
      BY <1>2, <3>2, <3>3
  <2> QED
    BY <1>1, <1>2, <2>1 DEF TargetSound, Earned
<1>6. \A u \in Targets \ {t} :
          runner'[u] = runner[u] /\ process'[u] = process[u] /\ log'[u] = log[u]
  BY <1>2 DEF CampaignInv, CampaignTyped
<1>7. runner'[t].at = "done"
  BY <1>2 DEF CampaignInv, CampaignTyped
<1> QED
  BY <1>2, <1>3, <1>4, <1>5, <1>6, <1>7, TargetMoves

LEMMA ReplaceReportSound ==
    ASSUME CampaignInv, ReplaceReport
    PROVE  CampaignInv'
<1>1. /\ main \in {"writing", "concluding"} /\ disk' = temp
      /\ \/ main = "writing" /\ main' = "running" /\ UNCHANGED returned
         \/ /\ main = "concluding" /\ main' = "exited"
            /\ returned' = IF temp.status = "passed" THEN "0" ELSE "1"
      /\ UNCHANGED <<runner, process, log, cancelled, sources, records, temp>>
  BY DEF ReplaceReport, Returns
<1>2. temp.status # "none"
  BY <1>1 DEF CampaignInv, ReportsSound
<1>3. CampaignTyped'
  BY <1>1 DEF CampaignInv, CampaignTyped
<1>4. main = "concluding" => \A t \in Targets : runner[t].at # "polling"
  BY DEF CampaignInv, ReportsSound, PoolGone
<1>5. PassedNow' = PassedNow
  BY <1>1 DEF PassedNow
<1>6. ReportsSound'
  BY <1>1, <1>2, <1>5 DEF CampaignInv, ReportsSound, Settled
<1>7. ReturnSound'
  BY <1>1, <1>4 DEF CampaignInv, ReturnSound
<1> QED
  BY <1>1, <1>3, <1>6, <1>7, MainMoves

\* main gives up: what it leaves on the disk says "running" or nothing.
LEMMA MainEnds ==
    ASSUME CampaignInv, main # "exited", NEW r \in {"1", "raised", "killed"},
           main' = "exited", returned' = r,
           r = "1" => \A t \in Targets : runner[t].at # "polling",
           UNCHANGED <<runner, process, log, cancelled, sources, records, temp, disk>>
    PROVE  CampaignInv'
<1>1. CampaignTyped'
  BY DEF CampaignInv, CampaignTyped
<1>2. PassedNow' = PassedNow
  BY DEF PassedNow
<1>3. ReportsSound'
  BY <1>2 DEF CampaignInv, ReportsSound, Settled
<1>4. disk.status # "passed"
  BY DEF CampaignInv, ReportsSound
<1>5. ReturnSound'
  BY <1>4 DEF CampaignInv, ReturnSound
<1> QED
  BY <1>1, <1>3, <1>5, MainMoves

LEMMA WriteFailsSound ==
    ASSUME CampaignInv, WriteFails
    PROVE  CampaignInv'
<1>1. /\ main \in {"writing", "concluding"}
      /\ \/ main = "writing" /\ disk # NoReport /\ main' = "failing" /\ UNCHANGED returned
         \/ main = "writing" /\ disk = NoReport /\ main' = "exited" /\ returned' = "1"
         \/ main = "concluding" /\ main' = "exited" /\ returned' = "1"
      /\ UNCHANGED <<runner, process, log, cancelled, sources, records, temp, disk>>
  BY DEF WriteFails, Returns
<1>2. CASE main' = "failing"
  <2>1. main = "writing" /\ disk # NoReport /\ UNCHANGED returned
    BY <1>1, <1>2
  <2>2. CampaignTyped'
    BY <1>1, <1>2, <2>1 DEF CampaignInv, CampaignTyped
  <2>3. PassedNow' = PassedNow
    BY <1>1 DEF PassedNow
  <2>4. ReportsSound'
    BY <1>1, <1>2, <2>1, <2>3 DEF CampaignInv, ReportsSound, Settled
  <2>5. ReturnSound'
    BY <1>1, <2>1, <1>2 DEF CampaignInv, ReturnSound
  <2> QED
    BY <1>1, <2>2, <2>4, <2>5, MainMoves
<1>3. CASE main' = "exited"
  <2>1. \A t \in Targets : runner[t].at # "polling"
    <3>1. CASE disk = NoReport
      BY <3>1 DEF CampaignInv, ReportsSound, NoReport
    <3>2. CASE main = "concluding"
      BY <3>2 DEF CampaignInv, ReportsSound, PoolGone
    <3> QED
      BY <1>1, <1>3, <3>1, <3>2
  <2> QED
    BY <1>1, <1>3, <2>1, MainEnds
<1> QED
  BY <1>1, <1>2, <1>3

\* main goes on to write a report; it was not at writing or concluding one.
LEMMA ReportWritten ==
    ASSUME CampaignInv, NEW st \in {"running", "passed", "failed"}, NEW done \in SUBSET Targets,
           temp' = ReportOf(st, done), records' \in SUBSET Targets,
           \A t \in records' : runner[t].at = "done",
           main \in {"start", "running"},
           \/ st = "running" /\ main' = "writing"
           \/ /\ st # "running" /\ main' = "concluding" /\ main = "running"
              /\ PoolGone
              /\ st = "passed" => done \subseteq PassedNow /\ Settled([passed |-> done]),
           UNCHANGED <<runner, process, log, cancelled, sources, disk, returned>>
    PROVE  CampaignInv'
<1>1. /\ temp' \in Reports /\ temp'.status = st /\ temp'.passed = done \cap PassedNow
  BY ReportOfSound
<1>2. CampaignTyped'
  BY <1>1 DEF CampaignInv, CampaignTyped
<1>3. PassedNow' = PassedNow /\ (PoolGone => PoolGone')
  BY DEF PassedNow, PoolGone
<1>4. st = "passed" => Settled(temp)'
  BY <1>1 DEF Settled
<1>5. disk.status # "passed"
  BY DEF CampaignInv, ReportsSound
<1>6. main = "running" => disk.status # "none"
  BY DEF CampaignInv, ReportsSound
<1>7. ReportsSound'
  <2>1. temp'.passed \subseteq PassedNow' /\ disk'.passed \subseteq PassedNow'
    BY <1>1, <1>3 DEF CampaignInv, ReportsSound
  <2>2. disk.status = "none" => disk = NoReport /\ \A t \in Targets : runner[t].at = "queued"
    BY DEF CampaignInv, ReportsSound
  <2> QED
    BY <1>1, <1>3, <1>4, <1>5, <1>6, <2>1, <2>2 DEF ReportsSound
<1>8. ReturnSound'
  BY DEF CampaignInv, ReturnSound
<1> QED
  BY <1>2, <1>7, <1>8, MainMoves

LEMMA CampaignKept == CampaignInv /\ [CampaignNext]_campaignVars => CampaignInv'
<1> SUFFICES ASSUME CampaignInv, [CampaignNext]_campaignVars PROVE CampaignInv'
  OBVIOUS
<1>1. CASE CampaignBegins
  <2>1. /\ main = "start" /\ main' = "writing" /\ temp' = ReportOf("running", {})
        /\ UNCHANGED <<runner, process, log, cancelled, sources, records, disk, returned>>
    BY <1>1 DEF CampaignBegins, WriteReport
  <2>2. records' \in SUBSET Targets /\ \A t \in records' : runner[t].at = "done"
    BY <2>1 DEF CampaignInv, CampaignTyped, ReportsSound
  <2> QED
    BY <2>1, <2>2, ReportWritten
<1>2. CASE PoolJoinedAfterFailure
  <2>1. /\ main = "failing" /\ main' = "exited" /\ returned' = "1" /\ PoolGone
        /\ UNCHANGED <<runner, process, log, cancelled, sources, records, temp, disk>>
    BY <1>2 DEF PoolJoinedAfterFailure, Returns
  <2> QED
    BY <2>1, MainEnds DEF PoolGone
<1>3. CASE Signal
  <2>1. CASE /\ main \in {"running", "writing", "failing"} /\ disk # NoReport
             /\ cancelled' = TRUE
             /\ UNCHANGED <<main, runner, process, log, sources, records, temp, disk, returned>>
    <3>1. CampaignTyped'
      BY <2>1 DEF CampaignInv, CampaignTyped
    <3>2. temp.status # "passed" /\ disk.status # "passed"
      BY <2>1 DEF CampaignInv, ReportsSound
    <3>3. PassedNow' = PassedNow
      BY <2>1 DEF PassedNow
    <3>4. ReportsSound'
      BY <2>1, <3>2, <3>3 DEF CampaignInv, ReportsSound, PoolGone
    <3>5. ReturnSound'
      BY <2>1 DEF CampaignInv, ReturnSound
    <3> QED
      BY <2>1, <3>1, <3>4, <3>5, MainMoves
  <2>2. CASE /\ main \in {"start", "concluding", "writing", "running"}
             /\ main' = "exited" /\ returned' = "raised"
             /\ UNCHANGED <<runner, process, log, cancelled, sources, records, temp, disk>>
    BY <2>2, MainEnds
  <2> QED
    BY <1>3, <2>1, <2>2 DEF Signal, Returns
<1>4. CASE EditSources
  <2>1. /\ main \notin {"concluding", "exited"} /\ sources' = "edited"
        /\ UNCHANGED <<main, runner, process, log, cancelled, records, temp, disk, returned>>
    BY <1>4 DEF EditSources
  <2>2. CampaignTyped'
    BY <2>1 DEF CampaignInv, CampaignTyped
  <2>3. temp.status # "passed" /\ disk.status # "passed"
    BY <2>1 DEF CampaignInv, ReportsSound
  <2>4. PassedNow' = PassedNow
    BY <2>1 DEF PassedNow
  <2>5. ReportsSound'
    BY <2>1, <2>3, <2>4 DEF CampaignInv, ReportsSound, PoolGone
  <2>6. ReturnSound'
    BY <2>1 DEF CampaignInv, ReturnSound
  <2> QED
    BY <2>1, <2>2, <2>5, <2>6, MainMoves
<1>5. CASE Conclude
  <2>1. /\ main = "running" /\ main' = "concluding" /\ records = Targets
        /\ temp' = ReportOf(Final, Targets)
        /\ UNCHANGED <<runner, process, log, cancelled, sources, records, disk, returned>>
    BY <1>5 DEF Conclude, WriteReport
  <2>2. \A t \in Targets : runner[t].at = "done"
    BY <2>1 DEF CampaignInv, ReportsSound
  <2>3. /\ Final \in {"passed", "failed"}
        /\ Final = "passed" => /\ ~ cancelled /\ sources = "asTaken"
                               /\ \A t \in Targets : runner[t].verdict = "passed"
    BY <2>1 DEF Final, Verdicts
  <2>4. Final = "passed" => Targets \subseteq PassedNow /\ Settled([passed |-> Targets])
    BY <2>3 DEF PassedNow, Settled, CampaignInv, CampaignTyped
  <2> HIDE DEF Final
  <2>5. PoolGone /\ records' \in SUBSET Targets /\ Targets \in SUBSET Targets
    BY <2>1, <2>2 DEF PoolGone
  <2>6. \A t \in records' : runner[t].at = "done"
    BY <2>1, <2>2
  <2> QED
    BY <2>1, <2>3, <2>4, <2>5, <2>6, ReportWritten
<1>6. CASE CampaignKilled
  <2>1. /\ main # "exited" /\ main' = "exited" /\ returned' = "killed"
        /\ UNCHANGED <<runner, process, log, cancelled, sources, records, temp, disk>>
    BY <1>6 DEF CampaignKilled, Returns
  <2> QED
    BY <2>1, MainEnds
<1>7. ASSUME NEW t \in Targets, Collect(t) PROVE CampaignInv'
  <2>1. /\ main = "running" /\ main' = "writing" /\ runner[t].at = "done"
        /\ records' = records \cup {t} /\ temp' = ReportOf("running", records')
        /\ UNCHANGED <<runner, process, log, cancelled, sources, disk, returned>>
    BY <1>7 DEF Collect, WriteReport
  <2>2. records' \in SUBSET Targets /\ \A u \in records' : runner[u].at = "done"
    BY <2>1 DEF CampaignInv, CampaignTyped, ReportsSound
  <2> QED
    BY <2>1, <2>2, ReportWritten
<1>8. CASE UNCHANGED campaignVars
  BY <1>8 DEF campaignVars, CampaignInv, CampaignTyped, TargetSound, Earned, ReportsSound, Settled,
              PassedNow, PoolGone, ReturnSound
<1> QED
  BY <1>1, <1>2, <1>3, <1>4, <1>5, <1>6, <1>7, <1>8, ReplaceReportSound, WriteFailsSound,
     LeaderEndsSound, LaunchSound, ReapSound
  DEF CampaignNext, CampaignEnded

\* However the fuzz processes, their threads, a signal, an edit and the death
\* of the campaign interleave: a report that says passed is of a campaign that
\* did, main's answer is that of the report on disk, and when it has returned
\* nothing it started or killed is left running.
THEOREM CampaignReportsHonestly == CampaignSpec => []CampaignIsHonest
BY CampaignInitially, CampaignKept, CampaignSuffices, PTL DEF CampaignSpec

----------------------------------------------------------------------------
(* The release (Release).                                                    *)

ReleaseSpec == ReleaseInit /\ [][ReleaseNext]_releaseVars

Kinds == [tree : Trees \cup {"none"}, made : Trees \cup {"none"}, intact : BOOLEAN]
Holdings == [Archives -> Kinds]
Dirs == [archives : Holdings, index : Holdings, sums : Holdings, stray : BOOLEAN]
Packs == [at : {"idle", "captured", "built", "sourced", "archived", "indexed", "done", "failed"},
          captured : Trees \cup {"none"}, built : Trees \cup {"none"}]

ReleaseTyped ==
    /\ tree \in [Machines -> Trees]
    /\ pack \in [Machines -> Packs] /\ out \in [Machines -> Dirs]
    /\ assets \in Dirs /\ finalizing \in Holdings
    /\ check \in [busy : BOOLEAN, index : Holdings, sums : Holdings, copy : Holdings, left : SUBSET Archives]
    /\ accepted \in Holdings

\* An intact archive is made of what its inventory declares.
Faithful(files) == \A n \in Archives : files[n].intact = TRUE => files[n].made = files[n].tree

\* A whole release, of the property.
WholeRelease(files) ==
    /\ "source" \in Present(files) /\ Present(files) # {"source"}
    /\ \A n \in Present(files) : files[n].intact /\ files[n].made = files["source"].tree

\* What a package has got to: what it compiled is what it captured, and from
\* the index on its directory is a whole release.
Packaged(m) ==
    /\ Faithful(out[m].archives)
    /\ pack[m].at \in {"built", "sourced"} => pack[m].built = pack[m].captured
    /\ pack[m].at \in {"captured", "built", "sourced"} => pack[m].captured \in Trees
    /\ pack[m].at \in {"indexed", "done"} =>
          WholeRelease(out[m].archives) /\ out[m].index = out[m].archives
    /\ pack[m].at = "done" => out[m].sums = out[m].archives

ReleaseInv ==
    /\ ReleaseTyped
    /\ \A m \in Machines : Packaged(m)
    /\ Faithful(assets.archives) /\ Faithful(check.copy)
    /\ accepted # NoFiles => WholeRelease(accepted)

\* What finalize accepts of faithful archives is a whole release.
LEMMA FinalizableIsComplete ==
    ASSUME NEW d \in Dirs, Faithful(d.archives), Finalizable(d)
    PROVE  WholeRelease(d.archives)
<1> DEFINE files == d.archives
<1>1. /\ "source" \in Present(files) /\ Present(files) # {"source"}
      /\ \A n \in Present(files) : files[n].intact
      /\ \A n, o \in Present(files) : files[n].tree = files[o].tree
  BY DEF Finalizable, Agree
<1>2. \A n \in Present(files) : n \in Archives /\ files[n] \in Kinds
  BY DEF Dirs, Holdings, Present
<1> HIDE DEF files
<1>3. \A n \in Present(files) : files[n].made = files[n].tree
  BY <1>1, <1>2 DEF Faithful, Kinds, files
<1> QED
  BY <1>1, <1>3 DEF WholeRelease, files

\* An archive is put into a directory.
LEMMA ArchiveFiled ==
    ASSUME NEW d \in Dirs, Faithful(d.archives), NEW n \in Archives, NEW a \in Kinds,
           a.intact = TRUE => a.made = a.tree
    PROVE  /\ [d EXCEPT !.archives[n] = a] \in Dirs
           /\ Faithful([d EXCEPT !.archives[n] = a].archives)
<1> DEFINE files == [d.archives EXCEPT ![n] = a]
<1>1. d.archives \in Holdings
  BY DEF Dirs
<1>2. files \in Holdings
  BY <1>1 DEF Holdings
<1>3. Faithful(files)
  BY <1>1 DEF Faithful, Holdings
<1>4. [d EXCEPT !.archives[n] = a] = [d EXCEPT !.archives = files]
  BY DEF Dirs
<1> HIDE DEF files
<1>5. [d EXCEPT !.archives = files] \in Dirs /\ [d EXCEPT !.archives = files].archives = files
  BY <1>2 DEF Dirs
<1> QED
  BY <1>3, <1>4, <1>5

LEMMA NothingFiled ==
    /\ NoFiles \in Holdings /\ Faithful(NoFiles) /\ Absent \in Kinds
    /\ Empty \in Dirs /\ Faithful(Empty.archives)
    /\ Idle \in [busy : BOOLEAN, index : Holdings, sums : Holdings, copy : Holdings, left : SUBSET Archives]
    /\ Faithful(Idle.copy)
<1>1. Absent \in Kinds /\ Absent.intact = FALSE
  BY DEF Absent, Kinds
<1>2. NoFiles \in Holdings /\ Faithful(NoFiles)
  BY <1>1 DEF NoFiles, Holdings, Faithful
<1>3. Empty \in Dirs /\ Empty.archives = NoFiles
  BY <1>2 DEF Empty, Dirs, NoIndex
<1>4. /\ Idle \in [busy : BOOLEAN, index : Holdings, sums : Holdings, copy : Holdings, left : SUBSET Archives]
      /\ Idle.copy = NoFiles
  BY <1>2 DEF Idle, NoIndex
<1> QED
  BY <1>1, <1>2, <1>3, <1>4

LEMMA ReleaseInitially == ReleaseInit => ReleaseInv
<1> SUFFICES ASSUME ReleaseInit PROVE ReleaseInv
  OBVIOUS
<1>1. ReleaseTyped
  BY NothingFiled DEF ReleaseInit, ReleaseTyped, Packs, Trees, NoIndex
<1>2. \A m \in Machines : Packaged(m)
  BY NothingFiled DEF ReleaseInit, Packaged
<1>3. Faithful(assets.archives) /\ Faithful(check.copy) /\ accepted = NoFiles
  BY NothingFiled DEF ReleaseInit
<1> QED
  BY <1>1, <1>2, <1>3 DEF ReleaseInv

\* A step of one machine's package.
LEMMA PackageMoves ==
    ASSUME ReleaseInv, NEW m \in Machines, NEW p \in Packs, NEW d \in Dirs, NEW w \in [Machines -> Trees],
           tree' = w, pack' = [pack EXCEPT ![m] = p], out' = [out EXCEPT ![m] = d],
           Packaged(m)',
           UNCHANGED <<assets, finalizing, check, accepted>>
    PROVE  ReleaseInv'
<1>1. ReleaseTyped'
  BY DEF ReleaseInv, ReleaseTyped
<1>2. ASSUME NEW k \in Machines PROVE Packaged(k)'
  <2>1. CASE k = m
    BY <2>1
  <2>2. CASE k # m
    <3>1. pack'[k] = pack[k] /\ out'[k] = out[k]
      BY <2>2 DEF ReleaseInv, ReleaseTyped
    <3> QED
      BY <3>1 DEF ReleaseInv, Packaged
  <2> QED
    BY <2>1, <2>2
<1> QED
  BY <1>1, <1>2 DEF ReleaseInv

\* A step in the gathering directory.
LEMMA GatheringMoves ==
    ASSUME ReleaseInv, ReleaseTyped', UNCHANGED <<pack, out>>,
           Faithful(assets'.archives), Faithful(check'.copy),
           accepted' # NoFiles => WholeRelease(accepted')
    PROVE  ReleaseInv'
BY DEF ReleaseInv, Packaged

LEMMA PackageSound ==
    ASSUME ReleaseInv, NEW m \in Machines,
           EditTree(m) \/ Capture(m) \/ Build(m) \/ WriteArchive(m) \/ FinishPackage(m) \/ PackageFails(m)
    PROVE  ReleaseInv'
<1> DEFINE p == pack[m]
<1> DEFINE d == out[m]
<1>t. /\ p \in Packs /\ d \in Dirs /\ Packaged(m)
      /\ tree \in [Machines -> Trees] /\ tree[m] \in Trees
      /\ pack \in [Machines -> Packs] /\ out \in [Machines -> Dirs]
  BY DEF ReleaseInv, ReleaseTyped
<1>s. Faithful(d.archives)
  BY <1>t DEF Packaged
\* Steps that leave the directory alone, or file one archive in it.
<1>same. ASSUME NEW q \in Packs, NEW w \in [Machines -> Trees], tree' = w,
                pack' = [pack EXCEPT ![m] = q], out' = out,
                UNCHANGED <<assets, finalizing, check, accepted>>,
                q.at \in {"built", "sourced"} => q.built = q.captured,
                q.at \in {"captured", "built", "sourced"} => q.captured \in Trees,
                q.at \notin {"indexed", "done"}
         PROVE  ReleaseInv'
  <2>1. pack'[m] = q /\ out'[m] = d /\ out' = [out EXCEPT ![m] = d]
    BY <1>same, <1>t
  <2>2. Packaged(m)'
    BY <1>s, <1>same, <2>1 DEF Packaged
  <2> QED
    BY <1>same, <1>t, <2>1, <2>2, PackageMoves
<1>file. ASSUME NEW q \in Packs, tree' = tree,
                pack' = [pack EXCEPT ![m] = q], NEW n \in Archives, NEW a \in Kinds,
                out' = [out EXCEPT ![m] = [d EXCEPT !.archives[n] = a]],
                UNCHANGED <<assets, finalizing, check, accepted>>,
                a.intact = TRUE => a.made = a.tree,
                q.at \in {"sourced", "archived", "failed"},
                q.at = "sourced" => q.built = q.captured /\ q.captured \in Trees
         PROVE  ReleaseInv'
  <2> DEFINE e == [d EXCEPT !.archives[n] = a]
  <2>1. e \in Dirs /\ Faithful(e.archives)
    BY <1>file, <1>s, <1>t, ArchiveFiled
  <2>2. pack'[m] = q /\ out'[m] = e /\ out' = [out EXCEPT ![m] = e]
    BY <1>file, <1>t
  <2> HIDE DEF e
  <2>3. Packaged(m)'
    BY <1>file, <2>1, <2>2 DEF Packaged
  <2> QED
    BY <1>file, <1>t, <2>1, <2>2, <2>3, PackageMoves
<1>1. CASE EditTree(m)
  <2>1. /\ tree' = [tree EXCEPT ![m] = "b"] /\ p.at \in {"idle", "captured"}
        /\ UNCHANGED <<pack, out, assets, finalizing, check, accepted, damage>>
    BY <1>1 DEF EditTree
  <2>2. tree' \in [Machines -> Trees] /\ pack' = [pack EXCEPT ![m] = p]
    BY <1>t, <2>1 DEF Trees
  <2> QED
    BY <1>same, <1>t, <2>1, <2>2 DEF Packaged
<1>2. CASE Capture(m)
  <2> DEFINE q == [at |-> "captured", captured |-> tree[m], built |-> "none"]
  <2>1. q \in Packs
    BY <1>t DEF Packs
  <2> QED
    BY <1>2, <1>same, <1>t, <2>1 DEF Capture
<1>3. CASE Build(m)
  <2> DEFINE q == [p EXCEPT !.at = "built", !.built = p.captured]
  <2>1. p \in Packs /\ p.at = "captured" /\ p.captured \in Trees
    BY <1>3, <1>t DEF Build, Packaged
  <2>2. q \in Packs /\ q.at = "built" /\ q.built = p.captured /\ q.captured = p.captured
    BY <2>1 DEF Packs
  <2>3. pack' = [pack EXCEPT ![m].at = "built", ![m].built = pack[m].captured]
    BY <1>3 DEF Build
  <2>4. pack' = [pack EXCEPT ![m] = q]
    BY <1>t, <2>3
  <2>5. UNCHANGED <<tree, out, assets, finalizing, check, accepted>>
    BY <1>3 DEF Build
  <2> HIDE DEF q
  <2> QED
    BY <1>same, <1>t, <2>1, <2>2, <2>4, <2>5
<1>4. CASE WriteArchive(m)
  <2>u. UNCHANGED <<tree, assets, finalizing, check, accepted>>
    BY <1>4 DEF WriteArchive
  <2>1. CASE p.at = "built"
    <3> DEFINE q == [p EXCEPT !.at = "sourced"]
    <3> DEFINE a == Archive(p.captured, p.captured)
    <3>1. /\ out' = [out EXCEPT ![m].archives["source"] = a]
          /\ pack' = [pack EXCEPT ![m].at = "sourced"]
      BY <1>4, <2>1 DEF WriteArchive
    <3>2. p.built = p.captured /\ p.captured \in Trees
      BY <1>t, <2>1 DEF Packaged
    <3>3. a \in Kinds /\ a.made = a.tree /\ "source" \in Archives
      BY <1>t, <3>2 DEF Kinds, Archive, Archives
    <3>4. pack' = [pack EXCEPT ![m] = q]
      BY <1>t, <3>1
    <3>5. out' = [out EXCEPT ![m] = [d EXCEPT !.archives["source"] = a]]
      BY <1>t, <3>1
    <3>6. /\ q \in Packs /\ q.at = "sourced"
          /\ q.built = q.captured /\ q.captured \in Trees
      BY <1>t, <3>2 DEF Packs
    <3> HIDE DEF q, a
    <3> QED
      BY <1>file, <2>u, <3>3, <3>4, <3>5, <3>6
  <2>2. CASE p.at = "sourced"
    <3> DEFINE q == [p EXCEPT !.at = "archived"]
    <3> DEFINE a == Archive(p.captured, p.built)
    <3>1. /\ out' = [out EXCEPT ![m].archives[m] = a]
          /\ pack' = [pack EXCEPT ![m].at = "archived"]
      BY <1>4, <2>2 DEF WriteArchive
    <3>2. p.built = p.captured /\ p.captured \in Trees
      BY <1>t, <2>2 DEF Packaged
    <3>3. a \in Kinds /\ a.made = a.tree /\ m \in Archives
      BY <1>t, <3>2 DEF Packs, Kinds, Archive, Archives
    <3>4. pack' = [pack EXCEPT ![m] = q]
      BY <1>t, <3>1
    <3>5. out' = [out EXCEPT ![m] = [d EXCEPT !.archives[m] = a]]
      BY <1>t, <3>1
    <3>6. q \in Packs /\ q.at = "archived"
      BY <1>t DEF Packs
    <3> HIDE DEF q, a
    <3> QED
      BY <1>file, <2>u, <3>3, <3>4, <3>5, <3>6
  <2> QED
    BY <1>4, <2>1, <2>2 DEF WriteArchive
<1>5. CASE FinishPackage(m)
  <2>u. UNCHANGED <<tree, assets, finalizing, check, accepted>>
    BY <1>5 DEF FinishPackage
  <2>1. CASE p.at = "archived"
    <3> DEFINE q == [p EXCEPT !.at = "indexed"]
    <3> DEFINE e == [d EXCEPT !.index = d.archives]
    <3>1. /\ out' = [out EXCEPT ![m].index = d.archives]
          /\ pack' = [pack EXCEPT ![m].at = "indexed"] /\ Finalizable(d)
      BY <1>5, <2>1 DEF FinishPackage
    <3>2. pack' = [pack EXCEPT ![m] = q]
      BY <1>t, <3>1
    <3>3. /\ e \in Dirs /\ out' = [out EXCEPT ![m] = e]
          /\ e.archives = d.archives /\ e.index = d.archives
      BY <1>t, <3>1 DEF Dirs
    <3>4. WholeRelease(d.archives)
      BY <1>s, <1>t, <3>1, FinalizableIsComplete
    <3>5. pack'[m] = q /\ out'[m] = e
      BY <1>t, <3>2, <3>3
    <3>7. q \in Packs /\ q.at = "indexed"
      BY <1>t DEF Packs
    <3> HIDE DEF q, e
    <3>6. Packaged(m)'
      BY <1>s, <3>3, <3>4, <3>5, <3>7 DEF Packaged
    <3> QED
      BY <1>t, <2>u, <3>2, <3>3, <3>6, <3>7, PackageMoves
  <2>2. CASE p.at = "indexed"
    <3> DEFINE e == [d EXCEPT !.sums = d.index]
    <3>1. /\ out' = [out EXCEPT ![m].sums = d.index] /\ pack' = [pack EXCEPT ![m] = Gone("done")]
      BY <1>5, <2>2 DEF FinishPackage
    <3>2. Gone("done") \in Packs /\ Gone("done").at = "done"
      BY DEF Gone, Packs
    <3>3. /\ e \in Dirs /\ out' = [out EXCEPT ![m] = e]
          /\ e.archives = d.archives /\ e.index = d.index /\ e.sums = d.index
      BY <1>t, <3>1 DEF Dirs
    <3>4. WholeRelease(d.archives) /\ d.index = d.archives
      BY <1>t, <2>2 DEF Packaged
    <3>5. pack'[m] = Gone("done") /\ out'[m] = e
      BY <1>t, <3>1, <3>3
    <3> HIDE DEF e
    <3>6. Packaged(m)'
      BY <1>s, <3>2, <3>3, <3>4, <3>5 DEF Packaged
    <3> QED
      BY <1>t, <2>u, <3>1, <3>2, <3>3, <3>6, PackageMoves
  <2> QED
    BY <1>5, <2>1, <2>2 DEF FinishPackage
<1>6. CASE PackageFails(m)
  <2>u. /\ UNCHANGED <<tree, assets, finalizing, check, accepted>>
        /\ pack' = [pack EXCEPT ![m] = Gone("failed")]
    BY <1>6 DEF PackageFails
  <2>g. Gone("failed") \in Packs /\ Gone("failed").at = "failed"
    BY DEF Gone, Packs
  <2>1. CASE out' = out
    BY <1>same, <1>t, <2>1, <2>g, <2>u
  <2>2. CASE out' # out
    <3> DEFINE n == IF p.at = "built" THEN "source" ELSE m
    <3> DEFINE a == [Archive(p.captured, p.captured) EXCEPT !.intact = FALSE]
    <3>1. out' = [out EXCEPT ![m].archives[n] = a]
      BY <1>6, <2>2 DEF PackageFails
    <3>2. n \in Archives /\ a \in Kinds /\ a.intact = FALSE
      BY <1>t DEF Archives, Archive, Kinds, Packs
    <3> HIDE DEF n, a
    <3>3. out' = [out EXCEPT ![m] = [d EXCEPT !.archives[n] = a]]
      BY <1>t, <3>1
    <3> QED
      BY <1>file, <2>g, <2>u, <3>2, <3>3
  <2> QED
    BY <2>1, <2>2
<1> QED
  BY <1>1, <1>2, <1>3, <1>4, <1>5, <1>6

LEMMA GatheringSound ==
    ASSUME ReleaseInv,
           \/ \E m \in Machines : CopyMetadata(m) \/ \E n \in Archives : CopyArchive(m, n)
           \/ Damage \/ WriteIndex \/ WriteSums
    PROVE  ReleaseInv'
<1>t. /\ ReleaseTyped /\ Faithful(assets.archives) /\ Faithful(check.copy)
      /\ accepted # NoFiles => WholeRelease(accepted)
  BY DEF ReleaseInv
<1>d. assets \in Dirs /\ out \in [Machines -> Dirs]
  BY <1>t DEF ReleaseTyped
\* The archives stay faithful: one is replaced, or none.
<1>put. ASSUME NEW n \in Archives, NEW a \in Kinds, a.intact = TRUE => a.made = a.tree,
               assets' = [assets EXCEPT !.archives[n] = a],
               UNCHANGED <<tree, pack, out, finalizing, check, accepted>>
        PROVE  ReleaseInv'
  <2>1. assets' \in Dirs /\ Faithful(assets'.archives)
    BY <1>d, <1>put, <1>t, ArchiveFiled
  <2>2. ReleaseTyped'
    BY <1>put, <1>t, <2>1 DEF ReleaseTyped
  <2> QED
    BY <1>put, <1>t, <2>1, <2>2, GatheringMoves
<1>keep. ASSUME assets' \in Dirs, assets'.archives = assets.archives, finalizing' \in Holdings,
                UNCHANGED <<tree, pack, out, check, accepted>>
         PROVE  ReleaseInv'
  <2>1. ReleaseTyped'
    BY <1>keep, <1>t DEF ReleaseTyped
  <2> QED
    BY <1>keep, <1>t, <2>1, GatheringMoves
<1>h. NoIndex \in Holdings /\ Absent \in Kinds /\ Absent.intact = FALSE
  BY NothingFiled DEF NoIndex, Absent
<1>1. ASSUME NEW m \in Machines, NEW n \in Archives, CopyArchive(m, n) PROVE ReleaseInv'
  <2>1. /\ assets' = [assets EXCEPT !.archives[n] = out[m].archives[n]]
        /\ UNCHANGED <<tree, pack, out, finalizing, check, accepted>>
    BY <1>1 DEF CopyArchive
  <2>2. out[m].archives \in Holdings /\ Faithful(out[m].archives)
    BY <1>d DEF Dirs, ReleaseInv, Packaged
  <2>3. out[m].archives[n] \in Kinds
    BY <2>2 DEF Holdings
  <2> QED
    BY <1>put, <2>1, <2>2, <2>3 DEF Faithful
<1>2. ASSUME NEW m \in Machines, CopyMetadata(m) PROVE ReleaseInv'
  <2>1. /\ assets' = [assets EXCEPT !.index = out[m].index, !.sums = out[m].sums]
        /\ UNCHANGED <<tree, pack, out, finalizing, check, accepted>>
    BY <1>2 DEF CopyMetadata
  <2>2. out[m].index \in Holdings /\ out[m].sums \in Holdings
    BY <1>d DEF Dirs
  <2>3. assets' \in Dirs /\ assets'.archives = assets.archives
    BY <1>d, <2>1, <2>2 DEF Dirs
  <2> QED
    BY <1>keep, <1>t, <2>1, <2>3 DEF ReleaseTyped
<1>3. CASE Damage
  <2>u. UNCHANGED <<tree, pack, out, finalizing, check, accepted>>
    BY <1>3 DEF Damage
  <2>1. ASSUME NEW n \in Present(assets.archives), assets' = [assets EXCEPT !.archives[n].intact = FALSE]
        PROVE  ReleaseInv'
    <3>1. n \in Archives /\ assets.archives[n] \in Kinds
      BY <1>d DEF Present, Dirs, Holdings
    <3> DEFINE a == [assets.archives[n] EXCEPT !.intact = FALSE]
    <3>2. a \in Kinds /\ a.intact = FALSE
      BY <3>1 DEF Kinds
    <3>3. assets' = [assets EXCEPT !.archives[n] = a]
      BY <1>d, <2>1
    <3> HIDE DEF a
    <3> QED
      BY <1>put, <2>u, <3>1, <3>2, <3>3
  <2>2. ASSUME NEW n \in Present(assets.archives), assets' = [assets EXCEPT !.archives[n] = Absent]
        PROVE  ReleaseInv'
    <3>1. n \in Archives
      BY DEF Present
    <3> QED
      BY <1>h, <1>put, <2>2, <2>u, <3>1
  <2>3. CASE \/ assets' = [assets EXCEPT !.index = NoIndex]
             \/ assets' = [assets EXCEPT !.sums = NoIndex]
             \/ assets' = [assets EXCEPT !.stray = TRUE]
    <3>1. assets' \in Dirs /\ assets'.archives = assets.archives
      BY <1>d, <1>h, <2>3 DEF Dirs
    <3> QED
      BY <1>keep, <1>t, <2>u, <3>1 DEF ReleaseTyped
  <2> QED
    BY <1>3, <2>1, <2>2, <2>3 DEF Damage
<1>4. CASE WriteIndex
  <2>1. /\ assets' = [assets EXCEPT !.index = assets.archives] /\ finalizing' = assets.archives
        /\ UNCHANGED <<tree, pack, out, check, accepted>>
    BY <1>4 DEF WriteIndex
  <2>2. assets' \in Dirs /\ assets'.archives = assets.archives /\ assets.archives \in Holdings
    BY <1>d, <2>1 DEF Dirs
  <2> QED
    BY <1>keep, <2>1, <2>2
<1>5. CASE WriteSums
  <2>1. /\ finalizing' = NoIndex
        /\ assets' = [assets EXCEPT !.sums = finalizing] \/ assets' = assets
        /\ UNCHANGED <<tree, pack, out, check, accepted>>
    BY <1>5 DEF WriteSums
  <2>2. finalizing \in Holdings
    BY <1>t DEF ReleaseTyped
  <2>3. assets' \in Dirs /\ assets'.archives = assets.archives
    BY <1>d, <2>1, <2>2 DEF Dirs
  <2> QED
    BY <1>h, <1>keep, <2>1, <2>3
<1> QED
  BY <1>1, <1>2, <1>3, <1>4, <1>5

LEMMA VerificationSound ==
    ASSUME ReleaseInv,
           VerifyBegins \/ VerifyConcludes \/ \E n \in Archives : VerifyReads(n)
    PROVE  ReleaseInv'
<1>t. /\ ReleaseTyped /\ Faithful(assets.archives) /\ Faithful(check.copy)
      /\ accepted # NoFiles => WholeRelease(accepted)
  BY DEF ReleaseInv
<1> DEFINE Checks == [busy : BOOLEAN, index : Holdings, sums : Holdings, copy : Holdings,
                      left : SUBSET Archives]
<1>d. assets \in Dirs /\ check \in Checks /\ accepted \in Holdings
  BY <1>t DEF ReleaseTyped
<1>m. ASSUME check' \in Checks, Faithful(check'.copy), accepted' \in Holdings,
             accepted' # NoFiles => WholeRelease(accepted'),
             UNCHANGED <<tree, pack, out, assets, finalizing>>
      PROVE  ReleaseInv'
  <2>1. ReleaseTyped'
    BY <1>m, <1>t DEF ReleaseTyped
  <2> QED
    BY <1>m, <1>t, <2>1, GatheringMoves
<1>1. CASE VerifyBegins
  <2>1. /\ check' = [busy |-> TRUE, index |-> assets.index, sums |-> assets.sums,
                     copy |-> NoFiles, left |-> Present(assets.archives)]
        /\ UNCHANGED <<tree, pack, out, assets, finalizing, accepted>>
    BY <1>1 DEF VerifyBegins
  <2>2. check' \in Checks
    BY <1>d, <2>1, NothingFiled DEF Dirs, Present
  <2>3. Faithful(check'.copy)
    BY <2>1, NothingFiled
  <2> QED
    BY <1>d, <1>m, <1>t, <2>1, <2>2, <2>3
<1>2. ASSUME NEW n \in Archives, VerifyReads(n) PROVE ReleaseInv'
  <2>1. /\ \/ check' = Idle
           \/ check' = [check EXCEPT !.left = @ \ {n}, !.copy[n] = assets.archives[n]]
        /\ UNCHANGED <<tree, pack, out, assets, finalizing, accepted>>
    BY <1>2 DEF VerifyReads
  <2>2. CASE check' = Idle
    BY <1>d, <1>m, <1>t, <2>1, <2>2, NothingFiled
  <2>3. CASE check' = [check EXCEPT !.left = @ \ {n}, !.copy[n] = assets.archives[n]]
    <3> DEFINE copy == [check.copy EXCEPT ![n] = assets.archives[n]]
    <3>1. assets.archives \in Holdings /\ check.copy \in Holdings
      BY <1>d DEF Dirs
    <3>2. copy \in Holdings /\ Faithful(copy)
      BY <1>t, <3>1 DEF Holdings, Faithful
    <3>3. check' = [check EXCEPT !.left = check.left \ {n}, !.copy = copy]
      BY <1>d, <2>3
    <3> HIDE DEF copy
    <3>4. check' \in Checks /\ check'.copy = copy
      BY <1>d, <3>2, <3>3
    <3> QED
      BY <1>d, <1>m, <1>t, <2>1, <3>2, <3>4
  <2> QED
    BY <2>1, <2>2, <2>3
<1>3. CASE VerifyConcludes
  <2> DEFINE copied == [Empty EXCEPT !.archives = check.copy]
  <2>1. /\ check' = Idle
        /\ \/ accepted' = accepted
           \/ accepted' = check.copy /\ Finalizable(copied)
        /\ UNCHANGED <<tree, pack, out, assets, finalizing>>
    BY <1>3 DEF VerifyConcludes
  <2>2. CASE accepted' = accepted
    BY <1>d, <1>m, <1>t, <2>1, <2>2, NothingFiled
  <2>3. CASE accepted' = check.copy /\ Finalizable(copied)
    <3>1. check.copy \in Holdings
      BY <1>d
    <3>2. copied \in Dirs /\ copied.archives = check.copy
      BY <3>1, NothingFiled DEF Dirs
    <3> HIDE DEF copied
    <3>3. WholeRelease(check.copy)
      BY <1>t, <2>3, <3>2, FinalizableIsComplete
    <3> QED
      BY <1>m, <2>1, <2>3, <3>1, <3>3, NothingFiled
  <2> QED
    BY <2>1, <2>2, <2>3
<1> QED
  BY <1>1, <1>2, <1>3

LEMMA ReleaseKept == ReleaseInv /\ [ReleaseNext]_releaseVars => ReleaseInv'
<1> SUFFICES ASSUME ReleaseInv, [ReleaseNext]_releaseVars PROVE ReleaseInv'
  OBVIOUS
<1>1. CASE UNCHANGED releaseVars
  BY <1>1 DEF releaseVars, ReleaseInv, ReleaseTyped, Packaged
<1> QED
  BY <1>1, PackageSound, GatheringSound, VerificationSound DEF ReleaseNext, ReleaseOver

LEMMA ReleaseSuffices == ReleaseInv => ReleaseIsWhole
BY DEF ReleaseInv, ReleaseIsWhole, Packaged, WholeRelease

\* Whatever working trees are edited under the packagers, whatever they leave
\* when they die, and however archives and metadata are gathered, overwritten
\* and damaged: what a verification accepts, and what a package that succeeded
\* leaves, is a release whose binaries were made of exactly its sources.
THEOREM ReleasesAreWhole == ReleaseSpec => []ReleaseIsWhole
BY ReleaseInitially, ReleaseKept, ReleaseSuffices, PTL DEF ReleaseSpec

----------------------------------------------------------------------------
(* The differential gates (DifferentialGate).                                *)

GateSpec == GateInit /\ [][GateNext]_gateVars

Outcomes == [index : Nat, end : CallEnds, events : Seq(Nat)]
Judgements == [ok : BOOLEAN, codes : SUBSET Codes]

\* A failure of the gate itself is a departure.
GateTyped ==
    /\ gate \in Gates /\ odd \in Nat
    /\ stage \in {"probe", "run", "compare", "report", "broken", "done"}
    /\ stage # "done" => status = "none" /\ artifact = {}
    /\ failures \subseteq CaseIds
    /\ stage = "broken" => odd > 0

\* The verifier's results are its verdicts, each at its case.
Judged ==
    stage \in {"run", "compare"} =>
        /\ verdict \in [CaseIds -> Judgements] /\ static = verdict
        /\ odd = 0 => \A c \in CaseIds : verdict[c] = Expected(c)

Places ==
    [case : 1 .. Len(Corpus) + 1, call : Nat \ {0}, results : Seq(Seq(Outcomes)),
     outcomes : Seq(Outcomes), events : Seq(Nat)]

\* How far the worker is, and how much its predecessor returned.
Shaped ==
    /\ worker \in Places
    /\ payloads \in Seq(Seq(Seq(Outcomes)))
    /\ worker.case \in CaseIds => worker.call \in CallsOf(worker.case)
    /\ Len(worker.results) = worker.case - 1
    /\ Len(worker.outcomes) = worker.call - 1
    /\ \A c \in 1 .. worker.case - 1 : DOMAIN worker.results[c] = CallsOf(c)
    /\ \A w \in 1 .. Len(payloads) :
          /\ Len(payloads[w]) = Len(Corpus) /\ payloads[w] = payloads[1]
          /\ \A c \in CaseIds : DOMAIN payloads[w][c] = CallsOf(c)
    /\ stage = "probe" => did = {} /\ payloads = <<>> /\ worker = Fresh
    /\ stage = "compare" => payloads # <<>> /\ worker = Fresh

\* The calls worker w has made, and what it noted of them.
Seen(w, c, i) ==
    \/ w \in 1 .. Len(payloads)
    \/ w = Len(payloads) + 1 /\ c < worker.case
    \/ w = Len(payloads) + 1 /\ c = worker.case /\ i < worker.call
Noted(w, c, i) ==
    IF w <= Len(payloads) THEN payloads[w][c][i]
    ELSE IF c < worker.case THEN worker.results[c][i] ELSE worker.outcomes[i]
Record(d) ==
    [index |-> d.call, end |-> d.end,
     events |-> IF gate = "module" THEN <<IF d.tidy THEN d.call ELSE 0>> ELSE <<>>]
Done == [worker : Nat \ {0}, case : CaseIds, call : Nat \ {0}, end : CallEnds, tidy : BOOLEAN]

\* What is noted of a call is what it did; without a departure it did what is expected.
Recorded ==
    /\ did \subseteq Done
    /\ \A d \in did :
          /\ d.call \in CallsOf(d.case)
          /\ Seen(d.worker, d.case, d.call)
          /\ Noted(d.worker, d.case, d.call) = Record(d)
          /\ odd = 0 => d.end = Corpus[d.case].calls[d.call].want /\ d.tidy

\* Every call that is noted was made.
Made ==
    \A w \in 1 .. Len(payloads) + 1, c \in CaseIds : \A i \in CallsOf(c) :
        Seen(w, c, i) => \E d \in did : d.worker = w /\ d.case = c /\ d.call = i

\* The comparison found what there is to find.
Reported ==
    stage = "report" =>
        /\ failures = {} => \A c \in CaseIds : Agrees(c)
        /\ odd = 0 => failures = {}

GateInv ==
    /\ GateTyped /\ Judged /\ Reported /\ GateIsHonest
    /\ stage \in {"probe", "run", "compare"} => Shaped /\ Recorded /\ Made

LEMMA TheCorpus ==
    /\ Len(Corpus) \in Nat \ {0} /\ CaseIds = 1 .. Len(Corpus)
    /\ \A c \in CaseIds :
          /\ Corpus[c].codes \in SUBSET (Codes \ {"PP099"})
          /\ Len(Corpus[c].calls) \in Nat \ {0}
          /\ DOMAIN Corpus[c].calls = 1 .. Len(Corpus[c].calls)
          /\ \A i \in DOMAIN Corpus[c].calls :
                /\ Corpus[c].calls[i].want \in {"value", "other"} \cup Exceptions
                /\ Corpus[c].calls[i].checked \in BOOLEAN
<1> DEFINE Call == [want : {"value", "other"} \cup Exceptions, checked : BOOLEAN]
           Case == [codes : SUBSET (Codes \ {"PP099"}), calls : Seq(Call)]
<1>1. Corpus \in Seq(Case) /\ Corpus # <<>>
  BY GateAssumption
<1> HIDE DEF Case
<1>2. Len(Corpus) \in Nat \ {0} /\ CaseIds = 1 .. Len(Corpus)
  BY <1>1 DEF CaseIds
<1>3. ASSUME NEW c \in CaseIds
      PROVE  /\ Corpus[c].codes \in SUBSET (Codes \ {"PP099"})
             /\ Corpus[c].calls \in Seq(Call) /\ Corpus[c].calls # <<>>
  <2>1. Corpus[c] \in Case
    BY <1>1, <1>2
  <2>2. Corpus[c].calls # <<>>
    BY GateAssumption DEF CaseIds
  <2> QED
    BY <2>1, <2>2 DEF Case
<1> HIDE DEF Call
<1>4. ASSUME NEW c \in CaseIds
      PROVE  /\ Len(Corpus[c].calls) \in Nat \ {0}
             /\ DOMAIN Corpus[c].calls = 1 .. Len(Corpus[c].calls)
             /\ \A i \in DOMAIN Corpus[c].calls : Corpus[c].calls[i] \in Call
  BY <1>3
<1> QED
  BY <1>2, <1>3, <1>4 DEF Call

LEMMA CallsCounted ==
    ASSUME NEW c \in CaseIds
    PROVE  /\ \E n \in Nat \ {0} : CallsOf(c) = 1 .. n
           /\ \A i \in CallsOf(c) : i \in Nat \ {0} /\ i \in DOMAIN Corpus[c].calls
           /\ gate # "expression" => CallsOf(c) = DOMAIN Corpus[c].calls
           /\ gate = "expression" => CallsOf(c) = {1}
<1>1. /\ Len(Corpus[c].calls) \in Nat \ {0}
      /\ DOMAIN Corpus[c].calls = 1 .. Len(Corpus[c].calls)
  BY TheCorpus
<1>2. CASE gate = "expression"
  <2>1. CallsOf(c) = {1} /\ {1} = 1 .. 1
    BY <1>2 DEF CallsOf
  <2>2. 1 \in DOMAIN Corpus[c].calls
    BY <1>1
  <2>3. \E n \in Nat \ {0} : CallsOf(c) = 1 .. n
    BY <2>1
  <2> QED
    BY <1>2, <2>1, <2>2, <2>3
<1>3. CASE gate # "expression"
  <2>1. CallsOf(c) = DOMAIN Corpus[c].calls
    BY <1>3 DEF CallsOf
  <2> QED
    BY <1>1, <1>3, <2>1
<1> QED
  BY <1>2, <1>3

\* The results that a reader accepts are in order.
LEMMA AcceptedInOrder ==
    ASSUME NEW order \in Orders, NEW f
    PROVE  /\ InOrder \in Orders /\ ReadResults(InOrder)
           /\ ReadResults(order) =>
                 /\ DOMAIN order = CaseIds /\ order = InOrder
                 /\ [i \in DOMAIN order |-> f[order[i]]] = [i \in CaseIds |-> f[i]]
<1>1. Len(Corpus) \in Nat \ {0} /\ CaseIds = 1 .. Len(Corpus)
  BY TheCorpus
<1>2. InOrder \in Seq(CaseIds) /\ Len(InOrder) = Len(Corpus) /\ InOrder \in [CaseIds -> CaseIds]
  BY <1>1 DEF InOrder
<1>3. order \in Seq(CaseIds)
  <2>1. CASE order \in [CaseIds -> CaseIds]
    BY <2>1, <1>1, SeqDef
  <2>2. CASE order = SubSeq(InOrder, 1, Len(Corpus) - 1)
    <3>1. \A i \in 1 .. Len(Corpus) - 1 : InOrder[i] \in CaseIds
      BY <1>1 DEF InOrder
    <3> QED
      BY <2>2, <1>1, <3>1, SubSeqProperties
  <2> QED
    BY <1>2, <2>1, <2>2 DEF Orders
<1>4. DOMAIN order = 1 .. Len(order)
  BY <1>3
<1>5. ASSUME ReadResults(order) PROVE DOMAIN order = CaseIds /\ order = InOrder
  <2>1. DOMAIN order = CaseIds /\ \A i \in CaseIds : order[i] = i
    BY <1>5, <1>4, <1>1 DEF ReadResults
  <2>2. order = [i \in DOMAIN order |-> order[i]]
    BY <1>3
  <2> QED
    BY <2>1, <2>2 DEF InOrder
<1> QED
  BY <1>1, <1>2, <1>5 DEF ReadResults, InOrder, Orders

LEMMA GateInitially == GateInit => GateInv
<1> SUFFICES ASSUME GateInit PROVE GateInv
  OBVIOUS
<1>1. GateTyped /\ Judged /\ Reported /\ GateIsHonest
  BY DEF GateInit, GateTyped, Judged, Reported, GateIsHonest
<1>2. Len(Corpus) \in Nat \ {0} /\ CaseIds = 1 .. Len(Corpus)
  BY TheCorpus
<1>3. 1 \in CaseIds /\ 1 \in CallsOf(1)
  BY <1>2, CallsCounted
<1>4. Shaped
  BY <1>2, <1>3 DEF GateInit, Shaped, Places, Fresh
<1>5. Recorded
  BY DEF GateInit, Recorded
<1>6. Made
  <2> SUFFICES ASSUME NEW c \in CaseIds, NEW i \in CallsOf(c) PROVE ~ Seen(1, c, i)
    BY DEF Made, GateInit
  <2>1. i \in Nat \ {0} /\ c \in Nat \ {0}
    BY <1>2, CallsCounted
  <2> QED
    BY <2>1 DEF Seen, GateInit, Fresh
<1> QED
  BY <1>1, <1>4, <1>5, <1>6 DEF GateInv

LEMMA ProcessFailsKept == GateInv /\ ProcessFails => GateInv'
BY DEF GateInv, ProcessFails, Depart, GateTyped, Judged, Reported, GateIsHonest

LEMMA ProbeKept == GateInv /\ Probe => GateInv'
<1> SUFFICES ASSUME GateInv, Probe PROVE GateInv'
  OBVIOUS
<1>1. PICK v \in [CaseIds -> Judgements],
           order \in (IF gate = "module" THEN {InOrder} ELSE Orders) :
             /\ Depart(Cardinality({c \in CaseIds : v[c] # Expected(c)}) + Counted(order # InOrder))
             /\ verdict' = v
             /\ static' = [i \in DOMAIN order |-> v[order[i]]]
             /\ stage' = IF ReadResults(order) THEN "run" ELSE "broken"
  BY DEF Probe, Judgements
<1> DEFINE unexpected == {c \in CaseIds : v[c] # Expected(c)}
<1>2. IsFiniteSet(CaseIds)
  BY TheCorpus, FS_Interval
<1>3. Cardinality(unexpected) \in Nat /\ (Cardinality(unexpected) = 0 => unexpected = {})
  <2>1. IsFiniteSet(unexpected)
    BY <1>2, FS_Subset
  <2> QED
    BY <2>1, FS_CardinalityType, FS_EmptySet
<1>4. odd \in Nat /\ stage = "probe" /\ status = "none" /\ artifact = {} /\ failures \subseteq CaseIds
  BY DEF GateInv, GateTyped, Probe
<1>5. odd' = odd + Cardinality(unexpected) + Counted(order # InOrder) /\ odd' \in Nat
  <2>1. odd' = odd + (Cardinality(unexpected) + Counted(order # InOrder))
    BY <1>1 DEF Depart
  <2> HIDE DEF unexpected
  <2> QED
    BY <2>1, <1>3, <1>4 DEF Counted
<1>6. odd' = 0 => unexpected = {}
  <2> HIDE DEF unexpected
  <2> QED
    BY <1>3, <1>4, <1>5 DEF Counted
<1>7. ReadResults(order) => static' = v
  <2>1. order \in Orders
    BY AcceptedInOrder DEF Orders
  <2>2. ReadResults(order) => [i \in DOMAIN order |-> v[order[i]]] = [i \in CaseIds |-> v[i]]
    BY <2>1, AcceptedInOrder
  <2> QED
    BY <1>1, <2>2
<1>8. ReadResults(order) \/ odd' > 0
  <2>1. ReadResults(InOrder)
    BY DEF ReadResults, InOrder, CaseIds
  <2> HIDE DEF unexpected
  <2> QED
    BY <1>3, <1>4, <1>5, <2>1, AcceptedInOrder DEF Counted, Orders
<1>9. GateTyped' /\ Reported' /\ GateIsHonest'
  BY <1>1, <1>4, <1>5, <1>8 DEF GateInv, GateTyped, Reported, GateIsHonest, Probe, CaseIds
<1>10. Judged'
  BY <1>1, <1>6, <1>7 DEF Judged, CaseIds, Expected
<1>11. Shaped /\ Recorded /\ Made /\ did = {} /\ payloads = <<>> /\ worker = Fresh
  BY <1>4 DEF GateInv, Shaped, Places
<1>12. did' = did /\ payloads' = payloads /\ worker' = worker /\ gate' = gate
  BY DEF Probe
<1>13. Shaped'
  BY <1>1, <1>11, <1>12 DEF Shaped, Places, CaseIds, CallsOf
<1>14. Recorded' /\ Made'
  BY <1>11, <1>12 DEF Recorded, Made, Seen, CaseIds, CallsOf
<1> QED
  BY <1>9, <1>10, <1>13, <1>14 DEF GateInv

\* How a worker goes on after call i of case c with the outcome o.
NextCall(o) ==
    worker' = [worker EXCEPT !.call = worker.call + 1, !.outcomes = Append(worker.outcomes, o), !.events = o.events]
NextCase(o) ==
    worker' = [case |-> worker.case + 1, call |-> 1, outcomes |-> <<>>, events |-> <<>>,
               results |-> Append(worker.results, Append(worker.outcomes, o))]

\* A call that is noted as it was made.
NotedRight(d, o) ==
    /\ d \in Done /\ o \in Outcomes /\ o = Record(d)
    /\ d.worker = Len(payloads) + 1 /\ d.case = worker.case /\ d.call = worker.call
    /\ did' = did \cup {d}
    /\ odd' \in Nat /\ odd' >= odd
    /\ odd' = 0 => d.end = Corpus[d.case].calls[d.call].want /\ d.tidy

LEMMA NoteIsRight ==
    ASSUME NEW e \in CallEnds, NEW tidy \in BOOLEAN, NEW recorded, GateInv, Note(e, tidy, recorded),
           recorded = IF gate = "module" THEN <<IF tidy THEN worker.call ELSE 0>> ELSE <<>>
    PROVE  \E d, o :
              /\ NotedRight(d, o) /\ d.end = e
              /\ IF worker.call + 1 \in CallsOf(worker.case) THEN NextCall(o) ELSE NextCase(o)
<1> DEFINE d == [worker |-> Len(payloads) + 1, case |-> worker.case, call |-> worker.call, end |-> e, tidy |-> tidy]
           o == [index |-> worker.call, end |-> e, events |-> recorded]
<1>1. Shaped /\ stage = "run" /\ odd \in Nat /\ worker.case \in CaseIds
  BY DEF GateInv, GateTyped, Note
<1>2. worker.call \in Nat \ {0} /\ Len(payloads) \in Nat
  BY <1>1 DEF Shaped, Places
<1>3. d \in Done
  BY <1>1, <1>2 DEF Done
<1>4. recorded \in Seq(Nat)
  BY <1>2
<1>5. o \in Outcomes /\ o = Record(d)
  BY <1>2, <1>4 DEF Outcomes, Record
<1>6. odd' = odd + (Counted(e # Corpus[worker.case].calls[worker.call].want) + Counted(~ tidy))
  BY DEF Note, Depart
<1>7. /\ odd' \in Nat /\ odd' >= odd
      /\ odd' = 0 => e = Corpus[worker.case].calls[worker.call].want /\ tidy
  BY <1>6, <1>1 DEF Counted
<1>8. did' = did \cup {d}
  BY DEF Note
<1>9. NotedRight(d, o)
  BY <1>3, <1>5, <1>7, <1>8 DEF NotedRight
<1>10. IF worker.call + 1 \in CallsOf(worker.case) THEN NextCall(o) ELSE NextCase(o)
  BY DEF Note, NextCall, NextCase
<1> QED
  BY <1>9, <1>10

\* A noted call leaves what was noted before, and is noted itself.
NotedAs(d, o) ==
    /\ \A w \in 1 .. Len(payloads) + 1, c \in CaseIds : \A i \in CallsOf(c) :
          /\ Seen(w, c, i) => Seen(w, c, i)' /\ Noted(w, c, i)' = Noted(w, c, i)
          /\ Seen(w, c, i)' => Seen(w, c, i) \/ (w = d.worker /\ c = d.case /\ i = d.call)
    /\ Seen(d.worker, d.case, d.call)' /\ Noted(d.worker, d.case, d.call)' = o

LEMMA NextCallNotes ==
    ASSUME NEW d, NEW o, Shaped, stage = "run", NotedRight(d, o), worker.case \in CaseIds,
           UNCHANGED <<gate, payloads, stage>>,
           worker.call + 1 \in CallsOf(worker.case), NextCall(o)
    PROVE  Shaped' /\ NotedAs(d, o)
<1>1. Len(Corpus) \in Nat \ {0} /\ CaseIds = 1 .. Len(Corpus) /\ Len(payloads) \in Nat
  BY TheCorpus DEF Shaped, Places
<1>2. o \in Outcomes /\ o.events \in Seq(Nat)
  BY DEF NotedRight, Outcomes
<1>3. /\ worker.case \in Nat /\ worker.call \in Nat \ {0} /\ worker.results \in Seq(Seq(Outcomes))
      /\ worker.outcomes \in Seq(Outcomes) /\ Len(worker.outcomes) = worker.call - 1
  BY <1>1 DEF Shaped, Places
<1> DEFINE more == Append(worker.outcomes, o)
<1>4. /\ more \in Seq(Outcomes) /\ Len(more) = worker.call /\ more[worker.call] = o
      /\ \A i \in 1 .. worker.call - 1 : more[i] = worker.outcomes[i]
  BY <1>2, <1>3
<1>5. /\ worker'.case = worker.case /\ worker'.call = worker.call + 1
      /\ worker'.results = worker.results /\ worker'.outcomes = more /\ worker'.events = o.events
      /\ worker' \in Places
  <2> HIDE DEF more
  <2>1. worker' = [worker EXCEPT !.call = worker.call + 1, !.outcomes = more, !.events = o.events]
    BY DEF NextCall, more
  <2>2. worker \in Places
    BY DEF Shaped, Places
  <2>3. worker.call + 1 \in Nat \ {0}
    BY <1>3
  <2>4. worker' \in Places
    BY <1>2, <1>4, <2>1, <2>2, <2>3 DEF Places
  <2> QED
    BY <2>1, <2>2, <2>4 DEF Places
<1> HIDE DEF more
<1>6. Shaped'
  BY <1>1, <1>3, <1>4, <1>5 DEF Shaped, Places, CaseIds, CallsOf
<1>7. \A c \in CaseIds : \A i \in CallsOf(c) : c \in Nat \ {0} /\ i \in Nat \ {0}
  BY <1>1, CallsCounted
<1>8. ASSUME NEW w \in 1 .. Len(payloads) + 1, NEW c \in CaseIds, NEW i \in CallsOf(c)
      PROVE  /\ Seen(w, c, i) => Seen(w, c, i)' /\ Noted(w, c, i)' = Noted(w, c, i)
             /\ Seen(w, c, i)' => Seen(w, c, i) \/ (w = d.worker /\ c = d.case /\ i = d.call)
  <2>1. c \in Nat \ {0} /\ i \in Nat \ {0}
    BY <1>7
  <2>2. payloads' = payloads /\ d.worker = Len(payloads) + 1 /\ d.case = worker.case /\ d.call = worker.call
    BY DEF NotedRight
  <2>3. Seen(w, c, i) => Seen(w, c, i)'
    BY <1>1, <1>3, <1>5, <2>1, <2>2 DEF Seen
  <2>4. Seen(w, c, i) => Noted(w, c, i)' = Noted(w, c, i)
    BY <1>1, <1>3, <1>4, <1>5, <2>1, <2>2 DEF Seen, Noted
  <2>5. Seen(w, c, i)' => Seen(w, c, i) \/ (w = d.worker /\ c = d.case /\ i = d.call)
    BY <1>1, <1>3, <1>5, <2>1, <2>2 DEF Seen
  <2> QED
    BY <2>3, <2>4, <2>5
<1>9. Seen(d.worker, d.case, d.call)' /\ Noted(d.worker, d.case, d.call)' = o
  <2>1. payloads' = payloads /\ d.worker = Len(payloads) + 1 /\ d.case = worker.case /\ d.call = worker.call
    BY DEF NotedRight
  <2> QED
    BY <1>1, <1>3, <1>4, <1>5, <2>1 DEF Seen, Noted
<1> QED
  BY <1>6, <1>8, <1>9 DEF NotedAs

LEMMA NextCaseNotes ==
    ASSUME NEW d, NEW o, Shaped, stage = "run", NotedRight(d, o), worker.case \in CaseIds,
           UNCHANGED <<gate, payloads, stage>>,
           worker.call + 1 \notin CallsOf(worker.case), NextCase(o)
    PROVE  Shaped' /\ NotedAs(d, o)
<1>1. Len(Corpus) \in Nat \ {0} /\ CaseIds = 1 .. Len(Corpus) /\ Len(payloads) \in Nat
  BY TheCorpus DEF Shaped, Places
<1>2. o \in Outcomes
  BY DEF NotedRight
<1>3. /\ worker.case \in Nat \ {0} /\ worker.call \in CallsOf(worker.case)
      /\ worker.results \in Seq(Seq(Outcomes)) /\ Len(worker.results) = worker.case - 1
      /\ worker.outcomes \in Seq(Outcomes) /\ Len(worker.outcomes) = worker.call - 1
      /\ worker.call \in Nat \ {0}
  BY <1>1 DEF Shaped, Places
<1>4. CallsOf(worker.case) = 1 .. worker.call
  <2>1. PICK n \in Nat \ {0} : CallsOf(worker.case) = 1 .. n
    BY CallsCounted
  <2> QED
    BY <1>3, <2>1
<1> DEFINE more == Append(worker.outcomes, o)
           all == Append(worker.results, more)
<1>5. /\ more \in Seq(Outcomes) /\ Len(more) = worker.call /\ more[worker.call] = o
      /\ DOMAIN more = 1 .. worker.call
      /\ \A i \in 1 .. worker.call - 1 : more[i] = worker.outcomes[i]
  BY <1>2, <1>3
<1>6. /\ all \in Seq(Seq(Outcomes)) /\ Len(all) = worker.case /\ all[worker.case] = more
      /\ \A c \in 1 .. worker.case - 1 : all[c] = worker.results[c]
  <2> HIDE DEF more
  <2> QED
    BY <1>3, <1>5
<1>7. /\ worker'.case = worker.case + 1 /\ worker'.call = 1
      /\ worker'.results = all /\ worker'.outcomes = <<>> /\ worker'.events = <<>>
      /\ worker' \in Places
  <2> HIDE DEF all
  <2>1. worker' = [case |-> worker.case + 1, call |-> 1, outcomes |-> <<>>, events |-> <<>>, results |-> all]
    BY DEF NextCase, all
  <2>2. worker.case + 1 \in 1 .. Len(Corpus) + 1
    BY <1>1, <1>3
  <2> QED
    BY <1>6, <2>1, <2>2 DEF Places
<1> HIDE DEF all, more
<1>8. \A c \in CaseIds : \A i \in CallsOf(c) : c \in Nat \ {0} /\ i \in Nat \ {0}
  BY <1>1, CallsCounted
<1>9. Shaped'
  <2>1. \A c \in CaseIds : CallsOf(c)' = CallsOf(c)
    BY DEF CallsOf, CaseIds
  <2>2. worker'.case \in CaseIds => worker'.call \in CallsOf(worker'.case)
    BY <1>7, CallsCounted
  <2>3. \A c \in 1 .. worker'.case - 1 : DOMAIN worker'.results[c] = CallsOf(c)
    <3> SUFFICES ASSUME NEW c \in 1 .. worker.case PROVE DOMAIN all[c] = CallsOf(c)
      BY <1>3, <1>7
    <3>1. CASE c = worker.case
      BY <3>1, <1>4, <1>5, <1>6
    <3>2. CASE c \in 1 .. worker.case - 1
      BY <3>2, <1>6 DEF Shaped, Places
    <3> QED
      BY <3>1, <3>2, <1>3
  <2>4. \A c \in 1 .. worker'.case - 1 : c \in CaseIds
    BY <1>1, <1>3, <1>7
  <2>5. \A w \in 1 .. Len(payloads) :
           /\ Len(payloads[w]) = Len(Corpus) /\ payloads[w] = payloads[1]
           /\ \A c \in CaseIds : DOMAIN payloads[w][c] = CallsOf(c)
    BY DEF Shaped, Places
  <2>6. payloads \in Seq(Seq(Seq(Outcomes)))
    BY DEF Shaped, Places
  <2>7. Len(worker'.results) = worker'.case - 1 /\ Len(worker'.outcomes) = worker'.call - 1
    BY <1>3, <1>6, <1>7
  <2>8. CaseIds' = CaseIds /\ payloads' = payloads /\ stage' = "run"
    BY DEF CaseIds
  <2>9. (worker.case \in CaseIds => worker.call \in CallsOf(worker.case))'
    BY <2>1, <2>2
  <2>10. \A c \in 1 .. worker'.case - 1 : DOMAIN worker'.results[c] = CallsOf(c)'
    BY <2>1, <2>3, <2>4
  <2>11. \A w \in 1 .. Len(payloads) :
           /\ Len(payloads[w]) = Len(Corpus) /\ payloads[w] = payloads[1]
           /\ \A c \in CaseIds : DOMAIN payloads[w][c] = CallsOf(c)'
    BY <2>1, <2>5
  <2> QED
    BY <1>7, <2>6, <2>7, <2>8, <2>9, <2>10, <2>11 DEF Shaped, Places
<1>10. ASSUME NEW w \in 1 .. Len(payloads) + 1, NEW c \in CaseIds, NEW i \in CallsOf(c)
      PROVE  /\ Seen(w, c, i) => Seen(w, c, i)' /\ Noted(w, c, i)' = Noted(w, c, i)
             /\ Seen(w, c, i)' => Seen(w, c, i) \/ (w = d.worker /\ c = d.case /\ i = d.call)
  <2>1. c \in Nat \ {0} /\ i \in Nat \ {0} /\ (c = worker.case => i <= worker.call)
    BY <1>3, <1>4, <1>8
  <2>2. payloads' = payloads /\ d.worker = Len(payloads) + 1 /\ d.case = worker.case /\ d.call = worker.call
    BY DEF NotedRight
  <2>3. Seen(w, c, i) => Seen(w, c, i)'
    BY <1>1, <1>3, <1>7, <2>1, <2>2 DEF Seen
  <2>4. ASSUME Seen(w, c, i) PROVE Noted(w, c, i)' = Noted(w, c, i)
    <3>1. CASE w <= Len(payloads)
      BY <3>1, <2>2 DEF Noted
    <3>2. CASE w = Len(payloads) + 1 /\ c < worker.case
      <4>1. Noted(w, c, i) = worker.results[c][i]
        BY <1>1, <3>2 DEF Noted
      <4>2. Noted(w, c, i)' = all[c][i]
        BY <1>1, <1>3, <1>7, <2>1, <2>2, <3>2 DEF Noted
      <4>3. c \in 1 .. worker.case - 1
        BY <1>3, <2>1, <3>2
      <4> QED
        BY <1>6, <4>1, <4>2, <4>3
    <3>3. CASE w = Len(payloads) + 1 /\ c = worker.case /\ i < worker.call
      <4>1. Noted(w, c, i) = worker.outcomes[i]
        BY <1>1, <1>3, <3>3 DEF Noted
      <4>2. Noted(w, c, i)' = all[worker.case][i]
        BY <1>1, <1>3, <1>7, <2>1, <2>2, <3>3 DEF Noted
      <4>3. i \in 1 .. worker.call - 1
        BY <1>3, <2>1, <3>3
      <4> QED
        BY <1>5, <1>6, <4>1, <4>2, <4>3
    <3> QED
      BY <2>4, <3>1, <3>2, <3>3, <1>1 DEF Seen
  <2>5. Seen(w, c, i)' => Seen(w, c, i) \/ (w = d.worker /\ c = d.case /\ i = d.call)
    BY <1>1, <1>3, <1>7, <2>1, <2>2 DEF Seen
  <2> QED
    BY <2>3, <2>4, <2>5
<1>11. Seen(d.worker, d.case, d.call)' /\ Noted(d.worker, d.case, d.call)' = o
  <2>1. payloads' = payloads /\ d.worker = Len(payloads) + 1 /\ d.case = worker.case /\ d.call = worker.call
    BY DEF NotedRight
  <2> QED
    <3>1. Seen(d.worker, d.case, d.call)'
      BY <1>1, <1>3, <1>7, <2>1 DEF Seen
    <3>2. Noted(d.worker, d.case, d.call)' = all[worker.case][worker.call]
      BY <1>1, <1>3, <1>7, <2>1 DEF Noted
    <3> QED
      BY <3>1, <3>2, <1>5, <1>6
<1> QED
  BY <1>9, <1>10, <1>11 DEF NotedAs

LEMMA NotedKept ==
    ASSUME NEW d, NEW o, Shaped, Recorded, Made, NotedRight(d, o), NotedAs(d, o),
           worker.case \in CaseIds, gate' = gate, payloads' = payloads, odd \in Nat
    PROVE  Recorded' /\ Made'
<1>1. /\ did' = did \cup {d} /\ d \in Done /\ d.call \in CallsOf(d.case) /\ d.case \in CaseIds
      /\ d.worker = Len(payloads) + 1 /\ Len(payloads) \in Nat
  BY DEF NotedRight, Shaped
<1>2. /\ \A x : Record(x)' = Record(x)
      /\ \A c : CallsOf(c)' = CallsOf(c)
      /\ CaseIds' = CaseIds
  BY DEF Record, CallsOf, CaseIds
<1>3. o = Record(d) /\ odd' \in Nat /\ odd' >= odd
  BY DEF NotedRight
<1>4. \A x \in did :
         /\ x \in Done /\ x.worker \in 1 .. Len(payloads) + 1 /\ x.case \in CaseIds
         /\ x.call \in CallsOf(x.case) /\ Seen(x.worker, x.case, x.call)
         /\ Noted(x.worker, x.case, x.call) = Record(x)
         /\ odd = 0 => x.end = Corpus[x.case].calls[x.call].want /\ x.tidy
  BY <1>1 DEF Recorded, Seen, Done
<1>5. ASSUME NEW x \in did'
      PROVE  /\ x \in Done /\ x.call \in CallsOf(x.case)'
             /\ Seen(x.worker, x.case, x.call)'
             /\ Noted(x.worker, x.case, x.call)' = Record(x)'
             /\ odd' = 0 => x.end = Corpus[x.case].calls[x.call].want /\ x.tidy
  <2>1. CASE x = d
    BY <2>1, <1>1, <1>2, <1>3 DEF NotedAs, NotedRight
  <2>2. CASE x \in did
    <3>1. /\ Seen(x.worker, x.case, x.call)'
          /\ Noted(x.worker, x.case, x.call)' = Noted(x.worker, x.case, x.call)
      BY <2>2, <1>4 DEF NotedAs
    <3> QED
      BY <2>2, <3>1, <1>2, <1>3, <1>4
  <2> QED
    BY <2>1, <2>2, <1>1
<1>6. Recorded'
  BY <1>2, <1>5 DEF Recorded, Done
<1>7. Made'
  <2> SUFFICES ASSUME NEW w \in 1 .. Len(payloads) + 1, NEW c \in CaseIds, NEW i \in CallsOf(c),
                      Seen(w, c, i)'
               PROVE  \E x \in did' : x.worker = w /\ x.case = c /\ x.call = i
    BY <1>2 DEF Made
  <2>1. Seen(w, c, i) \/ (w = d.worker /\ c = d.case /\ i = d.call)
    BY DEF NotedAs
  <2> QED
    BY <2>1, <1>1 DEF Made
<1> QED
  BY <1>6, <1>7

LEMMA NoteKept ==
    ASSUME NEW e \in CallEnds, NEW tidy \in BOOLEAN, NEW recorded, GateInv, Note(e, tidy, recorded),
           recorded = IF gate = "module" THEN <<IF tidy THEN worker.call ELSE 0>> ELSE <<>>
    PROVE  GateInv'
<1>1. PICK d, o :
         /\ NotedRight(d, o) /\ d.end = e
         /\ IF worker.call + 1 \in CallsOf(worker.case) THEN NextCall(o) ELSE NextCase(o)
  BY NoteIsRight
<1>2. /\ stage = "run" /\ worker.case \in CaseIds
      /\ stage' = (IF e \in Harness THEN "broken" ELSE stage)
      /\ UNCHANGED <<gate, verdict, static, payloads, failures, artifact, unsaved, status>>
  BY DEF Note
<1>3. Shaped /\ Recorded /\ Made /\ GateTyped /\ Judged /\ GateIsHonest
  BY <1>2 DEF GateInv
<1>4. odd \in Nat /\ odd' \in Nat /\ odd' >= odd
  BY <1>1, <1>3 DEF NotedRight, GateTyped
<1>5. e \in Harness => odd' > 0
  <2>1. d.case \in CaseIds /\ d.call \in CallsOf(d.case)
    BY <1>1, <1>2, <1>3 DEF NotedRight, Shaped
  <2>2. Corpus[d.case].calls[d.call].want \in {"value", "other"} \cup Exceptions
    BY <2>1, CallsCounted, TheCorpus
  <2>3. Corpus[d.case].calls[d.call].want \notin Harness
    BY <2>2 DEF Harness, Exceptions
  <2> QED
    BY <1>1, <1>4, <2>3 DEF NotedRight
<1>6. GateTyped' /\ Reported' /\ GateIsHonest'
  BY <1>2, <1>3, <1>4, <1>5 DEF GateTyped, Reported, GateIsHonest, CaseIds
<1>7. Judged'
  BY <1>2, <1>3, <1>4 DEF Judged, CaseIds, Expected
<1>8. CASE e \in Harness
  BY <1>2, <1>6, <1>7, <1>8 DEF GateInv
<1>9. CASE e \notin Harness
  <2>1. UNCHANGED <<gate, payloads, stage>>
    BY <1>2, <1>9
  <2>2. Shaped' /\ NotedAs(d, o)
    <3>1. CASE worker.call + 1 \in CallsOf(worker.case)
      BY <3>1, <2>1, <1>1, <1>2, <1>3, NextCallNotes
    <3>2. CASE worker.call + 1 \notin CallsOf(worker.case)
      BY <3>2, <2>1, <1>1, <1>2, <1>3, NextCaseNotes
    <3> QED
      BY <3>1, <3>2
  <2>3. Recorded' /\ Made'
    BY <2>1, <2>2, <1>1, <1>2, <1>3, <1>4, NotedKept
  <2> QED
    BY <2>2, <2>3, <1>6, <1>7 DEF GateInv
<1> QED
  BY <1>8, <1>9

LEMMA RunsKept == GateInv /\ (RunExpression \/ RunFunction \/ RunModule) => GateInv'
<1> SUFFICES ASSUME GateInv, RunExpression \/ RunFunction \/ RunModule PROVE GateInv'
  OBVIOUS
<1>1. CASE RunExpression
  <2>1. PICK e \in CallEnds : gate = "expression" /\ Note(e, TRUE, <<>>)
    BY <1>1 DEF RunExpression
  <2> QED
    BY <2>1, NoteKept
<1>2. CASE RunFunction
  <2>1. PICK e \in CallEnds : gate = "function" /\ Note(e, TRUE, <<>>)
    BY <1>2 DEF RunFunction
  <2> QED
    BY <2>1, NoteKept
<1>3. CASE RunModule
  <2>1. PICK e \in CallEnds, tidy \in BOOLEAN :
           gate = "module" /\ Note(e, tidy, <<IF tidy THEN worker.call ELSE 0>>)
    BY <1>3 DEF RunModule
  <2> QED
    BY <2>1, NoteKept
<1> QED
  BY <1>1, <1>2, <1>3

LEMMA SequenceIsItsEntries ==
    ASSUME NEW S, NEW s \in Seq(S), NEW D, D = DOMAIN s
    PROVE  s = [i \in D |-> s[i]]
OBVIOUS

\* What a worker that is through with the corpus has noted.
LEMMA WorkerDone ==
    ASSUME GateInv, stage = "run", worker.case \notin CaseIds
    PROVE  /\ Len(Corpus) \in Nat \ {0} /\ CaseIds = 1 .. Len(Corpus) /\ Len(payloads) \in Nat
           /\ worker.case = Len(Corpus) + 1
           /\ worker.results \in Seq(Seq(Outcomes)) /\ Len(worker.results) = Len(Corpus)
           /\ worker.results = [c \in CaseIds |-> worker.results[c]]
           /\ \A c \in CaseIds : DOMAIN worker.results[c] = CallsOf(c)
           /\ \A w \in 1 .. Len(payloads), c \in CaseIds : \A i \in CallsOf(c) :
                 Noted(w, c, i) = payloads[w][c][i]
           /\ \A c \in CaseIds : \A i \in CallsOf(c) :
                 /\ Seen(Len(payloads) + 1, c, i)
                 /\ Noted(Len(payloads) + 1, c, i) = worker.results[c][i]
<1>1. Shaped
  BY DEF GateInv
<1>2. Len(Corpus) \in Nat \ {0} /\ CaseIds = 1 .. Len(Corpus) /\ Len(payloads) \in Nat
  BY <1>1, TheCorpus DEF Shaped
<1>3. worker.case \in 1 .. Len(Corpus) + 1 /\ worker.results \in Seq(Seq(Outcomes))
  BY <1>1 DEF Shaped, Places
<1>4. worker.case = Len(Corpus) + 1
  BY <1>2, <1>3
<1>5. Len(worker.results) = Len(Corpus) /\ \A c \in CaseIds : DOMAIN worker.results[c] = CallsOf(c)
  BY <1>1, <1>2, <1>4 DEF Shaped
<1>6. worker.results = [c \in CaseIds |-> worker.results[c]]
  <2>1. CaseIds = DOMAIN worker.results
    BY <1>2, <1>3, <1>5
  <2> QED
    BY <2>1, <1>3, SequenceIsItsEntries
<1>7. \A w \in 1 .. Len(payloads), c \in CaseIds : \A i \in CallsOf(c) :
         Noted(w, c, i) = payloads[w][c][i]
  BY <1>2 DEF Noted
<1>8. \A c \in CaseIds : \A i \in CallsOf(c) :
                 /\ Seen(Len(payloads) + 1, c, i)
                 /\ Noted(Len(payloads) + 1, c, i) = worker.results[c][i]
  <2> SUFFICES ASSUME NEW c \in CaseIds, NEW i \in CallsOf(c)
               PROVE  /\ Seen(Len(payloads) + 1, c, i)
                      /\ Noted(Len(payloads) + 1, c, i) = worker.results[c][i]
    OBVIOUS
  <2>1. c < worker.case /\ ~ (Len(payloads) + 1 <= Len(payloads))
    BY <1>2, <1>4
  <2> QED
    BY <2>1 DEF Seen, Noted
<1> QED
  BY <1>2, <1>3, <1>4, <1>5, <1>6, <1>7, <1>8

\* Without a departure the second worker notes what the first did.
LEMMA WorkersAgree ==
    ASSUME GateInv, stage = "run", worker.case \notin CaseIds, odd = 0, payloads # <<>>
    PROVE  payloads[1] = worker.results
<1>1. Shaped /\ Recorded /\ Made
  BY DEF GateInv
<1>2. /\ Len(Corpus) \in Nat \ {0} /\ CaseIds = 1 .. Len(Corpus) /\ Len(payloads) \in Nat
      /\ worker.results \in Seq(Seq(Outcomes)) /\ Len(worker.results) = Len(Corpus)
      /\ \A c \in CaseIds : DOMAIN worker.results[c] = CallsOf(c)
      /\ \A w \in 1 .. Len(payloads), c \in CaseIds : \A i \in CallsOf(c) :
            Noted(w, c, i) = payloads[w][c][i]
      /\ \A c \in CaseIds : \A i \in CallsOf(c) :
            /\ Seen(Len(payloads) + 1, c, i)
            /\ Noted(Len(payloads) + 1, c, i) = worker.results[c][i]
  BY WorkerDone
<1>3. 1 \in 1 .. Len(payloads) /\ Len(payloads) + 1 \in 1 .. Len(payloads) + 1
  BY <1>1, <1>2 DEF Shaped
<1>4. payloads[1] \in Seq(Seq(Outcomes))
  BY <1>1, <1>3 DEF Shaped
<1>5. /\ Len(payloads[1]) = Len(Corpus)
      /\ \A c \in CaseIds : DOMAIN payloads[1][c] = CallsOf(c)
  BY <1>1, <1>3 DEF Shaped
<1> DEFINE Due(c, i) ==
      [index |-> i, end |-> Corpus[c].calls[i].want, events |-> IF gate = "module" THEN <<i>> ELSE <<>>]
<1>6. ASSUME NEW w \in 1 .. Len(payloads) + 1, NEW c \in CaseIds, NEW i \in CallsOf(c), Seen(w, c, i)
      PROVE  Noted(w, c, i) = Due(c, i)
  <2>1. PICK d \in did : d.worker = w /\ d.case = c /\ d.call = i
    BY <1>1, <1>6 DEF Made
  <2>2. Noted(w, c, i) = Record(d) /\ d.end = Corpus[c].calls[i].want /\ d.tidy
    BY <1>1, <2>1 DEF Recorded
  <2> QED
    BY <2>1, <2>2 DEF Record
<1>7. ASSUME NEW c \in CaseIds PROVE payloads[1][c] = worker.results[c]
  <2>1. payloads[1][c] \in Seq(Outcomes) /\ worker.results[c] \in Seq(Outcomes)
    BY <1>2, <1>4, <1>5
  <2>2. ASSUME NEW i \in CallsOf(c) PROVE payloads[1][c][i] = worker.results[c][i]
    <3>1. Seen(1, c, i)
      BY <1>3 DEF Seen
    <3>2. payloads[1][c][i] = Due(c, i)
      BY <1>2, <1>3, <1>6, <3>1
    <3>3. worker.results[c][i] = Due(c, i)
      <4>1. Seen(Len(payloads) + 1, c, i) /\ Noted(Len(payloads) + 1, c, i) = worker.results[c][i]
        BY <1>2
      <4> HIDE DEF Due
      <4> QED
        BY <4>1, <1>3, <1>6
    <3> QED
      BY <3>2, <3>3
  <2>3. DOMAIN payloads[1][c] = CallsOf(c) /\ DOMAIN worker.results[c] = CallsOf(c)
    BY <1>2, <1>5
  <2>4. /\ payloads[1][c] = [i \in CallsOf(c) |-> payloads[1][c][i]]
        /\ worker.results[c] = [i \in CallsOf(c) |-> worker.results[c][i]]
    BY <2>1, <2>3
  <2> QED
    BY <2>2, <2>4
<1>8. DOMAIN payloads[1] = CaseIds /\ DOMAIN worker.results = CaseIds
  BY <1>2, <1>4, <1>5
<1>9. /\ payloads[1] = [c \in CaseIds |-> payloads[1][c]]
      /\ worker.results = [c \in CaseIds |-> worker.results[c]]
  BY <1>2, <1>4, <1>8, SequenceIsItsEntries
<1> QED
  BY <1>7, <1>9

\* A worker's results are taken over as they are.
LEMMA TakenOver ==
    ASSUME GateInv, stage = "run", worker.case \notin CaseIds, worker' = Fresh,
           payloads' = Append(payloads, worker.results), stage' \in {"run", "compare"},
           payloads = <<>> \/ payloads[1] = worker.results, UNCHANGED <<gate, did>>, odd' = odd
    PROVE  Shaped' /\ Recorded' /\ Made'
<1>1. Shaped /\ Recorded /\ Made
  BY DEF GateInv
<1>2. /\ Len(Corpus) \in Nat \ {0} /\ CaseIds = 1 .. Len(Corpus) /\ Len(payloads) \in Nat
      /\ worker.results \in Seq(Seq(Outcomes)) /\ Len(worker.results) = Len(Corpus)
      /\ \A c \in CaseIds : DOMAIN worker.results[c] = CallsOf(c)
      /\ \A w \in 1 .. Len(payloads), c \in CaseIds : \A i \in CallsOf(c) :
            Noted(w, c, i) = payloads[w][c][i]
      /\ \A c \in CaseIds : \A i \in CallsOf(c) :
            /\ Seen(Len(payloads) + 1, c, i)
            /\ Noted(Len(payloads) + 1, c, i) = worker.results[c][i]
  BY WorkerDone
<1>3. payloads \in Seq(Seq(Seq(Outcomes)))
  BY <1>1 DEF Shaped
<1> DEFINE more == Append(payloads, worker.results)
<1>4. /\ more \in Seq(Seq(Seq(Outcomes))) /\ Len(more) = Len(payloads) + 1
      /\ more[Len(payloads) + 1] = worker.results
      /\ \A w \in 1 .. Len(payloads) : more[w] = payloads[w]
  <2> DEFINE it == worker.results
             Results == Seq(Seq(Outcomes))
  <2>1. it \in Results /\ payloads \in Seq(Results)
    BY <1>2, <1>3
  <2> HIDE DEF it, Results
  <2>2. /\ Append(payloads, it) \in Seq(Results) /\ Len(Append(payloads, it)) = Len(payloads) + 1
        /\ Append(payloads, it)[Len(payloads) + 1] = it
        /\ \A w \in 1 .. Len(payloads) : Append(payloads, it)[w] = payloads[w]
    BY <2>1
  <2> QED
    BY <2>2 DEF it, Results
<1>5. payloads' = more
  OBVIOUS
<1> HIDE DEF more
<1>6. more[1] = worker.results
  <2>1. CASE payloads = <<>>
    BY <2>1, <1>4
  <2>2. CASE payloads # <<>> /\ payloads[1] = worker.results
    <3>1. 1 \in 1 .. Len(payloads)
      BY <2>2, <1>3
    <3> QED
      BY <2>2, <3>1, <1>4
  <2> QED
    BY <2>1, <2>2
<1>7. ASSUME NEW w \in 1 .. Len(more)
      PROVE  /\ Len(more[w]) = Len(Corpus) /\ more[w] = more[1]
             /\ \A c \in CaseIds : DOMAIN more[w][c] = CallsOf(c)
  <2>1. CASE w = Len(payloads) + 1
    BY <2>1, <1>2, <1>4, <1>6
  <2>2. CASE w \in 1 .. Len(payloads)
    <3>1. payloads # <<>> /\ payloads[w] = payloads[1]
      BY <2>2, <1>1 DEF Shaped
    <3> QED
      BY <2>2, <3>1, <1>2, <1>4, <1>6
  <2> QED
    BY <2>1, <2>2, <1>2, <1>4
<1>8. /\ CaseIds' = CaseIds /\ \A c : CallsOf(c)' = CallsOf(c) /\ \A x : Record(x)' = Record(x)
  BY DEF CaseIds, CallsOf, Record
<1>9. Shaped'
  <2>1. 1 \in CaseIds /\ 1 \in CallsOf(1)
    BY <1>2, CallsCounted
  <2>2. worker' \in Places /\ worker'.case = 1 /\ worker'.call = 1 /\ worker'.results = <<>> /\ worker'.outcomes = <<>>
    BY <1>2 DEF Fresh, Places
  <2>3. \A w \in 1 .. Len(more) :
          /\ Len(more[w]) = Len(Corpus) /\ more[w] = more[1]
          /\ \A c \in CaseIds : DOMAIN more[w][c] = CallsOf(c)'
    BY <1>7, <1>8
  <2>4. more # <<>>
    BY <1>2, <1>4
  <2>5. (worker.case \in CaseIds => worker.call \in CallsOf(worker.case))'
    BY <1>8, <2>1, <2>2
  <2>6. Fresh' = Fresh
    BY DEF Fresh
  <2> QED
    BY <1>4, <1>5, <1>8, <2>2, <2>3, <2>4, <2>5, <2>6 DEF Shaped, Places
<1>10. ASSUME NEW w \in 1 .. Len(payloads) + 1, NEW c \in CaseIds, NEW i \in CallsOf(c)
       PROVE  /\ Seen(w, c, i)'
              /\ Noted(w, c, i)' = Noted(w, c, i)
  <2>1. w \in 1 .. Len(more) /\ w <= Len(more)
    BY <1>2, <1>4
  <2>2. Seen(w, c, i)' /\ Noted(w, c, i)' = more[w][c][i]
    BY <2>1, <1>5 DEF Seen, Noted
  <2>3. Noted(w, c, i) = more[w][c][i]
    <3>1. CASE w = Len(payloads) + 1
      BY <3>1, <1>2, <1>4
    <3>2. CASE w \in 1 .. Len(payloads)
      <4>1. Noted(w, c, i) = payloads[w][c][i]
        BY <3>2, <1>2
      <4>2. more[w] = payloads[w]
        BY <3>2, <1>4
      <4> QED
        BY <4>1, <4>2
    <3> QED
      BY <3>1, <3>2, <1>2
  <2> QED
    BY <2>2, <2>3
<1>11. \A x \in did : x.worker \in 1 .. Len(payloads) + 1 /\ x.case \in CaseIds /\ x.call \in CallsOf(x.case)
  <2> SUFFICES ASSUME NEW x \in did
               PROVE  x.worker \in 1 .. Len(payloads) + 1 /\ x.case \in CaseIds /\ x.call \in CallsOf(x.case)
    OBVIOUS
  <2>1. x \in Done /\ x.call \in CallsOf(x.case) /\ Seen(x.worker, x.case, x.call)
    BY <1>1 DEF Recorded
  <2>2. x.worker \in 1 .. Len(payloads) \/ x.worker = Len(payloads) + 1
    BY <2>1 DEF Seen
  <2> QED
    BY <2>1, <2>2, <1>2 DEF Done
<1>12. Recorded'
  <2>1. \A x \in did : /\ x.call \in CallsOf(x.case)'
                       /\ Seen(x.worker, x.case, x.call)'
                       /\ Noted(x.worker, x.case, x.call)' = Record(x)'
    BY <1>1, <1>8, <1>10, <1>11 DEF Recorded
  <2>2. \A x \in did : odd' = 0 => x.end = Corpus[x.case].calls[x.call].want /\ x.tidy
    BY <1>1 DEF Recorded
  <2>3. did' = did /\ did \subseteq Done /\ Done' = Done
    BY <1>1, <1>8 DEF Recorded, Done
  <2> QED
    BY <2>1, <2>2, <2>3 DEF Recorded
<1>13. Made'
  <2> SUFFICES ASSUME NEW w \in 1 .. Len(more) + 1, NEW c \in CaseIds, NEW i \in CallsOf(c), Seen(w, c, i)'
               PROVE  \E x \in did : x.worker = w /\ x.case = c /\ x.call = i
    BY <1>5, <1>8 DEF Made
  <2>1. c \in Nat \ {0} /\ i \in Nat \ {0}
    BY <1>2, CallsCounted
  <2>2. w \in 1 .. Len(payloads) + 1
    BY <2>1, <1>2, <1>4, <1>5 DEF Seen, Fresh
  <2>3. Seen(w, c, i)
    <3>1. CASE w \in 1 .. Len(payloads)
      BY <3>1 DEF Seen
    <3>2. CASE w = Len(payloads) + 1
      BY <3>2, <1>2
    <3> QED
      BY <3>1, <3>2, <2>2, <1>2
  <2> QED
    BY <1>1, <2>2, <2>3 DEF Made
<1> QED
  BY <1>9, <1>12, <1>13

LEMMA ReceivedKept == GateInv /\ Received => GateInv'
<1> SUFFICES ASSUME GateInv, Received PROVE GateInv'
  OBVIOUS
<1>1. PICK order \in Orders :
         /\ Depart(Counted(order # InOrder))
         /\ payloads' = Append(payloads, [i \in DOMAIN order |-> worker.results[order[i]]])
         /\ stage' = IF \/ ~ ReadResults(order)
                        \/ payloads # <<>> /\ payloads[1] # [i \in DOMAIN order |-> worker.results[order[i]]]
                     THEN "broken"
                     ELSE IF gate = "module" /\ payloads = <<>> THEN "run" ELSE "compare"
  BY DEF Received
<1>2. /\ stage = "run" /\ worker.case \notin CaseIds /\ worker' = Fresh
      /\ UNCHANGED <<gate, verdict, did, static, failures, artifact, unsaved, status>>
  BY DEF Received
<1>3. odd \in Nat /\ odd' = odd + Counted(order # InOrder) /\ odd' \in Nat /\ odd' >= odd
  BY <1>1 DEF GateInv, GateTyped, Depart, Counted
<1>4. ReadResults(order) =>
         order = InOrder /\ [i \in DOMAIN order |-> worker.results[order[i]]] = worker.results
  BY <1>2, AcceptedInOrder, WorkerDone
<1>5. ReadResults(InOrder)
  BY DEF ReadResults, InOrder, CaseIds
<1>6. stage' = "broken" => odd' > 0
  <2>1. CASE ~ ReadResults(order)
    BY <2>1, <1>3, <1>5 DEF Counted
  <2>2. CASE ReadResults(order)
    BY <2>2, <1>1, <1>2, <1>3, <1>4, WorkersAgree
  <2> QED
    BY <2>1, <2>2
<1>7. GateTyped' /\ Reported' /\ GateIsHonest'
  BY <1>1, <1>2, <1>3, <1>6 DEF GateInv, GateTyped, Reported, GateIsHonest, CaseIds
<1>8. Judged'
  BY <1>2, <1>3 DEF GateInv, Judged, CaseIds, Expected
<1>9. CASE stage' = "broken"
  BY <1>7, <1>8, <1>9 DEF GateInv
<1>10. CASE stage' # "broken"
  <2>1. /\ payloads' = Append(payloads, worker.results) /\ stage' \in {"run", "compare"}
        /\ payloads = <<>> \/ payloads[1] = worker.results
        /\ odd' = odd
    BY <1>1, <1>3, <1>4, <1>10 DEF Counted
  <2>2. Shaped' /\ Recorded' /\ Made'
    BY <2>1, <1>2, TakenOver
  <2> QED
    BY <2>2, <1>7, <1>8 DEF GateInv
<1> QED
  BY <1>9, <1>10

\* What the parent compares is what happened, in the expression gate one call.
LEMMA AtTheComparison ==
    ASSUME GateInv, stage = "compare", NEW c \in CaseIds
    PROVE  /\ static[c] = verdict[c] /\ verdict[c] \in Judgements
           /\ odd = 0 => verdict[c] = Expected(c)
           /\ DOMAIN payloads[1][c] = CallsOf(c)
           /\ \A i \in CallsOf(c) : \E d \in did : d.case = c /\ d.call = i
           /\ \A d \in did : d.case = c =>
                 /\ d \in Done /\ d.call \in CallsOf(c)
                 /\ payloads[1][c][d.call] = Record(d)
                 /\ odd = 0 => d.end = Corpus[c].calls[d.call].want /\ d.tidy
<1>1. Shaped /\ Recorded /\ Made /\ Judged /\ payloads # <<>> /\ worker = Fresh
  BY DEF GateInv, Shaped
<1>2. Len(payloads) \in Nat /\ 1 \in 1 .. Len(payloads) /\ 1 \in 1 .. Len(payloads) + 1
  <2>1. payloads \in Seq(Seq(Seq(Outcomes)))
    BY <1>1 DEF Shaped
  <2> QED
    BY <1>1, <2>1
<1>3. /\ static[c] = verdict[c] /\ verdict[c] \in Judgements
      /\ odd = 0 => verdict[c] = Expected(c)
  BY <1>1 DEF Judged
<1>4. DOMAIN payloads[1][c] = CallsOf(c)
  BY <1>1, <1>2 DEF Shaped
<1>5. ASSUME NEW i \in CallsOf(c) PROVE \E d \in did : d.case = c /\ d.call = i
  <2>1. Seen(1, c, i)
    BY <1>2 DEF Seen
  <2> QED
    BY <2>1, <1>1, <1>2 DEF Made
<1>6. ASSUME NEW d \in did, d.case = c
      PROVE  /\ d \in Done /\ d.call \in CallsOf(c)
             /\ payloads[1][c][d.call] = Record(d)
             /\ odd = 0 => d.end = Corpus[c].calls[d.call].want /\ d.tidy
  <2>1. /\ d \in Done /\ d.call \in CallsOf(c) /\ Seen(d.worker, c, d.call)
        /\ Noted(d.worker, c, d.call) = Record(d)
        /\ odd = 0 => d.end = Corpus[c].calls[d.call].want /\ d.tidy
    BY <1>1, <1>6 DEF Recorded
  <2>2. c \in Nat \ {0} /\ d.call \in Nat \ {0}
    BY <2>1, TheCorpus DEF Done
  <2>3. d.worker \in 1 .. Len(payloads)
    BY <2>1, <2>2, <1>1 DEF Seen, Fresh
  <2>4. Noted(d.worker, c, d.call) = payloads[d.worker][c][d.call]
    BY <2>3, <1>2 DEF Noted
  <2>5. payloads[d.worker] = payloads[1]
    BY <2>3, <1>1 DEF Shaped
  <2> QED
    BY <2>1, <2>4, <2>5
<1> QED
  BY <1>3, <1>4, <1>5, <1>6

\* A case is bad.
Bad(c) ==
    CASE gate = "expression" -> BadExpression(c, static[c], payloads[1][c])
      [] gate = "function" -> BadFunction(c, static[c], payloads[1][c])
      [] gate = "module" -> BadModule(c, static[c], payloads[1][c])

LEMMA NoFalseError ==
    ASSUME GateInv, stage = "compare", NEW c \in CaseIds, odd = 0
    PROVE  ~ Bad(c)
<1>1. /\ gate \in Gates
      /\ static[c] = Expected(c)
      /\ DOMAIN payloads[1][c] = CallsOf(c)
      /\ \A i \in CallsOf(c) : \E d \in did : d.case = c /\ d.call = i
      /\ \A d \in did : d.case = c =>
            /\ d.call \in CallsOf(c) /\ payloads[1][c][d.call] = Record(d)
            /\ d.end = Corpus[c].calls[d.call].want /\ d.tidy
  BY AtTheComparison DEF GateInv, GateTyped
<1>2. /\ Corpus[c].codes \in SUBSET (Codes \ {"PP099"})
      /\ \A i \in DOMAIN Corpus[c].calls :
            Corpus[c].calls[i].want \in {"value", "other"} \cup Exceptions
  BY TheCorpus
<1>3. /\ static[c].ok = (Corpus[c].codes = {}) /\ static[c].codes = Corpus[c].codes
      /\ ~ BadVerdict(c, static[c])
  BY <1>1, <1>2 DEF Expected, BadVerdict
<1>4. ASSUME NEW i \in CallsOf(c)
      PROVE  /\ i \in DOMAIN Corpus[c].calls
             /\ payloads[1][c][i].index = i /\ payloads[1][c][i].end = Corpus[c].calls[i].want
             /\ gate = "module" => payloads[1][c][i].events = <<i>>
  <2>1. PICK d \in did : d.case = c /\ d.call = i
    BY <1>1
  <2>2. payloads[1][c][i] = Record(d) /\ d.end = Corpus[c].calls[i].want /\ d.tidy
    BY <1>1, <2>1
  <2> QED
    BY <2>1, <2>2, CallsCounted DEF Record
<1>5. CASE gate = "expression"
  <2>1. 1 \in CallsOf(c)
    BY <1>5, CallsCounted
  <2>2. Corpus[c].calls[1].want \in {"value", "other"} \cup Exceptions /\ payloads[1][c][1].end = Corpus[c].calls[1].want
    BY <2>1, <1>2, <1>4
  <2>3. ~ BadExpression(c, static[c], payloads[1][c])
    BY <2>2, <1>3 DEF BadExpression, Exceptions
  <2> QED
    BY <1>5, <2>3 DEF Bad
<1>6. CASE gate = "function"
  <2>1. CallsOf(c) = DOMAIN Corpus[c].calls
    BY <1>6, CallsCounted
  <2>2. ~ BadFunction(c, static[c], payloads[1][c])
    BY <2>1, <1>1, <1>2, <1>3, <1>4 DEF BadFunction, Exceptions
  <2> QED
    BY <1>6, <2>2 DEF Bad
<1>7. CASE gate = "module"
  <2>1. CallsOf(c) = DOMAIN Corpus[c].calls
    BY <1>7, CallsCounted
  <2>2. ~ BadModule(c, static[c], payloads[1][c])
    BY <1>7, <2>1, <1>1, <1>2, <1>3, <1>4 DEF BadModule, Exceptions
  <2> QED
    BY <1>7, <2>2 DEF Bad
<1> QED
  BY <1>1, <1>5, <1>6, <1>7 DEF Gates

LEMMA NoErrorMissed ==
    ASSUME GateInv, stage = "compare", NEW c \in CaseIds, ~ Bad(c)
    PROVE  Agrees(c)
<1>1. /\ gate \in Gates
      /\ static[c] = verdict[c] /\ verdict[c] \in Judgements
      /\ DOMAIN payloads[1][c] = CallsOf(c)
      /\ \A i \in CallsOf(c) : \E d \in did : d.case = c /\ d.call = i
      /\ \A d \in did : d.case = c =>
            /\ d \in Done /\ d.call \in CallsOf(c) /\ payloads[1][c][d.call] = Record(d)
  BY AtTheComparison DEF GateInv, GateTyped
<1> DEFINE Right(d) ==
      LET want == Corpus[c].calls[d.call]
      IN  /\ want.want \in Exceptions <=> d.end \in Exceptions
          /\ want.want \in Exceptions \/ want.checked => d.end = want.want
          /\ verdict[c].ok => d.end # "alien"
          /\ gate = "module" => d.tidy
<1>2. /\ ~ BadVerdict(c, verdict[c])
      /\ ~ verdict[c].ok /\ gate # "expression" => verdict[c].codes \cap Corpus[c].codes # {}
  <2>1. CASE gate = "expression"
    BY <2>1, <1>1 DEF Bad, BadExpression
  <2>2. CASE gate = "function"
    BY <2>2, <1>1 DEF Bad, BadFunction, BadVerdict, Judgements
  <2>3. CASE gate = "module"
    BY <2>3, <1>1 DEF Bad, BadModule, BadVerdict, Judgements
  <2> QED
    BY <2>1, <2>2, <2>3, <1>1 DEF Gates
<1>3. verdict[c].ok <=> Corpus[c].codes = {}
  BY <1>1, <1>2 DEF BadVerdict, Judgements
<1>4. ASSUME NEW d \in did, d.case = c, verdict[c].ok \/ gate # "expression" PROVE Right(d)
  <2>1. /\ d \in Done /\ d.call \in CallsOf(c) /\ d.call \in Nat \ {0}
        /\ d.call \in DOMAIN Corpus[c].calls
        /\ payloads[1][c][d.call] = Record(d)
    BY <1>1, <1>4, CallsCounted
  <2>2. /\ payloads[1][c][d.call].end = d.end
        /\ gate = "module" => payloads[1][c][d.call].events = <<IF d.tidy THEN d.call ELSE 0>>
    BY <2>1 DEF Record
  <2>3. Corpus[c].calls[d.call].want \in {"value", "other"} \cup Exceptions
    BY <2>1, TheCorpus
  <2>4. CASE gate = "expression"
    <3>1. d.call = 1 /\ Corpus[c].codes = {}
      BY <2>1, <2>4, <1>3, <1>4, CallsCounted
    <3>2. ~ BadExpression(c, static[c], payloads[1][c])
      BY <2>4 DEF Bad
    <3> QED
      BY <2>2, <2>3, <2>4, <3>1, <3>2 DEF BadExpression, Exceptions
  <2>5. CASE gate = "function"
    <3>1. ~ BadFunction(c, static[c], payloads[1][c])
      BY <2>5 DEF Bad
    <3>2. IF Corpus[c].calls[d.call].want \in Exceptions THEN d.end = Corpus[c].calls[d.call].want
          ELSE ~ (\/ d.end \in Exceptions
                  \/ static[c].ok /\ d.end = "alien"
                  \/ Corpus[c].calls[d.call].checked /\ d.end # Corpus[c].calls[d.call].want)
      BY <2>1, <2>2, <3>1 DEF BadFunction
    <3> QED
      BY <1>1, <2>3, <2>5, <3>2 DEF Exceptions
  <2>6. CASE gate = "module"
    <3>1. ~ BadModule(c, static[c], payloads[1][c])
      BY <2>6 DEF Bad
    <3>2. /\ payloads[1][c][d.call].events = <<d.call>>
          /\ ~ (static[c].ok /\ d.end = "alien") /\ d.end = Corpus[c].calls[d.call].want
      BY <2>1, <2>2, <3>1 DEF BadModule
    <3>3. d.tidy
      <4>1. <<IF d.tidy THEN d.call ELSE 0>>[1] = <<d.call>>[1]
        BY <2>2, <2>6, <3>2
      <4> QED
        BY <2>1, <4>1
    <3> QED
      BY <1>1, <2>6, <3>2, <3>3
  <2> QED
    BY <2>4, <2>5, <2>6, <1>1 DEF Gates
<1> HIDE DEF Right
<1>5. Agrees(c) <=>
        /\ verdict[c].ok <=> Corpus[c].codes = {}
        /\ ~ verdict[c].ok /\ gate # "expression" => verdict[c].codes \cap Corpus[c].codes # {}
        /\ verdict[c].ok \/ gate # "expression" =>
              /\ \A d \in did : d.case = c => Right(d)
              /\ \A i \in CallsOf(c) : \E d \in did : d.case = c /\ d.call = i
  BY DEF Agrees, Right
<1> QED
  BY <1>1, <1>2, <1>3, <1>4, <1>5

LEMMA CompareKept == GateInv /\ Compare => GateInv'
<1> SUFFICES ASSUME GateInv, Compare PROVE GateInv'
  OBVIOUS
<1>1. /\ stage = "compare" /\ stage' = "report" /\ failures' = {c \in CaseIds : Bad(c)}
      /\ UNCHANGED <<gate, odd, verdict, did, static, worker, payloads, artifact, unsaved, status>>
  BY DEF Compare, Bad
<1>2. failures' = {} => \A c \in CaseIds : Agrees(c)
  BY <1>1, NoErrorMissed
<1>3. odd = 0 => failures' = {}
  BY <1>1, NoFalseError
<1>4. \A c \in CaseIds : Agrees(c)' = Agrees(c)
  BY <1>1 DEF Agrees, CallsOf
<1>5. Reported'
  BY <1>1, <1>2, <1>3, <1>4 DEF Reported, CaseIds
<1>6. GateTyped' /\ Judged' /\ GateIsHonest'
  BY <1>1 DEF GateInv, GateTyped, Judged, GateIsHonest, CaseIds
<1> QED
  BY <1>1, <1>5, <1>6 DEF GateInv

LEMMA PassKept == ASSUME NEW g, GateInv, Pass(g) PROVE GateInv'
<1>1. /\ stage = "report" /\ failures = {} /\ stage' = "done" /\ status' = "0"
      /\ UNCHANGED <<gate, odd, verdict, did, static, worker, payloads, failures, artifact, unsaved>>
  BY DEF Pass, Exit
<1>2. \A c \in CaseIds : Agrees(c)
  BY <1>1 DEF GateInv, Reported
<1>3. \A c \in CaseIds : Agrees(c)' = Agrees(c)
  BY <1>1 DEF Agrees, CallsOf
<1> QED
  BY <1>1, <1>2, <1>3 DEF GateInv, GateTyped, Judged, Reported, GateIsHonest, CaseIds

LEMMA GateEndsKept == GateInv /\ (ExpressionEnds \/ FunctionEnds \/ ModuleEnds) => GateInv'
<1> SUFFICES ASSUME GateInv, ExpressionEnds \/ FunctionEnds \/ ModuleEnds PROVE GateInv'
  OBVIOUS
<1>1. CaseIds # {} /\ CaseIds' = CaseIds
  BY TheCorpus DEF CaseIds
<1>2. GateTyped /\ Reported
  BY DEF GateInv
<1>3. CASE \E g \in Gates : Pass(g)
  BY <1>3, PassKept
<1>4. CASE /\ gate = "expression" /\ (stage = "broken" \/ failures # {}) /\ stage \in {"report", "broken"}
           /\ IF stage = "report" THEN Save(failures) \/ SaveFails ELSE UNCHANGED <<odd, artifact, unsaved>>
           /\ Exit("1")
           /\ UNCHANGED <<gate, verdict, did, static, worker, payloads, failures>>
  <2>1. odd > 0 /\ odd' \in Nat /\ odd' >= odd
    BY <1>2, <1>4 DEF GateTyped, Reported, Save, SaveFails, Depart
  <2> QED
    BY <1>1, <1>2, <1>4, <2>1 DEF GateInv, GateTyped, Judged, Reported, GateIsHonest, Exit
<1>5. ASSUME NEW g \in {"function", "module"}, gate = g, stage = "report", failures # {},
             \/ Save(failures) /\ Exit("1")
             \/ SaveFails /\ stage' = "broken" /\ UNCHANGED status,
             UNCHANGED <<gate, verdict, did, static, worker, payloads, failures>>
      PROVE  GateInv'
  <2>1. odd > 0 /\ odd' \in Nat /\ odd' >= odd
    BY <1>2, <1>5 DEF GateTyped, Reported, Save, SaveFails, Depart
  <2> QED
    BY <1>1, <1>2, <1>5, <2>1 DEF GateInv, GateTyped, Judged, Reported, GateIsHonest, Exit, Save, SaveFails
<1>6. ASSUME NEW g \in {"function", "module"}, gate = g, stage = "broken",
             Save(CaseIds) \/ SaveFails, Exit("1"),
             UNCHANGED <<gate, verdict, did, static, worker, payloads, failures>>
      PROVE  GateInv'
  <2>1. odd > 0 /\ odd' \in Nat /\ odd' >= odd
    BY <1>2, <1>6 DEF GateTyped, Save, SaveFails, Depart
  <2> QED
    BY <1>1, <1>2, <1>6, <2>1 DEF GateInv, GateTyped, Judged, Reported, GateIsHonest, Exit, Save, SaveFails
<1>7. ASSUME NEW g \in {"function", "module"}, EvidenceEnds(g) PROVE GateInv'
  BY <1>3, <1>5, <1>6, <1>7 DEF EvidenceEnds, Gates
<1> QED
  BY <1>3, <1>4, <1>7 DEF ExpressionEnds, FunctionEnds, ModuleEnds, Gates

LEMMA GateKept == GateInv /\ [GateNext]_gateVars => GateInv'
<1> SUFFICES ASSUME GateInv, UNCHANGED gateVars PROVE GateInv'
  BY ProcessFailsKept, ProbeKept, RunsKept, ReceivedKept, CompareKept, GateEndsKept DEF GateNext, GateEnded
<1>1. /\ \A c : Agrees(c)' = Agrees(c) /\ CallsOf(c)' = CallsOf(c)
      /\ \A w, c, i : Seen(w, c, i)' = Seen(w, c, i) /\ Noted(w, c, i)' = Noted(w, c, i)
      /\ \A d : Record(d)' = Record(d)
      /\ CaseIds' = CaseIds
  BY DEF gateVars, Agrees, CallsOf, Seen, Noted, Record, CaseIds
<1>2. GateTyped' /\ Judged' /\ Reported' /\ GateIsHonest'
  BY <1>1 DEF GateInv, gateVars, GateTyped, Judged, Reported, GateIsHonest, Expected
<1>3. CASE stage \notin {"probe", "run", "compare"}
  BY <1>2, <1>3 DEF GateInv, gateVars
<1>4. CASE stage \in {"probe", "run", "compare"}
  <2>1. Shaped /\ Recorded /\ Made
    BY <1>4 DEF GateInv
  <2>2. Shaped'
    BY <1>1, <2>1 DEF Shaped, Places, gateVars, Fresh
  <2>3. Recorded' /\ Made'
    BY <1>1, <2>1 DEF Recorded, Made, Done, gateVars
  <2> QED
    BY <1>2, <2>2, <2>3 DEF GateInv
<1> QED
  BY <1>3, <1>4

\* A differential gate that passes has compared what the verifier and CPython
\* really did; it fails only if something departed from what is expected, and
\* then leaves the evidence unless the disk fails.  (main and compare_case of
\* the three gates, for every corpus.)
THEOREM GatesAreHonest == GateSpec => []GateIsHonest
<1>1. GateInv => GateIsHonest
  BY DEF GateInv
<1> QED
  BY GateInitially, GateKept, <1>1, PTL DEF GateSpec

----------------------------------------------------------------------------
(* The comparison of benchmarks (BenchmarkComparison).                       *)

CompareSpec == CompareInit /\ [][CompareNext]_compareVars

\* Reports are whole or invalid.
WholeOrInvalid ==
    /\ damaged = {} =>
          \E input, machine \in {"same", "other"}, older, newer \in [Sizes -> 0 .. MaxValue] :
              reports = [baseline |-> Whole("same", "same", older), candidate |-> Whole(machine, input, newer)]
    /\ "baseline" \in damaged => ~ Valid(reports.baseline)
    /\ "candidate" \in damaged => ~ Valid(reports.candidate)
    /\ damaged \subseteq {"baseline", "candidate"}
    /\ compared = "none" => code = -1

CompareInv == WholeOrInvalid /\ ComparisonIsFair

\* Identities of inputs, and how they differ.
Inputs(input, size) == <<input, size>>
Edits(input, size) == <<input, size, "edited">>
Altered(size) == <<"another edit", size>>

LEMMA Different ==
    ASSUME NEW input \in {"same", "other"}, NEW size
    PROVE  Edits(input, size) # Altered(size) /\ Edits(input, size) # Inputs(input, size)
<1>1. Edits(input, size)[1] = input /\ Altered(size)[1] = "another edit"
  BY DEF Edits, Altered
<1>2. Len(Edits(input, size)) = 3 /\ Len(Inputs(input, size)) = 2
  BY DEF Edits, Inputs
<1>3. Edits(input, size) # Altered(size)
  BY <1>1
<1>4. Edits(input, size) # Inputs(input, size)
  BY <1>2
<1> QED
  BY <1>3, <1>4

\* The entries of a whole report.
EntriesOf(input, value) == {Entry(input, size, jobs, value[size]) : size \in Sizes, jobs \in Jobs}

LEMMA WholeEntries ==
    ASSUME NEW input \in {"same", "other"}, NEW value \in [Sizes -> 0 .. MaxValue],
           NEW e \in EntriesOf(input, value)
    PROVE  /\ e.size \in Sizes /\ e.jobs \in Jobs
           /\ e = Entry(input, e.size, e.jobs, value[e.size])
           /\ e.input = Inputs(input, e.size) /\ e.edited = Edits(input, e.size)
           /\ \A phase \in Phases : e.median[phase] = value[e.size] /\ e.hits[phase] = Hits(phase)
           /\ \A phase \in Phases : e.samples[phase] = [i \in 1 .. Repetitions |-> value[e.size]]
<1>2. PICK size \in Sizes, jobs \in Jobs : e = Entry(input, size, jobs, value[size])
  BY DEF EntriesOf
<1>3. e.size = size /\ e.jobs = jobs
  BY <1>2 DEF Entry
<1>4. e = Entry(input, e.size, e.jobs, value[e.size])
  BY <1>2, <1>3
<1>5. e.input = Inputs(input, e.size) /\ e.edited = Edits(input, e.size)
  BY <1>2, <1>3 DEF Entry, Inputs, Edits
<1>6. ASSUME NEW phase \in Phases
      PROVE  /\ e.median[phase] = value[e.size] /\ e.hits[phase] = Hits(phase)
             /\ e.samples[phase] = [i \in 1 .. Repetitions |-> value[e.size]]
  BY <1>2, <1>3 DEF Entry
<1> QED
  BY <1>3, <1>4, <1>5, <1>6

LEMMA WholeMedians ==
    ASSUME NEW input \in {"same", "other"}, NEW value \in [Sizes -> 0 .. MaxValue],
           NEW phase \in Phases, NEW e \in EntriesOf(input, value)
    PROVE  e.size \in Sizes /\ e.median[phase] = value[e.size]
<1>1. PICK size \in Sizes, jobs \in Jobs : e = Entry(input, size, jobs, value[size])
  BY DEF EntriesOf
<1> QED
  BY <1>1 DEF Entry

LEMMA EntryOf ==
    ASSUME NEW input, NEW value, NEW size \in Sizes, NEW jobs \in Jobs
    PROVE  /\ Entry(input, size, jobs, value[size]) \in EntriesOf(input, value)
           /\ Entry(input, size, jobs, value[size]).size = size
           /\ Entry(input, size, jobs, value[size]).jobs = jobs
<1>2. Entry(input, size, jobs, value[size]) \in EntriesOf(input, value)
  BY DEF EntriesOf
<1> QED
  BY <1>2 DEF Entry

\* No odd entry is both consistent and edited like the entry it stands for.
LEMMA OddIsInconsistent ==
    ASSUME NEW input \in {"same", "other"}, NEW size, NEW jobs, NEW value \in 0 .. MaxValue,
           NEW o \in Odd(Entry(input, size, jobs, value))
    PROVE  /\ o.size = size /\ o.jobs = jobs
           /\ ~ Consistent(o) \/ o.edited = Altered(size)
<1> DEFINE e == Entry(input, size, jobs, value)
<1>1. /\ e.size = size /\ e.jobs = jobs /\ e.equivalent = TRUE
      /\ e.input = Inputs(input, size)
      /\ e.hits \in [Phases -> {0, 1, 2}] /\ e.hits["warm"] = 2 /\ e.hits["edited"] = 1
      /\ e.samples = [p \in Phases |-> [i \in 1 .. Repetitions |-> value]]
      /\ e.median = [p \in Phases |-> value]
  BY DEF Entry, Hits, SourceFiles, Phases, Inputs
<1>2. e = [size |-> size, jobs |-> jobs, input |-> e.input, edited |-> e.edited,
           equivalent |-> e.equivalent, hits |-> e.hits, samples |-> e.samples, median |-> e.median]
  BY DEF Entry
<1>3. "cold" \in Phases /\ "warm" \in Phases /\ "edited" \in Phases
  BY DEF Phases
<1>4. o \in Odd(e)
  OBVIOUS
<1> HIDE DEF e
<1>5. value \in Int /\ Repetitions \in Nat \ {0}
  BY CompareAssumption
<1>6. CASE o = [e EXCEPT !.equivalent = FALSE]
  BY <1>2, <1>6 DEF Consistent
<1>7. CASE o = [e EXCEPT !.edited = e.input]
  BY <1>2, <1>7 DEF Consistent
<1>8. CASE o = [e EXCEPT !.hits["warm"] = 0]
  <2>1. o.size = size /\ o.jobs = jobs /\ o.hits["warm"] = 0
    BY <1>1, <1>2, <1>3, <1>8
  <2>2. Hits("warm") = 2 /\ SourceFiles = 2
    BY DEF Hits, SourceFiles
  <2>3. Consistent(o) => o.hits["warm"] = Hits("warm")
    BY <1>3 DEF Consistent
  <2> QED
    BY <2>1, <2>2, <2>3
<1>9. CASE o = [e EXCEPT !.hits["edited"] = SourceFiles]
  <2>1. o.size = size /\ o.jobs = jobs /\ o.hits["edited"] = SourceFiles
    BY <1>1, <1>2, <1>3, <1>9
  <2>2. Hits("edited") = 1 /\ SourceFiles = 2
    BY DEF Hits, SourceFiles
  <2>3. Consistent(o) => o.hits["edited"] = Hits("edited")
    BY <1>3 DEF Consistent
  <2> QED
    BY <2>1, <2>2, <2>3
<1>10. CASE o = [e EXCEPT !.samples["cold"] = <<>>]
  <2>1. o.size = size /\ o.jobs = jobs /\ o.samples["cold"] = <<>>
    BY <1>1, <1>2, <1>3, <1>10
  <2> QED
    BY <2>1, <1>3, <1>5 DEF Consistent
<1>11. CASE o = [e EXCEPT !.median["cold"] = @ + 1]
  <2>0. e.median["cold"] = value /\ e.samples["cold"] = [i \in 1 .. Repetitions |-> value]
    BY <1>1, <1>3
  <2>1. o.size = size /\ o.jobs = jobs /\ o.median["cold"] = value + 1 /\ o.samples["cold"] = e.samples["cold"]
    BY <1>1, <1>2, <1>3, <1>11, <2>0
  <2>2. 1 \in DOMAIN o.samples["cold"] /\ o.samples["cold"][1] = value
    BY <2>0, <2>1, <1>5
  <2>3. Consistent(o) => o.samples["cold"][1] = o.median["cold"]
    BY <2>2, <1>3 DEF Consistent
  <2> QED
    BY <2>1, <2>2, <2>3, <1>5
<1>12. CASE o = [e EXCEPT !.edited = <<"another edit", e.size>>]
  <2>1. o.size = size /\ o.jobs = jobs /\ o.edited = <<"another edit", size>>
    BY <1>1, <1>2, <1>12
  <2> QED
    BY <2>1 DEF Altered
<1> QED
  BY <1>4, <1>6, <1>7, <1>8, <1>9, <1>10, <1>11, <1>12 DEF Odd

LEMMA OddInReport ==
    ASSUME NEW input \in {"same", "other"}, NEW value \in [Sizes -> 0 .. MaxValue],
           NEW entry \in EntriesOf(input, value)
    PROVE  /\ entry.size \in Sizes /\ entry.jobs \in Jobs
           /\ entry = Entry(input, entry.size, entry.jobs, value[entry.size])
           /\ \A o \in Odd(entry) :
                 /\ o.size = entry.size /\ o.jobs = entry.jobs
                 /\ ~ Consistent(o) \/ o.edited = Altered(entry.size)
<1>1. /\ entry.size \in Sizes /\ entry.jobs \in Jobs
      /\ entry = Entry(input, entry.size, entry.jobs, value[entry.size])
  BY WholeEntries
<1>2. value[entry.size] \in 0 .. MaxValue
  BY <1>1
<1> DEFINE v == value[entry.size]
           size == entry.size
           jobs == entry.jobs
<1>3. v \in 0 .. MaxValue /\ Odd(entry) = Odd(Entry(input, size, jobs, v))
  BY <1>1, <1>2
<1> HIDE DEF v, size, jobs
<1>4. ASSUME NEW o \in Odd(Entry(input, size, jobs, v))
      PROVE  /\ o.size = size /\ o.jobs = jobs
             /\ ~ Consistent(o) \/ o.edited = Altered(size)
  BY <1>3, <1>4, OddIsInconsistent
<1> QED
  BY <1>1, <1>3, <1>4 DEF size, jobs

\* A report with an entry missing, odd or beside an odd one is not valid, if
\* more than one worker count was measured.
LEMMA SpoiledIsInvalid ==
    ASSUME NEW j1 \in Jobs, NEW j2 \in Jobs, j1 # j2,
           NEW input \in {"same", "other"}, NEW value \in [Sizes -> 0 .. MaxValue],
           NEW entry \in EntriesOf(input, value),
           NEW there \in {{}, {entry}}, NEW odd1 \in {{}} \cup {{o} : o \in Odd(entry)},
           there \cup odd1 # {entry},
           NEW rep,
           rep.entries = (EntriesOf(input, value) \ {entry}) \cup there \cup odd1
    PROVE  ~ Valid(rep)
<1> DEFINE E == EntriesOf(input, value)
<1>1. /\ entry.size \in Sizes /\ entry.jobs \in Jobs
      /\ entry = Entry(input, entry.size, entry.jobs, value[entry.size])
  BY OddInReport
<1>3. \A o \in Odd(entry) :
         /\ o.size = entry.size /\ o.jobs = entry.jobs
         /\ ~ Consistent(o) \/ o.edited = Altered(entry.size)
  BY OddInReport
<1>4. ASSUME NEW e \in E, e # entry PROVE Point(e) # Point(entry)
  <2>1. e = Entry(input, e.size, e.jobs, value[e.size])
    BY OddInReport
  <2>2. e.size # entry.size \/ e.jobs # entry.jobs
    BY <1>1, <1>4, <2>1
  <2> QED
    BY <2>2 DEF Point
<1> HIDE DEF E
<1>5. rep.entries = (E \ {entry}) \cup there \cup odd1
  BY DEF E
<1>6. CASE there = {} /\ odd1 = {}
  <2>1. Point(entry) \in Sizes \X Jobs
    BY <1>1 DEF Point
  <2>2. Point(entry) \notin {Point(e) : e \in rep.entries}
    BY <1>4, <1>5, <1>6
  <2> QED
    BY <2>1, <2>2 DEF Valid
<1>7. CASE \E o \in Odd(entry) : there = {} /\ odd1 = {o}
  <2>1. PICK o \in Odd(entry) : there = {} /\ odd1 = {o}
    BY <1>7
  <2>2. o \in rep.entries
    BY <1>5, <2>1
  <2>3. CASE ~ Consistent(o)
    BY <2>2, <2>3 DEF Valid
  <2>4. CASE o.edited = Altered(entry.size)
    <3>1. PICK j \in Jobs : j # entry.jobs
      OBVIOUS
    <3> DEFINE d == Entry(input, entry.size, j, value[entry.size])
    <3>2. d \in E /\ d.size = entry.size /\ d.jobs = j
      BY <1>1, EntryOf DEF E
    <3>3. d.edited = Edits(input, entry.size)
      BY DEF Entry, Edits
    <3>4. d # entry
      BY <3>1, <3>2
    <3>5. d \in rep.entries
      BY <1>5, <3>2, <3>4
    <3>6. d.edited # o.edited
      BY <2>4, <3>3, Different
    <3>7. d.size = o.size
      BY <1>3, <3>2
    <3> QED
      BY <2>2, <3>5, <3>6, <3>7 DEF Valid
  <2> QED
    BY <1>3, <2>3, <2>4
<1>8. CASE \E o \in Odd(entry) : there = {entry} /\ odd1 = {o}
  <2>1. PICK o \in Odd(entry) : there = {entry} /\ odd1 = {o}
    BY <1>8
  <2>2. o # entry /\ o \in rep.entries /\ entry \in rep.entries
    BY <1>5, <2>1
  <2>3. Point(o) = Point(entry)
    BY <1>3 DEF Point
  <2> QED
    BY <2>2, <2>3 DEF Valid
<1> QED
  BY <1>6, <1>7, <1>8

LEMMA CompareInitially == CompareInit => CompareInv
<1> SUFFICES ASSUME CompareInit PROVE CompareInv
  OBVIOUS
<1>1. damaged = {} /\ compared = "none" /\ code = -1 /\ acceptance = "none"
  BY DEF CompareInit
<1>2. \E input, machine \in {"same", "other"}, older, newer \in [Sizes -> 0 .. MaxValue] :
         reports = [baseline |-> Whole("same", "same", older), candidate |-> Whole(machine, input, newer)]
  BY Zenon DEF CompareInit
<1>3. WholeOrInvalid
  BY <1>1, <1>2, Zenon DEF WholeOrInvalid
<1>4. ComparisonIsFair
  BY <1>1 DEF ComparisonIsFair
<1> QED
  BY <1>3, <1>4 DEF CompareInv

LEMMA SpoilKept ==
    ASSUME NEW j1 \in Jobs, NEW j2 \in Jobs, j1 # j2, CompareInv, Spoil
    PROVE  CompareInv'
<1>1. damaged = {} /\ compared = "none" /\ acceptance = "none" /\ code = -1
  BY DEF Spoil, CompareInv, WholeOrInvalid
<1>2. PICK input, machine \in {"same", "other"}, older, newer \in [Sizes -> 0 .. MaxValue] :
         reports = [baseline |-> Whole("same", "same", older), candidate |-> Whole(machine, input, newer)]
  BY <1>1 DEF CompareInv, WholeOrInvalid
<1>3. PICK side \in {"baseline", "candidate"} : \E entry \in reports[side].entries :
          \E there \in {{}, {entry}}, odd1 \in {{}} \cup {{o} : o \in Odd(entry)} :
             /\ there \cup odd1 # {entry}
             /\ damaged' = {side}
             /\ reports' = [reports EXCEPT ![side].entries = (@ \ {entry}) \cup there \cup odd1]
  BY DEF Spoil
<1>4. PICK entry \in reports[side].entries :
          \E there \in {{}, {entry}}, odd1 \in {{}} \cup {{o} : o \in Odd(entry)} :
             /\ there \cup odd1 # {entry}
             /\ damaged' = {side}
             /\ reports' = [reports EXCEPT ![side].entries = (@ \ {entry}) \cup there \cup odd1]
  BY <1>3
<1>5. PICK there \in {{}, {entry}}, odd1 \in {{}} \cup {{o} : o \in Odd(entry)} :
             /\ there \cup odd1 # {entry}
             /\ damaged' = {side}
             /\ reports' = [reports EXCEPT ![side].entries = (@ \ {entry}) \cup there \cup odd1]
  BY <1>4
<1>6. \E in \in {"same", "other"}, value \in [Sizes -> 0 .. MaxValue] :
         reports[side].entries = EntriesOf(in, value)
  <2>1. CASE side = "baseline"
    <3>1. reports[side].entries = EntriesOf("same", older)
      BY <1>2, <2>1 DEF Whole, EntriesOf
    <3> QED
      BY <3>1, <1>2
  <2>2. CASE side = "candidate"
    <3>1. reports[side].entries = EntriesOf(input, newer)
      BY <1>2, <2>2 DEF Whole, EntriesOf
    <3> QED
      BY <3>1, <1>2
  <2> QED
    BY <2>1, <2>2
<1>7. PICK in \in {"same", "other"}, value \in [Sizes -> 0 .. MaxValue] :
         reports[side].entries = EntriesOf(in, value)
  BY <1>6
<1>8. reports'[side].entries = (EntriesOf(in, value) \ {entry}) \cup there \cup odd1
  <2> DEFINE B == Whole("same", "same", older)
             C == Whole(machine, input, newer)
             new == (EntriesOf(in, value) \ {entry}) \cup there \cup odd1
  <2>0. /\ reports = [baseline |-> B, candidate |-> C]
        /\ B = [machine |-> B.machine, entries |-> B.entries]
        /\ C = [machine |-> C.machine, entries |-> C.entries]
        /\ reports' = [reports EXCEPT ![side].entries = (@ \ {entry}) \cup there \cup odd1]
    BY <1>2, <1>5 DEF Whole
  <2> HIDE DEF B, C, new
  <2>1. CASE side = "baseline"
    <3>1. B.entries = EntriesOf(in, value)
      BY <1>7, <2>0, <2>1
    <3>2. reports'.baseline = [B EXCEPT !.entries = new]
      BY <2>0, <2>1, <3>1 DEF new
    <3> QED
      BY <2>0, <2>1, <3>2 DEF new
  <2>2. CASE side = "candidate"
    <3>1. C.entries = EntriesOf(in, value)
      BY <1>7, <2>0, <2>2
    <3>2. reports'.candidate = [C EXCEPT !.entries = new]
      BY <2>0, <2>2, <3>1 DEF new
    <3> QED
      BY <2>0, <2>2, <3>2 DEF new
  <2> QED
    BY <2>1, <2>2
<1>9. ~ Valid(reports'[side])
  <2>1. entry \in EntriesOf(in, value)
    BY <1>7
  <2> QED
    BY <2>1, <1>5, <1>8, SpoiledIsInvalid
<1>10. damaged' = {side} /\ side \in {"baseline", "candidate"}
  BY <1>5
<1>11. UNCHANGED <<compared, code, acceptance>>
  BY DEF Spoil
<1>12. WholeOrInvalid'
  <2>1. "baseline" \in damaged' => ~ Valid(reports'.baseline)
    BY <1>9, <1>10
  <2>2. "candidate" \in damaged' => ~ Valid(reports'.candidate)
    BY <1>9, <1>10
  <2>3. Valid(reports.baseline)' = Valid(reports'.baseline) /\ Valid(reports.candidate)' = Valid(reports'.candidate)
    BY DEF Valid, Consistent, Point
  <2> QED
    BY <2>1, <2>2, <2>3, <1>1, <1>10, <1>11 DEF WholeOrInvalid
<1>13. ComparisonIsFair'
  BY <1>1, <1>11 DEF ComparisonIsFair
<1> QED
  BY <1>12, <1>13 DEF CompareInv

\* In whole reports every size has its value, and its pair.
LEMMA WholeValues ==
    ASSUME NEW input \in {"same", "other"}, NEW value \in [Sizes -> 0 .. MaxValue], NEW size \in Sizes,
           NEW side, reports[side].entries = EntriesOf(input, value)
    PROVE  Value(side, size) = value[size]
<1>1. PICK jobs \in Jobs : TRUE
  BY CompareAssumption
<1>2. \E e \in EntriesOf(input, value) : e.size = size
  BY EntryOf
<1> DEFINE it == CHOOSE e \in EntriesOf(input, value) : e.size = size
<1>3. it \in EntriesOf(input, value) /\ it.size = size
  BY <1>2
<1> HIDE DEF it
<1>4. "cold" \in Phases
  BY DEF Phases
<1>5. it.median["cold"] = value[size]
  BY <1>3, <1>4, WholeEntries
<1> QED
  BY <1>5 DEF Value, it

\* Of whole reports that are comparable a slower one is reported, and only a slower one.
LEMMA FailuresAreSlower ==
    ASSUME NEW first \in {"same", "other"}, NEW input \in {"same", "other"}, NEW older \in [Sizes -> 0 .. MaxValue],
           NEW newer \in [Sizes -> 0 .. MaxValue],
           reports.baseline.entries = EntriesOf(first, older),
           reports.candidate.entries = EntriesOf(input, newer), Comparable = Pairs
    PROVE  /\ Failures = {} => \A size \in Sizes : 2 * newer[size] <= 3 * older[size] + 2 * Noise
           /\ Failures # {} => \E size \in Sizes : newer[size] > older[size] + Noise
<1>1. /\ \A size \in Sizes : newer[size] \in Int /\ older[size] \in Int /\ older[size] >= 0
      /\ Noise = 1 /\ "cold" \in Phases
  BY CompareAssumption DEF Noise, Phases
<1>2. ASSUME NEW p \in Pairs, NEW phase \in Phases
      PROVE  /\ p[1].size \in Sizes /\ p[2].size = p[1].size
             /\ p[1].median[phase] = older[p[1].size] /\ p[2].median[phase] = newer[p[1].size]
  <2>1. p[1] \in EntriesOf(first, older) /\ p[2] \in EntriesOf(input, newer) /\ Point(p[1]) = Point(p[2])
    BY DEF Pairs
  <2>2. p[1].size \in Sizes /\ p[1].median[phase] = older[p[1].size]
    <3>1. \A e \in EntriesOf(first, older) : e.size \in Sizes /\ e.median[phase] = older[e.size]
      BY WholeMedians
    <3> QED
      BY <2>1, <3>1
  <2>3. p[2].size \in Sizes /\ p[2].median[phase] = newer[p[2].size]
    <3>1. \A e \in EntriesOf(input, newer) : e.size \in Sizes /\ e.median[phase] = newer[e.size]
      BY WholeMedians
    <3> QED
      BY <2>1, <3>1
  <2>4. p[1].size = p[2].size
    BY <2>1 DEF Point
  <2> QED
    BY <2>2, <2>3, <2>4
<1>3. ASSUME NEW size \in Sizes, Failures = {} PROVE 2 * newer[size] <= 3 * older[size] + 2 * Noise
  <2>1. PICK jobs \in Jobs : TRUE
    BY CompareAssumption
  <2> DEFINE e == Entry(first, size, jobs, older[size])
             d == Entry(input, size, jobs, newer[size])
  <2>2. e \in EntriesOf(first, older) /\ e.size = size /\ e.jobs = jobs
    BY EntryOf
  <2>3. d \in EntriesOf(input, newer) /\ d.size = size /\ d.jobs = jobs
    BY EntryOf
  <2> HIDE DEF e, d
  <2>4. <<e, d>> \in Pairs
    BY <2>2, <2>3 DEF Pairs, Point
  <2>5. <<<<e, d>>, "cold">> \in Comparable \X Phases
    BY <1>1, <2>4
  <2>6. ~ Slower(<<e, d>>, "cold")
    BY <1>3, <2>5 DEF Failures
  <2>7. e.median["cold"] = older[size] /\ d.median["cold"] = newer[size]
    BY <1>1, <1>2, <2>2, <2>4
  <2>8. ~ (2 * d.median["cold"] > 3 * e.median["cold"] + 2 * Noise)
    BY <2>6 DEF Slower
  <2> QED
    BY <1>1, <2>7, <2>8
<1>4. ASSUME Failures # {} PROVE \E size \in Sizes : newer[size] > older[size] + Noise
  <2>1. PICK f \in Comparable \X Phases :
           Slower(f[1], f[2]) \/ \E q \in Comparable : Steeper(q, f[1], f[2])
    BY <1>4 DEF Failures
  <2>2. f[1] \in Pairs /\ f[2] \in Phases
    BY <2>1
  <2> DEFINE size == f[1][1].size
  <2>3. /\ size \in Sizes
        /\ f[1][1].median[f[2]] = older[size] /\ f[1][2].median[f[2]] = newer[size]
    BY <1>2, <2>2
  <2>4. CASE Slower(f[1], f[2])
    <3>1. 2 * newer[size] > 3 * older[size] + 2 * Noise
      BY <2>3, <2>4 DEF Slower
    <3> HIDE DEF size
    <3> QED
      BY <1>1, <2>3, <3>1
  <2>5. CASE \E q \in Comparable : Steeper(q, f[1], f[2])
    <3>1. newer[size] > older[size] + Noise
      BY <2>3, <2>5 DEF Steeper
    <3> QED
      BY <2>3, <3>1
  <2> QED
    BY <2>1, <2>4, <2>5
<1> QED
  BY <1>3, <1>4

LEMMA CompareReportsKept == CompareInv /\ CompareReports => CompareInv'
<1> SUFFICES ASSUME CompareInv, CompareReports PROVE CompareInv'
  OBVIOUS
<1>1. UNCHANGED <<reports, damaged, acceptance>>
  BY DEF CompareReports
<1>2. PICK override \in BOOLEAN : compared' = Comparison(override)
  BY DEF CompareReports
<1>3. code' = CASE compared' = "passed" -> 0 [] compared' = "regressed" -> 1 [] OTHER -> 2
  BY DEF CompareReports
<1>4. compared' # "none"
  BY <1>2 DEF Comparison
<1>5. code' \in {0, 1} =>
         /\ Valid(reports.baseline) /\ Valid(reports.candidate) /\ Compatible
         /\ code' = IF Failures = {} THEN 0 ELSE 1
  <2>1. code' \in {0, 1} => compared' \in {"passed", "regressed"}
    BY <1>3
  <2>2. compared' \in {"passed", "regressed"} =>
          /\ Valid(reports.baseline) /\ Valid(reports.candidate) /\ Compatible
          /\ compared' = IF Failures = {} THEN "passed" ELSE "regressed"
    BY <1>2 DEF Comparison
  <2> QED
    BY <2>1, <2>2, <1>3
<1>6. /\ \A r : Valid(r)' = Valid(r)
      /\ Comparable' = Comparable /\ Pairs' = Pairs
      /\ \A side, size : Value(side, size)' = Value(side, size)
  BY <1>1 DEF Valid, Consistent, Point, Comparable, Pairs, SameInputs, Value
<1>7. WholeOrInvalid'
  BY <1>1, <1>4, <1>6 DEF CompareInv, WholeOrInvalid
<1>8. ASSUME code' \in {0, 1}
      PROVE  /\ damaged = {} /\ reports.candidate.machine = "same" /\ Comparable = Pairs
             /\ code' = 1 => \E size \in Sizes : Value("candidate", size) > Value("baseline", size) + Noise
             /\ code' = 0 => \A size \in Sizes : 2 * Value("candidate", size) <= 3 * Value("baseline", size) + 2 * Noise
  <2>1. damaged = {}
    BY <1>5, <1>8 DEF CompareInv, WholeOrInvalid
  <2>2. PICK input, machine \in {"same", "other"}, older, newer \in [Sizes -> 0 .. MaxValue] :
           reports = [baseline |-> Whole("same", "same", older), candidate |-> Whole(machine, input, newer)]
    BY <2>1 DEF CompareInv, WholeOrInvalid
  <2>3. /\ reports.baseline.machine = "same"
        /\ reports.baseline.entries = EntriesOf("same", older)
        /\ reports.candidate.entries = EntriesOf(input, newer)
    BY <2>2 DEF Whole, EntriesOf
  <2>4. reports.candidate.machine = "same" /\ Comparable = Pairs
    BY <1>5, <1>8, <2>3 DEF Compatible, Comparable
  <2>5. \A size \in Sizes : Value("baseline", size) = older[size]
    <3> SUFFICES ASSUME NEW size \in Sizes PROVE Value("baseline", size) = older[size]
      OBVIOUS
    <3>1. reports["baseline"].entries = EntriesOf("same", older)
      BY <2>3
    <3> QED
      BY <3>1, WholeValues
  <2>6. \A size \in Sizes : Value("candidate", size) = newer[size]
    <3> SUFFICES ASSUME NEW size \in Sizes PROVE Value("candidate", size) = newer[size]
      OBVIOUS
    <3>1. reports["candidate"].entries = EntriesOf(input, newer)
      BY <2>3
    <3> QED
      BY <3>1, WholeValues
  <2>7. /\ Failures = {} => \A size \in Sizes : 2 * newer[size] <= 3 * older[size] + 2 * Noise
        /\ Failures # {} => \E size \in Sizes : newer[size] > older[size] + Noise
    BY <2>3, <2>4, FailuresAreSlower
  <2>8. code' = IF Failures = {} THEN 0 ELSE 1
    BY <1>5, <1>8
  <2> QED
    BY <2>1, <2>4, <2>5, <2>6, <2>7, <2>8
<1>9. ComparisonIsFair'
  <2>1. acceptance' = "accepted" => "candidate" \notin damaged'
    BY <1>1 DEF CompareInv, ComparisonIsFair
  <2> QED
    BY <2>1, <1>1, <1>6, <1>8 DEF ComparisonIsFair, Noise
<1> QED
  BY <1>7, <1>9 DEF CompareInv

LEMMA AcceptKept == CompareInv /\ Accept => CompareInv'
<1> SUFFICES ASSUME CompareInv, Accept PROVE CompareInv'
  OBVIOUS
<1>1. UNCHANGED <<reports, damaged, compared, code>>
  BY DEF Accept
<1>2. /\ \A r : Valid(r)' = Valid(r)
      /\ Comparable' = Comparable /\ Pairs' = Pairs
      /\ \A side, size : Value(side, size)' = Value(side, size)
  BY <1>1 DEF Valid, Consistent, Point, Comparable, Pairs, SameInputs, Value
<1>3. WholeOrInvalid'
  BY <1>1, <1>2 DEF CompareInv, WholeOrInvalid
<1>4. acceptance' = "accepted" => "candidate" \notin damaged
  BY DEF Accept, CompareInv, WholeOrInvalid
<1>5. ComparisonIsFair'
  BY <1>1, <1>2, <1>4 DEF CompareInv, ComparisonIsFair, Noise
<1> QED
  BY <1>3, <1>5 DEF CompareInv

\* Where more than one worker count is measured, nothing passes the comparison
\* or the acceptance that a whole benchmark did not write; what passes is
\* nowhere slower by more than half, and what fails is slower somewhere.
\* (validate, compare and accept, for any sizes, worker counts and values.
\* With one worker count an altered identity of the edited input has nothing it
\* could contradict.)
THEOREM ComparisonsAreFair ==
    ASSUME \E j1, j2 \in Jobs : j1 # j2
    PROVE  CompareSpec => []ComparisonIsFair
<1>1. CompareInv /\ [CompareNext]_compareVars => CompareInv'
  <2> SUFFICES ASSUME CompareInv, [CompareNext]_compareVars PROVE CompareInv'
    OBVIOUS
  <2>1. CASE Spoil
    BY <2>1, SpoilKept
  <2>2. CASE CompareReports
    BY <2>2, CompareReportsKept
  <2>3. CASE Accept
    BY <2>3, AcceptKept
  <2>4. CASE UNCHANGED compareVars
    <3>1. UNCHANGED <<reports, damaged, compared, code, acceptance>>
      BY <2>4 DEF compareVars
    <3>2. /\ \A r : Valid(r)' = Valid(r)
          /\ Comparable' = Comparable /\ Pairs' = Pairs
          /\ \A side, size : Value(side, size)' = Value(side, size)
      BY <3>1 DEF Valid, Consistent, Point, Comparable, Pairs, SameInputs, Value
    <3> QED
      BY <3>1, <3>2 DEF CompareInv, WholeOrInvalid, ComparisonIsFair, Noise
  <2> QED
    BY <2>1, <2>2, <2>3, <2>4 DEF CompareNext
<1>2. CompareInv => ComparisonIsFair
  BY DEF CompareInv
<1> QED
  BY CompareInitially, <1>1, <1>2, PTL DEF CompareSpec


----------------------------------------------------------------------------
(* The benchmark's measures (BenchmarkMeasure).                              *)

MeasureSpec == MeasureInit /\ [][MeasureNext]_measureVars

Recordable == Outputs \cup {"none"}

MeasureTyped ==
    /\ step \in {"baseline", "uncached", "clear", "cold", "warm", "restored", "edit", "changed",
                 "fresh", "over"}
    /\ mutation \in {1, 2} /\ pass \in Nat /\ column \in Nat
    /\ mistakes \in Nat /\ mistakes <= MaxMistakes
    /\ wrong \in BOOLEAN /\ outcome \in {"none", "report", "raised"}
    /\ baseline \in Recordable /\ cached \in [output : Recordable, hits : Nat]
    /\ hashes \in [{1, 2} -> Recordable] /\ before \in [{1, 2} -> Recordable]

\* Where measure is, and how the project looks there.
Placed ==
    /\ outcome = "none" <=> step # "over"
    /\ content = IF step \in {"changed", "fresh"} THEN Mutations[mutation] ELSE "original"
    /\ step \in {"baseline", "uncached", "clear", "cold", "warm"} => mutation = 1
    /\ step = "restored" => mutation = 2
    /\ step # "over" => (step = "baseline" <=> baseline = "none")
    /\ step = "baseline" => pass = 0 /\ column = 0
    /\ step # "over" => pass < Repeats /\ column < Workers
    /\ outcome = "report" => pass = 0 /\ mutation = 1 /\ column = Workers

\* What the cache holds before each run that uses it.
Holding ==
    /\ step = "cold" => cache = {}
    /\ step = "warm" \/ (mutation = 1 /\ step \in {"edit", "changed"}) => cache = Keys("original")
    /\ (mutation = 1 /\ step = "fresh") \/ (mutation = 2 /\ step \in {"restored", "edit", "changed"}) =>
          cache = Keys("original") \cup Keys("declaration")

\* In how many repeats of this measure edit i was recorded.
Times(i) == IF mutation > i THEN pass + 1 ELSE pass

WrongAfter(output, i) == output \notin {"none", Mutations[i]}
WrongBaseline == baseline \notin {"none", "original"}
WrongNow(i) == step = "fresh" /\ mutation = i /\ cached.output # Mutations[i]

\* A wrong output that is recorded was given twice in every repeat up to now: as
\* the baseline by the runs of the project as it was, and after an edit by the
\* runs with and without the cache.
Spent(i) ==
    (IF WrongAfter(before[i], i) THEN 2 * (column * Repeats) ELSE 0)
    + (IF WrongAfter(hashes[i], i) THEN 2 * Times(i) ELSE 0)
    + (IF WrongNow(i) THEN 1 ELSE 0)
SpentOnBaseline ==
    2 * (column * Repeats) + 2 * pass
    + (CASE step \in {"uncached", "over"} -> 0 [] step \in {"clear", "cold"} -> 1 [] OTHER -> 2)

Charged ==
    outcome # "raised" =>
        /\ \A i \in {1, 2} : Spent(i) <= mistakes
        /\ WrongBaseline => SpentOnBaseline <= mistakes
        /\ \A i \in {1, 2} : hashes[i] = "none" <=> Times(i) = 0
        /\ \A i \in {1, 2} : before[i] = "none" <=> column = 0

\* What went wrong and counts has left a trace.
Traced ==
    wrong /\ outcome # "raised" =>
        \/ WrongBaseline
        \/ \E i \in {1, 2} : WrongAfter(before[i], i) \/ WrongAfter(hashes[i], i)
        \/ step = "fresh" /\ (cached.output # content \/ cached.hits # ExpectedHits)

MeasureInv == MeasureTyped /\ Placed /\ Holding /\ Charged /\ Traced

LEMMA TheMutations ==
    /\ Mutations[1] = "declaration" /\ Mutations[2] = "manifest" /\ Len(Mutations) = 2
    /\ NoHashes = [i \in {1, 2} |-> "none"]
<1>1. DOMAIN Mutations = {1, 2} /\ Len(Mutations) = 2
  BY DEF Mutations
<1> QED
  BY <1>1 DEF Mutations, NoHashes

\* The hits a run has when the verifier is right.
LEMMA RightHits ==
    /\ Cardinality(Keys("original") \cap {}) = 0
    /\ Cardinality(Keys("original") \cap Keys("original")) = Cardinality(Files)
    /\ Cardinality(Keys("declaration") \cap Keys("original")) = Cardinality(Files) - 1
    /\ Cardinality(Keys("manifest") \cap (Keys("original") \cup Keys("declaration"))) = 0
    /\ Cardinality(Files) \in Nat
<1>1. /\ \A f \in Files : Key(f, "original") = <<f, "plain">> /\ Key(f, "manifest") = <<f, "anew">>
      /\ Key(Edited, "declaration") = <<Edited, "edited">>
      /\ \A f \in Files \ {Edited} : Key(f, "declaration") = <<f, "plain">>
  BY DEF Key
<1> DEFINE Plain(S) == {<<f, "plain">> : f \in S}
<1>2. ASSUME NEW S \in SUBSET Files PROVE Cardinality(Plain(S)) = Cardinality(S)
  <2>1. IsFiniteSet(S)
    BY MeasureAssumption, FS_Subset
  <2> DEFINE b == [f \in S |-> <<f, "plain">>]
  <2>2. b \in Bijection(S, Plain(S))
    <3>1. b \in [S -> Plain(S)]
      OBVIOUS
    <3>2. \A f, g \in S : b[f] = b[g] => f = g
      OBVIOUS
    <3>3. \A k \in Plain(S) : \E f \in S : b[f] = k
      OBVIOUS
    <3> QED
      BY <3>1, <3>2, <3>3 DEF Bijection, Injection, Surjection, IsInjective
  <2>3. ExistsBijection(S, Plain(S))
    BY <2>2 DEF ExistsBijection
  <2> QED
    BY <2>1, <2>3, FS_Bijection
<1>3. Keys("original") \cap Keys("original") = Plain(Files)
  BY <1>1 DEF Keys
<1>4. Keys("declaration") \cap Keys("original") = Plain(Files \ {Edited})
  <2>1. Keys("original") = Plain(Files)
    BY <1>1 DEF Keys
  <2>2. Keys("declaration") = Plain(Files \ {Edited}) \cup {<<Edited, "edited">>}
    BY <1>1, MeasureAssumption DEF Keys
  <2>3. <<Edited, "edited">> \notin Plain(Files)
    OBVIOUS
  <2>4. Plain(Files \ {Edited}) \subseteq Plain(Files)
    OBVIOUS
  <2> QED
    BY ONLY <2>1, <2>2, <2>3, <2>4
<1>5. Keys("manifest") \cap (Keys("original") \cup Keys("declaration")) = {}
  <2>1. \A k \in Keys("manifest") : k[2] = "anew"
    BY <1>1 DEF Keys
  <2>2. \A k \in Keys("original") : k[2] = "plain"
    BY <1>1 DEF Keys
  <2>3. \A k \in Keys("declaration") : k[2] \in {"plain", "edited"}
    BY <1>1 DEF Keys
  <2> QED
    BY ONLY <2>1, <2>2, <2>3
<1>6. Cardinality({}) = 0
  BY FS_EmptySet
<1>7. Cardinality(Files) \in Nat /\ Cardinality(Files \ {Edited}) = Cardinality(Files) - 1
  BY MeasureAssumption, FS_CardinalityType, FS_RemoveElement
<1>8. Keys("original") \cap {} = {}
  OBVIOUS
<1>9. Cardinality(Plain(Files)) = Cardinality(Files)
      /\ Cardinality(Plain(Files \ {Edited})) = Cardinality(Files \ {Edited})
  BY <1>2
<1> QED
  BY ONLY <1>3, <1>4, <1>5, <1>6, <1>7, <1>8, <1>9

\* A wrong output costs a mistake; what counts as gone wrong is an output or a
\* count of hits that is not right.
LEMMA InvokeCosts ==
    ASSUME MeasureTyped, NEW noCache \in BOOLEAN, NEW output, NEW hits, Invoke(noCache, output, hits),
           NEW right, right = IF noCache THEN 0 ELSE Cardinality(Keys(content) \cap cache)
    PROVE  /\ mistakes' \in Nat /\ mistakes' <= MaxMistakes /\ wrong' \in BOOLEAN
           /\ mistakes <= mistakes'
           /\ output # content => mistakes' = mistakes + 1
           /\ wrong' => wrong \/ (step # "restored" /\ (output # content \/ hits # right))
<1> DEFINE mistaken == <<output, hits>> # <<content, right>>
<1>1. /\ mistaken => mistakes < MaxMistakes
      /\ mistakes' = mistakes + (IF mistaken THEN 1 ELSE 0)
      /\ wrong' = (wrong \/ (mistaken /\ step # "restored"))
  BY DEF Invoke
<1>2. mistaken <=> output # content \/ hits # right
  OBVIOUS
<1>3. mistakes \in Nat /\ MaxMistakes \in Nat /\ mistakes <= MaxMistakes /\ wrong \in BOOLEAN
  BY MeasureAssumption DEF MeasureTyped
<1> HIDE DEF mistaken
<1> QED
  BY ONLY <1>1, <1>2, <1>3

\* An error ends the benchmark, and nothing is reported.
LEMMA RaisedKept ==
    ASSUME MeasureInv, Raised, mistakes' \in Nat, mistakes' <= MaxMistakes, wrong' \in BOOLEAN
    PROVE  MeasureInv'
<1>1. MeasureTyped'
  BY DEF Raised, MeasureInv, MeasureTyped
<1>2. Placed' /\ Holding' /\ Charged' /\ Traced'
  BY DEF Raised, MeasureInv, Placed, Holding, Charged, Traced
<1> QED
  BY <1>1, <1>2 DEF MeasureInv

\* Runs of the project as it was record nothing of the edits.
LEMMA EditsAreKept ==
    ASSUME MeasureInv, step \notin {"fresh", "over"}, step' \notin {"fresh", "over"},
           UNCHANGED <<mutation, pass, column, hashes, before, outcome>>,
           mistakes' \in Nat, mistakes <= mistakes'
    PROVE  /\ \A i \in {1, 2} : Spent(i)' <= mistakes'
           /\ \A i \in {1, 2} : hashes'[i] = "none" <=> Times(i)' = 0
           /\ \A i \in {1, 2} : before'[i] = "none" <=> column' = 0
<1>1. outcome = "none" /\ mistakes \in Nat /\ Charged
  BY DEF MeasureInv, Placed, MeasureTyped
<1>2. \A i \in {1, 2} : Times(i)' = Times(i)
  BY DEF Times
<1>3. \A i \in {1, 2} : Spent(i)' = Spent(i)
  BY <1>2 DEF Spent, WrongAfter, WrongNow
<1>4. \A i \in {1, 2} : Spent(i) \in Int
  <2>1. \A i \in {1, 2} : Times(i) \in Nat
    BY DEF Times, MeasureInv, MeasureTyped
  <2>2. column * Repeats \in Nat
    BY MeasureAssumption DEF MeasureInv, MeasureTyped
  <2> QED
    BY <2>1, <2>2 DEF Spent
<1>5. \A i \in {1, 2} : Spent(i) <= mistakes
  BY <1>1 DEF Charged
<1>6. \A i \in {1, 2} : Spent(i)' <= mistakes'
  BY <1>1, <1>3, <1>4, <1>5
<1>7. \A i \in {1, 2} : (hashes[i] = "none" <=> Times(i) = 0) /\ (before[i] = "none" <=> column = 0)
  BY <1>1 DEF Charged
<1> QED
  BY <1>2, <1>6, <1>7

\* The same for what is recorded as gone wrong.
LEMMA TracesAreKept ==
    ASSUME MeasureInv, step \notin {"fresh", "over"}, step' \notin {"fresh", "over"},
           UNCHANGED <<hashes, before, outcome>>, baseline \in {"none", baseline'},
           wrong' => wrong \/ WrongBaseline'
    PROVE  Traced'
<1>1. outcome = "none" /\ Traced
  BY DEF MeasureInv, Placed
<1>2. WrongBaseline => WrongBaseline'
  BY DEF WrongBaseline
<1> QED
  BY <1>1, <1>2 DEF Traced, WrongAfter

LEMMA BaselineKept == MeasureInv /\ Baseline => MeasureInv'
<1> SUFFICES ASSUME MeasureInv, Baseline PROVE MeasureInv'
  OBVIOUS
<1>t. MeasureTyped /\ Placed
  BY DEF MeasureInv
<1>1. PICK output \in Outputs, hits \in HitCounts :
          /\ Invoke(TRUE, output, hits)
          /\ IF hits = 0 /\ output \in Accepting
             THEN /\ baseline' = output /\ step' = "uncached"
                  /\ UNCHANGED <<content, cache, mutation, pass, column, cached, hashes, before, outcome>>
             ELSE Raised
  BY DEF Baseline
<1>2. step = "baseline" /\ mutation = 1 /\ pass = 0 /\ column = 0 /\ content = "original"
  BY <1>t DEF Baseline, Placed
<1>3. /\ mistakes' \in Nat /\ mistakes' <= MaxMistakes /\ wrong' \in BOOLEAN
      /\ mistakes <= mistakes'
      /\ wrong' => wrong \/ (step # "restored" /\ (output # content \/ hits # 0))
  BY <1>t, <1>1, InvokeCosts
<1>4. CASE Raised
  BY <1>3, <1>4, RaisedKept
<1>5. CASE /\ hits = 0 /\ baseline' = output /\ step' = "uncached"
           /\ UNCHANGED <<content, cache, mutation, pass, column, cached, hashes, before, outcome>>
  <2>1. output # "none"
    BY <1>1 DEF Outputs, Contents
  <2>2. MeasureTyped'
    BY <1>t, <1>1, <1>3, <1>5 DEF MeasureTyped, Recordable
  <2>3. Placed' /\ Holding'
    BY <1>t, <1>2, <1>5, <2>1 DEF Placed, Holding
  <2>4. Charged'
    <3>1. SpentOnBaseline' = 0
      BY <1>2, <1>5, MeasureAssumption DEF SpentOnBaseline
    <3> QED
      BY <1>2, <1>3, <1>5, <3>1, EditsAreKept DEF Charged
  <2>5. Traced'
    <3>1. baseline = "none"
      BY <1>t, <1>2 DEF Placed
    <3>2. wrong' => wrong \/ WrongBaseline'
      BY <1>2, <1>3, <1>5, <2>1 DEF WrongBaseline
    <3> QED
      BY <1>2, <1>5, <3>1, <3>2, TracesAreKept
  <2> QED
    BY <2>2, <2>3, <2>4, <2>5 DEF MeasureInv
<1> QED
  BY <1>1, <1>4, <1>5

\* A run of the project as it was, whose output equals the baseline.
LEMMA SameOutputKept ==
    ASSUME MeasureInv, step \in {"uncached", "cold", "warm", "restored"},
           NEW noCache \in BOOLEAN, NEW output \in Outputs, NEW hits, Invoke(noCache, output, hits),
           output = baseline,
           \/ step = "restored"
           \/ hits = IF noCache THEN 0 ELSE Cardinality(Keys(content) \cap cache),
           step' = CASE step = "uncached" -> "clear" [] step = "cold" -> "warm" [] OTHER -> "edit",
           UNCHANGED <<content, mutation, pass, column, baseline, cached, hashes, before, outcome>>
    PROVE  MeasureTyped' /\ Placed' /\ Charged' /\ Traced'
<1>t. MeasureTyped /\ Placed /\ Charged /\ content = "original" /\ outcome = "none"
  BY DEF MeasureInv, Placed
<1>1. /\ mistakes' \in Nat /\ mistakes' <= MaxMistakes /\ wrong' \in BOOLEAN
      /\ mistakes <= mistakes'
      /\ output # content => mistakes' = mistakes + 1
      /\ wrong' => wrong \/ (step # "restored" /\ output # content)
  BY <1>t, InvokeCosts
<1>2. step \notin {"fresh", "over"} /\ step' \in {"clear", "warm", "edit"}
  OBVIOUS
<1>3. MeasureTyped'
  BY <1>t, <1>1, <1>2 DEF MeasureTyped
<1>4. Placed'
  <2>1. output # "none"
    BY DEF Outputs, Contents
  <2>2. baseline' # "none"
    BY <2>1
  <2> QED
    BY <1>t, <1>2, <2>2 DEF Placed
<1>5. WrongBaseline' => SpentOnBaseline' <= mistakes'
  <2> SUFFICES ASSUME WrongBaseline PROVE SpentOnBaseline' <= mistakes'
    BY DEF WrongBaseline
  <2>1. SpentOnBaseline <= mistakes /\ mistakes' = mistakes + 1 /\ mistakes \in Nat
    BY <1>t, <1>1 DEF Charged, WrongBaseline, MeasureTyped
  <2>2. column * Repeats \in Nat /\ pass \in Nat
    BY <1>t, MeasureAssumption DEF MeasureTyped
  <2>3. SpentOnBaseline' <= SpentOnBaseline + 1
    <3> DEFINE base == 2 * (column * Repeats) + 2 * pass
    <3>1. base \in Nat /\ base' = base
      BY <2>2
    <3>2. SpentOnBaseline = base + (CASE step \in {"uncached", "over"} -> 0 [] step \in {"clear", "cold"} -> 1 [] OTHER -> 2)
      BY DEF SpentOnBaseline
    <3>3. SpentOnBaseline' = base + (CASE step' \in {"uncached", "over"} -> 0 [] step' \in {"clear", "cold"} -> 1 [] OTHER -> 2)
      BY <3>1 DEF SpentOnBaseline
    <3> HIDE DEF base
    <3> QED
      BY <3>1, <3>2, <3>3
  <2>4. SpentOnBaseline \in Nat /\ SpentOnBaseline' \in Nat
    BY <2>2 DEF SpentOnBaseline
  <2> QED
    BY <1>1, <2>1, <2>3, <2>4
<1>6. Charged'
  BY <1>1, <1>2, <1>5, EditsAreKept DEF Charged
<1>7. wrong' => wrong \/ WrongBaseline'
  BY <1>t, <1>1 DEF WrongBaseline, Outputs, Contents
<1>8. Traced'
  BY <1>2, <1>7, TracesAreKept
<1> QED
  BY <1>3, <1>4, <1>6, <1>8

LEMMA UncachedKept == MeasureInv /\ Uncached => MeasureInv'
<1> SUFFICES ASSUME MeasureInv, Uncached PROVE MeasureInv'
  OBVIOUS
<1>t. MeasureTyped /\ Holding /\ step = "uncached"
  BY DEF MeasureInv, Uncached
<1>1. PICK output \in Outputs, hits \in HitCounts :
          /\ Invoke(TRUE, output, hits)
          /\ IF hits = 0 /\ output = baseline
             THEN /\ step' = "clear"
                  /\ UNCHANGED <<content, cache, mutation, pass, column, baseline, cached, hashes, before, outcome>>
             ELSE Raised
  BY DEF Uncached
<1>2. mistakes' \in Nat /\ mistakes' <= MaxMistakes /\ wrong' \in BOOLEAN
  BY <1>t, <1>1, InvokeCosts
<1>3. CASE Raised
  BY <1>2, <1>3, RaisedKept
<1>4. CASE /\ hits = 0 /\ output = baseline /\ step' = "clear"
           /\ UNCHANGED <<content, cache, mutation, pass, column, baseline, cached, hashes, before, outcome>>
  <2>1. MeasureTyped' /\ Placed' /\ Charged' /\ Traced'
    BY <1>t, <1>1, <1>4, SameOutputKept
  <2>2. Holding'
    BY <1>4 DEF Holding
  <2> QED
    BY <2>1, <2>2 DEF MeasureInv
<1> QED
  BY <1>1, <1>3, <1>4

LEMMA ClearCacheKept == MeasureInv /\ ClearCache => MeasureInv'
<1> SUFFICES ASSUME MeasureInv, ClearCache PROVE MeasureInv'
  OBVIOUS
<1>t. MeasureTyped /\ Placed /\ Charged /\ Traced
  BY DEF MeasureInv
<1>1. /\ step = "clear" /\ cache' = {} /\ step' = "cold"
      /\ UNCHANGED <<content, mutation, pass, column, baseline, cached, hashes, before, wrong, mistakes, outcome>>
  BY DEF ClearCache
<1>2. MeasureTyped' /\ Placed' /\ Holding'
  BY <1>t, <1>1 DEF MeasureTyped, Placed, Holding
<1>3. Charged'
  <2>1. SpentOnBaseline' = SpentOnBaseline /\ (WrongBaseline' <=> WrongBaseline)
    BY <1>1 DEF SpentOnBaseline, WrongBaseline
  <2>2. WrongBaseline' /\ outcome # "raised" => SpentOnBaseline' <= mistakes'
    BY <1>t, <1>1, <2>1 DEF Charged
  <2> QED
    BY <1>t, <1>1, <2>2, EditsAreKept DEF Charged, MeasureTyped
<1>4. Traced'
  BY <1>1, TracesAreKept
<1> QED
  BY <1>2, <1>3, <1>4 DEF MeasureInv

LEMMA ColdAndWarmKept == MeasureInv /\ ColdAndWarm => MeasureInv'
<1> SUFFICES ASSUME MeasureInv, ColdAndWarm PROVE MeasureInv'
  OBVIOUS
<1>t. MeasureTyped /\ Placed /\ Holding /\ step \in {"cold", "warm"}
  BY DEF MeasureInv, ColdAndWarm
<1>1. PICK output \in Outputs, hits \in HitCounts :
          /\ Invoke(FALSE, output, hits)
          /\ IF output = baseline /\ hits = IF step = "cold" THEN 0 ELSE Cardinality(Files)
             THEN /\ Filled /\ step' = IF step = "cold" THEN "warm" ELSE "edit"
                  /\ UNCHANGED <<content, mutation, pass, column, baseline, cached, hashes, before, outcome>>
             ELSE Raised
  BY DEF ColdAndWarm
<1>2. mistakes' \in Nat /\ mistakes' <= MaxMistakes /\ wrong' \in BOOLEAN
  BY <1>t, <1>1, InvokeCosts
<1>3. CASE Raised
  BY <1>2, <1>3, RaisedKept
<1>4. CASE /\ output = baseline /\ hits = IF step = "cold" THEN 0 ELSE Cardinality(Files)
           /\ Filled /\ step' = IF step = "cold" THEN "warm" ELSE "edit"
           /\ UNCHANGED <<content, mutation, pass, column, baseline, cached, hashes, before, outcome>>
  <2>1. content = "original" /\ mutation = 1
    BY <1>t DEF Placed
  <2>2. cache = IF step = "cold" THEN {} ELSE Keys("original")
    BY <1>t DEF Holding
  <2>3. hits = Cardinality(Keys(content) \cap cache)
    BY <1>t, <1>4, <2>1, <2>2, RightHits
  <2>4. MeasureTyped' /\ Placed' /\ Charged' /\ Traced'
    BY <1>t, <1>1, <1>4, <2>3, SameOutputKept
  <2>5. Holding'
    BY <1>t, <1>4, <2>1, <2>2 DEF Holding, Filled
  <2> QED
    BY <2>4, <2>5 DEF MeasureInv
<1> QED
  BY <1>1, <1>3, <1>4

LEMMA RestoredKept == MeasureInv /\ Restored => MeasureInv'
<1> SUFFICES ASSUME MeasureInv, Restored PROVE MeasureInv'
  OBVIOUS
<1>t. MeasureTyped /\ Placed /\ Holding /\ step = "restored"
  BY DEF MeasureInv, Restored
<1>1. PICK output \in Outputs, hits \in HitCounts :
          /\ Invoke(FALSE, output, hits)
          /\ IF output = baseline
             THEN /\ Filled /\ step' = "edit"
                  /\ UNCHANGED <<content, mutation, pass, column, baseline, cached, hashes, before, outcome>>
             ELSE Raised
  BY DEF Restored
<1>2. mistakes' \in Nat /\ mistakes' <= MaxMistakes /\ wrong' \in BOOLEAN
  BY <1>t, <1>1, InvokeCosts
<1>3. CASE Raised
  BY <1>2, <1>3, RaisedKept
<1>4. CASE /\ output = baseline /\ Filled /\ step' = "edit"
           /\ UNCHANGED <<content, mutation, pass, column, baseline, cached, hashes, before, outcome>>
  <2>1. content = "original" /\ mutation = 2
    BY <1>t DEF Placed
  <2>2. cache = Keys("original") \cup Keys("declaration")
    BY <1>t, <2>1 DEF Holding
  <2>3. MeasureTyped' /\ Placed' /\ Charged' /\ Traced'
    BY <1>t, <1>1, <1>4, SameOutputKept
  <2>4. Holding'
    BY <1>t, <1>4, <2>1, <2>2 DEF Holding, Filled
  <2> QED
    BY <2>3, <2>4 DEF MeasureInv
<1> QED
  BY <1>1, <1>3, <1>4

LEMMA EditKept == MeasureInv /\ Edit => MeasureInv'
<1> SUFFICES ASSUME MeasureInv, Edit PROVE MeasureInv'
  OBVIOUS
<1>t. MeasureTyped /\ Placed /\ Holding /\ Charged /\ Traced
  BY DEF MeasureInv
<1>1. /\ step = "edit" /\ content' = Mutations[mutation] /\ step' = "changed"
      /\ UNCHANGED <<cache, mutation, pass, column, baseline, cached, hashes, before, wrong, mistakes, outcome>>
  BY DEF Edit
<1>2. MeasureTyped' /\ Placed' /\ Holding'
  BY <1>t, <1>1 DEF MeasureTyped, Placed, Holding
<1>3. Charged'
  <2>1. SpentOnBaseline' = SpentOnBaseline /\ (WrongBaseline' <=> WrongBaseline)
    BY <1>1 DEF SpentOnBaseline, WrongBaseline
  <2>2. WrongBaseline' /\ outcome # "raised" => SpentOnBaseline' <= mistakes'
    BY <1>t, <1>1, <2>1 DEF Charged
  <2> QED
    BY <1>t, <1>1, <2>2, EditsAreKept DEF Charged, MeasureTyped
<1>4. Traced'
  BY <1>1, TracesAreKept
<1> QED
  BY <1>2, <1>3, <1>4 DEF MeasureInv

LEMMA ChangedKept == MeasureInv /\ Changed => MeasureInv'
<1> SUFFICES ASSUME MeasureInv, Changed PROVE MeasureInv'
  OBVIOUS
<1>t. MeasureTyped /\ Placed /\ Holding /\ Charged /\ Traced
  BY DEF MeasureInv
<1>1. PICK output \in Outputs, hits \in HitCounts :
          /\ Invoke(FALSE, output, hits)
          /\ Filled /\ cached' = [output |-> output, hits |-> hits] /\ step' = "fresh"
  BY DEF Changed
<1>2. /\ step = "changed"
      /\ UNCHANGED <<content, mutation, pass, column, baseline, hashes, before, outcome>>
  BY DEF Changed
<1>3. content = Mutations[mutation] /\ mutation \in {1, 2} /\ outcome = "none"
  BY <1>t, <1>2 DEF Placed, MeasureTyped
<1>4. /\ mistakes' \in Nat /\ mistakes' <= MaxMistakes /\ wrong' \in BOOLEAN
      /\ mistakes <= mistakes' /\ mistakes \in Nat
      /\ output # content => mistakes' = mistakes + 1
      /\ wrong' => wrong \/ output # content \/ hits # Cardinality(Keys(content) \cap cache)
  BY <1>t, <1>1, InvokeCosts DEF MeasureTyped
<1>5. MeasureTyped'
  <2>1. HitCounts \subseteq Nat
    BY DEF HitCounts
  <2> QED
    BY <1>t, <1>1, <1>2, <1>4, <2>1 DEF MeasureTyped, Recordable
<1>6. Placed'
  BY <1>t, <1>1, <1>2, <1>3 DEF Placed
<1>7. cache = IF mutation = 1 THEN Keys("original") ELSE Keys("original") \cup Keys("declaration")
  BY <1>t, <1>2, <1>3 DEF Holding
<1>8. Holding'
  <2>1. cache' = cache \cup Keys(content)
    BY <1>1 DEF Filled
  <2> QED
    BY <1>1, <1>2, <1>3, <1>7, <2>1, TheMutations DEF Holding
<1>9. Cardinality(Keys(content) \cap cache) = ExpectedHits
  BY <1>3, <1>7, RightHits, TheMutations DEF ExpectedHits
<1>10. Charged'
  <2>1. ASSUME NEW i \in {1, 2} PROVE Spent(i)' <= mistakes'
    <3>1. Spent(i) <= mistakes
      BY <1>t, <1>3 DEF Charged
    <3>2. column * Repeats \in Nat /\ Times(i) \in Nat /\ Times(i)' = Times(i)
      BY <1>t, <1>2, MeasureAssumption DEF MeasureTyped, Times
    <3> DEFINE recorded == (IF WrongAfter(before[i], i) THEN 2 * (column * Repeats) ELSE 0)
                           + (IF WrongAfter(hashes[i], i) THEN 2 * Times(i) ELSE 0)
    <3>3. recorded \in Nat /\ recorded' = recorded
      BY <1>2, <3>2 DEF WrongAfter
    <3>4. Spent(i) = recorded + 0 /\ Spent(i)' = recorded + (IF WrongNow(i)' THEN 1 ELSE 0)
      BY <1>2, <3>3 DEF Spent, WrongNow
    <3>5. WrongNow(i)' => output # content
      BY <1>1, <1>2, <1>3 DEF WrongNow
    <3> HIDE DEF recorded
    <3> QED
      BY ONLY <1>4, <3>1, <3>3, <3>4, <3>5
  <2>2. WrongBaseline' => SpentOnBaseline' <= mistakes'
    <3>1. SpentOnBaseline' = SpentOnBaseline /\ (WrongBaseline' <=> WrongBaseline)
      BY <1>1, <1>2 DEF SpentOnBaseline, WrongBaseline
    <3>2. SpentOnBaseline \in Nat
      BY <1>t, MeasureAssumption DEF SpentOnBaseline, MeasureTyped
    <3>3. WrongBaseline => SpentOnBaseline <= mistakes
      BY <1>t, <1>3 DEF Charged
    <3> QED
      BY ONLY <1>4, <3>1, <3>2, <3>3
  <2>3. \A i \in {1, 2} : hashes'[i] = "none" <=> Times(i)' = 0
    BY <1>t, <1>2, <1>3 DEF Charged, Times
  <2>4. \A i \in {1, 2} : before'[i] = "none" <=> column' = 0
    BY <1>t, <1>2, <1>3 DEF Charged
  <2> QED
    BY <2>1, <2>2, <2>3, <2>4 DEF Charged
<1>11. Traced'
  <2>1. ExpectedHits' = ExpectedHits
    BY <1>2 DEF ExpectedHits
  <2> SUFFICES ASSUME wrong'
               PROVE  \/ WrongBaseline'
                      \/ \E i \in {1, 2} : WrongAfter(before'[i], i) \/ WrongAfter(hashes'[i], i)
                      \/ step' = "fresh" /\ (cached'.output # content' \/ cached'.hits # ExpectedHits')
    BY DEF Traced, WrongAfter
  <2>2. CASE wrong
    BY <1>t, <1>2, <1>3, <2>2 DEF Traced, WrongBaseline, WrongAfter
  <2>3. CASE output # content \/ hits # ExpectedHits
    BY <1>1, <1>2, <2>1, <2>3
  <2> QED
    BY <1>4, <1>9, <2>2, <2>3
<1> QED
  BY <1>5, <1>6, <1>8, <1>10, <1>11 DEF MeasureInv

\* What is known when an edit is recorded: the wrong outputs among what is recorded then
\* have been paid for, and they explain what went wrong.
Paid(recorded, times, spent) ==
    \A i \in {1, 2} :
        /\ times[i] \in Nat \ {0} <=> recorded[i] # "none"
        /\ (IF WrongAfter(before[i], i) THEN 2 * (column * Repeats) ELSE 0)
             + (IF WrongAfter(recorded[i], i) THEN 2 * times[i] ELSE 0) <= spent

LEMMA RecordingIsPaid ==
    ASSUME MeasureInv, step = "fresh",
           NEW output \in Outputs, Invoke(TRUE, output, 0), Acceptable(output),
           NEW recorded, recorded = [hashes EXCEPT ![mutation] = cached.output],
           NEW times, times = [i \in {1, 2} |-> IF i = mutation THEN pass + 1 ELSE Times(i)]
    PROVE  /\ Paid(recorded, times, mistakes') /\ recorded \in [{1, 2} -> Recordable]
           /\ WrongBaseline => 2 * (column * Repeats) + 2 * pass + 2 <= mistakes'
           /\ wrong' => \/ WrongBaseline
                        \/ \E i \in {1, 2} : WrongAfter(before[i], i) \/ WrongAfter(recorded[i], i)
<1>t. MeasureTyped /\ Placed /\ Charged /\ Traced
  BY DEF MeasureInv
<1>1. content = Mutations[mutation] /\ mutation \in {1, 2} /\ outcome = "none"
  BY <1>t DEF Placed, MeasureTyped
<1>2. /\ mistakes' \in Nat /\ mistakes \in Nat /\ mistakes <= mistakes'
      /\ output # content => mistakes' = mistakes + 1
      /\ wrong' => wrong \/ output # content
  BY <1>t, InvokeCosts DEF MeasureTyped
<1>3. /\ output = cached.output /\ cached.hits = ExpectedHits
      /\ hashes[mutation] \in {"none", output} /\ output # "none" /\ output \in Recordable
  BY DEF Acceptable, Outputs, Contents, Recordable
<1>4. /\ recorded \in [{1, 2} -> Recordable] /\ recorded[mutation] = output
      /\ \A i \in {1, 2} : i # mutation => recorded[i] = hashes[i]
  BY <1>t, <1>1, <1>3 DEF MeasureTyped
<1>5. column * Repeats \in Nat /\ pass \in Nat
  BY <1>t, MeasureAssumption DEF MeasureTyped
<1>6. ASSUME NEW i \in {1, 2}
      PROVE  /\ times[i] \in Nat \ {0} <=> recorded[i] # "none"
             /\ (IF WrongAfter(before[i], i) THEN 2 * (column * Repeats) ELSE 0)
                  + (IF WrongAfter(recorded[i], i) THEN 2 * times[i] ELSE 0) <= mistakes'
  <2> DEFINE early == IF WrongAfter(before[i], i) THEN 2 * (column * Repeats) ELSE 0
  <2>1. early \in Nat /\ Times(i) \in Nat
    BY <1>5 DEF Times
  <2>2. early + (IF WrongAfter(hashes[i], i) THEN 2 * Times(i) ELSE 0)
              + (IF WrongNow(i) THEN 1 ELSE 0) <= mistakes
    BY <1>t, <1>1 DEF Charged, Spent
  <2>3. hashes[i] = "none" <=> Times(i) = 0
    BY <1>t, <1>1 DEF Charged
  <2> HIDE DEF early
  <2>4. CASE i # mutation
    <3>1. times[i] = Times(i) /\ recorded[i] = hashes[i]
      BY <1>4, <2>4
    <3>2. ~ WrongNow(i)
      BY <2>4 DEF WrongNow
    <3>3. early + (IF WrongAfter(hashes[i], i) THEN 2 * Times(i) ELSE 0) <= mistakes
      BY ONLY <2>1, <2>2, <3>2
    <3>4. early + (IF WrongAfter(recorded[i], i) THEN 2 * times[i] ELSE 0) <= mistakes'
      BY ONLY <1>2, <2>1, <3>1, <3>3
    <3> QED
      BY <2>1, <2>3, <3>1, <3>4 DEF early
  <2>5. CASE i = mutation
    <3>1. times[i] = pass + 1 /\ recorded[i] = output /\ Times(i) = pass
      BY <1>4, <2>5 DEF Times
    <3>2. CASE ~ WrongAfter(output, i)
      <4>1. early <= mistakes
        BY ONLY <1>2, <2>1, <2>2
      <4>2. early + (IF WrongAfter(recorded[i], i) THEN 2 * times[i] ELSE 0) = early
        BY <2>1, <3>1, <3>2
      <4> QED
        BY <1>2, <1>3, <1>5, <2>1, <3>1, <4>1, <4>2 DEF early
    <3>3. CASE WrongAfter(output, i)
      <4>1. WrongNow(i) /\ mistakes' = mistakes + 1
        BY <1>1, <1>2, <1>3, <2>5, <3>3 DEF WrongNow, WrongAfter
      <4>2. early + 2 * pass + 1 <= mistakes
        <5>1. CASE hashes[i] = "none"
          <6>1. pass = 0 /\ ~ WrongAfter(hashes[i], i)
            BY <2>3, <3>1, <5>1 DEF WrongAfter
          <6> QED
            BY ONLY <1>2, <2>1, <2>2, <4>1, <6>1
        <5>2. CASE hashes[i] = output
          <6>1. WrongAfter(hashes[i], i)
            BY <3>3, <5>2
          <6> QED
            BY ONLY <1>2, <1>5, <2>1, <2>2, <3>1, <4>1, <6>1
        <5> QED
          BY <1>3, <2>5, <5>1, <5>2
      <4>3. early + 2 * times[i] <= mistakes'
        BY ONLY <1>2, <1>5, <2>1, <3>1, <4>1, <4>2
      <4> QED
        BY <1>3, <1>5, <3>1, <3>3, <4>3 DEF early
    <3> QED
      BY <3>2, <3>3
  <2> QED
    BY <2>4, <2>5
<1>7. WrongBaseline => 2 * (column * Repeats) + 2 * pass + 2 <= mistakes'
  <2>1. SpentOnBaseline = 2 * (column * Repeats) + 2 * pass + 2
    BY DEF SpentOnBaseline
  <2>2. WrongBaseline => SpentOnBaseline <= mistakes
    BY <1>t, <1>1 DEF Charged
  <2> QED
    BY ONLY <1>2, <1>5, <2>1, <2>2
<1>8. ASSUME wrong', ~ WrongBaseline
      PROVE  \E i \in {1, 2} : WrongAfter(before[i], i) \/ WrongAfter(recorded[i], i)
  <2>1. output # content => WrongAfter(recorded[mutation], mutation)
    BY <1>1, <1>3, <1>4 DEF WrongAfter
  <2>2. \A i \in {1, 2} : WrongAfter(hashes[i], i) => WrongAfter(recorded[i], i)
    BY <1>1, <1>3, <1>4 DEF WrongAfter
  <2>3. wrong => (\E i \in {1, 2} : WrongAfter(before[i], i) \/ WrongAfter(hashes[i], i))
                  \/ output # content
    BY <1>t, <1>1, <1>3, <1>8 DEF Traced
  <2> QED
    BY <1>1, <1>2, <1>8, <2>1, <2>2, <2>3
<1> QED
  BY <1>4, <1>6, <1>7, <1>8 DEF Paid

\* The repeat goes on with the next edit, or another repeat begins.
LEMMA RepeatGoesOn ==
    ASSUME MeasureInv, step = "fresh", NEW recorded, NEW times,
           recorded \in [{1, 2} -> Recordable], Paid(recorded, times, mistakes'),
           times = [i \in {1, 2} |-> IF i = mutation THEN pass + 1 ELSE Times(i)],
           mistakes' \in Nat, mistakes' <= MaxMistakes, wrong' \in BOOLEAN,
           WrongBaseline => 2 * (column * Repeats) + 2 * pass + 2 <= mistakes',
           wrong' => \/ WrongBaseline
                     \/ \E i \in {1, 2} : WrongAfter(before[i], i) \/ WrongAfter(recorded[i], i),
           content' = "original", cached' = None, hashes' = recorded,
           UNCHANGED <<cache, baseline, column, before, outcome>>,
           \/ mutation = 1 /\ mutation' = 2 /\ step' = "restored" /\ pass' = pass
           \/ /\ mutation = 2 /\ mutation' = 1 /\ step' = "uncached" /\ pass' = pass + 1
              /\ pass + 1 < Repeats
    PROVE  MeasureInv'
<1>t. MeasureTyped /\ Placed /\ Holding /\ Charged /\ outcome = "none" /\ pass \in Nat
  BY DEF MeasureInv, Placed, MeasureTyped
<1>1. MeasureTyped'
  BY <1>t DEF MeasureTyped, None, Recordable
<1>2. Placed' /\ Holding'
  BY <1>t DEF Placed, Holding
<1>3. \A i \in {1, 2} : times[i] = Times(i)'
  BY <1>t DEF Times
<1>4. \A i \in {1, 2} : ~ WrongNow(i)'
  BY DEF WrongNow
<1>5. \A i \in {1, 2} : Spent(i)' <= mistakes'
  <2> TAKE i \in {1, 2}
  <2>1. (IF WrongAfter(before[i], i) THEN 2 * (column * Repeats) ELSE 0)
        + (IF WrongAfter(recorded[i], i) THEN 2 * times[i] ELSE 0) <= mistakes'
    BY DEF Paid
  <2>2. column * Repeats \in Nat /\ times[i] \in Nat
    BY <1>t, MeasureAssumption DEF MeasureTyped, Times
  <2>3. Spent(i)' = (IF WrongAfter(before[i], i) THEN 2 * (column * Repeats) ELSE 0)
                    + (IF WrongAfter(recorded[i], i) THEN 2 * times[i] ELSE 0) + 0
    BY <1>3, <1>4 DEF Spent, WrongAfter
  <2> QED
    BY <2>1, <2>2, <2>3
<1>6. WrongBaseline' => SpentOnBaseline' <= mistakes'
  <2>1. WrongBaseline' <=> WrongBaseline
    BY DEF WrongBaseline
  <2>2. SpentOnBaseline' = 2 * (column * Repeats) + 2 * pass + 2
    <3>1. column * Repeats \in Nat
      BY <1>t, MeasureAssumption DEF MeasureTyped
    <3> QED
      BY <1>t, <3>1 DEF SpentOnBaseline
  <2> QED
    BY <2>1, <2>2
<1>7. \A i \in {1, 2} : hashes'[i] = "none" <=> Times(i)' = 0
  <2>1. \A i \in {1, 2} : times[i] \in Nat
    BY <1>t DEF Times
  <2> QED
    BY <1>3, <2>1 DEF Paid
<1>8. \A i \in {1, 2} : before'[i] = "none" <=> column' = 0
  BY <1>t DEF Charged
<1>9. Charged'
  BY <1>5, <1>6, <1>7, <1>8 DEF Charged
<1>10. Traced'
  BY DEF Traced, WrongBaseline, WrongAfter
<1> QED
  BY <1>1, <1>2, <1>9, <1>10 DEF MeasureInv

\* The last repeat is over; the next measure begins, or the benchmark reports.
LEMMA MeasureEnds ==
    ASSUME MeasureInv, step = "fresh", NEW recorded, NEW times,
           recorded \in [{1, 2} -> Recordable], Paid(recorded, times, mistakes'),
           times = [i \in {1, 2} |-> IF i = mutation THEN pass + 1 ELSE Times(i)],
           mistakes' \in Nat, mistakes' <= MaxMistakes, wrong' \in BOOLEAN,
           WrongBaseline => 2 * (column * Repeats) + 2 * pass + 2 <= mistakes',
           wrong' => \/ WrongBaseline
                     \/ \E i \in {1, 2} : WrongAfter(before[i], i) \/ WrongAfter(recorded[i], i),
           before \in {NoHashes, recorded}, mutation = 2, ~ (pass + 1 < Repeats),
           content' = "original", cached' = None, mutation' = 1,
           pass' = 0, hashes' = NoHashes, before' = recorded, column' = column + 1,
           UNCHANGED <<cache, baseline>>,
           \/ column + 1 < Workers /\ step' = "uncached" /\ UNCHANGED outcome
           \/ ~ (column + 1 < Workers) /\ step' = "over" /\ outcome' = "report"
    PROVE  MeasureInv'
<1>t. /\ MeasureTyped /\ Placed /\ Charged /\ outcome = "none" /\ pass \in Nat /\ column \in Nat
      /\ Repeats \in Nat /\ Workers \in Nat
  BY MeasureAssumption DEF MeasureInv, Placed, MeasureTyped
<1>1. pass + 1 = Repeats /\ column < Workers /\ mistakes' \in Nat
  BY <1>t DEF Placed
<1>2. column * Repeats \in Nat /\ (column + 1) * Repeats = column * Repeats + Repeats
  BY <1>t
<1>3. MeasureTyped'
  BY <1>t, TheMutations DEF MeasureTyped, None, Recordable
<1>4. Placed' /\ Holding'
  BY <1>t, <1>1 DEF Placed, Holding
<1>5. \A i \in {1, 2} : times[i] = Repeats /\ recorded[i] # "none" /\ Times(i)' = 0
  <2>1. \A i \in {1, 2} : times[i] = pass + 1 /\ Times(i)' = 0
    BY DEF Times
  <2> QED
    BY <1>t, <1>1, <2>1 DEF Paid
<1>6. \A i \in {1, 2} : hashes'[i] = "none" /\ ~ WrongAfter(hashes'[i], i) /\ ~ WrongNow(i)'
  BY TheMutations DEF WrongAfter, WrongNow
<1>7. \A i \in {1, 2} : Spent(i)' <= mistakes'
  <2> TAKE i \in {1, 2}
  <2>1. (IF WrongAfter(before[i], i) THEN 2 * (column * Repeats) ELSE 0)
        + (IF WrongAfter(recorded[i], i) THEN 2 * Repeats ELSE 0) <= mistakes'
    BY <1>5 DEF Paid
  <2>2. Spent(i)' = IF WrongAfter(recorded[i], i) THEN 2 * (column * Repeats + Repeats) ELSE 0
    <3>1. Spent(i)' = (IF WrongAfter(recorded[i], i) THEN 2 * ((column + 1) * Repeats) ELSE 0) + 0 + 0
      BY <1>6 DEF Spent, WrongAfter
    <3> QED
      BY <1>2, <3>1, <1>t
  <2>3. WrongAfter(recorded[i], i) => WrongAfter(before[i], i) \/ column * Repeats = 0
    <3>1. CASE before = recorded
      BY <3>1
    <3>2. CASE before = NoHashes
      <4>1. column = 0
        BY <1>t, <3>2, TheMutations DEF Charged
      <4> QED
        BY <1>t, <4>1
    <3> QED
      BY <3>1, <3>2
  <2> QED
    BY ONLY <1>t, <1>1, <1>2, <2>1, <2>2, <2>3
<1>8. WrongBaseline' => SpentOnBaseline' <= mistakes'
  <2>1. WrongBaseline' <=> WrongBaseline
    BY DEF WrongBaseline
  <2>2. SpentOnBaseline' = 2 * ((column + 1) * Repeats) + 2 * 0 + 0
    BY DEF SpentOnBaseline
  <2>3. SpentOnBaseline' = 2 * (column * Repeats) + 2 * pass + 2
    BY ONLY <1>t, <1>1, <1>2, <2>2
  <2> QED
    BY <2>1, <2>3
<1>9. \A i \in {1, 2} : before'[i] = "none" <=> column' = 0
  BY <1>t, <1>5
<1>10. Charged'
  BY <1>5, <1>6, <1>7, <1>8, <1>9 DEF Charged
<1>11. Traced'
  <2>1. \A i \in {1, 2} : WrongAfter(before[i], i) => WrongAfter(recorded[i], i)
    <3>1. \A i \in {1, 2} : ~ WrongAfter(NoHashes[i], i)
      BY TheMutations DEF WrongAfter
    <3> QED
      BY <3>1
  <2>2. wrong' => WrongBaseline' \/ \E i \in {1, 2} : WrongAfter(before'[i], i)
    BY <2>1 DEF WrongBaseline, WrongAfter
  <2> QED
    BY <2>2 DEF Traced, WrongAfter
<1> QED
  BY <1>3, <1>4, <1>10, <1>11 DEF MeasureInv

LEMMA FreshRunKept == MeasureInv /\ FreshRun => MeasureInv'
<1> SUFFICES ASSUME MeasureInv, FreshRun PROVE MeasureInv'
  OBVIOUS
<1>t. MeasureTyped /\ Placed /\ mutation \in {1, 2} /\ step = "fresh" /\ outcome = "none"
  BY DEF MeasureInv, MeasureTyped, FreshRun, Placed
<1> DEFINE recorded == [hashes EXCEPT ![mutation] = cached.output]
           times == [i \in {1, 2} |-> IF i = mutation THEN pass + 1 ELSE Times(i)]
<1>1. PICK output \in Outputs, hits \in HitCounts :
          /\ Invoke(TRUE, output, hits)
          /\ IF hits = 0 /\ Acceptable(output)
             THEN /\ content' = "original" /\ cached' = None
                  /\ IF mutation < Len(Mutations)
                     THEN /\ mutation' = mutation + 1 /\ step' = "restored" /\ hashes' = recorded
                          /\ UNCHANGED <<pass, column, before, outcome>>
                     ELSE mutation' = 1 /\ NextRepeat(recorded)
                  /\ UNCHANGED <<cache, baseline>>
             ELSE Raised
  BY DEF FreshRun
<1>2. mistakes' \in Nat /\ mistakes' <= MaxMistakes /\ wrong' \in BOOLEAN
  BY <1>t, <1>1, InvokeCosts
<1>3. CASE Raised
  BY <1>2, <1>3, RaisedKept
<1>4. CASE /\ hits = 0 /\ Acceptable(output)
           /\ content' = "original" /\ cached' = None
           /\ IF mutation < Len(Mutations)
              THEN /\ mutation' = mutation + 1 /\ step' = "restored" /\ hashes' = recorded
                   /\ UNCHANGED <<pass, column, before, outcome>>
              ELSE mutation' = 1 /\ NextRepeat(recorded)
           /\ UNCHANGED <<cache, baseline>>
  <2>1. Invoke(TRUE, output, 0)
    BY <1>1, <1>4
  <2> HIDE DEF recorded, times
  <2>2. recorded = [hashes EXCEPT ![mutation] = cached.output]
    BY DEF recorded
  <2>3. times = [i \in {1, 2} |-> IF i = mutation THEN pass + 1 ELSE Times(i)]
    BY DEF times
  <2>4. /\ Paid(recorded, times, mistakes') /\ recorded \in [{1, 2} -> Recordable]
        /\ WrongBaseline => 2 * (column * Repeats) + 2 * pass + 2 <= mistakes'
        /\ wrong' => \/ WrongBaseline
                     \/ \E i \in {1, 2} : WrongAfter(before[i], i) \/ WrongAfter(recorded[i], i)
    BY <1>t, <1>4, <2>1, <2>2, <2>3, RecordingIsPaid
  <2>5. CASE mutation = 1
    <3>1. /\ mutation' = 2 /\ step' = "restored" /\ hashes' = recorded
          /\ UNCHANGED <<pass, column, before, outcome>>
      BY <1>4, <2>5, TheMutations
    <3> QED
      BY <1>t, <1>2, <1>4, <2>3, <2>4, <2>5, <3>1, RepeatGoesOn
  <2>6. CASE mutation = 2
    <3>1. mutation' = 1 /\ NextRepeat(recorded)
      BY <1>4, <2>6, TheMutations
    <3>2. CASE pass + 1 < Repeats
      <4>1. /\ pass' = pass + 1 /\ step' = "uncached" /\ hashes' = recorded
            /\ UNCHANGED <<column, before, outcome>>
        BY <3>1, <3>2 DEF NextRepeat
      <4> QED
        BY <1>t, <1>2, <1>4, <2>3, <2>4, <2>6, <3>1, <3>2, <4>1, RepeatGoesOn
    <3>3. CASE ~ (pass + 1 < Repeats) /\ before \notin {NoHashes, recorded}
      <4>1. outcome' = "raised" /\ step' = "over" /\ UNCHANGED <<pass, column, hashes, before>>
        BY <3>1, <3>3 DEF NextRepeat
      <4>2. MeasureTyped'
        BY <1>t, <1>2, <1>4, <3>1, <4>1 DEF MeasureTyped, None, Recordable
      <4>3. Placed' /\ Holding' /\ Charged' /\ Traced'
        BY <1>4, <4>1 DEF Placed, Holding, Charged, Traced
      <4> QED
        BY <4>2, <4>3 DEF MeasureInv
    <3>4. CASE ~ (pass + 1 < Repeats) /\ before \in {NoHashes, recorded}
      <4>1. /\ pass' = 0 /\ hashes' = NoHashes /\ before' = recorded /\ column' = column + 1
            /\ \/ column + 1 < Workers /\ step' = "uncached" /\ UNCHANGED outcome
               \/ ~ (column + 1 < Workers) /\ step' = "over" /\ outcome' = "report"
        BY <3>1, <3>4 DEF NextRepeat
      <4> QED
        BY <1>t, <1>2, <1>4, <2>3, <2>4, <2>6, <3>1, <3>4, <4>1, MeasureEnds
    <3> QED
      BY <3>2, <3>3, <3>4
  <2> QED
    BY <1>t, <2>5, <2>6
<1> QED
  BY <1>1, <1>3, <1>4

LEMMA MeasureInitially == MeasureInit => MeasureInv
<1> SUFFICES ASSUME MeasureInit PROVE MeasureInv
  OBVIOUS
<1>1. MeasureTyped
  <2>1. /\ hashes = [i \in {1, 2} |-> "none"] /\ before = [i \in {1, 2} |-> "none"]
        /\ cached = [output |-> "none", hits |-> 0] /\ baseline = "none"
    BY TheMutations DEF MeasureInit, None
  <2>2. "none" \in Recordable
    BY DEF Recordable
  <2>3. /\ hashes \in [{1, 2} -> Recordable] /\ before \in [{1, 2} -> Recordable]
        /\ cached \in [output : Recordable, hits : Nat] /\ baseline \in Recordable
    BY <2>1, <2>2
  <2>4. /\ step = "baseline" /\ mutation = 1 /\ pass = 0 /\ column = 0 /\ mistakes = 0
        /\ wrong = FALSE /\ outcome = "none"
    BY DEF MeasureInit
  <2>5. 0 <= MaxMistakes
    BY MeasureAssumption
  <2> QED
    BY ONLY <2>3, <2>4, <2>5 DEF MeasureTyped
<1>2. Placed /\ Holding /\ Traced
  BY MeasureAssumption DEF MeasureInit, Placed, Holding, Traced
<1>3. \A i \in {1, 2} : Times(i) = 0 /\ ~ WrongAfter(before[i], i) /\ ~ WrongAfter(hashes[i], i)
                        /\ ~ WrongNow(i)
  BY TheMutations DEF MeasureInit, Times, WrongAfter, WrongNow
<1>4. Charged
  <2>1. \A i \in {1, 2} : Spent(i) <= mistakes
    BY <1>3 DEF MeasureInit, Spent
  <2>2. ~ WrongBaseline
    BY DEF MeasureInit, WrongBaseline
  <2>3. \A i \in {1, 2} : hashes[i] = "none" /\ before[i] = "none" /\ column = 0
    BY TheMutations DEF MeasureInit
  <2> QED
    BY <1>3, <2>1, <2>2, <2>3 DEF Charged
<1> QED
  BY <1>1, <1>2, <1>4 DEF MeasureInv

LEMMA MeasureKept == MeasureInv /\ [MeasureNext]_measureVars => MeasureInv'
<1> SUFFICES ASSUME MeasureInv, [MeasureNext]_measureVars PROVE MeasureInv'
  OBVIOUS
<1>1. CASE InvocationFails
  BY <1>1, RaisedKept DEF InvocationFails, MeasureInv, MeasureTyped
<1>2. CASE UNCHANGED measureVars
  <2>1. MeasureTyped' /\ Placed' /\ Holding'
    BY <1>2 DEF MeasureInv, MeasureTyped, Placed, Holding, measureVars
  <2>2. Charged' /\ Traced'
    BY <1>2 DEF MeasureInv, Charged, Traced, Spent, SpentOnBaseline, Times, WrongAfter, WrongNow,
                WrongBaseline, ExpectedHits, measureVars
  <2> QED
    BY <2>1, <2>2 DEF MeasureInv
<1> QED
  BY <1>1, <1>2, BaselineKept, UncachedKept, ClearCacheKept, ColdAndWarmKept, RestoredKept, EditKept,
     ChangedKept, FreshRunKept DEF MeasureNext, BenchmarkOver

\* A benchmark that reports was not deceived, for any project and any number
\* of repeats and of worker counts, unless at least two invocations of every
\* repeat of every measure went wrong; fewer cannot agree wherever measure
\* compares them.  And measure leaves the project as it found it.
THEOREM MeasuresAreHonest ==
    ASSUME MaxMistakes < 2 * (Workers * Repeats)
    PROVE  MeasureSpec => []MeasureIsHonest
<1>1. MeasureInv => MeasureIsHonest
  <2> SUFFICES ASSUME MeasureInv PROVE MeasureIsHonest
    OBVIOUS
  <2>t. MeasureTyped /\ Placed /\ Charged /\ Traced
    BY DEF MeasureInv
  <2>1. ASSUME outcome = "report", wrong PROVE FALSE
    <3>1. /\ step = "over" /\ column = Workers /\ pass = 0 /\ mutation = 1
          /\ Workers * Repeats \in Nat /\ mistakes <= MaxMistakes
          /\ mistakes \in Nat /\ MaxMistakes \in Nat
      BY <2>t, <2>1, MeasureAssumption DEF Placed, MeasureTyped
    <3>2. \A i \in {1, 2} : Times(i) = 0 /\ hashes[i] = "none" /\ ~ WrongAfter(hashes[i], i) /\ ~ WrongNow(i)
      BY <2>t, <2>1, <3>1 DEF Charged, Times, WrongAfter, WrongNow
    <3>3. ASSUME NEW i \in {1, 2}, WrongAfter(before[i], i) PROVE FALSE
      <4>1. Spent(i) = 2 * (Workers * Repeats) + 0 + 0
        BY <3>1, <3>2, <3>3 DEF Spent
      <4>2. Spent(i) <= mistakes
        BY <2>t, <2>1 DEF Charged
      <4> QED
        BY ONLY <3>1, <4>1, <4>2, MaxMistakes < 2 * (Workers * Repeats)
    <3>4. ASSUME WrongBaseline PROVE FALSE
      <4>1. SpentOnBaseline = 2 * (Workers * Repeats) + 2 * 0 + 0
        BY <3>1 DEF SpentOnBaseline
      <4>2. SpentOnBaseline <= mistakes
        BY <2>t, <2>1, <3>4 DEF Charged
      <4> QED
        BY ONLY <3>1, <4>1, <4>2, MaxMistakes < 2 * (Workers * Repeats)
    <3> QED
      BY <2>t, <2>1, <3>1, <3>2, <3>3, <3>4 DEF Traced
  <2>2. step \notin {"changed", "fresh"} => content = "original"
    BY <2>t DEF Placed
  <2> QED
    BY <2>1, <2>2 DEF MeasureIsHonest
<1> QED
  BY <1>1, MeasureInitially, MeasureKept, PTL DEF MeasureSpec

-----------------------------------------------------------------------------
(* The audit of the specification (EvidenceAudit).                           *)

AuditSpec == AuditInit /\ [][AuditNext]_auditVars

\* Induction over the lines needs no operator: a set of numbers that holds 0
\* and the successors of its members holds all of them.
LEMMA Least ==
    ASSUME NEW T \in SUBSET Nat, T # {}
    PROVE  \E n \in T : \A m \in T : n <= m
<1>1. PICK n \in T : \A m \in T : ~ (<<m, n>> \in OpToRel(<, Nat))
  BY NatLessThanWellFounded, WFMin
<1>2. \A m \in T : ~ (m < n)
  BY <1>1 DEF OpToRel
<1> QED
  BY <1>2

LEMMA Induction ==
    ASSUME NEW T, 0 \in T, \A n \in Nat : n \in T => n + 1 \in T
    PROVE  Nat \subseteq T
<1> SUFFICES ASSUME Nat \ T # {} PROVE FALSE
  OBVIOUS
<1>1. PICK n \in Nat \ T : \A m \in Nat \ T : n <= m
  BY Least
<1>2. n # 0 /\ n - 1 \in Nat /\ n - 1 \in T
  BY <1>1
<1> QED
  BY <1>2

LEMMA LineKinds ==
    ASSUME NEW a \in Lines
    PROVE  /\ a.kind \in {"heading", "blank", "fence", "text"}
           /\ a.item \in BOOLEAN /\ a.must \in BOOLEAN /\ a.colon \in BOOLEAN
           /\ a.item \/ a.must => a.kind = "text"
<1>1. CASE a \in {Heading(a.text), Bare("blank"), Bare("fence")}
  <2>1. CASE a = Heading(a.text)
    <3>1. a.kind = "heading" /\ a.item = FALSE /\ a.must = FALSE /\ a.colon = FALSE
      BY <2>1 DEF Heading
    <3> QED
      BY <3>1
  <2>2. ASSUME NEW kind \in {"blank", "fence"}, a = Bare(kind)
        PROVE  a.kind = kind /\ a.item = FALSE /\ a.must = FALSE /\ a.colon = FALSE
    BY <2>2 DEF Bare
  <2> QED
    BY <1>1, <2>1, <2>2
<1>2. CASE a = Text(a.text, a.item, a.must, a.colon) /\ {a.item, a.must, a.colon} \subseteq BOOLEAN
  <2>1. a.kind = "text"
    BY <1>2 DEF Text
  <2> QED
    BY <1>2, <2>1
<1> QED
  BY <1>1, <1>2, LinesAssumption

LEMMA DocumentFacts ==
    ASSUME document \in Seq(Lines)
    PROVE  /\ Len(document) \in Nat /\ DOMAIN document = 1 .. Len(document)
           /\ \A i \in DOMAIN document : document[i] \in Lines
  OBVIOUS

LEMMA SameText ==
    ASSUME document \in Seq(Lines), NEW i \in DOMAIN document, NEW j \in DOMAIN document,
           document[i].kind = "text", document[j].kind = "text", document[i].text = document[j].text
    PROVE  document[i] = document[j]
  BY DocumentFacts, LinesAssumption

\* A fence changes sides, any other line stays.
LEMMA OutsideSteps ==
    ASSUME document \in Seq(Lines)
    PROVE  /\ Outside(0)
           /\ \A i \in DOMAIN document :
                 Outside(i) <=> (IF document[i].kind = "fence" THEN ~ Outside(i - 1) ELSE Outside(i - 1))
<1> DEFINE F(i) == {k \in 1 .. i : document[k].kind = "fence"}
<1>1. Outside(0)
  <2>1. F(0) = {}
    OBVIOUS
  <2> QED
    BY <2>1, FS_EmptySet DEF Outside
<1>2. ASSUME NEW i \in DOMAIN document
      PROVE  Outside(i) <=> (IF document[i].kind = "fence" THEN ~ Outside(i - 1) ELSE Outside(i - 1))
  <2>1. i \in Nat /\ i >= 1
    BY DocumentFacts
  <2>2. IsFiniteSet(F(i - 1)) /\ Cardinality(F(i - 1)) \in Nat
    <3>1. IsFiniteSet(1 .. i - 1)
      BY <2>1, FS_Interval
    <3>2. F(i - 1) \subseteq 1 .. i - 1
      OBVIOUS
    <3> QED
      BY <3>1, <3>2, FS_Subset, FS_CardinalityType
  <2>3. CASE document[i].kind = "fence"
    <3>1. F(i) = F(i - 1) \cup {i}
      BY <2>1, <2>3
    <3>2. ~ (i \in F(i - 1))
      BY <2>1
    <3> HIDE DEF F
    <3>3. Cardinality(F(i)) = Cardinality(F(i - 1)) + 1
      BY <2>2, <3>1, <3>2, FS_AddElement
    <3>4. \A n \in Nat : (n + 1) % 2 = 0 <=> ~ (n % 2 = 0)
      OBVIOUS
    <3>5. (Cardinality(F(i)) % 2 = 0) <=> ~ (Cardinality(F(i - 1)) % 2 = 0)
      BY <2>2, <3>3, <3>4
    <3> QED
      BY <2>3, <3>5 DEF Outside, F
  <2>4. CASE document[i].kind # "fence"
    <3>1. F(i) = F(i - 1)
      BY <2>1, <2>4
    <3> QED
      BY <2>4, <3>1 DEF Outside
  <2> QED
    BY <2>3, <2>4
<1> QED
  BY <1>1, <1>2

\* A heading outside of the examples opens a section, any other line is in the
\* section before it.
LEMMA SectionSteps ==
    ASSUME document \in Seq(Lines)
    PROVE  /\ Section(0) = "1"
           /\ \A i \in DOMAIN document :
                 Section(i) = IF document[i].kind = "heading" /\ Outside(i)
                                 THEN document[i].text ELSE Section(i - 1)
<1>1. Section(0) = "1"
  <2>1. Headings(0) = {}
    BY DEF Headings
  <2> QED
    BY <2>1 DEF Section
<1>2. ASSUME NEW i \in DOMAIN document
      PROVE  Section(i) = IF document[i].kind = "heading" /\ Outside(i)
                             THEN document[i].text ELSE Section(i - 1)
  <2>1. i \in Nat /\ i >= 1
    BY DocumentFacts
  <2>2. CASE document[i].kind = "heading" /\ Outside(i)
    <3>1. i \in Headings(i) /\ \A h \in Headings(i) : h \in Nat /\ h <= i
      BY <2>1, <2>2 DEF Headings
    <3>2. i = CHOOSE k \in Headings(i) : \A h \in Headings(i) : h <= k
      <4> DEFINE m == CHOOSE k \in Headings(i) : \A h \in Headings(i) : h <= k
      <4>1. m \in Headings(i) /\ \A h \in Headings(i) : h <= m
        BY <3>1
      <4> HIDE DEF m
      <4>2. m = i
        BY <2>1, <3>1, <4>1
      <4> QED
        BY <4>2 DEF m
    <3> QED
      BY <2>2, <3>1, <3>2 DEF Section
  <2>3. CASE ~ (document[i].kind = "heading" /\ Outside(i))
    <3>1. Headings(i) = Headings(i - 1)
      BY <2>1, <2>3 DEF Headings
    <3> QED
      BY <2>3, <3>1 DEF Section
  <2> QED
    BY <2>2, <2>3
<1> QED
  BY <1>1, <1>2

\* Items and blank lines stay where they are.
LEMMA ListsStay ==
    ASSUME document \in Seq(Lines), NEW p \in DOMAIN document, NEW j \in DOMAIN document, p <= j,
           \A k \in p + 1 .. j : document[k].item \/ document[k].kind = "blank"
    PROVE  (Outside(j) <=> Outside(p)) /\ Section(j) = Section(p)
<1> DEFINE T == {n \in Nat : p + n <= j => (Outside(p + n) <=> Outside(p)) /\ Section(p + n) = Section(p)}
<1>0. p \in Nat /\ j \in Nat /\ p >= 1
  BY DocumentFacts
<1>1. 0 \in T
  <2>1. p + 0 = p
    BY <1>0
  <2> QED
    BY <2>1
<1>2. ASSUME NEW n \in Nat, n \in T PROVE n + 1 \in T
  <2> SUFFICES ASSUME p + (n + 1) <= j
               PROVE  (Outside(p + (n + 1)) <=> Outside(p)) /\ Section(p + (n + 1)) = Section(p)
    OBVIOUS
  <2> DEFINE k == p + (n + 1)
  <2>1. k \in p + 1 .. j /\ k \in DOMAIN document /\ k - 1 = p + n /\ p + n <= j
    BY <1>0, DocumentFacts
  <2>2. document[k].kind \in {"text", "blank"}
    BY <2>1, DocumentFacts, LineKinds
  <2> HIDE DEF k
  <2>3. (Outside(k) <=> Outside(k - 1)) /\ Section(k) = Section(k - 1)
    BY <2>1, <2>2, OutsideSteps, SectionSteps
  <2>4. (Outside(p + n) <=> Outside(p)) /\ Section(p + n) = Section(p)
    BY <1>2, <2>1
  <2>5. (Outside(k) <=> Outside(p)) /\ Section(k) = Section(p)
    BY <2>1, <2>3, <2>4
  <2> QED
    BY <2>5 DEF k
<1> HIDE DEF T
<1>3. j - p \in Nat /\ p + (j - p) = j
  BY <1>0
<1>4. j - p \in T
  BY <1>1, <1>2, <1>3, Induction
<1> QED
  BY <1>0, <1>3, <1>4 DEF T

IsScan(s, n) == s = [i \in 0 .. n |-> IF i = 0 THEN Scanned ELSE Scan(s[i - 1], i)]

LEMMA ScanExists ==
    ASSUME NEW m \in Nat
    PROVE  \E s : IsScan(s, m)
<1> DEFINE T == {n \in Nat : \E s : IsScan(s, n)}
<1>1. 0 \in T
  <2> DEFINE s == [i \in 0 .. 0 |-> Scanned]
  <2>1. \A i \in 0 .. 0 : i = 0
    OBVIOUS
  <2>2. s = [i \in 0 .. 0 |-> IF i = 0 THEN Scanned ELSE Scan(s[i - 1], i)]
    BY <2>1
  <2> QED
    BY <2>2 DEF IsScan
<1>2. ASSUME NEW n \in Nat, n \in T PROVE n + 1 \in T
  <2>1. PICK s : IsScan(s, n)
    BY <1>2
  <2> DEFINE longer == [i \in 0 .. n + 1 |-> IF i <= n THEN s[i] ELSE Scan(s[n], n + 1)]
  <2>2. \A i \in 0 .. n : longer[i] = s[i]
    OBVIOUS
  <2>3. longer[n + 1] = Scan(s[n], n + 1)
    BY n + 1 \in 0 .. n + 1, ~ (n + 1 <= n)
  <2>4. DOMAIN longer = 0 .. n + 1 /\ longer = [i \in 0 .. n + 1 |-> longer[i]]
    OBVIOUS
  <2> HIDE DEF longer
  <2>5. longer[0] = Scanned
    BY <2>1, <2>2 DEF IsScan
  <2>6. ASSUME NEW i \in 0 .. n + 1, i # 0
        PROVE  longer[i] = Scan(longer[i - 1], i)
    <3>1. i - 1 \in 0 .. n /\ longer[i - 1] = s[i - 1]
      BY <2>2, <2>6
    <3>2. CASE i <= n
      <4>1. i \in 0 .. n /\ longer[i] = s[i]
        BY <2>2, <3>2
      <4>2. s[i] = Scan(s[i - 1], i)
        BY <2>1, <2>6, <4>1 DEF IsScan
      <4> QED
        BY <3>1, <4>1, <4>2
    <3>3. CASE i = n + 1
      <4>1. i - 1 = n
        BY <3>3
      <4> QED
        BY <2>3, <3>1, <3>3, <4>1
    <3> QED
      BY <3>2, <3>3
  <2>7. IsScan(longer, n + 1)
    BY <2>4, <2>5, <2>6 DEF IsScan
  <2> QED
    BY <2>7
<1> HIDE DEF T
<1>3. m \in T
  BY <1>1, <1>2, Induction
<1> QED
  BY <1>3 DEF T

\* What the inventory says of a line, and of which lines it says it.
LineKey(i) == <<Section(i), document[i].text>>
Tells(c, i) ==
    /\ c = [key |-> LineKey(i), line |-> i, mandatory |-> c.mandatory]
    /\ c.mandatory \in BOOLEAN /\ (c.mandatory <=> Keyword(i))
Prose(i) == document[i].kind = "text" /\ Outside(i)
Introduces(i) == Keyword(i) /\ document[i].colon

\* After n lines the pass knows its place, one clause of every prose with that
\* text in that section, and every line that introduces a list.
Kept(done, n) ==
    /\ done = [section |-> Section(n), fenced |-> done.fenced, clauses |-> done.clauses, parents |-> done.parents]
    /\ done.fenced \in BOOLEAN /\ (done.fenced <=> ~ Outside(n))
    /\ \A c \in done.clauses : \E i \in 1 .. n : Prose(i) /\ Tells(c, i)
    /\ \A i \in 1 .. n : Prose(i) => \E c \in done.clauses : c.key = LineKey(i)
    /\ \A c, d \in done.clauses : c.key = d.key => c = d
    /\ \A c \in done.parents : \E i \in 1 .. n : Introduces(i) /\ Tells(c, i)
    /\ \A i \in 1 .. n : Introduces(i) => \E c \in done.parents : Tells(c, i)

\* A line of prose is added.
LEMMA ProseKept ==
    ASSUME document \in Seq(Lines), NEW i \in DOMAIN document, NEW done, Kept(done, i - 1),
           document[i].kind = "text", Outside(i)
    PROVE  Kept(Scan(done, i), i)
<1> DEFINE line == document[i]
           mandatory == done.section # Glossary /\ line.must
           clause == [key |-> <<done.section, line.text>>, line |-> i, mandatory |-> mandatory]
           clauses == IF \E c \in done.clauses : c.key = <<done.section, line.text>>
                         THEN done.clauses ELSE done.clauses \cup {clause}
           parents == IF mandatory /\ line.colon THEN done.parents \cup {clause} ELSE done.parents
           next == [section |-> done.section, fenced |-> done.fenced, clauses |-> clauses, parents |-> parents]
<1>1. i \in Nat /\ i >= 1 /\ 1 .. i = (1 .. i - 1) \cup {i}
  BY DocumentFacts
<1>2. Outside(i - 1) /\ Section(i) = Section(i - 1) /\ ~ done.fenced /\ done.section = Section(i)
  <2>1. Outside(i - 1) /\ Section(i) = Section(i - 1)
    BY OutsideSteps, SectionSteps
  <2>2. done.section = Section(i - 1)
    BY DEF Kept
  <2> QED
    BY <2>1, <2>2 DEF Kept
<1>3. Scan(done, i) = next
  <2>1. Scan(done, i) = [done EXCEPT !.clauses = clauses, !.parents = parents]
    BY <1>2 DEF Scan
  <2> HIDE DEF clauses, parents
  <2> QED
    BY <2>1 DEF Kept
<1>4. Tells(clause, i)
  <2>1. line.must \in BOOLEAN
    BY DocumentFacts, LineKinds
  <2>2. mandatory \in BOOLEAN /\ (mandatory <=> Keyword(i))
    BY <1>2, <2>1 DEF Keyword
  <2>3. <<done.section, line.text>> = LineKey(i)
    BY <1>2 DEF LineKey
  <2> HIDE DEF mandatory
  <2> QED
    BY <2>2, <2>3 DEF Tells
<1>5. mandatory /\ line.colon <=> Introduces(i)
  BY <1>2 DEF Introduces, Keyword
<1>6. <<done.section, line.text>> = LineKey(i) /\ clause.key = LineKey(i)
  BY <1>2 DEF LineKey
<1>7. clauses = IF \E c \in done.clauses : c.key = LineKey(i) THEN done.clauses ELSE done.clauses \cup {clause}
  BY <1>6
<1>8. parents = IF Introduces(i) THEN done.parents \cup {clause} ELSE done.parents
  BY <1>5
<1> HIDE DEF clauses, parents, clause, mandatory
<1>10. next = [section |-> Section(i), fenced |-> next.fenced, clauses |-> next.clauses, parents |-> next.parents]
       /\ next.fenced \in BOOLEAN /\ (next.fenced <=> ~ Outside(i))
       /\ next.clauses = clauses /\ next.parents = parents
  BY <1>2 DEF Kept
<1> HIDE DEF next
<1>11. \A c \in clauses : \E k \in 1 .. i : Prose(k) /\ Tells(c, k)
  BY <1>1, <1>4, <1>7 DEF Kept, Prose
<1>12. \A k \in 1 .. i : Prose(k) => \E c \in clauses : c.key = LineKey(k)
  BY <1>1, <1>6, <1>7 DEF Kept
<1>13. \A c, d \in clauses : c.key = d.key => c = d
  BY <1>6, <1>7 DEF Kept
<1>14. \A c \in parents : \E k \in 1 .. i : Introduces(k) /\ Tells(c, k)
  BY <1>1, <1>4, <1>8 DEF Kept
<1>15. \A k \in 1 .. i : Introduces(k) => \E c \in parents : Tells(c, k)
  BY <1>1, <1>4, <1>8 DEF Kept
<1> QED
  BY <1>3, <1>10, <1>11, <1>12, <1>13, <1>14, <1>15 DEF Kept

\* Any other line only moves.
LEMMA ScanKept ==
    ASSUME document \in Seq(Lines), NEW i \in DOMAIN document, NEW done, Kept(done, i - 1)
    PROVE  Kept(Scan(done, i), i)
<1>1. CASE document[i].kind = "text" /\ Outside(i)
  BY <1>1, ProseKept
<1>2. CASE ~ (document[i].kind = "text" /\ Outside(i))
  <2>1. i \in Nat /\ i >= 1 /\ 1 .. i = (1 .. i - 1) \cup {i}
    BY DocumentFacts
  <2>2. ~ Prose(i) /\ ~ Introduces(i)
    <3>1. document[i].must => document[i].kind = "text"
      BY DocumentFacts, LineKinds
    <3> QED
      BY <1>2, <3>1 DEF Prose, Introduces, Keyword
  <2>3. ASSUME NEW next, next = [section |-> Section(i), fenced |-> next.fenced,
                                 clauses |-> done.clauses, parents |-> done.parents],
               next.fenced \in BOOLEAN, next.fenced <=> ~ Outside(i)
        PROVE  Kept(next, i)
    <3>1. next.clauses = done.clauses /\ next.parents = done.parents
      BY <2>3
    <3>2. \A c \in done.clauses : \E k \in 1 .. i : Prose(k) /\ Tells(c, k)
      BY <2>1 DEF Kept
    <3>3. \A k \in 1 .. i : Prose(k) => \E c \in done.clauses : c.key = LineKey(k)
      BY <2>1, <2>2 DEF Kept
    <3>4. \A c \in done.parents : \E k \in 1 .. i : Introduces(k) /\ Tells(c, k)
      BY <2>1 DEF Kept
    <3>5. \A k \in 1 .. i : Introduces(k) => \E c \in done.parents : Tells(c, k)
      BY <2>1, <2>2 DEF Kept
    <3>6. \A c, d \in done.clauses : c.key = d.key => c = d
      BY DEF Kept
    <3> QED
      BY <2>3, <3>1, <3>2, <3>3, <3>4, <3>5, <3>6 DEF Kept
  <2>4. /\ done = [section |-> Section(i - 1), fenced |-> done.fenced, clauses |-> done.clauses, parents |-> done.parents]
        /\ done.fenced \in BOOLEAN /\ (done.fenced <=> ~ Outside(i - 1))
    BY DEF Kept
  <2>5. /\ Outside(i) <=> (IF document[i].kind = "fence" THEN ~ Outside(i - 1) ELSE Outside(i - 1))
        /\ Section(i) = IF document[i].kind = "heading" /\ Outside(i) THEN document[i].text ELSE Section(i - 1)
    BY OutsideSteps, SectionSteps
  <2>6. CASE document[i].kind = "fence"
    <3>1. Scan(done, i) = [done EXCEPT !.fenced = ~ @]
      BY <2>6 DEF Scan
    <3> DEFINE open == ~ done.fenced
    <3>2. open \in BOOLEAN /\ (open <=> ~ Outside(i)) /\ Section(i) = Section(i - 1)
      BY <2>4, <2>5, <2>6
    <3>3. Scan(done, i) = [done EXCEPT !.fenced = open]
      BY <3>1
    <3> HIDE DEF open
    <3>4. Scan(done, i) = [section |-> Section(i), fenced |-> open, clauses |-> done.clauses, parents |-> done.parents]
      BY <2>4, <3>2, <3>3
    <3>5. Scan(done, i).fenced = open
      BY <3>4
    <3> QED
      BY <2>3, <3>2, <3>4, <3>5
  <2>7. CASE document[i].kind # "fence" /\ done.fenced
    <3>1. Scan(done, i) = done
      BY <2>7 DEF Scan
    <3>2. ~ Outside(i) /\ Section(i) = Section(i - 1)
      BY <2>4, <2>5, <2>7
    <3> QED
      BY <2>3, <2>4, <2>7, <3>1, <3>2
  <2>8. CASE document[i].kind = "heading" /\ ~ done.fenced
    <3>1. Scan(done, i) = [done EXCEPT !.section = document[i].text]
      BY <2>8 DEF Scan
    <3>2. Outside(i) /\ Section(i) = document[i].text
      BY <2>4, <2>5, <2>8
    <3>3. Scan(done, i) = [section |-> Section(i), fenced |-> done.fenced, clauses |-> done.clauses, parents |-> done.parents]
      BY <2>4, <3>1, <3>2
    <3>4. Scan(done, i).fenced = done.fenced
      BY <3>3
    <3> QED
      BY <2>3, <2>4, <2>8, <3>2, <3>3, <3>4
  <2>9. CASE document[i].kind = "blank" /\ ~ done.fenced
    <3>1. Scan(done, i) = done
      BY <2>9 DEF Scan
    <3>2. Outside(i) /\ Section(i) = Section(i - 1)
      BY <2>4, <2>5, <2>9
    <3> QED
      BY <2>3, <2>4, <2>9, <3>1, <3>2
  <2>10. document[i].kind = "text" => ~ Outside(i - 1)
    BY <1>2, <2>5
  <2>11. document[i].kind \in {"heading", "blank", "fence", "text"}
    BY DocumentFacts, LineKinds
  <2> QED
    BY <2>4, <2>6, <2>7, <2>8, <2>9, <2>10, <2>11
<1> QED
  BY <1>1, <1>2

\* The inventory of a scanned specification.
Listed(s) ==
    UNION {{[key |-> <<p.key[1], document[j].text>>, line |-> j, mandatory |-> TRUE] : j \in Items(p)} : p \in s.parents}
Listing(s) ==
    LET listed == Listed(s)
        last == {c \in listed : \A d \in listed : d.key = c.key => d.line <= c.line}
    IN  {c \in s.clauses : \A d \in listed : d.key # c.key} \cup last

LEMMA TheScan ==
    ASSUME document \in Seq(Lines)
    PROVE  \E s : Kept(s, Len(document)) /\ Inventory = Listing(s)
<1> DEFINE scan == CHOOSE s : IsScan(s, Len(document))
           T == {n \in Nat : n <= Len(document) => Kept(scan[n], n)}
<1>1. Inventory = Listing(scan[Len(document)])
  BY DEF Inventory, Listing, Listed, IsScan
<1>2. IsScan(scan, Len(document))
  BY ScanExists, DocumentFacts
<1> HIDE DEF scan
<1>3. 0 \in T
  <2>1. scan[0] = Scanned
    BY <1>2, DocumentFacts DEF IsScan
  <2>2. Kept(Scanned, 0)
    <3>1. 1 .. 0 = {}
      OBVIOUS
    <3> QED
      BY <3>1, OutsideSteps, SectionSteps DEF Kept, Scanned
  <2> QED
    BY <2>1, <2>2
<1>4. ASSUME NEW n \in Nat, n \in T PROVE n + 1 \in T
  <2> SUFFICES ASSUME n + 1 <= Len(document) PROVE Kept(scan[n + 1], n + 1)
    OBVIOUS
  <2>1. n + 1 \in DOMAIN document /\ n + 1 \in 0 .. Len(document) /\ n + 1 # 0 /\ (n + 1) - 1 = n /\ n <= Len(document)
    BY DocumentFacts
  <2>2. scan[n + 1] = Scan(scan[n], n + 1)
    BY <1>2, <2>1 DEF IsScan
  <2>3. Kept(scan[n], (n + 1) - 1)
    BY <1>4, <2>1
  <2> QED
    BY <2>1, <2>2, <2>3, ScanKept
<1> HIDE DEF T
<1>5. Nat \subseteq T
  BY <1>3, <1>4, Induction
<1>6. Kept(scan[Len(document)], Len(document))
  BY <1>5, DocumentFacts DEF T
<1> QED
  BY <1>1, <1>6

\* The items of a list are obligations of the section of the line that
\* introduces it.
ListedFrom(p, j) ==
    /\ Introduces(p) /\ p < j /\ document[j].item
    /\ \A k \in p + 1 .. j : document[k].item \/ document[k].kind = "blank"

LEMMA TheObligations ==
    ASSUME document \in Seq(Lines)
    PROVE  Obligations = {i \in DOMAIN document : Keyword(i) \/ \E p \in DOMAIN document : ListedFrom(p, i)}
<1>1. ASSUME NEW i \in DOMAIN document
      PROVE  (document[i].item /\ \E p \in 1 .. i - 1 :
                 /\ Keyword(p) /\ document[p].colon
                 /\ \A k \in p + 1 .. i : document[k].item \/ document[k].kind = "blank")
             <=> \E p \in DOMAIN document : ListedFrom(p, i)
  BY DocumentFacts DEF ListedFrom, Introduces
<1> QED
  BY <1>1 DEF Obligations

LEMMA ListedFacts ==
    ASSUME document \in Seq(Lines), NEW s, Kept(s, Len(document))
    PROVE  /\ \A c \in Listed(s) : \E j \in DOMAIN document :
                 /\ j \in Obligations
                 /\ c = [key |-> LineKey(j), line |-> j, mandatory |-> TRUE]
           /\ \A p, j \in DOMAIN document : ListedFrom(p, j) => \E c \in Listed(s) : c.key = LineKey(j)
<1>0. ASSUME NEW p \in DOMAIN document, NEW c, Tells(c, p), Introduces(p)
      PROVE  /\ \A j : j \in Items(c) <=> (j \in DOMAIN document /\ ListedFrom(p, j))
             /\ \A j \in Items(c) : <<c.key[1], document[j].text>> = LineKey(j)
  <2>1. c.line = p /\ c.key[1] = Section(p)
    BY <1>0 DEF Tells, LineKey
  <2>2. \A j : j \in Items(c) <=> (j \in DOMAIN document /\ ListedFrom(p, j))
    BY <1>0, <2>1, DocumentFacts DEF Items, ListedFrom
  <2>3. ASSUME NEW j \in Items(c) PROVE Section(j) = Section(p)
    BY <2>2, <2>3, DocumentFacts, ListsStay DEF ListedFrom
  <2> QED
    BY <2>1, <2>2, <2>3 DEF LineKey
<1>1. ASSUME NEW c \in Listed(s)
      PROVE  \E j \in DOMAIN document :
                 j \in Obligations /\ c = [key |-> LineKey(j), line |-> j, mandatory |-> TRUE]
  <2>1. PICK q \in s.parents : \E j \in Items(q) :
           c = [key |-> <<q.key[1], document[j].text>>, line |-> j, mandatory |-> TRUE]
    BY <1>1 DEF Listed
  <2>2. PICK j \in Items(q) : c = [key |-> <<q.key[1], document[j].text>>, line |-> j, mandatory |-> TRUE]
    BY <2>1
  <2>3. PICK p \in DOMAIN document : Introduces(p) /\ Tells(q, p)
    BY DocumentFacts DEF Kept
  <2>4. j \in DOMAIN document /\ ListedFrom(p, j) /\ <<q.key[1], document[j].text>> = LineKey(j)
    BY <1>0, <2>3
  <2>5. j \in Obligations
    BY <2>4, TheObligations
  <2> QED
    BY <2>2, <2>4, <2>5
<1>2. ASSUME NEW p \in DOMAIN document, NEW j \in DOMAIN document, ListedFrom(p, j)
      PROVE  \E c \in Listed(s) : c.key = LineKey(j)
  <2>1. PICK q \in s.parents : Tells(q, p)
    BY <1>2, DocumentFacts DEF Kept, ListedFrom
  <2>2. j \in Items(q) /\ <<q.key[1], document[j].text>> = LineKey(j)
    BY <1>0, <1>2, <2>1 DEF ListedFrom
  <2> DEFINE c == [key |-> <<q.key[1], document[j].text>>, line |-> j, mandatory |-> TRUE]
  <2>3. c.key = LineKey(j)
    BY <2>2
  <2>4. c \in {[key |-> <<q.key[1], document[k].text>>, line |-> k, mandatory |-> TRUE] : k \in Items(q)}
    BY <2>2
  <2> HIDE DEF c
  <2>5. c \in Listed(s)
    BY <2>4 DEF Listed
  <2> QED
    BY <2>3, <2>5
<1> QED
  BY <1>1, <1>2

\* Prose of one section and one text is mandatory everywhere or nowhere.
LEMMA OneText ==
    ASSUME document \in Seq(Lines), NEW i \in DOMAIN document, NEW j \in DOMAIN document,
           Prose(i), Prose(j), LineKey(i) = LineKey(j)
    PROVE  Keyword(i) <=> Keyword(j)
<1>1. Section(i) = Section(j) /\ document[i].text = document[j].text
  BY DEF LineKey
<1>2. document[i] = document[j]
  BY <1>1, SameText DEF Prose
<1> QED
  BY <1>1, <1>2 DEF Keyword, Prose

\* The inventory has one clause of a key, at a line of that key, and the keys
\* of its mandatory clauses are those of the obligations.
LEMMA InventoryFacts ==
    ASSUME document \in Seq(Lines)
    PROVE  /\ \A c \in Inventory : c.line \in DOMAIN document /\ c.key = LineKey(c.line)
           /\ \A c, d \in Inventory : c.key = d.key => c = d
           /\ \A c \in Inventory : c.mandatory => \E i \in Obligations : c.key = LineKey(i)
           /\ \A i \in Obligations : \E c \in Inventory : c.mandatory /\ c.key = LineKey(i)
<1>1. PICK s : Kept(s, Len(document)) /\ Inventory = Listing(s)
  BY TheScan
<1> DEFINE listed == Listed(s)
           last == {c \in listed : \A d \in listed : d.key = c.key => d.line <= c.line}
           prose == {c \in s.clauses : \A d \in listed : d.key # c.key}
<1>2. Inventory = prose \cup last
  BY <1>1 DEF Listing
<1>3. ASSUME NEW c \in s.clauses
      PROVE  \E i \in DOMAIN document : Prose(i) /\ Tells(c, i)
  BY <1>1, DocumentFacts DEF Kept
<1>4. ASSUME NEW c \in listed
      PROVE  \E j \in Obligations : j \in DOMAIN document /\ c = [key |-> LineKey(j), line |-> j, mandatory |-> TRUE]
  BY <1>1, ListedFacts
<1> HIDE DEF listed
<1>5. ASSUME NEW c \in Inventory PROVE c.line \in DOMAIN document /\ c.key = LineKey(c.line)
  <2>1. CASE c \in s.clauses
    <3>1. PICK i \in DOMAIN document : Tells(c, i)
      BY <1>3, <2>1
    <3>2. c.line = i /\ c.key = LineKey(i)
      BY <3>1 DEF Tells
    <3> QED
      BY <3>2
  <2>2. CASE c \in listed
    BY <1>4, <2>2
  <2> QED
    BY <1>2, <1>5, <2>1, <2>2
<1>6. ASSUME NEW c \in Inventory, NEW d \in Inventory, c.key = d.key PROVE c = d
  <2>1. CASE c \in prose
    <3>1. d \in prose
      BY <1>2, <1>6, <2>1
    <3> QED
      BY <1>1, <1>6, <2>1, <3>1 DEF Kept
  <2>2. CASE c \in last
    <3>1. d \in last
      BY <1>2, <1>6, <2>2
    <3>2. PICK i \in DOMAIN document : c = [key |-> LineKey(i), line |-> i, mandatory |-> TRUE]
      BY <1>4, <2>2
    <3>3. PICK j \in DOMAIN document : d = [key |-> LineKey(j), line |-> j, mandatory |-> TRUE]
      BY <1>4, <3>1
    <3>4. d.line <= c.line /\ c.line <= d.line
      BY <1>6, <2>2, <3>1
    <3>5. i = j
      BY <3>2, <3>3, <3>4, DocumentFacts
    <3> QED
      BY <3>2, <3>3, <3>5
  <2> QED
    BY <1>2, <1>6, <2>1, <2>2
<1>7. ASSUME NEW c \in Inventory, c.mandatory PROVE \E i \in Obligations : c.key = LineKey(i)
  <2>1. CASE c \in s.clauses
    <3>1. PICK i \in DOMAIN document : Tells(c, i)
      BY <1>3, <2>1
    <3>2. Keyword(i) /\ c.key = LineKey(i)
      BY <1>7, <3>1 DEF Tells
    <3> QED
      BY <3>2, TheObligations
  <2>2. CASE c \in listed
    <3>1. PICK j \in Obligations : c = [key |-> LineKey(j), line |-> j, mandatory |-> TRUE]
      BY <1>4, <2>2
    <3> QED
      BY <3>1
  <2> QED
    BY <1>2, <1>7, <2>1, <2>2
<1>8. ASSUME NEW key, \E d \in listed : d.key = key
      PROVE  \E c \in last : c.mandatory /\ c.key = key
  <2> DEFINE lines == {i \in DOMAIN document : \E d \in listed : d.key = key /\ d.line = i}
             above == {n \in Nat : \A i \in lines : i <= n}
  <2>1. \A d \in listed : d.line \in DOMAIN document
    BY <1>4
  <2>2. lines # {}
    BY <1>8, <2>1
  <2>3. Len(document) \in above
    BY DocumentFacts
  <2>4. PICK top \in above : \A m \in above : top <= m
    BY <2>3, Least
  <2>5. top \in lines
    <3> SUFFICES ASSUME ~ (top \in lines) PROVE FALSE
      OBVIOUS
    <3>1. \A i \in lines : i \in Nat /\ i >= 1 /\ i <= top
      BY DocumentFacts, <2>4
    <3>2. \A i \in lines : i <= top - 1
      BY <3>1
    <3>3. top - 1 \in Nat
      BY <2>2, <2>4, <3>1
    <3>4. top - 1 \in above
      BY <3>2, <3>3
    <3> HIDE DEF above, lines
    <3>5. top <= top - 1
      BY <2>4, <3>4
    <3>6. ~ (top - 1 + 1 <= top - 1)
      BY <3>3
    <3>7. top = top - 1 + 1
      BY <2>4 DEF above
    <3> QED
      BY <3>5, <3>6, <3>7
  <2>6. PICK c \in listed : c.key = key /\ c.line = top
    BY <2>5
  <2>7. \A d \in listed : d.key = key => d.line <= top
    BY <2>1, <2>4
  <2>8. c \in last
    BY <2>6, <2>7
  <2>9. c.mandatory
    <3>1. PICK j \in Obligations : c = [key |-> LineKey(j), line |-> j, mandatory |-> TRUE]
      BY <1>4, <2>6
    <3> QED
      BY <3>1
  <2> QED
    BY <2>6, <2>8, <2>9
<1>9. ASSUME NEW i \in Obligations PROVE \E c \in Inventory : c.mandatory /\ c.key = LineKey(i)
  <2>0. i \in DOMAIN document
    BY TheObligations
  <2>1. CASE \E d \in listed : d.key = LineKey(i)
    <3>1. PICK c \in last : c.mandatory /\ c.key = LineKey(i)
      BY <1>8, <2>1
    <3> QED
      BY <1>2, <3>1
  <2>2. CASE \A d \in listed : d.key # LineKey(i)
    <3>1. Keyword(i)
      BY <1>1, <2>0, <2>2, TheObligations, ListedFacts DEF listed
    <3>2. Prose(i)
      BY <2>0, <3>1, DocumentFacts, LineKinds DEF Keyword, Prose
    <3>3. PICK c \in s.clauses : c.key = LineKey(i)
      BY <1>1, <2>0, <3>2, DocumentFacts DEF Kept
    <3>4. PICK k \in DOMAIN document : Prose(k) /\ Tells(c, k)
      BY <1>3
    <3>5. LineKey(k) = LineKey(i)
      BY <3>3, <3>4 DEF Tells
    <3>6. Keyword(k)
      BY <2>0, <3>1, <3>2, <3>4, <3>5, OneText
    <3>7. c.mandatory /\ c \in prose
      BY <2>2, <3>3, <3>4, <3>6 DEF Tells
    <3> QED
      BY <1>2, <3>3, <3>7
  <2> QED
    BY <2>1, <2>2
<1> QED
  BY <1>5, <1>6, <1>7, <1>9

\* Thus there are as many mandatory clauses as keys of obligations.
LEMMA ClausesCounted ==
    ASSUME document \in Seq(Lines)
    PROVE  Cardinality({c \in Inventory : c.mandatory}) = Cardinality({LineKey(i) : i \in Obligations})
<1> DEFINE clauses == {c \in Inventory : c.mandatory}
           keys == {LineKey(i) : i \in Obligations}
           key == [c \in clauses |-> c.key]
<1>1. /\ \A c \in clauses : c.key \in keys
      /\ \A c, d \in clauses : c.key = d.key => c = d
      /\ \A k \in keys : \E c \in clauses : c.key = k
  BY InventoryFacts
<1>2. IsFiniteSet(keys)
  <2>1. IsFiniteSet(DOMAIN document)
    BY DocumentFacts, FS_Interval
  <2>2. Obligations \subseteq DOMAIN document
    BY DEF Obligations
  <2>3. IsFiniteSet(Obligations)
    BY <2>1, <2>2, FS_Subset
  <2> DEFINE told == [i \in Obligations |-> LineKey(i)]
  <2>4. told \in Surjection(Obligations, keys)
    <3>1. told \in [Obligations -> keys] /\ \A k \in keys : \E i \in Obligations : told[i] = k
      OBVIOUS
    <3> HIDE DEF told, keys
    <3> QED
      BY <3>1 DEF Surjection
  <2> HIDE DEF told, keys
  <2> QED
    BY <2>3, <2>4, FS_Surjection
<1> HIDE DEF clauses, keys
<1>3. key \in Bijection(clauses, keys)
  <2>1. key \in [clauses -> keys]
    BY <1>1
  <2>2. \A c, d \in clauses : key[c] = key[d] => c = d
    BY <1>1
  <2>3. \A k \in keys : \E c \in clauses : key[c] = k
    BY <1>1
  <2> HIDE DEF key
  <2> QED
    BY <2>1, <2>2, <2>3 DEF Bijection, Injection, IsInjective, Surjection
<1> HIDE DEF key
<1>4. Cardinality(keys) = Cardinality(clauses)
  <2>1. ExistsBijection(clauses, keys)
    BY <1>3 DEF ExistsBijection
  <2>2. ExistsBijection(keys, clauses)
    BY <2>1, Fun_ExistsBijSymmetric
  <2> QED
    BY <1>2, <2>2, FS_Bijection
<1> QED
  BY <1>4 DEF clauses, keys

\* The specification stays a sequence of lines, and after an audit that
\* succeeded the map of it has no error and the report shows it.
AuditInv ==
    /\ document \in Seq(Lines)
    /\ auditExit = "0" => Errors(Inventory) = {} /\ report = Rendered(Inventory)

LEMMA AuditInitially == AuditInit => AuditInv
<1> SUFFICES ASSUME AuditInit PROVE AuditInv
  OBVIOUS
<1>1. document \in BoundedSeq(Lines, MaxLines) /\ auditExit = "none"
  BY DEF AuditInit
<1>2. PICK m \in 0 .. MaxLines : document \in [1 .. m -> Lines]
  BY <1>1 DEF BoundedSeq, SeqOf
<1>3. m \in Nat
  BY <1>2, LinesAssumption
<1>4. document \in Seq(Lines)
  BY <1>2, <1>3
<1> QED
  BY <1>1, <1>4 DEF AuditInv

LEMMA AuditKept == AuditInv /\ [AuditNext]_auditVars => AuditInv'
<1> SUFFICES ASSUME AuditInv, [AuditNext]_auditVars PROVE AuditInv'
  OBVIOUS
<1>1. CASE AuditRuns
  <2>1. UNCHANGED <<document, rows, present>>
    BY <1>1 DEF AuditRuns
  <2>2. Inventory' = Inventory
    BY <2>1 DEF Inventory, Items, Scan, Scanned
  <2>4. auditExit' = "0" => Errors(Inventory) = {} /\ report' = Rendered(Inventory)
    <3>1. PICK write \in BOOLEAN :
             /\ auditExit' = IF Errors(Inventory) = {} /\ (write \/ report = Rendered(Inventory)) THEN "0" ELSE "1"
             /\ report' = IF Errors(Inventory) = {} /\ write THEN Rendered(Inventory) ELSE report
      BY <1>1 DEF AuditRuns
    <3> QED
      BY <3>1
  <2>5. Errors(Inventory)' = Errors(Inventory) /\ Rendered(Inventory)' = Rendered(Inventory)
    BY <2>1, <2>2 DEF Errors, Located, Rendered
  <2> QED
    BY <2>1, <2>4, <2>5 DEF AuditInv
<1>2. CASE MapLine \/ DropTests
  <2>1. document' = document /\ auditExit' = "none"
    BY <1>2 DEF MapLine, DropTests
  <2> QED
    BY <2>1 DEF AuditInv
<1>3. CASE DropLine
  <2>1. PICK i \in DOMAIN document : document' = RemoveAt(document, i)
    BY <1>3 DEF DropLine
  <2>2. RemoveAt(document, i) \in Seq(Lines)
    <3>1. document \in Seq(Lines) /\ i \in 1 .. Len(document) /\ Len(document) \in Nat
      BY DocumentFacts DEF AuditInv
    <3>2. SubSeq(document, 1, i - 1) \in Seq(Lines) /\ SubSeq(document, i + 1, Len(document)) \in Seq(Lines)
      BY <3>1
    <3> QED
      BY <3>2 DEF RemoveAt
  <2>3. auditExit' = "none"
    BY <1>3 DEF DropLine
  <2> QED
    BY <2>1, <2>2, <2>3 DEF AuditInv
<1>4. CASE UNCHANGED auditVars
  <2>1. UNCHANGED <<document, rows, present, report, auditExit>>
    BY <1>4 DEF auditVars
  <2>2. Inventory' = Inventory
    BY <2>1 DEF Inventory, Items, Scan, Scanned
  <2>3. Errors(Inventory)' = Errors(Inventory) /\ Rendered(Inventory)' = Rendered(Inventory)
    BY <2>1, <2>2 DEF Errors, Located, Rendered
  <2> QED
    BY <2>1, <2>3 DEF AuditInv
<1> QED
  BY <1>1, <1>2, <1>3, <1>4 DEF AuditNext

LEMMA AuditSuffices == AuditInv => AuditIsComplete
<1> SUFFICES ASSUME AuditInv, auditExit = "0" PROVE AuditIsComplete
  BY DEF AuditIsComplete
<1> DEFINE keys == {<<Section(i), document[i].text>> : i \in Obligations}
<1>1. /\ document \in Seq(Lines)
      /\ Errors(Inventory) = {}
      /\ report = Rendered(Inventory)
  BY DEF AuditInv
<1>2. keys = {LineKey(i) : i \in Obligations}
  BY DEF LineKey
<1>3. /\ {r \in rows : \E q \in rows \ {r} : q.key = r.key} = {}
      /\ {r \in rows : ~ Located(r)} = {}
      /\ {r \in rows : r.status = "tested" /\ r.evidence # {"positive", "negative"}} = {}
      /\ {c \in Inventory : c.mandatory /\ \A r \in rows : r.key # c.key} = {}
  <2> DEFINE doubled == {r \in rows : \E q \in rows \ {r} : q.key = r.key}
             lost == {r \in rows : ~ Located(r)}
             onesided == {r \in rows : r.status = "tested" /\ r.evidence # {"positive", "negative"}}
             unmapped == {c \in Inventory : c.mandatory /\ \A r \in rows : r.key # c.key}
  <2>1. /\ {<<"duplicate", r>> : r \in doubled} \subseteq Errors(Inventory)
        /\ {<<"test not found", r>> : r \in lost} \subseteq Errors(Inventory)
        /\ {<<"one-sided", r>> : r \in onesided} \subseteq Errors(Inventory)
        /\ {<<"unmapped", c>> : c \in unmapped} \subseteq Errors(Inventory)
    <3> HIDE DEF doubled, lost, onesided, unmapped
    <3> DEFINE stale == {r \in rows : \A c \in Inventory : c.key # r.key}
    <3>1. Errors(Inventory) = {<<"stale quote", r>> : r \in stale} \cup {<<"duplicate", r>> : r \in doubled} \cup
                              {<<"test not found", r>> : r \in lost} \cup {<<"one-sided", r>> : r \in onesided} \cup
                              {<<"unmapped", c>> : c \in unmapped}
      BY DEF Errors, doubled, lost, onesided, unmapped
    <3> HIDE DEF stale
    <3> QED
      BY <3>1
  <2> HIDE DEF doubled, lost, onesided, unmapped
  <2>2. doubled = {} /\ lost = {} /\ onesided = {} /\ unmapped = {}
    BY <1>1, <2>1
  <2> QED
    BY <2>2 DEF doubled, lost, onesided, unmapped
<1>4. ASSUME NEW key \in keys PROVE Cardinality({r \in rows : r.key = key}) = 1
  <2>1. PICK c \in Inventory : c.mandatory /\ c.key = key
    BY <1>1, <1>2, InventoryFacts
  <2>2. PICK r \in rows : r.key = key
    BY <1>3, <2>1
  <2>3. {q \in rows : q.key = key} = {r}
    BY <1>3, <2>2
  <2> QED
    BY <2>3, FS_Singleton
<1>5. ASSUME NEW r \in rows
      PROVE  (r.evidence = {} \/ present) /\ (r.status = "tested" => Cardinality(r.evidence) = 2)
  <2>1. r.evidence = {} \/ present
    BY <1>3 DEF Located
  <2>2. Cardinality({"positive", "negative"}) = 2
    <3>1. IsFiniteSet({"positive"}) /\ Cardinality({"positive"}) = 1
      BY FS_Singleton
    <3>2. Cardinality({"positive"} \cup {"negative"}) = Cardinality({"positive"}) + 1
      BY <3>1, FS_AddElement
    <3>3. {"positive"} \cup {"negative"} = {"positive", "negative"}
      OBVIOUS
    <3> QED
      BY <3>1, <3>2, <3>3
  <2>3. r.status = "tested" => r.evidence = {"positive", "negative"}
    BY <1>3
  <2> QED
    BY <2>1, <2>2, <2>3
<1>6. report.mandatory = Cardinality(keys)
  <2> DEFINE mapped == {c \in Inventory : \E r \in rows : r.key = c.key}
  <2>1. report.mandatory = Cardinality({c \in mapped : c.mandatory})
    BY <1>1 DEF Rendered
  <2>2. {c \in mapped : c.mandatory} = {c \in Inventory : c.mandatory}
    BY <1>3
  <2> QED
    BY <1>1, <1>2, <2>1, <2>2, ClausesCounted
<1>7. \A c \in report.clauses : <<Section(c.line), document[c.line].text>> = c.key
  <2>1. report.clauses \subseteq Inventory
    BY <1>1 DEF Rendered
  <2> QED
    BY <1>1, <2>1, InventoryFacts DEF LineKey
<1> QED
  BY <1>4, <1>5, <1>6, <1>7 DEF AuditIsComplete

\* An audit of a specification of any length that exits 0 has seen each of its
\* obligations, lists included: every one is mapped once, to tests that exist,
\* and the report counts them all.
THEOREM AuditsAreComplete == AuditSpec => []AuditIsComplete
<1>1. AuditInit => AuditInv
  BY AuditInitially
<1>2. AuditInv /\ [AuditNext]_auditVars => AuditInv'
  BY AuditKept
<1>3. AuditInv => AuditIsComplete
  BY AuditSuffices
<1> QED
  BY <1>1, <1>2, <1>3, PTL DEF AuditSpec
===============================================================================
