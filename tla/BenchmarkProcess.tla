-------------------------- MODULE BenchmarkProcess --------------------------
(* tools/benchmark.py run_process and tools/benchmark_process.py: one        *)
(* measured command.  On Linux a small launcher, in a session of its own,    *)
(* forks the command, reaps it and writes its resource usage to a file the   *)
(* benchmark reads; elsewhere the benchmark owns the command itself.         *)

VARIABLES
    direct,    \* not on Linux: no launcher
    parent,    \* the benchmark: where run_process is, or how it ended
    launcher,  \* benchmark_process.main, "zombie0" or "zombie1" when it has exited
    child,     \* the measured command
    end,       \* how the command ended
    metrics,   \* what the launcher wrote: how the command ended, and timed_out
    abandoned  \* the launcher was killed from outside, or an interrupt hit
               \* the benchmark between Popen and its try

processVars == <<direct, parent, launcher, child, end, metrics, abandoned>>

Live == {"forked", "running"}                          \* of the command
Supervising == {"started", "reading", "polling", "measured"}  \* of the launcher

ProcessInit ==
    /\ direct \in BOOLEAN
    /\ parent = "launch" /\ launcher = "none" /\ child = "none" /\ end = "none"
    /\ metrics = [end |-> "none", timedOut |-> FALSE] /\ abandoned = FALSE

\* The command is killed and waited for; it may have ended by itself before.
Slain ==
    /\ child' = IF child = "none" THEN "none" ELSE "reaped"
    /\ end' = IF child \in Live THEN "killed" ELSE end

----------------------------------------------------------------------------
(* The command.                                                              *)

\* It replaces the forked image; or cannot, reports the errno and exits.
Exec ==
    /\ child = "forked"
    /\ \/ child' = "running" /\ UNCHANGED end
       \/ child' = "zombie" /\ end' = "errno"
    /\ UNCHANGED <<direct, parent, launcher, metrics, abandoned>>

CommandEnds ==
    /\ child = "running"
    /\ child' = "zombie" /\ end' = "exited"
    /\ UNCHANGED <<direct, parent, launcher, metrics, abandoned>>

----------------------------------------------------------------------------
(* The launcher.                                                             *)

Fork ==
    /\ launcher = "started"
    /\ launcher' = "reading" /\ child' = "forked"
    /\ UNCHANGED <<direct, parent, end, metrics, abandoned>>

\* The pipe of the exec error ends when the command is executed or has failed.
ExecReported ==
    /\ launcher = "reading" /\ child # "forked"
    /\ launcher' = "polling"
    /\ UNCHANGED <<direct, parent, child, end, metrics, abandoned>>

PollReaps ==
    /\ launcher = "polling" /\ child = "zombie"
    /\ launcher' = "measured" /\ child' = "reaped"
    /\ UNCHANGED <<direct, parent, end, metrics, abandoned>>

\* The command's own timeout.  It may end between the poll and the kill.
TimesOut ==
    /\ launcher = "polling"
    /\ launcher' = "measured" /\ metrics' = [metrics EXCEPT !.timedOut = TRUE]
    /\ Slain
    /\ UNCHANGED <<direct, parent, abandoned>>

WriteMetrics ==
    /\ launcher = "measured"
    /\ launcher' = "zombie0" /\ metrics' = [metrics EXCEPT !.end = end]
    /\ UNCHANGED <<direct, parent, child, end, abandoned>>

\* An error in the launcher: the command is killed first, if there is one.
LauncherRaises ==
    /\ launcher \in Supervising
    /\ launcher' = "zombie1"
    /\ Slain
    /\ UNCHANGED <<direct, parent, metrics, abandoned>>

\* The system kills the launcher.
LauncherKilled ==
    /\ launcher \in Supervising
    /\ launcher' = "zombie1" /\ abandoned' = TRUE
    /\ UNCHANGED <<direct, parent, child, end, metrics>>

----------------------------------------------------------------------------
(* The benchmark.                                                            *)

\* Popen; an interrupt may come before the try that follows it.
Popen ==
    /\ parent = "launch"
    /\ \/ parent' = "polling" /\ UNCHANGED abandoned
       \/ parent' = "raised" /\ abandoned' = TRUE
    /\ IF direct THEN child' = "running" /\ UNCHANGED launcher
       ELSE launcher' = "started" /\ UNCHANGED child
    /\ UNCHANGED <<direct, end, metrics>>

PopenFails ==
    /\ parent = "launch"
    /\ parent' = "raised"
    /\ UNCHANGED <<direct, launcher, child, end, metrics, abandoned>>

\* wait4 returns the process that Popen started.
ProcessReaped ==
    /\ parent = "polling"
    /\ IF direct
       THEN child = "zombie" /\ child' = "reaped" /\ parent' = "sample" /\ UNCHANGED launcher
       ELSE /\ launcher \in {"zombie0", "zombie1"} /\ launcher' = "reaped"
            /\ parent' = IF launcher = "zombie0" THEN "reading" ELSE "raised"
            /\ UNCHANGED child
    /\ UNCHANGED <<direct, end, metrics, abandoned>>

\* Slip: the launcher is killed, not its group.
AbortLauncherOnly ==
    /\ parent = "polling"
    /\ parent' = "raised"
    /\ IF direct THEN Slain /\ UNCHANGED launcher
       ELSE launcher' = "reaped" /\ UNCHANGED <<child, end>>
    /\ UNCHANGED <<direct, metrics, abandoned>>

\* The deadline (five seconds behind the launcher's) or an interrupt: the
\* process is killed, on Linux with its group, and reaped.
Abort ==
    /\ parent = "polling"
    /\ parent' = "raised"
    /\ launcher' = IF direct THEN launcher ELSE "reaped"
    /\ Slain
    /\ UNCHANGED <<direct, metrics, abandoned>>

\* The metrics are valid and say that the command was executed and was in time.
ReadMetrics ==
    /\ parent = "reading"
    /\ parent' = IF metrics.end = "errno" \/ metrics.timedOut THEN "raised" ELSE "sample"
    /\ UNCHANGED <<direct, launcher, child, end, metrics, abandoned>>

MeasurementOver ==
    /\ parent \in {"sample", "raised"} /\ child \notin Live /\ launcher \notin Supervising
    /\ UNCHANGED processVars

ProcessNext ==
    \/ Exec \/ CommandEnds
    \/ Fork \/ ExecReported \/ PollReaps \/ TimesOut \/ WriteMetrics \/ LauncherRaises \/ LauncherKilled
    \/ Popen \/ PopenFails \/ ProcessReaped \/ Abort \/ ReadMetrics \/ MeasurementOver

----------------------------------------------------------------------------
\* A command that runs always has somebody at work who will reap it or kill it
\* (unless the system took the launcher away or an interrupt came before the
\* benchmark's try), however its end, its timeout, the launcher's errors and
\* the benchmark's deadline interleave; and a sample is of a command that was
\* executed, ended by itself and was reaped by the process that measured it.
CommandHasAnOwner ==
    /\ child \in Live =>
          \/ launcher \in Supervising
          \/ direct /\ parent = "polling"
          \/ abandoned
    /\ parent = "sample" => child = "reaped" /\ end = "exited" /\ ~ metrics.timedOut
=============================================================================
