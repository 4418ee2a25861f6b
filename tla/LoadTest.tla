------------------------------ MODULE LoadTest ------------------------------
(* The load test of the reference service (loadtest/load.py) against the     *)
(* service's contract: workers that read and increment one user, readers of  *)
(* the event stream, a sampler that looks into the database, and a ledger    *)
(* that reconciles acknowledged updates with delivered events.  The service  *)
(* may break its contract a bounded number of times.                         *)
(*                                                                           *)
(* Request k is the k-th that is dispatched, so the count of dispatches      *)
(* serves as the clock: what arrived when n were dispatched arrived before   *)
(* request k was iff n < k.                                                  *)
EXTENDS Naturals, Sequences, FiniteSets

CONSTANTS
    Workers,     \* the worker tasks (--connections)
    Duration,    \* TRUE with --duration: then RequestCount is a bound of the model
    RequestCount, \* --requests
    Streams,     \* the largest --sse-connections
    WriteEvery,  \* --write-every
    MaxPending,  \* MAX_PENDING_EVENTS, 8192 in the code
    MaxFaults    \* bound: what goes wrong in the service and the network, per number of streams

ASSUME LoadAssumption ==
    /\ RequestCount \in Nat /\ Streams \in Nat /\ MaxPending \in Nat /\ Duration \in BOOLEAN
    /\ MaxFaults \in [0 .. Streams -> Nat]
    /\ WriteEvery \in Nat \ {0, 1}

Numbers == 1 .. RequestCount
StreamIds == RequestCount + 1 .. RequestCount + Streams
IsWrite(k) == k % WriteEvery = 0
Asked(k) ==
    IF k \in StreamIds THEN [route |-> "events", known |-> TRUE]
    ELSE [route |-> IF IsWrite(k) THEN "update" ELSE "read", known |-> TRUE]

VARIABLES
    \* the service, as its contract describes it
    asks, ledger, looked, answer, delivered,
    rowsLost,  \* updates committed without an event row
    faults,    \* how often the service or the network has failed
    \* the test
    phase,     \* of run
    streams,   \* --sse-connections
    expired,   \* the time of a duration run is over
    worker,    \* each worker: where it is, its request and the watermark it noted
    issued,    \* requests dispatched
    reader,    \* each stream's reader: whether it runs, the frames it has read
    events,    \* class Events
    sampler,   \* the sampler task, and the database thread it waits for
    stop,      \* the event that ends dispatching
    tally,     \* operations: attempted and succeeded, of reads and writes
    errors,    \* the operations errors were recorded for
    final,     \* database_final
    cancelled, \* run was cancelled from outside: it raises instead of reporting
    dbOpen,
    invented   \* history: events read before they happened, with the clock then

svars == <<asks, ledger, looked, answer, delivered, rowsLost>>
vars == <<asks, ledger, looked, answer, delivered, rowsLost, faults, phase, streams, expired,
          worker, issued, reader, events, sampler, stop, tally, errors, final, cancelled, dbOpen, invented>>

Service == INSTANCE ServiceContract WITH Clients <- Numbers \cup StreamIds, Past <- 0

Connected == RequestCount + 1 .. RequestCount + streams

Unknown == [balance |-> 0, rows |-> 0, taken |-> FALSE]

Init ==
    /\ Service!ContractInit /\ asks = [k \in Numbers \cup StreamIds |-> Asked(k)]
    /\ rowsLost = 0 /\ faults = 0
    /\ phase = "startup" /\ streams \in 0 .. Streams /\ expired = FALSE
    /\ worker = [w \in Workers |-> [at |-> "none", number |-> 0, watermark |-> 0]]
    /\ issued = 0
    /\ reader = [s \in StreamIds |-> [at |-> "none", read |-> 0]]
    /\ events = [last |-> [s \in StreamIds |-> 0], pending |-> <<>>,
                 floor |-> 0, max |-> 0, ahead |-> {}]
    /\ sampler = [task |-> "none", thread |-> FALSE]
    /\ stop = FALSE
    /\ tally = [attempted |-> [read |-> 0, write |-> 0], succeeded |-> [read |-> 0, write |-> 0]]
    /\ errors = {} /\ final = Unknown /\ cancelled = FALSE /\ dbOpen = TRUE
    /\ invented = {}

----------------------------------------------------------------------------
(* The service.                                                              *)

InFlight(k) == \E w \in Workers : worker[w].at = "waiting" /\ worker[w].number = k

\* The service keeps its contract, and its database is available.  A request
\* that was dispatched is handled also when its client gave up.
Serve ==
    /\ dbOpen
    /\ \/ \E k \in 1 .. issued : 
             \/ Service!Apply(k) \/ Service!Look(k)
             \/ Service!Answer(k) /\ answer'[k].status = "ok"
       \/ \E s \in Connected : Service!Deliver(s)
    /\ UNCHANGED <<rowsLost, faults, phase, streams, expired, worker, issued, reader, events,
                   sampler, stop, tally, errors, final, cancelled, dbOpen, invented>>

\* After n events: one repeated, invented, skipped, or with another balance.
Odd(n) == {[id |-> n, balance |-> n], [id |-> n + 1, balance |-> n + 1],
           [id |-> n + 2, balance |-> n + 2], [id |-> n + 1, balance |-> n + 2]}

\* The service breaks its contract: a false or repeated answer, an event that
\* is lost, repeated, invented or wrong, an update applied twice, a lost row.
\* What it does after the last sample is out of the test's sight.
Misbehave ==
    /\ faults < MaxFaults[streams] /\ ~ final.taken /\ dbOpen
    /\ faults' = faults + 1
    /\ \/ \E k \in 1 .. issued, b \in 0 .. Len(ledger) + 1 :
             /\ InFlight(k) /\ answer[k] = Service!NotYet
             /\ answer' = [answer EXCEPT ![k] = [status |-> "ok", balance |-> b]]
             /\ UNCHANGED <<ledger, looked, delivered, rowsLost>>
       \/ \E s \in Connected : \E event \in Odd(Len(delivered[s])) :
             /\ delivered' = [delivered EXCEPT ![s] = Append(@, event)]
             /\ UNCHANGED <<ledger, looked, answer, rowsLost>>
       \/ \E k \in 1 .. issued :
             /\ IsWrite(k) /\ answer[k] = Service!NotYet
             /\ ledger' = Append(ledger, k)
             /\ UNCHANGED <<looked, answer, delivered, rowsLost>>
       \/ /\ Len(ledger) > 0
          /\ rowsLost' = 1
          /\ UNCHANGED <<ledger, looked, answer, delivered>>
    /\ UNCHANGED <<asks, phase, streams, expired, worker, issued, reader, events, sampler, stop,
                   tally, errors, final, cancelled, dbOpen, invented>>

----------------------------------------------------------------------------
(* class Events.  A result is the ledger afterwards and whether it raised.   *)

\* What is known of event i: whether and for which request it was acknowledged,
\* the streams it arrived on, and the arrivals not yet compared with the start.
Known(e, i) ==
    IF i \in DOMAIN e.pending THEN e.pending[i]
    ELSE [acked |-> FALSE, start |-> 0, seen |-> {}, fresh |-> {}]

Full(e, i) == i \notin DOMAIN e.pending /\ Cardinality(DOMAIN e.pending) >= MaxPending

With(e, i, entry) ==
    [e EXCEPT !.pending = [j \in DOMAIN e.pending \cup {i} |-> IF j = i THEN entry ELSE e.pending[j]]]
Without(e, i) ==
    [e EXCEPT !.pending = [j \in DOMAIN e.pending \ {i} |-> e.pending[j]]]

\* Slip: an event is settled when it first arrives after its acknowledgment.
ReconcileOnce(e, i, entry) ==
    IF ~ entry.acked THEN [events |-> With(e, i, entry), raised |-> FALSE]
    ELSE IF \E a \in entry.fresh : a < entry.start THEN [events |-> With(e, i, entry), raised |-> TRUE]
    ELSE IF entry.seen # {} THEN [events |-> Without(e, i), raised |-> FALSE]
    ELSE [events |-> With(e, i, entry), raised |-> FALSE]

\* _reconcile, with the entry of event i.
Reconcile(e, i, entry) ==
    IF ~ entry.acked THEN [events |-> With(e, i, entry), raised |-> FALSE]
    ELSE IF \E a \in entry.fresh : a < entry.start THEN [events |-> With(e, i, entry), raised |-> TRUE]
    ELSE IF Cardinality(entry.seen) = streams THEN [events |-> Without(e, i), raised |-> FALSE]
    ELSE [events |-> With(e, i, [entry EXCEPT !.fresh = {}]), raised |-> FALSE]

\* The acknowledgments up to the floor have no gap.
FloorAfter(floor, ahead) ==
    CHOOSE f \in floor .. floor + Cardinality(ahead) :
        /\ floor + 1 .. f \subseteq ahead
        /\ f + 1 \notin ahead

Larger(a, b) == IF a > b THEN a ELSE b

\* acknowledge(identifier, started, acknowledged)
Acknowledge(e, i, started) ==
    IF i <= e.floor \/ i \in e.ahead \/ Cardinality(e.ahead) >= MaxPending
    THEN [events |-> e, raised |-> TRUE]
    ELSE LET ahead == e.ahead \cup {i}
             f == FloorAfter(e.floor, ahead)
             noted == [e EXCEPT !.floor = f, !.ahead = {j \in ahead : j > f},
                                !.max = Larger(@, i)]
         IN  IF streams = 0 THEN [events |-> noted, raised |-> FALSE]
             ELSE IF Full(noted, i) THEN [events |-> noted, raised |-> TRUE]
             ELSE Reconcile(noted, i, [Known(noted, i) EXCEPT !.acked = TRUE, !.start = started])

\* frame(stream, frame, arrived) for an event.
Frame(e, s, event, arrived) ==
    IF event.id # e.last[s] + 1 \/ event.balance # event.id
    THEN [events |-> e, raised |-> TRUE]
    ELSE LET noted == [e EXCEPT !.last[s] = event.id]
             i == event.id
         IN  IF Full(noted, i) THEN [events |-> noted, raised |-> TRUE]
             ELSE Reconcile(noted, i, [Known(noted, i) EXCEPT !.seen = @ \cup {s},
                                                              !.fresh = @ \cup {arrived}])

----------------------------------------------------------------------------
(* The tasks of run.                                                         *)

Kind(k) == IF IsWrite(k) THEN "write" ELSE "read"
Fail(where) == errors' = errors \cup {where} /\ stop' = TRUE

Over == IF Duration THEN expired ELSE issued >= RequestCount

\* The top of worker's loop: the run is over for it.
WorkerReturns(w) ==
    /\ worker[w].at = "loop"
    /\ stop \/ Over
    /\ worker' = [worker EXCEPT ![w].at = "done"]
    /\ UNCHANGED <<svars, faults, phase, streams, expired, issued, reader, events, sampler, stop,
                   tally, errors, final, cancelled, dbOpen, invented>>

Dispatch(w) ==
    /\ worker[w].at = "loop" /\ ~ stop /\ ~ Over /\ issued < RequestCount
    /\ issued' = issued + 1
    /\ worker' = [worker EXCEPT ![w] = [at |-> "waiting", number |-> issued + 1,
                                        watermark |-> events.max]]
    /\ tally' = [tally EXCEPT !.attempted[Kind(issued + 1)] = @ + 1]
    /\ UNCHANGED <<svars, faults, phase, streams, expired, reader, events, sampler, stop, errors,
                   final, cancelled, dbOpen, invented>>

\* A read is plausible: no older than what was acknowledged before it began,
\* and no newer than what was dispatched by now.
Plausible(w, balance) == worker[w].watermark <= balance /\ balance <= tally.attempted["write"]

\* The response of worker w's request, and what the worker makes of it.
Respond(w) ==
    LET k == worker[w].number
        b == answer[k].balance
        good == answer[k].status = "ok"
        ack == Acknowledge(events, b, k)
        accepted == good /\ IF IsWrite(k) THEN b > 0 /\ ~ ack.raised ELSE Plausible(w, b)
    IN  /\ worker[w].at = "waiting" /\ answer[k] # Service!NotYet
        /\ events' = IF IsWrite(k) /\ good /\ b > 0 THEN ack.events ELSE events
        /\ tally' = IF accepted THEN [tally EXCEPT !.succeeded[Kind(k)] = @ + 1] ELSE tally
        /\ IF accepted THEN UNCHANGED <<errors, stop>> ELSE Fail(Kind(k))
        /\ worker' = [worker EXCEPT ![w].at = "loop"]
        /\ UNCHANGED <<svars, faults, phase, streams, expired, issued, reader, sampler, final,
                       cancelled, dbOpen, invented>>

\* Slip: the worker goes on without a record of the failure.
RequestFailsQuietly(w) ==
    /\ worker[w].at = "waiting" /\ faults < MaxFaults[streams]
    /\ faults' = faults + 1
    /\ worker' = [worker EXCEPT ![w].at = "loop"]
    /\ UNCHANGED <<svars, phase, streams, expired, issued, reader, events, sampler, tally, final,
                   stop, errors, cancelled, dbOpen, invented>>

\* The request times out or its connection breaks.
RequestFails(w) ==
    /\ worker[w].at = "waiting" /\ faults < MaxFaults[streams]
    /\ faults' = faults + 1
    /\ Fail(Kind(worker[w].number))
    /\ worker' = [worker EXCEPT ![w].at = "loop"]
    /\ UNCHANGED <<svars, phase, streams, expired, issued, reader, events, sampler, tally, final,
                   cancelled, dbOpen, invented>>

\* sse_reader takes the next event; keep-alives leave no trace in the ledger.
ReadFrame(s) ==
    /\ reader[s].at = "reading" /\ reader[s].read < Len(delivered[s])
    /\ LET n == reader[s].read + 1
           f == Frame(events, s, delivered[s][n], issued)
       IN  /\ events' = f.events
           /\ IF f.raised
              THEN Fail("sse") /\ reader' = [reader EXCEPT ![s] = [at |-> "done", read |-> n]]
              ELSE UNCHANGED <<errors, stop>> /\ reader' = [reader EXCEPT ![s].read = n]
           /\ invented' = IF delivered[s][n].id > Len(ledger)
                          THEN invented \cup {<<delivered[s][n].id, issued>>} ELSE invented
    /\ UNCHANGED <<svars, faults, phase, streams, expired, worker, issued, sampler, tally, final,
                   cancelled, dbOpen>>

\* The stream ends, breaks or is silent for longer than the timeout.
StreamFails(s) ==
    /\ reader[s].at = "reading" /\ faults < MaxFaults[streams]
    /\ faults' = faults + 1
    /\ Fail("sse")
    /\ reader' = [reader EXCEPT ![s].at = "done"]
    /\ UNCHANGED <<svars, phase, streams, expired, worker, issued, events, sampler, tally, final,
                   cancelled, dbOpen, invented>>

\* The sampler asks a thread for a snapshot of the database and waits.
Sample ==
    /\ sampler.task = "sleeping" /\ phase \in {"workload", "drain", "check"}
    /\ sampler' = [task |-> "sampling", thread |-> TRUE]
    /\ UNCHANGED <<svars, faults, phase, streams, expired, worker, issued, reader, events, stop,
                   tally, errors, final, cancelled, dbOpen, invented>>

\* The thread answers; on a closed connection it raises.
Sampled ==
    /\ sampler.thread
    /\ sampler' = [task |-> IF sampler.task = "sampling" THEN "sleeping" ELSE sampler.task,
                   thread |-> FALSE]
    /\ IF ~ dbOpen /\ sampler.task = "sampling" THEN Fail("sampling") ELSE UNCHANGED <<errors, stop>>
    /\ UNCHANGED <<svars, faults, phase, streams, expired, worker, issued, reader, events, tally,
                   final, cancelled, dbOpen, invented>>

----------------------------------------------------------------------------
(* run.                                                                      *)

\* The service listens, the streams are connected.
Startup ==
    /\ phase = "startup"
    /\ phase' = "workload"
    /\ worker' = [w \in Workers |-> [worker[w] EXCEPT !.at = "loop"]]
    /\ reader' = [s \in StreamIds |-> [reader[s] EXCEPT !.at =
                                               IF s \in Connected THEN "reading" ELSE "none"]]
    /\ sampler' = [sampler EXCEPT !.task = "sleeping"]
    /\ UNCHANGED <<svars, faults, streams, expired, issued, events, stop, tally, errors, final,
                   cancelled, dbOpen, invented>>

Expire ==
    /\ phase = "workload" /\ Duration /\ ~ expired
    /\ expired' = TRUE
    /\ UNCHANGED <<svars, faults, phase, streams, worker, issued, reader, events, sampler, stop,
                   tally, errors, final, cancelled, dbOpen, invented>>

WorkersDone ==
    /\ phase = "workload" /\ \A w \in Workers : worker[w].at = "done"
    /\ phase' = "drain"
    /\ UNCHANGED <<svars, faults, streams, expired, worker, issued, reader, events, sampler, stop,
                   tally, errors, final, cancelled, dbOpen, invented>>

Caught(e) == DOMAIN e.pending = {} /\ \A s \in Connected : e.last[s] = e.max

\* Every event was delivered and read.
Settled == \A s \in Connected : reader[s].at = "reading" /\ reader[s].read = Len(ledger)

\* drain returns, or is skipped after an error, or times out, in vain or since
\* the service is late; then the last sample is taken.
EndDrain ==
    /\ phase = "drain"
    /\ \/ stop /\ UNCHANGED errors
       \/ ~ stop /\ Caught(events) /\ UNCHANGED errors
       \/ ~ Caught(events) /\ (faults > 0 \/ Settled) /\ errors' = errors \cup {"sse_drain"}
    /\ final' = [balance |-> Len(ledger), rows |-> Len(ledger) - rowsLost, taken |-> TRUE]
    /\ phase' = "check"
    /\ UNCHANGED <<svars, faults, streams, expired, worker, issued, reader, events, sampler, stop,
                   tally, cancelled, dbOpen, invented>>

\* Every task but the sampler is cancelled; that one is told to end.
EnterCleanup ==
    /\ phase' = "cleanup" /\ stop' = TRUE
    /\ worker' = [w \in Workers |-> [worker[w] EXCEPT !.at = "done"]]
    /\ reader' = [s \in StreamIds |-> [reader[s] EXCEPT !.at = "done"]]

Writes == tally.succeeded["write"]
LedgerAgreesButRows(e) == final.balance = Writes /\ e.floor = Writes   \* Slip
LedgerAgrees(e) == final.balance = Writes /\ final.rows = Writes /\ e.floor = Writes
StreamsAgree(e) == (\A s \in Connected : e.last[s] = Writes) /\ DOMAIN e.pending = {}

Check ==
    /\ phase = "check"
    /\ errors' = errors \cup (IF LedgerAgrees(events) THEN {} ELSE {"ledger"})
                        \cup (IF StreamsAgree(events) THEN {} ELSE {"sse_ledger"})
    /\ EnterCleanup
    /\ UNCHANGED <<svars, faults, streams, expired, issued, events, sampler, tally, final,
                   cancelled, dbOpen, invented>>

\* The listener or a stream cannot be started.
StartupFails ==
    /\ phase = "startup" /\ faults < MaxFaults[streams]
    /\ faults' = faults + 1 /\ errors' = errors \cup {"startup"}
    /\ EnterCleanup
    /\ UNCHANGED <<svars, streams, expired, issued, events, sampler, tally, final, cancelled,
                   dbOpen, invented>>

\* run is cancelled at one of its awaits.
Cancel ==
    /\ phase \in {"startup", "workload", "drain", "check"}
    /\ cancelled' = TRUE
    /\ EnterCleanup
    /\ UNCHANGED <<svars, faults, streams, expired, issued, events, sampler, tally, errors, final,
                   dbOpen, invented>>

\* The sampler hears of it when no thread is under way.
SamplerReturns ==
    /\ phase = "cleanup" /\ sampler.task = "sleeping"
    /\ sampler' = [sampler EXCEPT !.task = "done"]
    /\ UNCHANGED <<svars, faults, phase, streams, expired, worker, issued, reader, events, stop,
                   tally, errors, final, cancelled, dbOpen, invented>>

\* Slip: the sampler is cancelled like the other tasks.
JoinTasksAll ==
    /\ phase = "cleanup"
    /\ phase' = "close"
    /\ sampler' = [sampler EXCEPT !.task = "done"]
    /\ UNCHANGED <<svars, faults, streams, expired, worker, issued, reader, events, stop, tally,
                   errors, final, cancelled, dbOpen, invented>>

\* gather of all tasks.
JoinTasks ==
    /\ phase = "cleanup" /\ sampler.task \in {"none", "done"}
    /\ phase' = "close"
    /\ UNCHANGED <<svars, faults, streams, expired, worker, issued, reader, events, sampler, stop,
                   tally, errors, final, cancelled, dbOpen, invented>>

\* The clients' sockets, the service and its database are closed; the report
\* is made, or the cancellation raised.
CloseAll ==
    /\ phase = "close"
    /\ phase' = "ended"
    /\ dbOpen' = FALSE
    /\ UNCHANGED <<svars, faults, streams, expired, worker, issued, reader, events, sampler, stop,
                   tally, errors, final, cancelled, invented>>

Ended == phase = "ended" /\ ~ sampler.thread /\ UNCHANGED vars

----------------------------------------------------------------------------
Run ==
    \/ Startup \/ StartupFails \/ WorkersDone \/ EndDrain \/ Check \/ Cancel \/ JoinTasks \/ CloseAll
Sampling == Sample \/ Sampled \/ SamplerReturns
Work(w) == WorkerReturns(w) \/ Dispatch(w) \/ Respond(w) \/ RequestFails(w)
Streaming(s) == ReadFrame(s) \/ StreamFails(s)

Next ==
    \/ Serve \/ Misbehave \/ Expire \/ Run \/ Sampling \/ Ended
    \/ \E w \in Workers : Work(w)
    \/ \E s \in Connected : Streaming(s)

Spec == Init /\ [][Next]_vars

----------------------------------------------------------------------------
(* tools/performance_acceptance.py judges the report.                        *)

Ok == phase = "ended" /\ ~ cancelled /\ errors = {}

\* accept, as far as correctness goes; budgets of time and memory are left out.
Accepted ==
    /\ Ok /\ Duration
    /\ \A kind \in {"read", "write"} :
          tally.succeeded[kind] > 0 /\ tally.attempted[kind] = tally.succeeded[kind]
    /\ issued = tally.succeeded["read"] + tally.succeeded["write"]
    /\ StreamsAgree(events)
    /\ final.balance = Writes /\ final.rows = Writes

----------------------------------------------------------------------------
\* What a report that says ok has established, of the service and not of the
\* test's own books: every write was applied once and has its row, the balances
\* answered to the writes number them, every stream showed the whole history in
\* order, and no event was seen before its write had been dispatched.
OkIsTrue ==
    Ok =>
        LET written == {k \in 1 .. issued : IsWrite(k)}
        IN  /\ Len(ledger) = Cardinality(written) /\ rowsLost = 0
            /\ \A k \in written : ledger[answer[k].balance] = k
            /\ \A s \in Connected :
                  SubSeq(delivered[s], 1, reader[s].read) = Service!History(Len(ledger))
            /\ \A x \in invented : x[2] >= ledger[x[1]]

\* A report of a soak that says ok, with reads and writes in it, satisfies the
\* acceptance profile's own ledger checks.
OkIsAcceptable ==
    Ok /\ Duration /\ tally.succeeded["read"] > 0 /\ tally.succeeded["write"] > 0 => Accepted

\* A service that keeps its contract is not accused, whatever the order in which
\* answers and events come, as long as the ledger's bound is not reached.
NoFalseAlarm == faults = 0 /\ MaxPending >= RequestCount => errors = {}

\* No snapshot of the sampler meets a closed database, also when the run is
\* cancelled: the sampler is told to end and waited for, not cancelled.
SamplerMeetsOpenDatabase == sampler.thread => dbOpen
============================================================================
