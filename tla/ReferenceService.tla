-------------------------- MODULE ReferenceService --------------------------
(* The host of the reference service (examples/reference_service/host) with  *)
(* the application it runs (src/app): one asyncio event loop, one task per   *)
(* connection, SQLite operations in worker threads behind a lock, and a      *)
(* host that may be stopped at any moment.                                   *)
(*                                                                           *)
(* A task runs without interruption from one await that suspends it to the   *)
(* next; such a stretch is one action.  Threads and clients step in between. *)
EXTENDS Naturals, Sequences

CONSTANTS
    Clients,   \* each opens one connection and asks one thing
    Parts,     \* bound: the pieces each request arrives in
    PageLimit, \* the LIMIT of an event page, 32 in the code
    Past,      \* the updates already in the database file
    Menu,      \* what each client may ask
    Deaf,      \* the requests whose clients may stop reading
    Faults     \* {"storage"}, or {} if SQLite reports no errors

Requests == [route : {"read", "update"}, known : BOOLEAN]
            \cup [route : {"events", "static"}, known : {TRUE}]

ASSUME ServiceAssumption ==
    /\ Past \in Nat /\ Parts \in [Requests -> Nat \ {0}] /\ PageLimit \in Nat \ {0}
    /\ Menu \in [Clients -> SUBSET Requests]
    /\ Deaf \subseteq Requests /\ Faults \subseteq {"storage"} /\ "none" \notin Clients

VARIABLES
    net,       \* the client's end: link, parts of the request sent, deaf to answers
    tr,        \* the server's transport: its state, and whether output is left in its buffer
    inv,       \* the invocation (task) of each connection
    op,        \* the database operation it has started in a worker thread
    db,        \* the database: balance, events, lock and whether it is open
    stop,      \* how far the host has got with stopping
    snapshot,  \* the tasks Service.close found and cancelled
    asks,      \* what each client asks
    answer,    \* the response written to each client
    wrote      \* the events written to each client

vars == <<net, tr, inv, op, db, stop, snapshot, asks, answer, wrote>>

Response(s, b) == [status |-> s, balance |-> b]
Nothing == Response("none", 0)

Transports == {"none", "attached", "open", "closing", "lost"}

\* Where a task is suspended: not created, created but not run, and the awaits.
Points == {"none", "start", "receive", "delay", "worker", "join", "drain", "nap",
           "finish", "done"}

Idle == [state |-> "none", balance |-> 0, upto |-> 0]

History == [i \in 1 .. Past |-> [balance |-> i, by |-> "none"]]

Init ==
    /\ net = [c \in Clients |-> [link |-> "none", sent |-> 0, deaf |-> FALSE]]
    /\ tr = [c \in Clients |-> [state |-> "none", owed |-> FALSE]]
    /\ inv = [c \in Clients |-> [pc |-> "none", got |-> 0, cancel |-> FALSE, what |-> "none",
                                 cursor |-> 0, upto |-> 0, outcome |-> "none"]]
    /\ op = [c \in Clients |-> Idle]
    /\ db = [balance |-> Past, events |-> History, lock |-> "none", open |-> TRUE]
    /\ stop = "serving"
    /\ snapshot = {}
    /\ asks \in {f \in [Clients -> Requests] : \A c \in Clients : f[c] \in Menu[c]}
    /\ answer = [c \in Clients |-> Nothing]
    /\ wrote = [c \in Clients |-> <<>>]

----------------------------------------------------------------------------
(* Clients and the network (asyncio's transports).                           *)

\* While the listener is open a connection gets a transport; _accept is
\* called in a later turn of the loop.
Connect(c) ==
    /\ stop = "serving" /\ net[c].link = "none"
    /\ net' = [net EXCEPT ![c].link = "open"]
    /\ tr' = [tr EXCEPT ![c].state = "attached"]
    /\ UNCHANGED <<inv, op, db, stop, snapshot, asks, answer, wrote>>

SendPart(c) ==
    /\ net[c].link = "open" /\ net[c].sent < Parts[asks[c]]
    /\ net' = [net EXCEPT ![c].sent = @ + 1]
    /\ UNCHANGED <<tr, inv, op, db, stop, snapshot, asks, answer, wrote>>

\* The client stops reading.  When it reads again the buffers are flushed.
Deafen(c) ==
    /\ asks[c] \in Deaf /\ net[c].link = "open" /\ ~ net[c].deaf
    /\ net' = [net EXCEPT ![c].deaf = TRUE]
    /\ UNCHANGED <<tr, inv, op, db, stop, snapshot, asks, answer, wrote>>

Listen(c) ==
    /\ net[c].link = "open" /\ net[c].deaf
    /\ net' = [net EXCEPT ![c].deaf = FALSE]
    /\ tr' = [tr EXCEPT ![c].owed = FALSE]
    /\ UNCHANGED <<inv, op, db, stop, snapshot, asks, answer, wrote>>

Leave(c) ==
    /\ net[c].link = "open"
    /\ net' = [net EXCEPT ![c].link = "cut"]
    /\ UNCHANGED <<tr, inv, op, db, stop, snapshot, asks, answer, wrote>>

\* A reset of the connection, at any time once the client is gone; or the end
\* of a transport that was closed and has flushed its buffer.
Lose(c) ==
    /\ inv[c].pc # "none"
    /\ \/ tr[c].state = "open" /\ net[c].link = "cut"
       \/ tr[c].state = "closing" /\ (net[c].link = "cut" \/ ~ tr[c].owed)
    /\ tr' = [tr EXCEPT ![c] = [state |-> "lost", owed |-> FALSE]]
    /\ net' = [net EXCEPT ![c].link = "cut", ![c].deaf = FALSE]
    /\ UNCHANGED <<inv, op, db, stop, snapshot, asks, answer, wrote>>

----------------------------------------------------------------------------
(* The pieces of an invocation; r is the record of its task as it runs.      *)

Task(c, r) == inv' = [inv EXCEPT ![c] = r]

\* How send_bytes goes: the bytes are written and drain does not wait, it
\* waits for a client that does not read, or nothing can be sent.  Of a client
\* that is gone the loop may not have heard yet.
Sending(c) ==
    IF tr[c].state # "open" THEN {"no"}
    ELSE {"yes"} \cup (IF net[c].link = "cut" THEN {"no"} ELSE {})
                 \cup (IF net[c].deaf /\ net[c].link = "open" THEN {"stuck"} ELSE {})

\* Whether output stays in the transport's buffer after a send that went s.
Left(c, s) ==
    CASE s = "stuck" -> {TRUE}
      [] s = "yes" /\ net[c].deaf -> BOOLEAN
      [] OTHER -> {tr[c].owed}

\* Transport.close: what the buffer holds is still sent.
Closed(t) == IF t.state \in {"attached", "open"} THEN [t EXCEPT !.state = "closing"] ELSE t

\* handle_connection has returned or raised; the finally of _invoke closes.
Finish(c, r, how, owed) ==
    /\ Task(c, [r EXCEPT !.pc = "finish", !.outcome = how, !.cancel = FALSE, !.what = "none"])
    /\ tr' = [tr EXCEPT ![c] = Closed([@ EXCEPT !.owed = owed])]

\* The task waits in drain, having written what.
Drain(c, r, what) ==
    /\ Task(c, [r EXCEPT !.pc = "drain", !.what = what])
    /\ tr' = [tr EXCEPT ![c].owed = TRUE]

\* The last send_bytes of handle_connection.
Reply(c, r, a) ==
    \E s \in Sending(c) : \E o \in Left(c, s) :
        /\ IF s = "stuck" THEN Drain(c, r, "reply") ELSE Finish(c, r, "completed", o)
        /\ answer' = IF s = "no" THEN answer ELSE [answer EXCEPT ![c] = a]

\* _thread_operation hands the operation to a worker thread and waits.
StartOperation(c, r) ==
    /\ op' = [op EXCEPT ![c] = [Idle EXCEPT !.state = "queued"]]
    /\ Task(c, [r EXCEPT !.pc = "worker"])

\* The rows after the cursor, as events renders them.
Rows(from, to) ==
    [i \in 1 .. to - from |-> [id |-> from + i, balance |-> db.events[from + i].balance]]

\* The body of events for the rest of a page: the events up to k are sent, and
\* then a send fails, waits in drain, or the keep-alive was the last.
Stream(c, r) ==
    \E k \in r.cursor .. r.upto, s \in Sending(c) : \E o \in Left(c, s) :
        /\ k > r.cursor => "yes" \in Sending(c)
        /\ s = "yes" => k = r.upto
        /\ LET at == [r EXCEPT !.cursor = k]
           IN  CASE s = "yes" -> /\ Task(c, [at EXCEPT !.pc = "nap"])
                                 /\ tr' = [tr EXCEPT ![c].owed = o]
                 [] s = "stuck" -> Drain(c, at, IF k = r.upto THEN "keepalive" ELSE "event")
                 [] s = "no" -> Finish(c, at, "completed", o)
        /\ wrote' = [wrote EXCEPT ![c] =
                       @ \o Rows(r.cursor, IF s = "stuck" /\ k < r.upto THEN k + 1 ELSE k)]

----------------------------------------------------------------------------
(* The invocation, from await to await.                                      *)

\* _accept, a callback of the loop: it may come after the host began to stop.
Accept(c) ==
    /\ tr[c].state \in {"attached", "closing"} /\ inv[c].pc = "none"
    /\ Task(c, [inv[c] EXCEPT !.pc = "start"])
    /\ tr' = [tr EXCEPT ![c].state = IF @ = "attached" THEN "open" ELSE @]
    /\ UNCHANGED <<net, op, db, stop, snapshot, asks, answer, wrote>>

Begin(c) ==
    /\ inv[c].pc = "start" /\ ~ inv[c].cancel
    /\ Task(c, [inv[c] EXCEPT !.pc = "receive"])
    /\ UNCHANGED <<net, tr, op, db, stop, snapshot, asks, answer, wrote>>

Runs(c, p) == inv[c].pc = p /\ ~ inv[c].cancel

\* receive_bytes: part of the header, or nothing at the end of the input.
Receive(c) ==
    /\ Runs(c, "receive")
    /\ inv[c].got < net[c].sent /\ net[c].sent < Parts[asks[c]]
    /\ Task(c, [inv[c] EXCEPT !.got = net[c].sent])
    /\ UNCHANGED <<net, tr, op, db, stop, snapshot, asks, answer, wrote>>

ReceiveNothing(c) ==
    /\ Runs(c, "receive")
    /\ tr[c].state = "lost" \/ (net[c].link = "cut" /\ inv[c].got = net[c].sent)
    /\ Finish(c, inv[c], "completed", tr[c].owed)
    /\ UNCHANGED <<net, op, db, stop, snapshot, asks, answer, wrote>>

\* The header is complete, or too long: it is routed, up to the next await.
Handle(c) ==
    /\ Runs(c, "receive")
    /\ inv[c].got < net[c].sent /\ net[c].sent = Parts[asks[c]]
    /\ LET r == [inv[c] EXCEPT !.got = Parts[asks[c]]]
       IN  CASE asks[c].route = "static" ->
                  Reply(c, r, Response("static", 0)) /\ UNCHANGED op
             [] asks[c].route = "read" ->
                  Task(c, [r EXCEPT !.pc = "delay"]) /\ UNCHANGED <<tr, op, answer>>
             [] asks[c].route = "update" -> StartOperation(c, r) /\ UNCHANGED <<tr, answer>>
             [] asks[c].route = "events" ->
                  /\ \E s \in Sending(c) : \E o \in Left(c, s) :
                        CASE s = "yes" -> /\ StartOperation(c, r)
                                          /\ tr' = [tr EXCEPT ![c].owed = o]
                          [] s = "stuck" -> Drain(c, r, "header") /\ UNCHANGED op
                          [] s = "no" -> Finish(c, r, "completed", o) /\ UNCHANGED op
                  /\ UNCHANGED answer
    /\ UNCHANGED <<net, db, stop, snapshot, asks, wrote>>

\* The sleeps of load_user and of the event loop are over.
Wake(c) ==
    /\ Runs(c, "delay") \/ Runs(c, "nap")
    /\ StartOperation(c, inv[c])
    /\ UNCHANGED <<net, tr, db, stop, snapshot, asks, answer, wrote>>

\* What a read or an update answers.  A sqlite3.Error is "unavailable".
Outcome(c) ==
    CASE op[c].state = "error" -> Response("unavailable", 0)
      [] op[c].state = "missing" -> Response("missing", 0)
      [] op[c].state = "ok" -> Response("ok", op[c].balance)

Ready(c) == op[c].state \in {"ok", "missing", "error"}

\* The operation ended and the task goes on with its result.
Resume(c) ==
    /\ Runs(c, "worker") /\ Ready(c)
    /\ IF asks[c].route # "events"
       THEN Reply(c, inv[c], Outcome(c)) /\ UNCHANGED wrote
       ELSE /\ IF op[c].state = "error"
               THEN Finish(c, inv[c], "error", tr[c].owed) /\ UNCHANGED wrote
               ELSE Stream(c, [inv[c] EXCEPT !.upto = op[c].upto])
            /\ UNCHANGED answer
    /\ UNCHANGED <<net, op, db, stop, snapshot, asks>>

\* Slip: the event that drain waited for is not counted.
DrainedUncounted(c) ==
    /\ Runs(c, "drain") /\ ~ tr[c].owed
    /\ inv[c].what = "event" /\ Stream(c, [inv[c] EXCEPT !.what = "none"])
    /\ UNCHANGED <<net, op, db, stop, snapshot, asks, answer>>

\* drain returns since the client reads again: the send has succeeded.
Drained(c) ==
    /\ Runs(c, "drain") /\ ~ tr[c].owed
    /\ LET r == [inv[c] EXCEPT !.what = "none"]
       IN  CASE inv[c].what = "reply" ->
                  Finish(c, r, "completed", FALSE) /\ UNCHANGED <<op, wrote>>
             [] inv[c].what = "header" -> StartOperation(c, r) /\ UNCHANGED <<tr, wrote>>
             [] inv[c].what = "event" ->
                  Stream(c, [r EXCEPT !.cursor = @ + 1]) /\ UNCHANGED op
             [] inv[c].what = "keepalive" ->
                  Task(c, [r EXCEPT !.pc = "nap"]) /\ UNCHANGED <<tr, op, wrote>>
    /\ UNCHANGED <<net, db, stop, snapshot, asks, answer>>

\* drain raises since the connection is lost: the send has failed.
DrainFails(c) ==
    /\ Runs(c, "drain") /\ net[c].link = "cut"
    /\ Finish(c, inv[c], "completed", FALSE)
    /\ UNCHANGED <<net, op, db, stop, snapshot, asks, answer, wrote>>

\* Slip: a cancelled invocation does not wait for its worker.
CancelledUnjoined(c) ==
    /\ inv[c].cancel
    /\ Finish(c, inv[c], "cancelled", tr[c].owed)
    /\ UNCHANGED <<net, op, db, stop, snapshot, asks, answer, wrote>>

\* A CancelledError at the await where the task is suspended.  A task that
\* never ran ends at once, without the finally of _invoke; one that waits for
\* its worker goes on waiting, in the except of _thread_operation.
Cancelled(c) ==
    /\ inv[c].cancel
    /\ CASE inv[c].pc \in {"start", "finish"} ->
              Task(c, [inv[c] EXCEPT !.pc = "done", !.cancel = FALSE]) /\ UNCHANGED tr
         [] inv[c].pc = "worker" ->
              Task(c, [inv[c] EXCEPT !.pc = "join", !.cancel = FALSE]) /\ UNCHANGED tr
         [] inv[c].pc \in {"receive", "delay", "drain", "nap"} ->
              Finish(c, inv[c], "cancelled", tr[c].owed)
    /\ UNCHANGED <<net, op, db, stop, snapshot, asks, answer, wrote>>

\* The worker of a cancelled invocation ended.  The raise of the finally
\* raises the exception being handled: the CancelledError if the worker
\* returned, the worker's own error if it failed.
Joined(c) ==
    /\ inv[c].pc = "join" /\ Ready(c)
    /\ CASE op[c].state # "error" -> Finish(c, inv[c], "cancelled", tr[c].owed) /\ UNCHANGED answer
         [] op[c].state = "error" /\ asks[c].route = "events" ->
              Finish(c, inv[c], "error", tr[c].owed) /\ UNCHANGED answer
         [] op[c].state = "error" /\ asks[c].route # "events" -> Reply(c, inv[c], Outcome(c))
    /\ UNCHANGED <<net, op, db, stop, snapshot, asks, wrote>>

\* wait_closed returns.
End(c) ==
    /\ Runs(c, "finish") /\ tr[c].state = "lost"
    /\ Task(c, [inv[c] EXCEPT !.pc = "done"])
    /\ UNCHANGED <<net, tr, op, db, stop, snapshot, asks, answer, wrote>>

----------------------------------------------------------------------------
(* The worker threads.                                                       *)

OpEnds(c, s, b, u) == op' = [op EXCEPT ![c] = [state |-> s, balance |-> b, upto |-> u]]
Least(a, b) == IF a < b THEN a ELSE b

\* The last event of the page after the cursor.
PageEndFromCursor(c) == Least(inv[c].cursor + PageLimit - 1, Len(db.events))  \* Slip
PageEnd(c) == Least(inv[c].cursor + PageLimit, Len(db.events))

\* The operation gets the lock; but for an update of a user that exists, it
\* is one statement and ends.
Execute(c) ==
    /\ op[c].state = "queued" /\ db.lock = "none"
    /\ CASE ~ db.open -> OpEnds(c, "error", 0, 0) /\ UNCHANGED db
         [] db.open /\ ~ asks[c].known -> OpEnds(c, "missing", 0, 0) /\ UNCHANGED db
         [] db.open /\ asks[c].known /\ asks[c].route = "read" ->
              OpEnds(c, "ok", db.balance, 0) /\ UNCHANGED db
         [] db.open /\ asks[c].route = "events" ->
              /\ OpEnds(c, "ok", 0, PageEnd(c))
              /\ UNCHANGED db
         [] db.open /\ asks[c].known /\ asks[c].route = "update" ->
              /\ OpEnds(c, "holding", db.balance + 1, 0)
              /\ db' = [db EXCEPT !.balance = @ + 1, !.lock = c]
    /\ UNCHANGED <<net, tr, inv, stop, snapshot, asks, answer, wrote>>

\* SQLite reports an error for the first statement.
ExecuteFails(c) ==
    /\ "storage" \in Faults /\ op[c].state = "queued" /\ db.lock = "none"
    /\ OpEnds(c, "error", 0, 0)
    /\ UNCHANGED <<net, tr, inv, db, stop, snapshot, asks, answer, wrote>>

\* The second statement of an update, and the commit.
Insert(c) ==
    /\ op[c].state = "holding"
    /\ OpEnds(c, "ok", op[c].balance, 0)
    /\ db' = [db EXCEPT !.events = Append(@, [balance |-> op[c].balance, by |-> c]),
                        !.lock = "none"]
    /\ UNCHANGED <<net, tr, inv, stop, snapshot, asks, answer, wrote>>

\* Slip: the first statement stays.
InsertFailsCommitted(c) ==
    /\ "storage" \in Faults /\ op[c].state = "holding"
    /\ OpEnds(c, "error", 0, 0)
    /\ db' = [db EXCEPT !.lock = "none"]
    /\ UNCHANGED <<net, tr, inv, stop, snapshot, asks, answer, wrote>>

\* Slip: the lock is not released.
InsertFailsHolding(c) ==
    /\ "storage" \in Faults /\ op[c].state = "holding"
    /\ OpEnds(c, "error", 0, 0)
    /\ db' = [db EXCEPT !.balance = @ - 1]
    /\ UNCHANGED <<net, tr, inv, stop, snapshot, asks, answer, wrote>>

\* It fails: the context manager of the connection rolls back.
InsertFails(c) ==
    /\ "storage" \in Faults /\ op[c].state = "holding"
    /\ OpEnds(c, "error", 0, 0)
    /\ db' = [db EXCEPT !.balance = @ - 1, !.lock = "none"]
    /\ UNCHANGED <<net, tr, inv, stop, snapshot, asks, answer, wrote>>

----------------------------------------------------------------------------
(* Stopping the host.                                                        *)

\* Ctrl-C: serve_forever is cancelled; it closes the listener and all
\* transports and waits for them.
Interrupt ==
    /\ stop = "serving"
    /\ stop' = "draining"
    /\ tr' = [c \in Clients |-> Closed(tr[c])]
    /\ UNCHANGED <<net, inv, op, db, snapshot, asks, answer, wrote>>

Detached == \A c \in Clients : tr[c].state \in {"none", "lost"}
Alive == {c \in Clients : inv[c].pc \notin {"none", "done"}}

\* Service.close, after serve_forever or called directly.
CloseService ==
    /\ stop = "serving" \/ (stop = "draining" /\ Detached)
    /\ stop' = "gathering"
    /\ snapshot' = Alive
    /\ inv' = [c \in Clients |-> IF c \in Alive THEN [inv[c] EXCEPT !.cancel = TRUE] ELSE inv[c]]
    /\ UNCHANGED <<net, tr, op, db, asks, answer, wrote>>

Gathered ==
    /\ stop = "gathering" /\ snapshot \cap Alive = {}
    /\ stop' = "waiting"
    /\ UNCHANGED <<net, tr, inv, op, db, snapshot, asks, answer, wrote>>

ServerClosed ==
    /\ stop = "waiting" /\ Detached
    /\ stop' = "closing"
    /\ UNCHANGED <<net, tr, inv, op, db, snapshot, asks, answer, wrote>>

CloseDatabase ==
    /\ stop = "closing" /\ db.lock = "none"
    /\ stop' = "stopped"
    /\ db' = [db EXCEPT !.open = FALSE]
    /\ UNCHANGED <<net, tr, inv, op, snapshot, asks, answer, wrote>>

\* Nothing is left to happen.
Stopped ==
    /\ stop = "stopped" /\ Alive = {}
    /\ \A c \in Clients : net[c].link # "open"
    /\ UNCHANGED vars

----------------------------------------------------------------------------
Client(c) == Connect(c) \/ SendPart(c) \/ Deafen(c) \/ Listen(c) \/ Leave(c)
Invocation(c) ==
    \/ Accept(c) \/ Begin(c) \/ Receive(c) \/ ReceiveNothing(c) \/ Handle(c) \/ Wake(c)
    \/ Resume(c) \/ Drained(c) \/ DrainFails(c) \/ Cancelled(c) \/ Joined(c) \/ End(c)
Thread(c) == Execute(c) \/ ExecuteFails(c) \/ Insert(c) \/ InsertFails(c)
Close == Gathered \/ ServerClosed \/ CloseDatabase
Host == Interrupt \/ CloseService \/ Close

Next ==
    \/ \E c \in Clients : Client(c) \/ Lose(c) \/ Invocation(c) \/ Thread(c)
    \/ Host
    \/ Stopped

Safe == Init /\ [][Next]_vars

\* The event loop, the threads and the network go on; nothing is assumed of
\* clients, nor that anybody ever stops the host.
Fairness ==
    /\ \A c \in Clients : WF_vars(Lose(c)) /\ WF_vars(Invocation(c)) /\ WF_vars(Thread(c))
    /\ WF_vars(Close) /\ WF_vars(CloseService /\ stop = "draining")

Spec == Safe /\ Fairness

----------------------------------------------------------------------------
TypeOK ==
    /\ \A c \in Clients :
          /\ tr[c].state \in Transports /\ inv[c].pc \in Points
          /\ inv[c].got \in 0 .. net[c].sent /\ net[c].sent \in 0 .. Parts[asks[c]]
          /\ inv[c].cursor \in 0 .. inv[c].upto /\ inv[c].upto \in 0 .. Len(db.events)
    /\ db.lock \in Clients \cup {"none"} /\ snapshot \subseteq Clients

\* An update is one transaction: whenever no operation holds the lock, the
\* balance is that of the last event, and the events number the updates.
BalanceMatchesEvents ==
    db.lock = "none" =>
        /\ db.balance = Len(db.events)
        /\ \A i \in 1 .. Len(db.events) : db.events[i].balance = i

\* The host waits for the operations of the invocations it cancelled before it
\* closes the database: none of them meets a closed connection.
OwnOperationsFinish ==
    ~ db.open => \A c \in snapshot : op[c].state \notin {"queued", "holding"}

\* The clients see what the contract promises.
Contract == INSTANCE ServiceContract WITH
    ledger <- [i \in 1 .. Len(db.events) |-> db.events[i].by],
    looked <- [c \in Clients |-> [done |-> asks[c].route # "events" /\ op[c].state = "ok",
                                 balance |-> IF op[c].state = "ok" THEN op[c].balance ELSE 0]],
    answer <- answer,
    delivered <- wrote

ImplementsContract == Contract!ContractSpec

\* Once it was asked to stop and every client has gone, the host stops: no
\* invocation, transport or operation is waited for in vain.
StopFinishes ==
    (stop # "serving" /\ \A c \in Clients : net[c].link # "open") ~> (stop = "stopped")

\* A stream that goes on reading gets every event, however the pages fall.
Behind(c) ==
    /\ asks[c].route = "events" /\ inv[c].pc \in {"worker", "drain", "nap"}
    /\ Len(wrote[c]) < Len(db.events) /\ ~ net[c].deaf

StreamsCatchUp == \A c \in Clients : Behind(c) ~> ~ Behind(c)

\* A cancelled invocation ends as cancelled (README: "stopping the host cancels
\* all outstanding invocations").
CancelledIsCancelled ==
    [][\A c \in Clients : inv[c].pc = "join" /\ inv'[c].pc # "join"
                              => inv'[c].outcome = "cancelled"]_vars

\* A cancelled invocation ends.
CancelledEnds ==
    \A c \in Clients : inv[c].outcome = "cancelled" ~> inv[c].pc = "done"
============================================================================
