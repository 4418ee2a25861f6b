----------------------- MODULE ReferenceServiceProofs -----------------------
(* The reference service for any number of clients, requests, earlier        *)
(* updates and sizes of a page, with and without storage errors, and however *)
(* clients, worker threads and the stopping host interleave: what the        *)
(* database holds is consistent, the operations of cancelled invocations     *)
(* meet an open database, and the service implements ServiceContract.        *)
(*                                                                           *)
(* Nearly all of the argument is about one connection at a time.  InOrder    *)
(* relates the task of a connection, its operation, its request and what it  *)
(* was sent; a step of a task changes these for its own connection alone     *)
(* (lemma Moves), and so each action is judged by the values it leaves to    *)
(* that connection.  What connects them is the lock (Locked), the table of   *)
(* events (Numbered, Attributed) and how far the host has got (Stopping).    *)
EXTENDS ReferenceService, SequenceTheorems, TLAPS

Waits == {"none", "reply", "header", "event", "keepalive"}
Outcomes == {"none", "completed", "cancelled", "error"}
OpStates == {"none", "queued", "holding", "ok", "missing", "error"}
Stages == {"serving", "draining", "gathering", "waiting", "closing", "stopped"}

Ends == [link : {"none", "open", "cut"}, sent : Nat, deaf : BOOLEAN]
Buffers == [state : Transports, owed : BOOLEAN]
Tasks == [pc : Points, got : Nat, cancel : BOOLEAN, what : Waits,
          cursor : Nat, upto : Nat, outcome : Outcomes]
Operations == [state : OpStates, balance : Nat, upto : Nat]
Rowed == [balance : Nat, by : Clients \cup {"none"}]
Responses == [status : {"none", "ok", "missing", "unavailable", "static"}, balance : Nat]
Sent == [id : Nat, balance : Nat]

Typed ==
    /\ net \in [Clients -> Ends] /\ tr \in [Clients -> Buffers]
    /\ inv \in [Clients -> Tasks] /\ op \in [Clients -> Operations]
    /\ db \in [balance : Nat, events : Seq(Rowed), lock : Clients \cup {"none"}, open : BOOLEAN]
    /\ stop \in Stages /\ snapshot \subseteq Clients
    /\ asks \in [Clients -> Requests] /\ answer \in [Clients -> Responses]
    /\ wrote \in [Clients -> Seq(Sent)]
    /\ \A c \in Clients : inv[c].got <= net[c].sent /\ net[c].sent <= Parts[asks[c]]

\* The events numbered 1 to n as a stream sends them.
Numbers(n) == [i \in 1 .. n |-> [id |-> i, balance |-> i]]

\* Where a task may be suspended, given its request q.
Position(q, r) ==
    /\ r.pc = "drain" => r.what # "none" /\ (r.what = "reply" <=> q.route # "events")
    /\ r.pc = "nap" => q.route = "events"
    /\ r.pc = "delay" => q.route = "read"
    /\ r.pc \in {"worker", "join"} => q.route # "static"
    /\ r.cancel => r.pc \notin {"none", "join", "done"}

\* The operation o of that task: there is none before the first await that
\* starts one, the task waits while it runs, and its result fits the request.
Operating(q, r, o) ==
    /\ r.pc \in {"none", "start", "receive", "delay"} => o = Idle
    /\ o.state \in {"queued", "holding"} => r.pc \in {"worker", "join"}
    /\ o.state = "holding" => q = [route |-> "update", known |-> TRUE]
    /\ o.state = "ok" => q.known
    /\ o.state = "missing" => ~ q.known
    /\ o.state # "none" => q.route # "static"
    /\ o.state = "none" => o = Idle
    /\ q.route = "events" => o.balance = 0

\* The answer a is given last.
Answered(r, a) ==
    a # Nothing => r.pc \in {"drain", "finish", "done"} /\ (r.pc = "drain" => r.what = "reply")

\* What was streamed, w, is a beginning of the history of n events.  The
\* cursor counts it, less the event that drain is waiting for.
Streamed(q, r, o, w, n) ==
    /\ r.cursor <= r.upto /\ r.upto <= n
    /\ Len(w) <= n /\ w = Numbers(Len(w))
    /\ r.pc = "drain" /\ r.what = "event" => r.cursor < r.upto
    /\ r.pc \notin {"finish", "done"} =>
          Len(w) = r.cursor + (IF r.pc = "drain" /\ r.what = "event" THEN 1 ELSE 0)
    /\ r.pc = "worker" /\ o.state = "ok" /\ q.route = "events" => r.cursor <= o.upto /\ o.upto <= n

InOrder(q, r, o, a, w, n) ==
    Position(q, r) /\ Operating(q, r, o) /\ Answered(r, a) /\ Streamed(q, r, o, w, n)

EachInOrder ==
    \A c \in Clients : InOrder(asks[c], inv[c], op[c], answer[c], wrote[c], Len(db.events))

\* The lock is held over the two statements of an update and by nobody else.
Locked ==
    /\ \A c \in Clients : op[c].state = "holding" <=> db.lock = c
    /\ db.lock \in Clients =>
          db.balance = Len(db.events) + 1 /\ op[db.lock].balance = db.balance
    /\ db.lock = "none" => db.balance = Len(db.events)

\* The n-th event holds the balance n, ...
Numbered == \A i \in 1 .. Len(db.events) : db.events[i].balance = i

\* ... and is of an update that was done, and will not be done again.
Attributed ==
    \A i \in 1 .. Len(db.events), c \in Clients :
        db.events[i].by = c => asks[c].route = "update" /\ op[c].state = "ok"

\* How far the host has got, with the tasks it found.
Stopping ==
    /\ \A c \in Clients : inv[c].cancel \/ inv[c].pc = "join" => stop \notin {"serving", "draining"}
    /\ \A c \in snapshot : inv[c].pc # "none"
    /\ stop \in {"waiting", "closing", "stopped"} => \A c \in snapshot : inv[c].pc = "done"
    /\ db.open <=> stop # "stopped"

ServiceInv == Typed /\ EachInOrder /\ Locked /\ Numbered /\ Attributed /\ Stopping

\* What a step of a task shows the clients: nothing, an answer, or events.
LookedAt(c, o) == [done |-> asks[c].route # "events" /\ o.state = "ok",
                   balance |-> IF o.state = "ok" THEN o.balance ELSE 0]
Quiet == UNCHANGED <<answer, wrote>>
Answers(c) ==
    /\ answer[c] = Nothing /\ UNCHANGED wrote
    /\ \E a \in Contract!Truthful(c) : answer' = [answer EXCEPT ![c] = a]
Delivers(c) ==
    /\ asks[c].route = "events" /\ UNCHANGED answer
    /\ \E n \in Len(wrote[c]) .. Len(db.events) : wrote' = [wrote EXCEPT ![c] = Numbers(n)]
Steady == UNCHANGED <<asks, db>> /\ \A d \in Clients : LookedAt(d, op[d])' = LookedAt(d, op[d])
Shows(c) == Steady /\ (Quiet \/ Answers(c) \/ Delivers(c))

----------------------------------------------------------------------------
(* Facts about the operators.                                                *)

\* What the invariant says of one connection.
LEMMA Facts ==
    ASSUME ServiceInv, NEW c \in Clients
    PROVE  /\ net[c] \in Ends /\ tr[c] \in Buffers /\ inv[c] \in Tasks /\ op[c] \in Operations
           /\ asks[c] \in Requests /\ answer[c] \in Responses /\ wrote[c] \in Seq(Sent)
           /\ db.events \in Seq(Rowed) /\ Len(db.events) \in Nat /\ Len(wrote[c]) \in Nat
           /\ db.balance \in Nat /\ Parts[asks[c]] \in Nat \ {0}
           /\ inv[c].got <= net[c].sent /\ net[c].sent <= Parts[asks[c]]
           /\ InOrder(asks[c], inv[c], op[c], answer[c], wrote[c], Len(db.events))
<1>1. /\ net[c] \in Ends /\ tr[c] \in Buffers /\ inv[c] \in Tasks /\ op[c] \in Operations
      /\ asks[c] \in Requests /\ answer[c] \in Responses /\ wrote[c] \in Seq(Sent)
      /\ db.events \in Seq(Rowed) /\ db.balance \in Nat
      /\ inv[c].got <= net[c].sent /\ net[c].sent <= Parts[asks[c]]
  BY DEF ServiceInv, Typed
<1>2. Len(db.events) \in Nat /\ Len(wrote[c]) \in Nat
  BY <1>1, LenProperties
<1>3. Parts[asks[c]] \in Nat \ {0}
  BY <1>1, ServiceAssumption
<1> QED
  BY <1>1, <1>2, <1>3 DEF ServiceInv, EachInOrder

\* Transport.close yields a transport.
LEMMA ClosedIsBuffer == ASSUME NEW t \in Buffers PROVE Closed(t) \in Buffers
BY DEF Closed, Buffers, Transports

\* A page continues the history that was streamed so far.
LEMMA PageContinues ==
    ASSUME ServiceInv, NEW from \in Nat, NEW to \in Nat, from <= to, to <= Len(db.events)
    PROVE  /\ Numbers(from) \o Rows(from, to) = Numbers(to)
           /\ Numbers(to) \in Seq(Sent) /\ Len(Numbers(to)) = to
<1>0. from \in Nat /\ to \in Nat /\ from + (to - from) = to
  OBVIOUS
<1>1. db.events \in Seq(Rowed) /\ Len(db.events) \in Nat
  BY LenProperties DEF ServiceInv, Typed
<1>2. Rows(from, to) = [i \in 1 .. to - from |-> [id |-> from + i, balance |-> from + i]]
  BY <1>1 DEF Rows, ServiceInv, Numbered
<1>3. \A n \in Nat : Numbers(n) \in [1 .. n -> Sent]
  BY DEF Numbers, Sent
<1>4. \A n \in Nat : Numbers(n) \in Seq(Sent) /\ Len(Numbers(n)) = n
  <2> SUFFICES ASSUME NEW n \in Nat PROVE Numbers(n) \in Seq(Sent) /\ Len(Numbers(n)) = n
    OBVIOUS
  <2>1. Numbers(n) \in Seq(Sent)
    BY <1>3, SeqDef
  <2>2. DOMAIN Numbers(n) = 1 .. n /\ Len(Numbers(n)) \in Nat
    BY <2>1, LenProperties DEF Numbers
  <2> QED
    BY <2>1, <2>2, LenProperties
<1>5. Rows(from, to) \in [1 .. to - from -> Sent]
  BY <1>2 DEF Sent
<1>6. Rows(from, to) \in Seq(Sent) /\ Len(Rows(from, to)) = to - from
  BY <1>5, SeqDef
<1>7. DEFINE s == Numbers(from) \o Rows(from, to)
<1>8. /\ s \in Seq(Sent) /\ Len(s) = from + (to - from)
      /\ \A i \in 1 .. from + (to - from) :
            s[i] = IF i <= from THEN Numbers(from)[i] ELSE Rows(from, to)[i - from]
  BY <1>4, <1>6, ConcatProperties
<1> HIDE DEF s
<1>9. \A i \in 1 .. to : s[i] = [id |-> i, balance |-> i]
  <2>1. \A i \in 1 .. to : i <= from => Numbers(from)[i] = [id |-> i, balance |-> i]
    BY DEF Numbers
  <2>2. \A i \in 1 .. to : i > from => Rows(from, to)[i - from] = [id |-> i, balance |-> i]
    BY <1>0, <1>2
  <2>3. \A i \in 1 .. to : i <= from \/ i > from
    BY <1>0
  <2>4. \A i \in 1 .. to : s[i] = IF i <= from THEN Numbers(from)[i] ELSE Rows(from, to)[i - from]
    BY <1>0, <1>8
  <2>5. \A i \in 1 .. to : i > from => ~ (i <= from)
    BY <1>0
  <2> SUFFICES ASSUME NEW i \in 1 .. to PROVE s[i] = [id |-> i, balance |-> i]
    OBVIOUS
  <2>6. CASE i <= from
    BY <2>1, <2>4, <2>6
  <2>7. CASE i > from
    BY <2>2, <2>4, <2>5, <2>7
  <2> QED
    BY <2>3, <2>6, <2>7
<1>10. s = [i \in 1 .. to |-> s[i]] /\ Len(s) = to
  BY <1>0, <1>8, LenProperties
<1>11. s = Numbers(to)
  BY <1>9, <1>10 DEF Numbers
<1> QED
  BY <1>4, <1>11 DEF s

----------------------------------------------------------------------------
(* A step of a task.                                                         *)

\* The values it leaves to connection c, ...
Becomes(c, r, o, a, w) ==
    /\ inv' = [inv EXCEPT ![c] = r] /\ op' = [op EXCEPT ![c] = o]
    /\ answer' = [answer EXCEPT ![c] = a] /\ wrote' = [wrote EXCEPT ![c] = w]
    /\ tr' \in [Clients -> Buffers]
    /\ UNCHANGED <<net, db, stop, snapshot, asks>>

\* ... and what suffices of the task and the operation.
MayBecome(c, r, o) ==
    /\ r.got <= net[c].sent
    /\ inv[c].pc # "done" /\ r.pc # "none"
    /\ r.cancel \/ r.pc = "join" => inv[c].cancel \/ inv[c].pc = "join"
    /\ \/ o = op[c]
       \/ o = [Idle EXCEPT !.state = "queued"] /\ (op[c] = Idle \/ asks[c].route = "events")

LEMMA Moves ==
    ASSUME ServiceInv, NEW c \in Clients,
           NEW r \in Tasks, NEW o \in Operations, NEW a \in Responses, NEW w \in Seq(Sent),
           Becomes(c, r, o, a, w), MayBecome(c, r, o),
           InOrder(asks[c], r, o, a, w, Len(db.events))
    PROVE  ServiceInv' /\ Steady
<1>1. /\ inv' = [inv EXCEPT ![c] = r] /\ op' = [op EXCEPT ![c] = o]
      /\ answer' = [answer EXCEPT ![c] = a] /\ wrote' = [wrote EXCEPT ![c] = w]
      /\ tr' \in [Clients -> Buffers]
      /\ UNCHANGED <<net, db, stop, snapshot, asks>>
  BY DEF Becomes
<1>2. Typed
  BY DEF ServiceInv
<1>3. /\ inv'[c] = r /\ op'[c] = o /\ answer'[c] = a /\ wrote'[c] = w
      /\ \A d \in Clients \ {c} : /\ inv'[d] = inv[d] /\ op'[d] = op[d]
                                  /\ answer'[d] = answer[d] /\ wrote'[d] = wrote[d]
  BY <1>1, <1>2 DEF Typed
<1>4. InOrder(asks[c], inv[c], op[c], answer[c], wrote[c], Len(db.events))
  BY Facts
<1>5. /\ o.state = "holding" <=> op[c].state = "holding"
      /\ op[c].state = "holding" => o = op[c]
      /\ asks[c].route = "update" /\ op[c].state = "ok" => o = op[c]
  BY <1>4 DEF MayBecome, Idle, InOrder, Operating
<1>6. Typed'
  <2>1. /\ inv' \in [Clients -> Tasks] /\ op' \in [Clients -> Operations]
        /\ answer' \in [Clients -> Responses] /\ wrote' \in [Clients -> Seq(Sent)]
    BY <1>1, <1>2 DEF Typed
  <2>2. \A d \in Clients : inv'[d].got <= net[d].sent
    BY <1>2, <1>3 DEF Typed, MayBecome
  <2> QED
    BY <1>1, <1>2, <2>1, <2>2 DEF Typed
<1>7. EachInOrder'
  <2>1. \A d \in Clients : InOrder(asks[d], inv'[d], op'[d], answer'[d], wrote'[d], Len(db.events))
    BY <1>3 DEF ServiceInv, EachInOrder
  <2> QED
    BY <1>1, <2>1 DEF EachInOrder
<1>8. Locked'
  BY <1>1, <1>2, <1>3, <1>5 DEF ServiceInv, Locked, Typed
<1>9. Numbered'
  BY <1>1 DEF ServiceInv, Numbered
<1>10. Attributed'
  BY <1>1, <1>3, <1>5 DEF ServiceInv, Attributed
<1>11. Stopping'
  BY <1>1, <1>3 DEF ServiceInv, Stopping, MayBecome, Typed
<1>12. \A d \in Clients : LookedAt(d, op[d])' = LookedAt(d, op[d])
  <2>1. LookedAt(c, o) = LookedAt(c, op[c])
    BY <1>4 DEF LookedAt, MayBecome, Idle, InOrder, Operating
  <2> QED
    BY <1>1, <1>3, <2>1 DEF LookedAt
<1> QED
  BY <1>1, <1>6, <1>7, <1>8, <1>9, <1>10, <1>11, <1>12 DEF ServiceInv, Steady

\* The task finishes, with a and w as the client's.
LEMMA Finishes ==
    ASSUME ServiceInv, NEW c \in Clients, NEW r \in Tasks, NEW how \in Outcomes, NEW owed,
           [tr[c] EXCEPT !.owed = owed] \in Buffers, NEW a \in Responses, NEW w \in Seq(Sent),
           Finish(c, r, how, owed), UNCHANGED <<net, op, db, stop, snapshot, asks>>,
           answer' = [answer EXCEPT ![c] = a], wrote' = [wrote EXCEPT ![c] = w],
           inv[c].pc # "done", op[c].state \notin {"queued", "holding"},
           r.got <= net[c].sent, r.cursor <= r.upto, r.upto <= Len(db.events),
           Len(w) <= Len(db.events), w = Numbers(Len(w))
    PROVE  ServiceInv' /\ Steady
<1> DEFINE z == [r EXCEPT !.pc = "finish", !.outcome = how, !.cancel = FALSE, !.what = "none"]
<1>1. /\ z \in Tasks /\ z.pc = "finish" /\ z.cancel = FALSE /\ z.what = "none"
      /\ z.got = r.got /\ z.cursor = r.cursor /\ z.upto = r.upto
  BY DEF Tasks, Points, Waits
<1>2. inv' = [inv EXCEPT ![c] = z]
  BY DEF Finish, Task
<1> HIDE DEF z
<1>3. [tr[c] EXCEPT !.owed = owed] \in Buffers /\ tr \in [Clients -> Buffers]
  BY DEF ServiceInv, Typed
<1>4. Closed([tr[c] EXCEPT !.owed = owed]) \in Buffers
  BY <1>3, ClosedIsBuffer
<1>5. tr' \in [Clients -> Buffers]
  BY <1>3, <1>4 DEF Finish
<1>6. op[c] \in Operations /\ op' = [op EXCEPT ![c] = op[c]]
  BY DEF ServiceInv, Typed
<1>7. Becomes(c, z, op[c], a, w)
  BY <1>2, <1>5, <1>6 DEF Becomes
<1>8. MayBecome(c, z, op[c])
  BY <1>1 DEF MayBecome
<1>9. InOrder(asks[c], inv[c], op[c], answer[c], wrote[c], Len(db.events))
  BY Facts
<1>10. InOrder(asks[c], z, op[c], a, w, Len(db.events))
  BY <1>1, <1>9 DEF InOrder, Position, Operating, Answered, Streamed
<1> QED
  BY <1>1, <1>6, <1>7, <1>8, <1>10, Moves

\* It waits in drain, for the send of what.
LEMMA Drains ==
    ASSUME ServiceInv, NEW c \in Clients, NEW r \in Tasks, NEW what \in Waits \ {"none"},
           NEW a \in Responses, NEW w \in Seq(Sent),
           Drain(c, r, what), UNCHANGED <<net, op, db, stop, snapshot, asks>>,
           answer' = [answer EXCEPT ![c] = a], wrote' = [wrote EXCEPT ![c] = w],
           inv[c].pc # "done", op[c].state \notin {"queued", "holding"},
           what = "reply" <=> asks[c].route # "events", a # Nothing => what = "reply",
           ~ r.cancel, r.got <= net[c].sent, r.cursor <= r.upto, r.upto <= Len(db.events),
           Len(w) <= Len(db.events), w = Numbers(Len(w)),
           what = "event" => r.cursor < r.upto,
           Len(w) = r.cursor + (IF what = "event" THEN 1 ELSE 0)
    PROVE  ServiceInv' /\ Steady
<1> DEFINE z == [r EXCEPT !.pc = "drain", !.what = what]
<1>1. /\ z \in Tasks /\ z.pc = "drain" /\ z.cancel = FALSE /\ z.what = what
      /\ z.got = r.got /\ z.cursor = r.cursor /\ z.upto = r.upto
  BY DEF Tasks, Points, Waits
<1>2. inv' = [inv EXCEPT ![c] = z]
  BY DEF Drain, Task
<1> HIDE DEF z
<1>3. tr' \in [Clients -> Buffers]
  BY DEF Drain, ServiceInv, Typed, Buffers
<1>4. op[c] \in Operations /\ op' = [op EXCEPT ![c] = op[c]]
  BY DEF ServiceInv, Typed
<1>5. Becomes(c, z, op[c], a, w)
  BY <1>2, <1>3, <1>4 DEF Becomes
<1>6. MayBecome(c, z, op[c])
  BY <1>1 DEF MayBecome
<1>7. InOrder(asks[c], inv[c], op[c], answer[c], wrote[c], Len(db.events))
  BY Facts
<1>8. InOrder(asks[c], z, op[c], a, w, Len(db.events))
  BY <1>1, <1>7 DEF InOrder, Position, Operating, Answered, Streamed
<1> QED
  BY <1>1, <1>4, <1>5, <1>6, <1>8, Moves

\* It starts an operation, its first or one more of a stream, and waits.
LEMMA Starts ==
    ASSUME ServiceInv, NEW c \in Clients, NEW r \in Tasks,
           StartOperation(c, r), UNCHANGED <<net, db, stop, snapshot, asks, answer, wrote>>,
           tr' \in [Clients -> Buffers],
           inv[c].pc # "done", op[c] = Idle \/ asks[c].route = "events", asks[c].route # "static",
           ~ r.cancel, r.got <= net[c].sent, r.cursor <= r.upto, r.upto <= Len(db.events),
           answer[c] = Nothing, Len(wrote[c]) = r.cursor
    PROVE  ServiceInv' /\ Shows(c)
<1> DEFINE z == [r EXCEPT !.pc = "worker"]
           q == [Idle EXCEPT !.state = "queued"]
<1>1. /\ z \in Tasks /\ z.pc = "worker" /\ z.cancel = FALSE
      /\ z.got = r.got /\ z.cursor = r.cursor /\ z.upto = r.upto
  BY DEF Tasks, Points
<1>2. inv' = [inv EXCEPT ![c] = z] /\ op' = [op EXCEPT ![c] = q]
  BY DEF StartOperation, Task
<1>3. q \in Operations /\ q.state = "queued" /\ q.balance = 0
  BY DEF Idle, Operations, OpStates
<1>4. MayBecome(c, z, q)
  BY <1>1 DEF MayBecome
<1> HIDE DEF z, q
<1>5. /\ answer[c] \in Responses /\ answer' = [answer EXCEPT ![c] = answer[c]]
      /\ wrote[c] \in Seq(Sent) /\ wrote' = [wrote EXCEPT ![c] = wrote[c]]
  BY DEF ServiceInv, Typed
<1>6. Becomes(c, z, q, answer[c], wrote[c])
  BY <1>2, <1>5 DEF Becomes
<1>7. InOrder(asks[c], inv[c], op[c], answer[c], wrote[c], Len(db.events))
  BY Facts
<1>8. InOrder(asks[c], z, q, answer[c], wrote[c], Len(db.events))
  BY <1>1, <1>3, <1>7 DEF InOrder, Position, Operating, Answered, Streamed
<1> QED
  BY <1>1, <1>3, <1>4, <1>5, <1>6, <1>8, Moves DEF Shows, Quiet

LEMMA SendsWell ==
    ASSUME ServiceInv, NEW c \in Clients
    PROVE  /\ Sending(c) \subseteq {"yes", "no", "stuck"}
           /\ \A s \in Sending(c) : \A o \in Left(c, s) : [tr[c] EXCEPT !.owed = o] \in Buffers
BY Facts DEF Sending, Left, Buffers

\* The last send of a request that is not a stream.
LEMMA Replies ==
    ASSUME ServiceInv, NEW c \in Clients, NEW r \in Tasks, NEW a \in Responses,
           a \in Contract!Truthful(c), Reply(c, r, a),
           UNCHANGED <<net, op, db, stop, snapshot, asks, wrote>>,
           inv[c].pc # "done", op[c].state \notin {"queued", "holding"},
           asks[c].route # "events", answer[c] = Nothing, ~ r.cancel, r.got <= net[c].sent,
           r.cursor <= r.upto, r.upto <= Len(db.events), Len(wrote[c]) = r.cursor
    PROVE  ServiceInv' /\ Shows(c)
<1>1. PICK s \in Sending(c) : \E o \in Left(c, s) :
        /\ IF s = "stuck" THEN Drain(c, r, "reply") ELSE Finish(c, r, "completed", o)
        /\ answer' = IF s = "no" THEN answer ELSE [answer EXCEPT ![c] = a]
  BY DEF Reply
<1>2. PICK o \in Left(c, s) :
        /\ IF s = "stuck" THEN Drain(c, r, "reply") ELSE Finish(c, r, "completed", o)
        /\ answer' = IF s = "no" THEN answer ELSE [answer EXCEPT ![c] = a]
  BY <1>1
<1>3. s \in {"yes", "no", "stuck"} /\ [tr[c] EXCEPT !.owed = o] \in Buffers
  BY <1>2, SendsWell
<1>4. /\ answer[c] \in Responses /\ [answer EXCEPT ![c] = answer[c]] = answer
      /\ wrote[c] \in Seq(Sent) /\ wrote' = [wrote EXCEPT ![c] = wrote[c]]
  BY DEF ServiceInv, Typed
<1>5. wrote[c] = Numbers(Len(wrote[c])) /\ Len(wrote[c]) <= Len(db.events)
  BY Facts DEF InOrder, Streamed
<1>6. CASE s = "stuck"
  <2>1. Drain(c, r, "reply") /\ answer' = [answer EXCEPT ![c] = a]
    BY <1>2, <1>6
  <2>2. Len(wrote[c]) = r.cursor + (IF "reply" = "event" THEN 1 ELSE 0)
    BY Facts DEF Tasks
  <2>3. "reply" \in Waits \ {"none"} /\ "reply" # "event"
    BY DEF Waits
  <2>4. ServiceInv' /\ Steady
    BY <1>4, <1>5, <2>1, <2>2, <2>3, Drains
  <2> QED
    BY <2>1, <2>4 DEF Shows, Answers
<1>7. CASE s = "yes"
  <2>1. Finish(c, r, "completed", o) /\ answer' = [answer EXCEPT ![c] = a]
    BY <1>2, <1>7
  <2>2. ServiceInv' /\ Steady
    BY <1>3, <1>4, <1>5, <2>1, Finishes DEF Outcomes
  <2> QED
    BY <2>1, <2>2 DEF Shows, Answers
<1>8. CASE s = "no"
  <2>1. Finish(c, r, "completed", o) /\ answer' = [answer EXCEPT ![c] = answer[c]]
    BY <1>2, <1>4, <1>8
  <2>2. ServiceInv' /\ Steady
    BY <1>3, <1>4, <1>5, <2>1, Finishes DEF Outcomes
  <2> QED
    BY <1>2, <1>8, <2>2 DEF Shows, Quiet
<1> QED
  BY <1>3, <1>6, <1>7, <1>8

\* A piece of a page.
LEMMA Streams ==
    ASSUME ServiceInv, NEW c \in Clients, NEW r \in Tasks, Stream(c, r),
           UNCHANGED <<net, op, db, stop, snapshot, asks, answer>>,
           inv[c].pc # "done", op[c].state \notin {"queued", "holding"},
           asks[c].route = "events", answer[c] = Nothing, ~ r.cancel, r.got <= net[c].sent,
           r.cursor <= r.upto, r.upto <= Len(db.events), Len(wrote[c]) = r.cursor
    PROVE  ServiceInv' /\ Shows(c)
<1>0. Len(db.events) \in Nat /\ r.cursor \in Nat /\ r.upto \in Nat
  BY Facts DEF Tasks
<1>1. PICK k \in r.cursor .. r.upto : \E s \in Sending(c) : \E o \in Left(c, s) :
        /\ s = "yes" => k = r.upto
        /\ LET at == [r EXCEPT !.cursor = k]
           IN  CASE s = "yes" -> /\ Task(c, [at EXCEPT !.pc = "nap"])
                                 /\ tr' = [tr EXCEPT ![c].owed = o]
                 [] s = "stuck" -> Drain(c, at, IF k = r.upto THEN "keepalive" ELSE "event")
                 [] s = "no" -> Finish(c, at, "completed", o)
        /\ wrote' = [wrote EXCEPT ![c] =
                       @ \o Rows(r.cursor, IF s = "stuck" /\ k < r.upto THEN k + 1 ELSE k)]
  BY DEF Stream
<1> DEFINE z == [r EXCEPT !.cursor = k]
<1>2. /\ z \in Tasks /\ z.cursor = k /\ z.upto = r.upto /\ z.got = r.got /\ z.cancel = r.cancel
      /\ [z EXCEPT !.pc = "nap"] \in Tasks
  <2>1. z \in Tasks
    BY <1>0 DEF Tasks
  <2>2. z.cursor = k /\ z.upto = r.upto /\ z.got = r.got /\ z.cancel = r.cancel
    BY DEF Tasks
  <2> HIDE DEF z
  <2>3. [z EXCEPT !.pc = "nap"] \in Tasks
    BY <2>1 DEF Tasks, Points
  <2> QED
    BY <2>1, <2>2, <2>3
<1>3. PICK s \in Sending(c) : \E o \in Left(c, s) :
        /\ s = "yes" => k = r.upto
        /\ CASE s = "yes" -> /\ Task(c, [z EXCEPT !.pc = "nap"])
                             /\ tr' = [tr EXCEPT ![c].owed = o]
             [] s = "stuck" -> Drain(c, z, IF k = r.upto THEN "keepalive" ELSE "event")
             [] s = "no" -> Finish(c, z, "completed", o)
        /\ wrote' = [wrote EXCEPT ![c] =
                       @ \o Rows(r.cursor, IF s = "stuck" /\ k < r.upto THEN k + 1 ELSE k)]
  BY <1>1
<1>3a. PICK o \in Left(c, s) :
        /\ s = "yes" => k = r.upto
        /\ CASE s = "yes" -> /\ Task(c, [z EXCEPT !.pc = "nap"])
                             /\ tr' = [tr EXCEPT ![c].owed = o]
             [] s = "stuck" -> Drain(c, z, IF k = r.upto THEN "keepalive" ELSE "event")
             [] s = "no" -> Finish(c, z, "completed", o)
        /\ wrote' = [wrote EXCEPT ![c] =
                       @ \o Rows(r.cursor, IF s = "stuck" /\ k < r.upto THEN k + 1 ELSE k)]
  BY <1>3
<1>4. s \in {"yes", "no", "stuck"} /\ [tr[c] EXCEPT !.owed = o] \in Buffers
  BY <1>3a, SendsWell
<1> DEFINE m == IF s = "stuck" /\ k < r.upto THEN k + 1 ELSE k
           w == Numbers(m)
<1>5. m \in Nat /\ r.cursor <= m /\ m <= Len(db.events)
  BY <1>0
<1>6. wrote \in [Clients -> Seq(Sent)] /\ wrote[c] = Numbers(r.cursor)
  BY Facts DEF InOrder, Streamed, ServiceInv, Typed
<1>7. w \in Seq(Sent) /\ Len(w) = m /\ Numbers(r.cursor) \o Rows(r.cursor, m) = w
  BY <1>0, <1>5, PageContinues
<1>8. wrote' = [wrote EXCEPT ![c] = w]
  BY <1>3a, <1>6, <1>7
<1>9. /\ answer[c] \in Responses /\ answer' = [answer EXCEPT ![c] = answer[c]]
  BY DEF ServiceInv, Typed
<1>10. Len(w) <= Len(db.events) /\ w = Numbers(Len(w))
  BY <1>5, <1>7
<1>m. k \in Nat /\ r.cursor <= k /\ k <= r.upto
  BY <1>0
<1> HIDE DEF m
<1>11. Steady => Shows(c)
  <2>1. m \in Len(wrote[c]) .. Len(db.events)
    BY <1>0, <1>5
  <2>2. Delivers(c)
    BY <1>8, <2>1 DEF Delivers
  <2> QED
    BY <2>2 DEF Shows
<1>z. z.cursor <= z.upto /\ z.upto <= Len(db.events) /\ z.got <= net[c].sent /\ ~ z.cancel
  BY <1>2, <1>m
<1> HIDE DEF w
<1>12. CASE s = "stuck" /\ k < r.upto
  <2>1. Drain(c, z, "event")
    BY <1>3a, <1>12, <1>m, <1>0
  <2> HIDE DEF z
  <2>2. Len(w) = z.cursor + (IF "event" = "event" THEN 1 ELSE 0) /\ z.cursor < z.upto
    BY <1>2, <1>7, <1>12 DEF m
  <2>3. "event" \in Waits \ {"none"} /\ "event" # "reply"
    BY DEF Waits
  <2>4. UNCHANGED <<net, op, db, stop, snapshot, asks>>
    OBVIOUS
  <2>5. ServiceInv' /\ Steady
    BY <1>2, <1>7, <1>8, <1>9, <1>10, <1>z, <2>1, <2>2, <2>3, <2>4, Drains
  <2> QED
    BY <1>11, <2>5
<1>13. CASE s = "stuck" /\ ~ (k < r.upto)
  <2>1. Drain(c, z, "keepalive")
    BY <1>3a, <1>13, <1>m, <1>0
  <2> HIDE DEF z
  <2>2. Len(w) = z.cursor + (IF "keepalive" = "event" THEN 1 ELSE 0)
    BY <1>2, <1>m, <1>7, <1>13 DEF m
  <2>3. "keepalive" \in Waits \ {"none"} /\ "keepalive" # "reply" /\ "keepalive" # "event"
    BY DEF Waits
  <2>4. UNCHANGED <<net, op, db, stop, snapshot, asks>>
    OBVIOUS
  <2>5. ServiceInv' /\ Steady
    BY <1>2, <1>7, <1>8, <1>9, <1>10, <1>z, <2>1, <2>2, <2>3, <2>4, Drains
  <2> QED
    BY <1>11, <2>5
<1>14. CASE s = "no"
  <2>1. Finish(c, z, "completed", o)
    BY <1>3a, <1>14
  <2> HIDE DEF z
  <2>2. "completed" \in Outcomes /\ UNCHANGED <<net, op, db, stop, snapshot, asks>>
    BY DEF Outcomes
  <2>3. ServiceInv' /\ Steady
    BY <1>2, <1>4, <1>7, <1>8, <1>9, <1>10, <1>z, <2>1, <2>2, Finishes
  <2> QED
    BY <1>11, <2>3
<1>15. CASE s = "yes"
  <2> DEFINE y == [z EXCEPT !.pc = "nap"]
  <2>1. Task(c, y) /\ tr' = [tr EXCEPT ![c].owed = o] /\ m = k
    BY <1>3a, <1>15 DEF m
  <2>2. tr' \in [Clients -> Buffers]
    BY <1>4, <2>1 DEF ServiceInv, Typed, Buffers
  <2>3. /\ y \in Tasks /\ y.pc = "nap" /\ ~ y.cancel
        /\ y.got = r.got /\ y.cursor = k /\ y.upto = r.upto
    BY <1>2 DEF Tasks, Points
  <2> HIDE DEF y, z
  <2>4. op[c] \in Operations /\ op' = [op EXCEPT ![c] = op[c]]
    BY DEF ServiceInv, Typed
  <2>5. Becomes(c, y, op[c], answer[c], w)
    BY <1>8, <1>9, <2>1, <2>2, <2>4 DEF Becomes, Task
  <2>6. MayBecome(c, y, op[c])
    BY <2>3 DEF MayBecome
  <2>7. InOrder(asks[c], inv[c], op[c], answer[c], wrote[c], Len(db.events))
    BY Facts
  <2>8. InOrder(asks[c], y, op[c], answer[c], w, Len(db.events))
    BY <1>0, <1>7, <1>10, <2>1, <2>3, <2>7 DEF InOrder, Position, Operating, Answered, Streamed
  <2> QED
    BY <1>7, <1>9, <1>11, <2>3, <2>4, <2>5, <2>6, <2>8, Moves
<1> QED
  BY <1>4, <1>12, <1>13, <1>14, <1>15

\* It goes on to another await and nothing else happens.
LEMMA Repositions ==
    ASSUME ServiceInv, NEW c \in Clients, NEW r \in Tasks, Task(c, r),
           UNCHANGED <<net, op, db, stop, snapshot, asks, answer, wrote>>,
           tr' \in [Clients -> Buffers], MayBecome(c, r, op[c]),
           InOrder(asks[c], r, op[c], answer[c], wrote[c], Len(db.events))
    PROVE  ServiceInv' /\ Shows(c)
<1>1. /\ op[c] \in Operations /\ op' = [op EXCEPT ![c] = op[c]]
      /\ answer[c] \in Responses /\ answer' = [answer EXCEPT ![c] = answer[c]]
      /\ wrote[c] \in Seq(Sent) /\ wrote' = [wrote EXCEPT ![c] = wrote[c]]
  BY DEF ServiceInv, Typed
<1>2. Becomes(c, r, op[c], answer[c], wrote[c])
  BY <1>1 DEF Becomes, Task
<1> QED
  BY <1>1, <1>2, Moves DEF Shows, Quiet

\* It finishes and its client sees nothing of it.
LEMMA FinishesQuietly ==
    ASSUME ServiceInv, NEW c \in Clients, NEW r \in Tasks, NEW how \in Outcomes, NEW owed,
           [tr[c] EXCEPT !.owed = owed] \in Buffers,
           Finish(c, r, how, owed), UNCHANGED <<net, op, db, stop, snapshot, asks, answer, wrote>>,
           inv[c].pc # "done", op[c].state \notin {"queued", "holding"},
           r.got <= net[c].sent, r.cursor <= r.upto, r.upto <= Len(db.events)
    PROVE  ServiceInv' /\ Shows(c)
<1>1. /\ answer[c] \in Responses /\ answer' = [answer EXCEPT ![c] = answer[c]]
      /\ wrote[c] \in Seq(Sent) /\ wrote' = [wrote EXCEPT ![c] = wrote[c]]
  BY DEF ServiceInv, Typed
<1>2. Len(wrote[c]) <= Len(db.events) /\ wrote[c] = Numbers(Len(wrote[c]))
  BY Facts DEF InOrder, Streamed
<1> QED
  BY <1>1, <1>2, Finishes DEF Shows, Quiet

LEMMA OwedStays ==
    ASSUME ServiceInv, NEW c \in Clients
    PROVE  /\ [tr[c] EXCEPT !.owed = tr[c].owed] \in Buffers
           /\ [tr[c] EXCEPT !.owed = FALSE] \in Buffers
BY Facts DEF Buffers

LEMMA AcceptKeeps == ASSUME ServiceInv, NEW c \in Clients, Accept(c) PROVE ServiceInv' /\ Shows(c)
<1> DEFINE r == [inv[c] EXCEPT !.pc = "start"]
<1>1. /\ inv[c] \in Tasks /\ inv[c].got <= net[c].sent
      /\ InOrder(asks[c], inv[c], op[c], answer[c], wrote[c], Len(db.events))
  BY Facts
<1>2. /\ Task(c, r) /\ inv[c].pc = "none"
      /\ tr' = [tr EXCEPT ![c].state = IF @ = "attached" THEN "open" ELSE @]
      /\ UNCHANGED <<net, op, db, stop, snapshot, asks, answer, wrote>>
  BY DEF Accept
<1>3. /\ r \in Tasks /\ r.pc = "start" /\ r.got = inv[c].got /\ r.cancel = inv[c].cancel
      /\ r.what = inv[c].what /\ r.cursor = inv[c].cursor /\ r.upto = inv[c].upto
  BY <1>1 DEF Tasks, Points
<1> HIDE DEF r
<1>4. tr' \in [Clients -> Buffers]
  BY <1>2 DEF ServiceInv, Typed, Buffers, Transports
<1>5. MayBecome(c, r, op[c])
  BY <1>1, <1>2, <1>3 DEF MayBecome
<1>6. InOrder(asks[c], r, op[c], answer[c], wrote[c], Len(db.events))
  BY <1>1, <1>2, <1>3 DEF InOrder, Position, Operating, Answered, Streamed
<1> QED
  BY <1>2, <1>3, <1>4, <1>5, <1>6, Repositions

LEMMA BeginKeeps == ASSUME ServiceInv, NEW c \in Clients, Begin(c) PROVE ServiceInv' /\ Shows(c)
<1> DEFINE r == [inv[c] EXCEPT !.pc = "receive"]
<1>1. /\ inv[c] \in Tasks /\ inv[c].got <= net[c].sent
      /\ InOrder(asks[c], inv[c], op[c], answer[c], wrote[c], Len(db.events))
  BY Facts
<1>2. /\ Task(c, r) /\ inv[c].pc = "start"
      /\ UNCHANGED <<net, tr, op, db, stop, snapshot, asks, answer, wrote>>
  BY DEF Begin
<1>3. /\ r \in Tasks /\ r.pc = "receive" /\ r.got = inv[c].got /\ r.cancel = inv[c].cancel
      /\ r.what = inv[c].what /\ r.cursor = inv[c].cursor /\ r.upto = inv[c].upto
  BY <1>1 DEF Tasks, Points
<1> HIDE DEF r
<1>4. tr' \in [Clients -> Buffers]
  BY <1>2 DEF ServiceInv, Typed
<1>5. MayBecome(c, r, op[c])
  BY <1>1, <1>2, <1>3 DEF MayBecome
<1>6. InOrder(asks[c], r, op[c], answer[c], wrote[c], Len(db.events))
  BY <1>1, <1>2, <1>3 DEF InOrder, Position, Operating, Answered, Streamed
<1> QED
  BY <1>2, <1>3, <1>4, <1>5, <1>6, Repositions

LEMMA ReceiveKeeps ==
    ASSUME ServiceInv, NEW c \in Clients, Receive(c) \/ ReceiveNothing(c)
    PROVE  ServiceInv' /\ Shows(c)
<1>1. /\ inv[c] \in Tasks /\ inv[c].got <= net[c].sent /\ net[c].sent \in Nat
      /\ InOrder(asks[c], inv[c], op[c], answer[c], wrote[c], Len(db.events))
  BY Facts DEF Ends
<1>2. CASE ReceiveNothing(c)
  <2>1. /\ inv[c].pc = "receive" /\ Finish(c, inv[c], "completed", tr[c].owed)
        /\ UNCHANGED <<net, op, db, stop, snapshot, asks, answer, wrote>>
    BY <1>2 DEF ReceiveNothing, Runs
  <2>2. /\ op[c].state \notin {"queued", "holding"} /\ inv[c].cursor <= inv[c].upto
        /\ inv[c].upto <= Len(db.events)
    BY <1>1, <2>1 DEF InOrder, Operating, Streamed
  <2> QED
    BY <1>1, <2>1, <2>2, OwedStays, FinishesQuietly DEF Outcomes
<1>3. CASE Receive(c)
  <2> DEFINE r == [inv[c] EXCEPT !.got = net[c].sent]
  <2>1. /\ Task(c, r) /\ inv[c].pc = "receive"
        /\ UNCHANGED <<net, tr, op, db, stop, snapshot, asks, answer, wrote>>
    BY <1>3 DEF Receive, Runs
  <2>2. /\ r \in Tasks /\ r.pc = "receive" /\ r.got = net[c].sent /\ r.cancel = inv[c].cancel
        /\ r.what = inv[c].what /\ r.cursor = inv[c].cursor /\ r.upto = inv[c].upto
    BY <1>1, <2>1 DEF Tasks
  <2> HIDE DEF r
  <2>3. tr' \in [Clients -> Buffers]
    BY <2>1 DEF ServiceInv, Typed
  <2>4. MayBecome(c, r, op[c])
    BY <1>1, <2>1, <2>2 DEF MayBecome
  <2>5. InOrder(asks[c], r, op[c], answer[c], wrote[c], Len(db.events))
    BY <1>1, <2>1, <2>2 DEF InOrder, Position, Operating, Answered, Streamed
  <2> QED
    BY <2>1, <2>2, <2>3, <2>4, <2>5, Repositions
<1> QED
  BY <1>2, <1>3

\* What is answered is true of the request.
LEMMA Truths ==
    ASSUME ServiceInv, NEW c \in Clients
    PROVE  /\ asks[c].route = "static" =>
                /\ Response("static", 0) \in Contract!Truthful(c)
                /\ Response("static", 0) \in Responses
           /\ asks[c].route # "events" /\ Ready(c) =>
                Outcome(c) \in Contract!Truthful(c) /\ Outcome(c) \in Responses
<1> DEFINE k == [d \in Clients |-> [done |-> asks[d].route # "events" /\ op[d].state = "ok",
                                 balance |-> IF op[d].state = "ok" THEN op[d].balance ELSE 0]]
<1>1. /\ k[c].done <=> asks[c].route # "events" /\ op[c].state = "ok"
      /\ k[c].balance = IF op[c].state = "ok" THEN op[c].balance ELSE 0
  OBVIOUS
<1>2. Contract!Truthful(c) =
         CASE asks[c].route \in {"update", "read"} /\ k[c].done ->
                 {[status |-> "ok", balance |-> k[c].balance]}
           [] asks[c].route \in {"update", "read"} /\ ~ k[c].done ->
                 {[status |-> "unavailable", balance |-> 0]} \cup
                 IF asks[c].known THEN {} ELSE {[status |-> "missing", balance |-> 0]}
           [] asks[c].route = "static" -> {[status |-> "static", balance |-> 0]}
           [] OTHER -> {}
  BY DEF Contract!Truthful
<1> HIDE DEF k
<1>3. /\ asks[c] \in Requests /\ op[c] \in Operations
      /\ InOrder(asks[c], inv[c], op[c], answer[c], wrote[c], Len(db.events))
  BY Facts
<1>4. CASE asks[c].route = "static"
  <2>1. Contract!Truthful(c) = {[status |-> "static", balance |-> 0]}
    BY <1>2, <1>4
  <2>2. Response("static", 0) = [status |-> "static", balance |-> 0]
    BY DEF Response
  <2>3. [status |-> "static", balance |-> 0] \in Responses
    BY DEF Responses
  <2>4. ~ Ready(c)
    BY <1>3, <1>4 DEF InOrder, Operating, Ready
  <2> QED
    BY <1>4, <2>1, <2>2, <2>3, <2>4
<1>5. CASE asks[c].route # "static" /\ asks[c].route # "events" /\ Ready(c)
  <2>1. asks[c].route \in {"update", "read"} /\ op[c].state \in {"ok", "missing", "error"}
    BY <1>3, <1>5 DEF Requests, Ready
  <2>2. op[c].balance \in Nat
    BY <1>3 DEF Operations
  <2>3. CASE op[c].state = "ok"
    <3>1. Outcome(c) = [status |-> "ok", balance |-> op[c].balance]
      BY <2>3 DEF Outcome, Response
    <3>2. Contract!Truthful(c) = {[status |-> "ok", balance |-> op[c].balance]}
      BY <1>1, <1>2, <2>1, <2>3
    <3> QED
      BY <1>5, <2>2, <3>1, <3>2 DEF Responses
  <2>4. CASE op[c].state # "ok"
    <3>1. Contract!Truthful(c) = {[status |-> "unavailable", balance |-> 0]} \cup
             IF asks[c].known THEN {} ELSE {[status |-> "missing", balance |-> 0]}
      BY <1>1, <1>2, <2>1, <2>4
    <3>2. op[c].state = "missing" => ~ asks[c].known
      BY <1>3 DEF InOrder, Operating
    <3>3. Outcome(c) = [status |-> IF op[c].state = "error" THEN "unavailable" ELSE "missing",
                        balance |-> 0]
      BY <2>1, <2>4 DEF Outcome, Response
    <3> QED
      BY <1>5, <2>1, <2>4, <3>1, <3>2, <3>3 DEF Responses
  <2> QED
    BY <2>3, <2>4
<1> QED
  BY <1>4, <1>5

LEMMA HandleKeeps == ASSUME ServiceInv, NEW c \in Clients, Handle(c) PROVE ServiceInv' /\ Shows(c)
<1> DEFINE r == [inv[c] EXCEPT !.got = Parts[asks[c]]]
<1>1. /\ inv[c] \in Tasks /\ net[c].sent \in Nat /\ asks[c] \in Requests
      /\ Parts[asks[c]] \in Nat
      /\ InOrder(asks[c], inv[c], op[c], answer[c], wrote[c], Len(db.events))
  BY Facts DEF Ends
<1>2. /\ inv[c].pc = "receive" /\ ~ inv[c].cancel /\ net[c].sent = Parts[asks[c]]
      /\ UNCHANGED <<net, db, stop, snapshot, asks, wrote>>
  BY DEF Handle, Runs
<1>3. /\ r \in Tasks /\ r.pc = "receive" /\ r.got <= net[c].sent /\ ~ r.cancel
      /\ r.cursor = inv[c].cursor /\ r.upto = inv[c].upto /\ r.what = inv[c].what
  BY <1>1, <1>2 DEF Tasks
<1>4. /\ op[c] = Idle /\ answer[c] = Nothing /\ Len(wrote[c]) = r.cursor
      /\ r.cursor <= r.upto /\ r.upto <= Len(db.events)
  <2>1. inv[c].cursor \in Nat
    BY <1>1 DEF Tasks
  <2> QED
    BY <1>1, <1>2, <1>3, <2>1 DEF InOrder, Operating, Answered, Streamed
<1>5. op[c].state \notin {"queued", "holding"} /\ inv[c].pc # "done"
  BY <1>2, <1>4 DEF Idle
<1>6. asks[c].route \in {"static", "read", "update", "events"}
  BY <1>1 DEF Requests
<1>7. CASE asks[c].route = "static"
  <2>1. Reply(c, r, Response("static", 0)) /\ UNCHANGED op
    BY <1>7 DEF Handle
  <2> HIDE DEF r
  <2>2. Response("static", 0) \in Contract!Truthful(c) /\ Response("static", 0) \in Responses
    BY <1>7, Truths
  <2> QED
    BY <1>2, <1>3, <1>4, <1>5, <1>7, <2>1, <2>2, Replies
<1>8. CASE asks[c].route = "read"
  <2> DEFINE z == [r EXCEPT !.pc = "delay"]
  <2>1. Task(c, z) /\ UNCHANGED <<tr, op, answer>>
    BY <1>8 DEF Handle
  <2> HIDE DEF r
  <2>2. /\ z \in Tasks /\ z.pc = "delay" /\ z.got = r.got /\ z.cancel = r.cancel
        /\ z.what = r.what /\ z.cursor = r.cursor /\ z.upto = r.upto
    BY <1>3 DEF Tasks, Points
  <2> HIDE DEF z
  <2>3. tr' \in [Clients -> Buffers]
    BY <2>1 DEF ServiceInv, Typed
  <2>4. MayBecome(c, z, op[c])
    BY <1>2, <1>3, <2>2 DEF MayBecome
  <2>5. InOrder(asks[c], z, op[c], answer[c], wrote[c], Len(db.events))
    BY <1>1, <1>2, <1>3, <1>4, <1>8, <2>2 DEF InOrder, Position, Operating, Answered, Streamed, Idle
  <2> QED
    BY <1>2, <2>1, <2>2, <2>3, <2>4, <2>5, Repositions
<1>9. CASE asks[c].route = "update"
  <2>1. StartOperation(c, r) /\ UNCHANGED <<tr, answer>>
    BY <1>9 DEF Handle
  <2> HIDE DEF r
  <2>2. tr' \in [Clients -> Buffers]
    BY <2>1 DEF ServiceInv, Typed
  <2> QED
    BY <1>2, <1>3, <1>4, <1>5, <1>9, <2>1, <2>2, Starts
<1>10. CASE asks[c].route = "events"
  <2>1. /\ UNCHANGED answer
        /\ \E s \in Sending(c) : \E o \in Left(c, s) :
              CASE s = "yes" -> /\ StartOperation(c, r)
                                /\ tr' = [tr EXCEPT ![c].owed = o]
                [] s = "stuck" -> Drain(c, r, "header") /\ UNCHANGED op
                [] s = "no" -> Finish(c, r, "completed", o) /\ UNCHANGED op
    BY <1>10 DEF Handle
  <2> HIDE DEF r
  <2>2. PICK s \in Sending(c) : \E o \in Left(c, s) :
              CASE s = "yes" -> /\ StartOperation(c, r)
                                /\ tr' = [tr EXCEPT ![c].owed = o]
                [] s = "stuck" -> Drain(c, r, "header") /\ UNCHANGED op
                [] s = "no" -> Finish(c, r, "completed", o) /\ UNCHANGED op
    BY <2>1
  <2>3. PICK o \in Left(c, s) :
              CASE s = "yes" -> /\ StartOperation(c, r)
                                /\ tr' = [tr EXCEPT ![c].owed = o]
                [] s = "stuck" -> Drain(c, r, "header") /\ UNCHANGED op
                [] s = "no" -> Finish(c, r, "completed", o) /\ UNCHANGED op
    BY <2>2
  <2>4. s \in {"yes", "no", "stuck"} /\ [tr[c] EXCEPT !.owed = o] \in Buffers
    BY <2>3, SendsWell
  <2>5. CASE s = "yes"
    <3>1. StartOperation(c, r) /\ tr' = [tr EXCEPT ![c].owed = o]
      BY <2>3, <2>5
    <3>2. tr' \in [Clients -> Buffers]
      BY <2>4, <3>1 DEF ServiceInv, Typed
    <3> QED
      BY <1>2, <1>3, <1>4, <1>5, <1>10, <2>1, <3>1, <3>2, Starts
  <2>6. CASE s = "stuck"
    <3>1. Drain(c, r, "header") /\ UNCHANGED <<net, op, db, stop, snapshot, asks>>
      BY <1>2, <2>3, <2>6
    <3>2. /\ answer[c] \in Responses /\ answer' = [answer EXCEPT ![c] = answer[c]]
          /\ wrote[c] \in Seq(Sent) /\ wrote' = [wrote EXCEPT ![c] = wrote[c]]
      BY <1>2, <2>1 DEF ServiceInv, Typed
    <3>3. /\ "header" \in Waits \ {"none"} /\ "header" # "reply" /\ "header" # "event"
          /\ r.cursor \in Nat
      BY <1>3 DEF Waits, Tasks
    <3>4. /\ Len(wrote[c]) <= Len(db.events) /\ wrote[c] = Numbers(Len(wrote[c]))
          /\ Len(wrote[c]) = r.cursor + (IF "header" = "event" THEN 1 ELSE 0)
      BY <1>1, <1>4, <3>3 DEF InOrder, Streamed
    <3>5. ServiceInv' /\ Steady
      BY <1>3, <1>4, <1>5, <1>10, <3>1, <3>2, <3>3, <3>4, Drains
    <3> QED
      BY <1>2, <2>1, <3>5 DEF Shows, Quiet
  <2>7. CASE s = "no"
    <3>1. Finish(c, r, "completed", o) /\ UNCHANGED op
      BY <2>3, <2>7
    <3> QED
      BY <1>2, <1>3, <1>4, <1>5, <2>1, <2>4, <3>1, FinishesQuietly DEF Outcomes
  <2> QED
    BY <2>4, <2>5, <2>6, <2>7
<1> QED
  BY <1>6, <1>7, <1>8, <1>9, <1>10

LEMMA WakeKeeps == ASSUME ServiceInv, NEW c \in Clients, Wake(c) PROVE ServiceInv' /\ Shows(c)
<1>1. /\ inv[c] \in Tasks /\ inv[c].got <= net[c].sent
      /\ InOrder(asks[c], inv[c], op[c], answer[c], wrote[c], Len(db.events))
  BY Facts
<1>2. /\ inv[c].pc \in {"delay", "nap"} /\ ~ inv[c].cancel /\ StartOperation(c, inv[c])
      /\ UNCHANGED <<net, tr, db, stop, snapshot, asks, answer, wrote>>
  BY DEF Wake, Runs
<1>3. op[c] = Idle \/ asks[c].route = "events"
  BY <1>1, <1>2 DEF InOrder, Operating, Position
<1>4. asks[c].route # "static" /\ answer[c] = Nothing
  BY <1>1, <1>2 DEF InOrder, Position, Answered
<1>5. /\ Len(wrote[c]) = inv[c].cursor /\ inv[c].cursor <= inv[c].upto
      /\ inv[c].upto <= Len(db.events)
  <2>1. inv[c].cursor \in Nat
    BY <1>1 DEF Tasks
  <2> QED
    BY <1>1, <1>2, <2>1 DEF InOrder, Streamed
<1>6. tr' \in [Clients -> Buffers]
  BY <1>2 DEF ServiceInv, Typed
<1> QED
  BY <1>1, <1>2, <1>3, <1>4, <1>5, <1>6, Starts

LEMMA ResumeKeeps == ASSUME ServiceInv, NEW c \in Clients, Resume(c) PROVE ServiceInv' /\ Shows(c)
<1>1. /\ inv[c] \in Tasks /\ inv[c].got <= net[c].sent /\ op[c] \in Operations
      /\ inv[c].cursor \in Nat
      /\ InOrder(asks[c], inv[c], op[c], answer[c], wrote[c], Len(db.events))
  BY Facts DEF Tasks
<1>2. /\ inv[c].pc = "worker" /\ ~ inv[c].cancel /\ Ready(c)
      /\ UNCHANGED <<net, op, db, stop, snapshot, asks>>
  BY DEF Resume, Runs
<1>3. op[c].state \notin {"queued", "holding"}
  BY <1>2 DEF Ready
<1>4. /\ answer[c] = Nothing /\ Len(wrote[c]) = inv[c].cursor
      /\ inv[c].cursor <= inv[c].upto /\ inv[c].upto <= Len(db.events)
  BY <1>1, <1>2 DEF InOrder, Answered, Streamed
<1>5. CASE asks[c].route # "events"
  <2>1. Reply(c, inv[c], Outcome(c)) /\ UNCHANGED wrote
    BY <1>5 DEF Resume
  <2>2. Outcome(c) \in Contract!Truthful(c) /\ Outcome(c) \in Responses
    BY <1>2, <1>5, Truths
  <2> QED
    BY <1>1, <1>2, <1>3, <1>4, <1>5, <2>1, <2>2, Replies
<1>6. CASE asks[c].route = "events" /\ op[c].state = "error"
  <2>1. Finish(c, inv[c], "error", tr[c].owed) /\ UNCHANGED <<answer, wrote>>
    BY <1>6 DEF Resume
  <2> QED
    BY <1>1, <1>2, <1>3, <1>4, <2>1, OwedStays, FinishesQuietly DEF Outcomes
<1>7. CASE asks[c].route = "events" /\ op[c].state # "error"
  <2> DEFINE r == [inv[c] EXCEPT !.upto = op[c].upto]
  <2>1. Stream(c, r) /\ UNCHANGED answer
    BY <1>7 DEF Resume
  <2>2. op[c].state = "ok"
    BY <1>1, <1>2, <1>7 DEF Ready, InOrder, Operating, Requests, Typed, ServiceInv
  <2>3. /\ r \in Tasks /\ ~ r.cancel /\ r.got = inv[c].got /\ r.cursor = inv[c].cursor
        /\ r.upto = op[c].upto
    BY <1>1, <1>2 DEF Tasks, Operations
  <2> HIDE DEF r
  <2>4. r.cursor <= r.upto /\ r.upto <= Len(db.events)
    BY <1>1, <1>2, <1>7, <2>2, <2>3 DEF InOrder, Streamed
  <2> QED
    BY <1>1, <1>2, <1>3, <1>4, <1>7, <2>1, <2>3, <2>4, Streams
<1> QED
  BY <1>5, <1>6, <1>7

LEMMA DrainedKeeps == ASSUME ServiceInv, NEW c \in Clients, Drained(c) PROVE ServiceInv' /\ Shows(c)
<1> DEFINE r == [inv[c] EXCEPT !.what = "none"]
<1>1. /\ inv[c] \in Tasks /\ inv[c].got <= net[c].sent /\ inv[c].cursor \in Nat
      /\ InOrder(asks[c], inv[c], op[c], answer[c], wrote[c], Len(db.events))
  BY Facts DEF Tasks
<1>2. /\ inv[c].pc = "drain" /\ ~ inv[c].cancel
      /\ UNCHANGED <<net, db, stop, snapshot, asks, answer>>
  BY DEF Drained, Runs
<1>3. /\ r \in Tasks /\ r.pc = "drain" /\ ~ r.cancel /\ r.got = inv[c].got
      /\ r.cursor = inv[c].cursor /\ r.upto = inv[c].upto
  BY <1>1, <1>2 DEF Tasks, Waits
<1>4. /\ op[c].state \notin {"queued", "holding"} /\ inv[c].what \in Waits \ {"none"}
      /\ inv[c].what = "reply" <=> asks[c].route # "events"
      /\ inv[c].what # "reply" => answer[c] = Nothing
      /\ inv[c].cursor <= inv[c].upto /\ inv[c].upto <= Len(db.events)
      /\ inv[c].what = "event" => inv[c].cursor < inv[c].upto
      /\ Len(wrote[c]) = inv[c].cursor + (IF inv[c].what = "event" THEN 1 ELSE 0)
  BY <1>1, <1>2 DEF InOrder, Operating, Position, Answered, Streamed, Tasks
<1>5. inv[c].what \in {"reply", "header", "event", "keepalive"} /\ Len(db.events) \in Nat
      /\ inv[c].upto \in Nat
  BY <1>1, <1>4, Facts DEF Waits, Tasks
<1>6. CASE inv[c].what = "reply"
  <2>1. Finish(c, r, "completed", FALSE) /\ UNCHANGED <<op, wrote>>
    BY <1>6 DEF Drained
  <2> HIDE DEF r
  <2> QED
    BY <1>1, <1>2, <1>3, <1>4, <2>1, OwedStays, FinishesQuietly DEF Outcomes
<1>7. CASE inv[c].what = "header"
  <2>1. StartOperation(c, r) /\ UNCHANGED <<tr, wrote>>
    BY <1>7 DEF Drained
  <2> HIDE DEF r
  <2>2. tr' \in [Clients -> Buffers]
    BY <2>1 DEF ServiceInv, Typed
  <2>3. Len(wrote[c]) = r.cursor /\ asks[c].route = "events"
    BY <1>1, <1>3, <1>4, <1>7
  <2> QED
    BY <1>1, <1>2, <1>3, <1>4, <1>7, <2>1, <2>2, <2>3, Starts
<1>8. CASE inv[c].what = "event"
  <2> DEFINE z == [r EXCEPT !.cursor = @ + 1]
  <2>1. Stream(c, z) /\ UNCHANGED op
    BY <1>8 DEF Drained
  <2> HIDE DEF r
  <2>2. /\ z \in Tasks /\ ~ z.cancel /\ z.got = r.got /\ z.cursor = r.cursor + 1
        /\ z.upto = r.upto
    BY <1>1, <1>3 DEF Tasks
  <2> HIDE DEF z
  <2>3. /\ Len(wrote[c]) = z.cursor /\ asks[c].route = "events" /\ z.got <= net[c].sent
        /\ z.cursor <= z.upto /\ z.upto <= Len(db.events)
    BY <1>1, <1>3, <1>4, <1>5, <1>8, <2>2
  <2> QED
    BY <1>2, <1>4, <1>8, <2>1, <2>2, <2>3, Streams
<1>9. CASE inv[c].what = "keepalive"
  <2> DEFINE z == [r EXCEPT !.pc = "nap"]
  <2>1. Task(c, z) /\ UNCHANGED <<tr, op, wrote>>
    BY <1>9 DEF Drained
  <2>2. r.what = "none"
    BY <1>1 DEF Tasks
  <2> HIDE DEF r
  <2>3. /\ z \in Tasks /\ z.pc = "nap" /\ ~ z.cancel /\ z.got = r.got /\ z.cursor = r.cursor
        /\ z.upto = r.upto
    BY <1>3 DEF Tasks, Points
  <2> HIDE DEF z
  <2>4. tr' \in [Clients -> Buffers]
    BY <2>1 DEF ServiceInv, Typed
  <2>5. MayBecome(c, z, op[c])
    BY <1>1, <1>2, <1>3, <2>3 DEF MayBecome
  <2>6. Len(wrote[c]) = z.cursor
    BY <1>1, <1>3, <1>4, <1>9, <2>3
  <2>7. InOrder(asks[c], z, op[c], answer[c], wrote[c], Len(db.events))
    BY <1>1, <1>3, <1>4, <1>9, <2>3, <2>6 DEF InOrder, Position, Operating, Answered, Streamed
  <2> QED
    BY <1>2, <2>1, <2>3, <2>4, <2>5, <2>7, Repositions
<1> QED
  BY <1>5, <1>6, <1>7, <1>8, <1>9

LEMMA DrainFailsKeeps ==
    ASSUME ServiceInv, NEW c \in Clients, DrainFails(c)
    PROVE  ServiceInv' /\ Shows(c)
<1>1. /\ inv[c] \in Tasks /\ inv[c].got <= net[c].sent
      /\ InOrder(asks[c], inv[c], op[c], answer[c], wrote[c], Len(db.events))
  BY Facts
<1>2. /\ inv[c].pc = "drain" /\ Finish(c, inv[c], "completed", FALSE)
      /\ UNCHANGED <<net, op, db, stop, snapshot, asks, answer, wrote>>
  BY DEF DrainFails, Runs
<1>3. /\ op[c].state \notin {"queued", "holding"} /\ inv[c].cursor <= inv[c].upto
      /\ inv[c].upto <= Len(db.events)
  BY <1>1, <1>2 DEF InOrder, Operating, Streamed
<1> QED
  BY <1>1, <1>2, <1>3, OwedStays, FinishesQuietly DEF Outcomes

LEMMA CancelledKeeps ==
    ASSUME ServiceInv, NEW c \in Clients, Cancelled(c)
    PROVE  ServiceInv' /\ Shows(c)
<1>1. /\ inv[c] \in Tasks /\ inv[c].got <= net[c].sent
      /\ InOrder(asks[c], inv[c], op[c], answer[c], wrote[c], Len(db.events))
  BY Facts
<1>2. inv[c].cancel /\ UNCHANGED <<net, op, db, stop, snapshot, asks, answer, wrote>>
  BY DEF Cancelled
<1>3. inv[c].pc \in {"start", "finish", "worker", "receive", "delay", "drain", "nap"}
  BY <1>1, <1>2 DEF Tasks, Points, InOrder, Position
<1>4. CASE inv[c].pc \in {"receive", "delay", "drain", "nap"}
  <2>1. Finish(c, inv[c], "cancelled", tr[c].owed)
    BY <1>4 DEF Cancelled
  <2>2. /\ op[c].state \notin {"queued", "holding"} /\ inv[c].cursor <= inv[c].upto
        /\ inv[c].upto <= Len(db.events)
    BY <1>1, <1>4 DEF InOrder, Operating, Streamed
  <2> QED
    BY <1>1, <1>2, <1>4, <2>1, <2>2, OwedStays, FinishesQuietly DEF Outcomes
<1>5. CASE inv[c].pc \in {"start", "finish", "worker"}
  <2>1. PICK to \in {"done", "join"} :
           /\ Task(c, [inv[c] EXCEPT !.pc = to, !.cancel = FALSE]) /\ UNCHANGED tr
           /\ to = "join" <=> inv[c].pc = "worker"
    BY <1>5 DEF Cancelled
  <2> DEFINE r == [inv[c] EXCEPT !.pc = to, !.cancel = FALSE]
  <2>2. /\ r \in Tasks /\ r.pc = to /\ ~ r.cancel /\ r.got = inv[c].got
        /\ r.what = inv[c].what /\ r.cursor = inv[c].cursor /\ r.upto = inv[c].upto
    BY <1>1, <2>1 DEF Tasks, Points
  <2>3. Task(c, r) /\ tr' \in [Clients -> Buffers]
    BY <2>1 DEF ServiceInv, Typed
  <2> HIDE DEF r
  <2>4. MayBecome(c, r, op[c])
    BY <1>1, <1>2, <1>5, <2>1, <2>2 DEF MayBecome
  <2>5. InOrder(asks[c], r, op[c], answer[c], wrote[c], Len(db.events))
    BY <1>1, <1>2, <1>5, <2>1, <2>2 DEF InOrder, Position, Operating, Answered, Streamed
  <2> QED
    BY <1>2, <2>2, <2>3, <2>4, <2>5, Repositions
<1> QED
  BY <1>3, <1>4, <1>5

LEMMA JoinedKeeps == ASSUME ServiceInv, NEW c \in Clients, Joined(c) PROVE ServiceInv' /\ Shows(c)
<1>1. /\ inv[c] \in Tasks /\ inv[c].got <= net[c].sent /\ inv[c].cursor \in Nat
      /\ InOrder(asks[c], inv[c], op[c], answer[c], wrote[c], Len(db.events))
  BY Facts DEF Tasks
<1>2. /\ inv[c].pc = "join" /\ Ready(c)
      /\ UNCHANGED <<net, op, db, stop, snapshot, asks, wrote>>
  BY DEF Joined
<1>3. /\ op[c].state \notin {"queued", "holding"} /\ inv[c].cursor <= inv[c].upto
      /\ inv[c].upto <= Len(db.events) /\ answer[c] = Nothing /\ ~ inv[c].cancel
      /\ Len(wrote[c]) = inv[c].cursor
  BY <1>1, <1>2 DEF Ready, InOrder, Position, Operating, Answered, Streamed
<1>4. CASE op[c].state # "error" \/ asks[c].route = "events"
  <2>1. PICK how \in {"cancelled", "error"} : Finish(c, inv[c], how, tr[c].owed) /\ UNCHANGED answer
    BY <1>4 DEF Joined
  <2> QED
    BY <1>1, <1>2, <1>3, <2>1, OwedStays, FinishesQuietly DEF Outcomes
<1>5. CASE op[c].state = "error" /\ asks[c].route # "events"
  <2>1. Reply(c, inv[c], Outcome(c))
    BY <1>5 DEF Joined
  <2>2. Outcome(c) \in Contract!Truthful(c) /\ Outcome(c) \in Responses
    BY <1>2, <1>5, Truths
  <2> QED
    BY <1>1, <1>2, <1>3, <1>5, <2>1, <2>2, Replies
<1> QED
  BY <1>4, <1>5

LEMMA EndKeeps == ASSUME ServiceInv, NEW c \in Clients, End(c) PROVE ServiceInv' /\ Shows(c)
<1> DEFINE r == [inv[c] EXCEPT !.pc = "done"]
<1>1. /\ inv[c] \in Tasks /\ inv[c].got <= net[c].sent
      /\ InOrder(asks[c], inv[c], op[c], answer[c], wrote[c], Len(db.events))
  BY Facts
<1>2. /\ Task(c, r) /\ inv[c].pc = "finish" /\ ~ inv[c].cancel
      /\ UNCHANGED <<net, tr, op, db, stop, snapshot, asks, answer, wrote>>
  BY DEF End, Runs
<1>3. /\ r \in Tasks /\ r.pc = "done" /\ r.got = inv[c].got /\ r.cancel = inv[c].cancel
      /\ r.what = inv[c].what /\ r.cursor = inv[c].cursor /\ r.upto = inv[c].upto
  BY <1>1 DEF Tasks, Points
<1> HIDE DEF r
<1>4. tr' \in [Clients -> Buffers]
  BY <1>2 DEF ServiceInv, Typed
<1>5. MayBecome(c, r, op[c])
  BY <1>1, <1>2, <1>3 DEF MayBecome
<1>6. InOrder(asks[c], r, op[c], answer[c], wrote[c], Len(db.events))
  BY <1>1, <1>2, <1>3 DEF InOrder, Position, Operating, Answered, Streamed
<1> QED
  BY <1>2, <1>3, <1>4, <1>5, <1>6, Repositions

LEMMA InvocationKeeps ==
    ASSUME ServiceInv, NEW c \in Clients, Invocation(c)
    PROVE  ServiceInv' /\ Shows(c)
BY AcceptKeeps, BeginKeeps, ReceiveKeeps, HandleKeeps, WakeKeeps, ResumeKeeps, DrainedKeeps,
   DrainFailsKeeps, CancelledKeeps, JoinedKeeps, EndKeeps DEF Invocation

----------------------------------------------------------------------------
(* Everybody else.                                                           *)

\* What a client or the network does leaves tasks and database alone.
LEMMA NetworkKeeps ==
    ASSUME ServiceInv, NEW c \in Clients, NEW e \in Ends, NEW t \in Buffers,
           net' = [net EXCEPT ![c] = e], tr' = [tr EXCEPT ![c] = t],
           UNCHANGED <<inv, op, db, stop, snapshot, asks, answer, wrote>>,
           net[c].sent <= e.sent, e.sent <= Parts[asks[c]]
    PROVE  ServiceInv' /\ Shows(c)
<1>1. Typed
  BY DEF ServiceInv
<1>2. net' \in [Clients -> Ends] /\ tr' \in [Clients -> Buffers]
  BY <1>1 DEF Typed
<1>3. net'[c] = e /\ \A d \in Clients \ {c} : net'[d] = net[d]
  BY <1>1 DEF Typed
<1>4. inv[c].got <= e.sent
  BY Facts DEF Tasks, Ends
<1>5. Typed'
  BY <1>1, <1>2, <1>3, <1>4 DEF Typed
<1>6. EachInOrder' /\ Locked' /\ Numbered' /\ Attributed' /\ Stopping'
  BY DEF ServiceInv, EachInOrder, Locked, Numbered, Attributed, Stopping
<1> QED
  BY <1>5, <1>6 DEF ServiceInv, Shows, Steady, Quiet, LookedAt

LEMMA ClientKeeps ==
    ASSUME ServiceInv, NEW c \in Clients, Client(c) \/ Lose(c)
    PROVE  ServiceInv' /\ Shows(c)
<1>1. /\ net[c] \in Ends /\ tr[c] \in Buffers /\ net[c].sent \in Nat
      /\ net[c].sent <= Parts[asks[c]] /\ Parts[asks[c]] \in Nat
      /\ net \in [Clients -> Ends] /\ tr \in [Clients -> Buffers]
  BY Facts DEF Ends, ServiceInv, Typed
<1>2. tr = [tr EXCEPT ![c] = tr[c]] /\ net = [net EXCEPT ![c] = net[c]]
  BY <1>1
<1>3. UNCHANGED <<inv, op, db, stop, snapshot, asks, answer, wrote>>
  BY DEF Client, Connect, SendPart, Deafen, Listen, Leave, Lose
<1>4. CASE Connect(c)
  <2> DEFINE e == [net[c] EXCEPT !.link = "open"]
             t == [tr[c] EXCEPT !.state = "attached"]
  <2>1. net' = [net EXCEPT ![c] = e] /\ tr' = [tr EXCEPT ![c] = t]
    BY <1>4 DEF Connect
  <2>2. e \in Ends /\ e.sent = net[c].sent /\ t \in Buffers
    BY <1>1 DEF Ends, Buffers, Transports
  <2> HIDE DEF e, t
  <2>9. net[c].sent <= e.sent /\ e.sent <= Parts[asks[c]]
    BY <1>1, <2>1, <2>2
  <2> QED
    BY <1>1, <1>3, <2>1, <2>2, <2>9, NetworkKeeps
<1>5. CASE SendPart(c)
  <2> DEFINE e == [net[c] EXCEPT !.sent = @ + 1]
  <2>1. net' = [net EXCEPT ![c] = e] /\ tr' = [tr EXCEPT ![c] = tr[c]] /\ net[c].sent < Parts[asks[c]]
    BY <1>2, <1>5 DEF SendPart
  <2>2. e \in Ends /\ e.sent = net[c].sent + 1
    BY <1>1 DEF Ends
  <2> HIDE DEF e
  <2>9. net[c].sent <= e.sent /\ e.sent <= Parts[asks[c]]
    BY <1>1, <2>1, <2>2
  <2> QED
    BY <1>1, <1>3, <2>1, <2>2, <2>9, NetworkKeeps
<1>6. CASE Deafen(c)
  <2> DEFINE e == [net[c] EXCEPT !.deaf = TRUE]
  <2>1. net' = [net EXCEPT ![c] = e] /\ tr' = [tr EXCEPT ![c] = tr[c]]
    BY <1>2, <1>6 DEF Deafen
  <2>2. e \in Ends /\ e.sent = net[c].sent
    BY <1>1 DEF Ends
  <2> HIDE DEF e
  <2>9. net[c].sent <= e.sent /\ e.sent <= Parts[asks[c]]
    BY <1>1, <2>1, <2>2
  <2> QED
    BY <1>1, <1>3, <2>1, <2>2, <2>9, NetworkKeeps
<1>7. CASE Listen(c)
  <2> DEFINE e == [net[c] EXCEPT !.deaf = FALSE]
             t == [tr[c] EXCEPT !.owed = FALSE]
  <2>1. net' = [net EXCEPT ![c] = e] /\ tr' = [tr EXCEPT ![c] = t]
    BY <1>7 DEF Listen
  <2>2. e \in Ends /\ e.sent = net[c].sent /\ t \in Buffers
    BY <1>1 DEF Ends, Buffers
  <2> HIDE DEF e, t
  <2>9. net[c].sent <= e.sent /\ e.sent <= Parts[asks[c]]
    BY <1>1, <2>1, <2>2
  <2> QED
    BY <1>1, <1>3, <2>1, <2>2, <2>9, NetworkKeeps
<1>8. CASE Leave(c)
  <2> DEFINE e == [net[c] EXCEPT !.link = "cut"]
  <2>1. net' = [net EXCEPT ![c] = e] /\ tr' = [tr EXCEPT ![c] = tr[c]]
    BY <1>2, <1>8 DEF Leave
  <2>2. e \in Ends /\ e.sent = net[c].sent
    BY <1>1 DEF Ends
  <2> HIDE DEF e
  <2>9. net[c].sent <= e.sent /\ e.sent <= Parts[asks[c]]
    BY <1>1, <2>1, <2>2
  <2> QED
    BY <1>1, <1>3, <2>1, <2>2, <2>9, NetworkKeeps
<1>9. CASE Lose(c)
  <2> DEFINE e == [net[c] EXCEPT !.link = "cut", !.deaf = FALSE]
             t == [state |-> "lost", owed |-> FALSE]
  <2>1. tr' = [tr EXCEPT ![c] = t]
    BY <1>9 DEF Lose
  <2>2. net' = [net EXCEPT ![c] = e]
    BY <1>1, <1>9 DEF Lose
  <2>3. e \in Ends /\ e.sent = net[c].sent /\ t \in Buffers
    BY <1>1 DEF Ends, Buffers, Transports
  <2> HIDE DEF e, t
  <2>9. net[c].sent <= e.sent /\ e.sent <= Parts[asks[c]]
    BY <1>1, <2>3
  <2> QED
    BY <1>1, <1>3, <2>1, <2>2, <2>3, <2>9, NetworkKeeps
<1> QED
  BY <1>4, <1>5, <1>6, <1>7, <1>8, <1>9 DEF Client

\* The host touches neither operations nor events.
LEMMA HostKeeps ==
    ASSUME ServiceInv, Host
    PROVE  ServiceInv' /\ UNCHANGED <<asks, op, answer, wrote>> /\ db'.events = db.events
<1>1. UNCHANGED <<net, op, asks, answer, wrote>>
  BY DEF Host, Close, Interrupt, CloseService, Gathered, ServerClosed, CloseDatabase
<1>2. Typed
  BY DEF ServiceInv
<1>3. \A c \in Clients : /\ inv[c] \in Tasks /\ tr[c] \in Buffers
                         /\ InOrder(asks[c], inv[c], op[c], answer[c], wrote[c], Len(db.events))
  BY Facts
<1>4. CASE Interrupt \/ Gathered \/ ServerClosed
  <2>1. UNCHANGED <<inv, db, snapshot>>
    BY <1>4 DEF Interrupt, Gathered, ServerClosed
  <2>2. tr' \in [Clients -> Buffers]
    BY <1>2, <1>3, <1>4, ClosedIsBuffer DEF Interrupt, Gathered, ServerClosed, Typed
  <2>3. /\ stop' \in Stages /\ (stop' \in {"serving", "draining"} <=> stop \in {"serving", "draining"})
        /\ stop' # "stopped" /\ stop # "stopped"
        /\ stop' \in {"waiting", "closing"} =>
              snapshot \cap Alive = {} \/ stop \in {"waiting", "closing"}
    BY <1>4 DEF Interrupt, Gathered, ServerClosed, Stages
  <2>4. Typed' /\ EachInOrder' /\ Locked' /\ Numbered' /\ Attributed'
    BY <1>1, <1>2, <2>1, <2>2, <2>3
    DEF Typed, ServiceInv, EachInOrder, Locked, Numbered, Attributed
  <2>5. Stopping'
    BY <1>2, <2>1, <2>3 DEF ServiceInv, Stopping, Alive, Typed
  <2> QED
    BY <1>1, <2>1, <2>4, <2>5 DEF ServiceInv
<1>5. CASE CloseService
  <2>1. /\ stop \in {"serving", "draining"} /\ stop' = "gathering" /\ snapshot' = Alive
        /\ inv' = [c \in Clients |-> IF c \in Alive THEN [inv[c] EXCEPT !.cancel = TRUE] ELSE inv[c]]
        /\ UNCHANGED <<tr, db>>
    BY <1>5 DEF CloseService
  <2>2. Alive = {c \in Clients : inv[c].pc \notin {"none", "done"}}
    BY DEF Alive
  <2>3. \A c \in Clients :
           /\ inv'[c] \in Tasks /\ inv'[c].pc = inv[c].pc /\ inv'[c].got = inv[c].got
           /\ inv'[c].what = inv[c].what
           /\ inv'[c].cursor = inv[c].cursor /\ inv'[c].upto = inv[c].upto
           /\ inv'[c].cancel => inv[c].cancel \/ inv[c].pc \notin {"none", "done"}
    BY <1>3, <2>1, <2>2 DEF Tasks
  <2>4. \A c \in Clients : inv[c].pc # "join" /\ ~ inv[c].cancel
    BY <2>1 DEF ServiceInv, Stopping
  <2>5. Typed'
    <3>1. inv' \in [Clients -> Tasks]
      BY <2>1, <2>3
    <3>2. \A c \in Clients : inv'[c].got <= net[c].sent
      BY <1>2, <2>3 DEF Typed
    <3>3. Alive \subseteq Clients
      BY DEF Alive
    <3> QED
      BY <1>1, <1>2, <2>1, <3>1, <3>2, <3>3 DEF Typed, Stages
  <2>6. \A c \in Clients : InOrder(asks[c], inv'[c], op[c], answer[c], wrote[c], Len(db.events))
    BY <1>3, <2>3, <2>4 DEF InOrder, Position, Operating, Answered, Streamed
  <2>7. EachInOrder'
    BY <1>1, <2>1, <2>6 DEF EachInOrder
  <2>8. Locked' /\ Numbered' /\ Attributed'
    BY <1>1, <2>1 DEF ServiceInv, Locked, Numbered, Attributed
  <2>9. Stopping'
    BY <2>1, <2>2, <2>3, <2>4 DEF ServiceInv, Stopping
  <2> QED
    BY <1>1, <2>1, <2>5, <2>7, <2>8, <2>9 DEF ServiceInv
<1>6. CASE CloseDatabase
  <2>1. /\ stop = "closing" /\ stop' = "stopped" /\ db' = [db EXCEPT !.open = FALSE]
        /\ UNCHANGED <<inv, tr, snapshot>>
    BY <1>6 DEF CloseDatabase
  <2>2. /\ db'.events = db.events /\ db'.lock = db.lock /\ db'.balance = db.balance
        /\ db'.open = FALSE
        /\ db' \in [balance : Nat, events : Seq(Rowed), lock : Clients \cup {"none"}, open : BOOLEAN]
    BY <1>2, <2>1 DEF Typed
  <2>3. Typed'
    BY <1>1, <1>2, <2>1, <2>2 DEF Typed, Stages
  <2>4. EachInOrder' /\ Locked' /\ Numbered' /\ Attributed'
    BY <1>1, <2>1, <2>2 DEF ServiceInv, EachInOrder, Locked, Numbered, Attributed
  <2>5. Stopping'
    BY <2>1, <2>2 DEF ServiceInv, Stopping
  <2> QED
    BY <1>1, <2>2, <2>3, <2>4, <2>5 DEF ServiceInv
<1> QED
  BY <1>4, <1>5, <1>6 DEF Host, Close

----------------------------------------------------------------------------
(* The worker threads.                                                       *)

\* What an operation that runs says of its connection.
LEMMA Running ==
    ASSUME ServiceInv, NEW c \in Clients, op[c].state \in {"queued", "holding"}
    PROVE  inv[c].pc \in {"worker", "join"} /\ answer[c] = Nothing /\ asks[c].route # "static"
<1>1. InOrder(asks[c], inv[c], op[c], answer[c], wrote[c], Len(db.events))
  BY Facts
<1> QED
  BY <1>1 DEF InOrder, Operating, Answered

\* It ends, without having changed the database.
LEMMA OperationEnds ==
    ASSUME ServiceInv, NEW c \in Clients, NEW o \in Operations,
           op[c].state = "queued", o.state \in {"ok", "missing", "error"},
           op' = [op EXCEPT ![c] = o],
           UNCHANGED <<net, tr, inv, db, stop, snapshot, asks, answer, wrote>>,
           o.state = "ok" => asks[c].known, o.state = "missing" => ~ asks[c].known,
           asks[c].route = "events" => o.balance = 0,
           asks[c].route = "events" /\ o.state = "ok" =>
               inv[c].cursor <= o.upto /\ o.upto <= Len(db.events)
    PROVE  ServiceInv'
<1>1. InOrder(asks[c], inv[c], op[c], answer[c], wrote[c], Len(db.events))
  BY Facts
<1>2. inv[c].pc \in {"worker", "join"} /\ asks[c].route # "static"
  BY Running
<1>3. InOrder(asks[c], inv[c], o, answer[c], wrote[c], Len(db.events))
  BY <1>1, <1>2 DEF InOrder, Operating, Streamed
<1>4. Typed
  BY DEF ServiceInv
<1>5. Typed'
  BY <1>4 DEF Typed
<1>6. op'[c] = o /\ \A d \in Clients \ {c} : op'[d] = op[d]
  BY <1>4 DEF Typed
<1>7. EachInOrder'
  BY <1>3, <1>6 DEF ServiceInv, EachInOrder
<1>8. op[c].state # "holding" /\ o.state # "holding"
  OBVIOUS
<1>9. Locked'
  BY <1>4, <1>6, <1>8 DEF ServiceInv, Locked, Typed
<1>10. Attributed'
  BY <1>6 DEF ServiceInv, Attributed
<1> QED
  BY <1>5, <1>7, <1>9, <1>10 DEF ServiceInv, Numbered, Stopping

LEMMA PageEndFits ==
    ASSUME ServiceInv, NEW c \in Clients
    PROVE  PageEnd(c) \in Nat /\ inv[c].cursor <= PageEnd(c) /\ PageEnd(c) <= Len(db.events)
<1>1. /\ inv[c].cursor \in Nat /\ inv[c].upto \in Nat /\ Len(db.events) \in Nat
      /\ inv[c].cursor <= inv[c].upto /\ inv[c].upto <= Len(db.events)
  BY Facts DEF Tasks, InOrder, Streamed
<1> QED
  BY <1>1, ServiceAssumption DEF PageEnd, Least

\* Another balance and another holder of the lock.
LEMMA Rewritten ==
    ASSUME Typed, NEW b \in Nat, NEW l \in Clients \cup {"none"},
           db' = [db EXCEPT !.balance = b, !.lock = l]
    PROVE  /\ db'.balance = b /\ db'.lock = l /\ db'.events = db.events /\ db'.open = db.open
           /\ db' \in [balance : Nat, events : Seq(Rowed), lock : Clients \cup {"none"}, open : BOOLEAN]
BY DEF Typed

\* An update holds the lock between its statements.
LEMMA UpdateKeeps ==
    ASSUME ServiceInv, NEW c \in Clients, op[c].state = "queued", db.lock = "none",
           asks[c] = [route |-> "update", known |-> TRUE],
           op' = [op EXCEPT ![c] = [state |-> "holding", balance |-> db.balance + 1, upto |-> 0]],
           db' = [db EXCEPT !.balance = @ + 1, !.lock = c],
           UNCHANGED <<net, tr, inv, stop, snapshot, asks, answer, wrote>>
    PROVE  ServiceInv'
<1> DEFINE o == [state |-> "holding", balance |-> db.balance + 1, upto |-> 0]
<1>1. /\ Typed /\ db.balance \in Nat
      /\ InOrder(asks[c], inv[c], op[c], answer[c], wrote[c], Len(db.events))
  BY Facts DEF ServiceInv
<1>2. /\ db'.balance = db.balance + 1 /\ db'.lock = c /\ db'.events = db.events
      /\ db'.open = db.open
      /\ db' \in [balance : Nat, events : Seq(Rowed), lock : Clients \cup {"none"}, open : BOOLEAN]
  <2>1. db.balance + 1 \in Nat /\ c \in Clients \cup {"none"}
    BY <1>1
  <2> QED
    BY <1>1, <2>1, Rewritten
<1>3. o \in Operations /\ o.state = "holding" /\ o.balance = db.balance + 1
  BY <1>1 DEF Operations, OpStates
<1>4. op' = [op EXCEPT ![c] = o]
  OBVIOUS
<1> HIDE DEF o
<1>5. op'[c] = o /\ \A d \in Clients \ {c} : op'[d] = op[d]
  BY <1>1, <1>4 DEF Typed
<1>6. Typed'
  BY <1>1, <1>2, <1>3, <1>4 DEF Typed
<1>7. inv[c].pc \in {"worker", "join"}
  BY Running
<1>8. InOrder(asks[c], inv[c], o, answer[c], wrote[c], Len(db.events))
  BY <1>1, <1>3, <1>7 DEF InOrder, Operating, Streamed
<1>9. EachInOrder'
  BY <1>2, <1>5, <1>8 DEF ServiceInv, EachInOrder
<1>10. Locked'
  <2>1. db.balance = Len(db.events) /\ \A d \in Clients : op[d].state # "holding"
    BY ServiceAssumption DEF ServiceInv, Locked
  <2>2. c # "none"
    BY ServiceAssumption
  <2> QED
    BY <1>2, <1>3, <1>5, <2>1, <2>2 DEF Locked
<1>11. Attributed'
  BY <1>2, <1>5 DEF ServiceInv, Attributed
<1>12. Numbered' /\ Stopping'
  BY <1>2 DEF ServiceInv, Numbered, Stopping
<1> QED
  BY <1>6, <1>9, <1>10, <1>11, <1>12 DEF ServiceInv

\* The second statement, and the commit.
LEMMA InsertKeeps ==
    ASSUME ServiceInv, NEW c \in Clients, Insert(c)
    PROVE  /\ ServiceInv'
           /\ op' = [op EXCEPT ![c] = [state |-> "ok", balance |-> Len(db.events) + 1, upto |-> 0]]
           /\ \E e \in Rowed : e.by = c /\ db'.events = Append(db.events, e)
<1> DEFINE o == [state |-> "ok", balance |-> op[c].balance, upto |-> 0]
           e == [balance |-> op[c].balance, by |-> c]
<1>1. /\ Typed /\ db.balance \in Nat /\ op[c] \in Operations /\ op[c].state = "holding"
      /\ db.events \in Seq(Rowed) /\ Len(db.events) \in Nat
      /\ InOrder(asks[c], inv[c], op[c], answer[c], wrote[c], Len(db.events))
  BY Facts DEF ServiceInv, Insert
<1>2. /\ db.lock = c /\ db.balance = Len(db.events) + 1 /\ op[c].balance = db.balance
  BY <1>1 DEF ServiceInv, Locked
<1>3. asks[c] = [route |-> "update", known |-> TRUE] /\ inv[c].pc \in {"worker", "join"}
  BY <1>1, Running DEF InOrder, Operating
<1>4. /\ db' = [db EXCEPT !.events = Append(@, e), !.lock = "none"] /\ op' = [op EXCEPT ![c] = o]
      /\ UNCHANGED <<net, tr, inv, stop, snapshot, asks, answer, wrote>>
  BY DEF Insert, OpEnds
<1>5. e \in Rowed /\ e.by = c /\ e.balance = Len(db.events) + 1
  BY <1>1, <1>2 DEF Rowed
<1>6. /\ o \in Operations /\ o.state = "ok"
      /\ o = [state |-> "ok", balance |-> Len(db.events) + 1, upto |-> 0]
  BY <1>1, <1>2 DEF Operations, OpStates
<1> HIDE DEF o, e
<1>7. /\ Append(db.events, e) \in Seq(Rowed) /\ Len(Append(db.events, e)) = Len(db.events) + 1
      /\ \A i \in 1 .. Len(db.events) : Append(db.events, e)[i] = db.events[i]
      /\ Append(db.events, e)[Len(db.events) + 1] = e
  BY <1>1, <1>5, AppendProperties
<1>8. /\ db'.events = Append(db.events, e) /\ db'.lock = "none" /\ db'.balance = db.balance
      /\ db'.open = db.open
      /\ db' \in [balance : Nat, events : Seq(Rowed), lock : Clients \cup {"none"}, open : BOOLEAN]
  BY <1>1, <1>4, <1>7 DEF Typed
<1>9. op'[c] = o /\ \A d \in Clients \ {c} : op'[d] = op[d]
  BY <1>1, <1>4 DEF Typed
<1>10. Typed'
  BY <1>1, <1>4, <1>6, <1>8 DEF Typed
<1>11. EachInOrder'
  <2>1. InOrder(asks[c], inv[c], o, answer[c], wrote[c], Len(db.events))
    BY <1>1, <1>3, <1>6 DEF InOrder, Operating, Streamed
  <2>2. \A d \in Clients : InOrder(asks[d], inv[d], op'[d], answer[d], wrote[d], Len(db.events))
    BY <1>9, <2>1 DEF ServiceInv, EachInOrder
  <2>3. ASSUME NEW d \in Clients
        PROVE  InOrder(asks[d], inv[d], op'[d], answer[d], wrote[d], Len(db.events) + 1)
    <3>1. inv[d].upto \in Nat /\ Len(wrote[d]) \in Nat /\ op'[d].upto \in Nat
      BY <1>10, Facts DEF Tasks, Typed, Operations
    <3> QED
      BY <1>1, <2>2, <3>1 DEF InOrder, Streamed
  <2> QED
    BY <1>4, <1>7, <1>8, <2>3 DEF EachInOrder
<1>12. Locked'
  <2>1. \A d \in Clients : op'[d].state # "holding"
    BY <1>2, <1>6, <1>9 DEF ServiceInv, Locked
  <2> QED
    BY <1>2, <1>7, <1>8, <2>1, ServiceAssumption DEF Locked
<1>13. Numbered'
  <2>1. \A i \in 1 .. Len(db.events) + 1 : Append(db.events, e)[i].balance = i
    <3> SUFFICES ASSUME NEW i \in 1 .. Len(db.events) + 1 PROVE Append(db.events, e)[i].balance = i
      OBVIOUS
    <3>1. i \in 1 .. Len(db.events) \/ i = Len(db.events) + 1
      BY <1>1
    <3> QED
      BY <1>5, <1>7, <3>1 DEF ServiceInv, Numbered
  <2> QED
    BY <1>7, <1>8, <2>1 DEF Numbered
<1>14. Attributed'
  <2>1. ASSUME NEW i \in 1 .. Len(db.events) + 1, NEW d \in Clients, Append(db.events, e)[i].by = d
        PROVE  asks[d].route = "update" /\ op'[d].state = "ok"
    <3>1. CASE i = Len(db.events) + 1
      <4>1. d = c
        BY <1>5, <1>7, <2>1, <3>1
      <4> QED
        BY <1>3, <1>6, <1>9, <4>1
    <3>2. CASE i \in 1 .. Len(db.events)
      <4>1. asks[d].route = "update" /\ op[d].state = "ok"
        BY <1>7, <2>1, <3>2 DEF ServiceInv, Attributed
      <4> QED
        BY <1>1, <1>9, <4>1
    <3>3. i \in 1 .. Len(db.events) \/ i = Len(db.events) + 1
      BY <1>1
    <3> QED
      BY <3>1, <3>2, <3>3
  <2> QED
    BY <1>4, <1>7, <1>8, <2>1 DEF Attributed
<1>15. Stopping'
  BY <1>4, <1>8 DEF ServiceInv, Stopping
<1> QED
  BY <1>4, <1>5, <1>6, <1>8, <1>10, <1>11, <1>12, <1>13, <1>14, <1>15 DEF ServiceInv

\* Its failure: the first statement is rolled back.
LEMMA InsertFailsKeeps ==
    ASSUME ServiceInv, NEW c \in Clients, InsertFails(c)
    PROVE  /\ ServiceInv' /\ db'.events = db.events
           /\ op' = [op EXCEPT ![c] = [state |-> "error", balance |-> 0, upto |-> 0]]
<1> DEFINE o == [state |-> "error", balance |-> 0, upto |-> 0]
<1>1. /\ Typed /\ db.balance \in Nat /\ op[c].state = "holding" /\ Len(db.events) \in Nat
      /\ InOrder(asks[c], inv[c], op[c], answer[c], wrote[c], Len(db.events))
  BY Facts DEF ServiceInv, InsertFails
<1>2. db.lock = c /\ db.balance = Len(db.events) + 1
  BY <1>1 DEF ServiceInv, Locked
<1>3. /\ db' = [db EXCEPT !.balance = @ - 1, !.lock = "none"] /\ op' = [op EXCEPT ![c] = o]
      /\ UNCHANGED <<net, tr, inv, stop, snapshot, asks, answer, wrote>>
  BY DEF InsertFails, OpEnds
<1>4. o \in Operations /\ o.state = "error" /\ o.balance = 0
  BY DEF Operations, OpStates
<1>4a. op' = [op EXCEPT ![c] = [state |-> "error", balance |-> 0, upto |-> 0]]
  BY <1>3
<1> HIDE DEF o
<1>5. /\ db'.events = db.events /\ db'.lock = "none" /\ db'.balance = Len(db.events)
      /\ db'.open = db.open
      /\ db' \in [balance : Nat, events : Seq(Rowed), lock : Clients \cup {"none"}, open : BOOLEAN]
  <2>1. db.balance - 1 = Len(db.events) /\ "none" \in Clients \cup {"none"}
    BY <1>1, <1>2
  <2>2. db' = [db EXCEPT !.balance = Len(db.events), !.lock = "none"]
    BY <1>3, <2>1
  <2> QED
    BY <1>1, <2>1, <2>2, Rewritten
<1>6. op'[c] = o /\ \A d \in Clients \ {c} : op'[d] = op[d]
  BY <1>1, <1>3 DEF Typed
<1>7. Typed'
  BY <1>1, <1>3, <1>4, <1>5 DEF Typed
<1>8. EachInOrder'
  <2>1. asks[c].route = "update" /\ inv[c].pc \in {"worker", "join"}
    BY <1>1, Running DEF InOrder, Operating
  <2>2. InOrder(asks[c], inv[c], o, answer[c], wrote[c], Len(db.events))
    BY <1>1, <1>4, <2>1 DEF InOrder, Operating, Streamed
  <2> QED
    BY <1>3, <1>5, <1>6, <2>2 DEF ServiceInv, EachInOrder
<1>9. Locked'
  <2>1. \A d \in Clients : op'[d].state # "holding"
    BY <1>2, <1>4, <1>6 DEF ServiceInv, Locked
  <2> QED
    BY <1>5, <2>1, ServiceAssumption DEF Locked
<1>10. Attributed'
  BY <1>1, <1>3, <1>5, <1>6 DEF ServiceInv, Attributed
<1>11. Numbered' /\ Stopping'
  BY <1>3, <1>5 DEF ServiceInv, Numbered, Stopping
<1> QED
  BY <1>4a, <1>5, <1>7, <1>8, <1>9, <1>10, <1>11 DEF ServiceInv

LEMMA ThreadKeeps ==
    ASSUME ServiceInv, NEW c \in Clients, Thread(c)
    PROVE  ServiceInv'
<1>1. /\ op[c] \in Operations /\ asks[c] \in Requests /\ db.balance \in Nat /\ Typed
      /\ InOrder(asks[c], inv[c], op[c], answer[c], wrote[c], Len(db.events))
  BY Facts DEF ServiceInv
<1>2. CASE ExecuteFails(c)
  <2>1. [state |-> "error", balance |-> 0, upto |-> 0] \in Operations
    BY DEF Operations, OpStates
  <2>2. /\ op' = [op EXCEPT ![c] = [state |-> "error", balance |-> 0, upto |-> 0]]
        /\ op[c].state = "queued" /\ UNCHANGED <<net, tr, inv, db, stop, snapshot, asks, answer, wrote>>
    BY <1>2 DEF ExecuteFails, OpEnds
  <2> QED
    BY <2>1, <2>2, OperationEnds
<1>3. CASE Execute(c)
  <2>1. /\ op[c].state = "queued" /\ db.lock = "none"
        /\ UNCHANGED <<net, tr, inv, stop, snapshot, asks, answer, wrote>>
        /\ asks[c].route # "static" /\ db.open \in BOOLEAN
    BY <1>1, <1>3, Running DEF Execute, Typed
  <2>2. CASE db.open /\ asks[c].known /\ asks[c].route = "update"
    <3>1. asks[c] = [route |-> "update", known |-> TRUE]
      BY <1>1, <2>2 DEF Requests
    <3>2. /\ op' = [op EXCEPT ![c] = [state |-> "holding", balance |-> db.balance + 1, upto |-> 0]]
          /\ db' = [db EXCEPT !.balance = @ + 1, !.lock = c]
      BY <1>3, <2>2 DEF Execute, OpEnds
    <3> QED
      BY <2>1, <3>1, <3>2, UpdateKeeps
  <2>3. CASE db.open /\ asks[c].route = "events"
    <3> DEFINE o == [state |-> "ok", balance |-> 0, upto |-> PageEnd(c)]
    <3>1. asks[c].known
      BY <1>1, <2>3 DEF Requests
    <3>2. op' = [op EXCEPT ![c] = o] /\ UNCHANGED db
      BY <1>3, <2>3, <3>1 DEF Execute, OpEnds
    <3>3. o \in Operations /\ o.state = "ok" /\ o.balance = 0 /\ o.upto = PageEnd(c)
      BY PageEndFits DEF Operations, OpStates
    <3> HIDE DEF o
    <3> QED
      BY <2>1, <2>3, <3>1, <3>2, <3>3, PageEndFits, OperationEnds
  <2>4. CASE ~ db.open \/ ~ asks[c].known \/ asks[c].route = "read"
    <3>1. PICK s \in {"error", "missing", "ok"} :
             /\ op' = [op EXCEPT ![c] = [state |-> s, balance |-> IF s = "ok" THEN db.balance ELSE 0,
                                         upto |-> 0]]
             /\ UNCHANGED db /\ (s = "missing" => ~ asks[c].known)
             /\ s = "ok" => asks[c].known /\ asks[c].route = "read"
      <4>1. CASE ~ db.open
        BY <1>3, <4>1 DEF Execute, OpEnds
      <4>2. CASE db.open /\ ~ asks[c].known
        <5>1. asks[c].route # "events"
          BY <1>1, <4>2 DEF Requests
        <5> QED
          BY <1>3, <4>2, <5>1 DEF Execute, OpEnds
      <4>3. CASE db.open /\ asks[c].known /\ asks[c].route = "read"
        BY <1>3, <4>3 DEF Execute, OpEnds
      <4> QED
        BY <2>4, <4>1, <4>2, <4>3
    <3> DEFINE o == [state |-> s, balance |-> IF s = "ok" THEN db.balance ELSE 0, upto |-> 0]
    <3>2. /\ o \in Operations /\ o.state = s
          /\ o.balance = IF s = "ok" THEN db.balance ELSE 0
      BY <1>1, <3>1 DEF Operations, OpStates
    <3>3. op' = [op EXCEPT ![c] = o]
      BY <3>1
    <3> HIDE DEF o
    <3> QED
      BY <2>1, <3>1, <3>2, <3>3, OperationEnds
  <2> QED
    BY <1>1, <2>1, <2>2, <2>3, <2>4 DEF Requests
<1> QED
  BY <1>2, <1>3, InsertKeeps, InsertFailsKeeps DEF Thread

----------------------------------------------------------------------------
(* The invariant.                                                            *)

LEMMA InitKeeps == Init => ServiceInv
<1> SUFFICES ASSUME Init PROVE ServiceInv
  OBVIOUS
<1> USE ServiceAssumption
<1>1. /\ History \in Seq(Rowed) /\ Len(History) = Past
      /\ \A i \in 1 .. Past : History[i].balance = i /\ History[i].by = "none"
  <2>1. History \in [1 .. Past -> Rowed]
    BY DEF History, Rowed
  <2>2. History \in Seq(Rowed)
    BY <2>1, SeqDef
  <2>3. DOMAIN History = 1 .. Past /\ Len(History) \in Nat
    BY <2>2, LenProperties DEF History
  <2> QED
    BY <2>2, <2>3, LenProperties DEF History
<1>2. <<>> \in Seq(Sent) /\ Len(<<>>) = 0 /\ Numbers(0) = <<>>
  BY DEF Numbers
<1>3. asks \in [Clients -> Requests]
  BY DEF Init
<1>4. /\ inv = [c \in Clients |-> [pc |-> "none", got |-> 0, cancel |-> FALSE, what |-> "none",
                                   cursor |-> 0, upto |-> 0, outcome |-> "none"]]
      /\ op = [c \in Clients |-> Idle] /\ answer = [c \in Clients |-> Nothing]
      /\ wrote = [c \in Clients |-> <<>>] /\ stop = "serving" /\ snapshot = {}
      /\ db = [balance |-> Past, events |-> History, lock |-> "none", open |-> TRUE]
      /\ net = [c \in Clients |-> [link |-> "none", sent |-> 0, deaf |-> FALSE]]
      /\ tr = [c \in Clients |-> [state |-> "none", owed |-> FALSE]]
  BY DEF Init
<1>5. Typed
  <2>1. Idle \in Operations /\ Nothing \in Responses
    BY DEF Idle, Operations, OpStates, Nothing, Response, Responses
  <2>2. /\ net \in [Clients -> Ends] /\ tr \in [Clients -> Buffers] /\ inv \in [Clients -> Tasks]
    BY <1>4 DEF Ends, Buffers, Transports, Tasks, Points, Waits, Outcomes
  <2>3. db \in [balance : Nat, events : Seq(Rowed), lock : Clients \cup {"none"}, open : BOOLEAN]
    BY <1>1, <1>4
  <2>4. \A c \in Clients : inv[c].got <= net[c].sent /\ net[c].sent <= Parts[asks[c]]
    <3> SUFFICES ASSUME NEW c \in Clients
                 PROVE  inv[c].got <= net[c].sent /\ net[c].sent <= Parts[asks[c]]
      OBVIOUS
    <3>1. Parts[asks[c]] \in Nat
      BY <1>3
    <3>2. inv[c].got = 0 /\ net[c].sent = 0
      BY <1>4
    <3> QED
      BY <3>1, <3>2
  <2> QED
    BY <1>2, <1>3, <1>4, <2>1, <2>2, <2>3, <2>4 DEF Typed, Stages
<1>6. EachInOrder
  <2> SUFFICES ASSUME NEW c \in Clients
               PROVE  InOrder(asks[c], inv[c], op[c], answer[c], wrote[c], Len(db.events))
    BY DEF EachInOrder
  <2> QED
    BY <1>1, <1>2, <1>4 DEF InOrder, Position, Operating, Answered, Streamed, Idle
<1>7. Locked /\ Numbered /\ Attributed /\ Stopping
  BY <1>1, <1>4 DEF Locked, Numbered, Attributed, Stopping, Idle
<1> QED
  BY <1>5, <1>6, <1>7 DEF ServiceInv

LEMMA NextKeeps == ServiceInv /\ [Next]_vars => ServiceInv'
<1> SUFFICES ASSUME ServiceInv, [Next]_vars PROVE ServiceInv'
  OBVIOUS
<1>1. CASE UNCHANGED vars
  BY <1>1 DEF vars, ServiceInv, Typed, EachInOrder, Locked, Numbered, Attributed, Stopping
<1>2. CASE Next
  BY <1>1, <1>2, ClientKeeps, InvocationKeeps, ThreadKeeps, HostKeeps DEF Next, Stopped
<1> QED
  BY <1>1, <1>2

\* In every behaviour of the service each connection, the table of events and
\* the lock fit together.
THEOREM ServiceInvariant == Safe => []ServiceInv
BY InitKeeps, NextKeeps, PTL DEF Safe

\* An update is one transaction: whenever no operation holds the lock, the
\* balance is that of the last event, and the events number the updates.
THEOREM BalanceIsThatOfTheEvents == Safe => []BalanceMatchesEvents
<1>1. ServiceInv => BalanceMatchesEvents
  BY DEF ServiceInv, Locked, Numbered, BalanceMatchesEvents
<1> QED
  BY <1>1, ServiceInvariant, PTL

\* No operation of an invocation the host cancelled meets a closed database.
THEOREM OperationsMeetOpenDatabase == Safe => []OwnOperationsFinish
<1>1. ServiceInv => OwnOperationsFinish
  <2> SUFFICES ASSUME ServiceInv, ~ db.open, NEW c \in snapshot
               PROVE  op[c].state \notin {"queued", "holding"}
    BY DEF OwnOperationsFinish
  <2>1. c \in Clients /\ inv[c].pc = "done"
    BY DEF ServiceInv, Typed, Stopping
  <2>2. InOrder(asks[c], inv[c], op[c], answer[c], wrote[c], Len(db.events))
    BY <2>1, Facts
  <2> QED
    BY <2>1, <2>2 DEF InOrder, Operating
<1> QED
  BY <1>1, ServiceInvariant, PTL

\* The records of tasks, transports and connections are well-formed.
THEOREM ServiceIsTyped == Safe => []TypeOK
<1>1. ServiceInv => TypeOK
  <2> SUFFICES ASSUME ServiceInv PROVE TypeOK
    OBVIOUS
  <2>1. ASSUME NEW c \in Clients
        PROVE  /\ tr[c].state \in Transports /\ inv[c].pc \in Points
               /\ inv[c].got \in 0 .. net[c].sent /\ net[c].sent \in 0 .. Parts[asks[c]]
               /\ inv[c].cursor \in 0 .. inv[c].upto /\ inv[c].upto \in 0 .. Len(db.events)
    BY Facts DEF Buffers, Tasks, Ends, InOrder, Streamed
  <2> QED
    BY <2>1 DEF TypeOK, ServiceInv, Typed
<1> QED
  BY <1>1, ServiceInvariant, PTL

----------------------------------------------------------------------------
(* The service implements its contract.                                      *)

Ledger == [i \in 1 .. Len(db.events) |-> db.events[i].by]
Looked == [c \in Clients |-> LookedAt(c, op[c])]
Seen == <<asks, Ledger, Looked, answer, wrote>>

LEMMA SeenIsContract == Contract!cvars = Seen
BY DEF Contract!cvars, Seen, Ledger, Looked, LookedAt

\* Steps in which the operations show nothing.
LEMMA ShowsRefines ==
    ASSUME ServiceInv, NEW c \in Clients, Shows(c)
    PROVE  [Contract!ContractNext]_(Contract!cvars)
<1>1. UNCHANGED <<asks, Ledger, Looked>>
  BY DEF Shows, Steady, Ledger, Looked
<1>2. CASE Quiet
  BY <1>1, <1>2, SeenIsContract DEF Quiet, Seen, Contract!cvars, Ledger, Looked, LookedAt
<1>3. CASE Answers(c)
  <2>1. Contract!Answer(c)
    BY <1>1, <1>3 DEF Answers, Contract!Answer, Contract!NotYet, Nothing, Response,
                      Ledger, Looked, LookedAt
  <2> QED
    BY <2>1 DEF Contract!ContractNext
<1>4. CASE Delivers(c)
  <2>1. Len(Ledger) = Len(db.events)
    BY Facts DEF Ledger
  <2>2. Contract!Deliver(c)
    BY <1>1, <1>4, <2>1 DEF Delivers, Contract!Deliver, Contract!History, Numbers,
                            Ledger, Looked, LookedAt
  <2> QED
    BY <2>2 DEF Contract!ContractNext
<1> QED
  BY <1>2, <1>3, <1>4 DEF Shows

\* An operation ends without having read or written.
LEMMA EndsUnseen ==
    ASSUME ServiceInv, NEW c \in Clients, NEW o \in Operations,
           LookedAt(c, o) = LookedAt(c, op[c]), op' = [op EXCEPT ![c] = o],
           db'.events = db.events, UNCHANGED <<asks, answer, wrote>>
    PROVE  [Contract!ContractNext]_(Contract!cvars)
<1>1. op'[c] = o /\ \A d \in Clients \ {c} : op'[d] = op[d]
  BY DEF ServiceInv, Typed
<1>2. \A d \in Clients : LookedAt(d, op[d])' = LookedAt(d, op[d])
  BY <1>1 DEF LookedAt
<1>3. UNCHANGED <<Ledger, Looked>>
  BY <1>2 DEF Ledger, Looked
<1> QED
  BY <1>3, SeenIsContract DEF Seen, Contract!cvars, Ledger, Looked, LookedAt

LEMMA LookedWhenOk ==
    ASSUME NEW c \in Clients, NEW o, o.state = "ok", asks[c].route # "events"
    PROVE  LookedAt(c, o) = Contract!Saw(o.balance)
<1>1. (asks[c].route # "events" /\ o.state = "ok") = TRUE
  OBVIOUS
<1>2. LookedAt(c, o) = [done |-> TRUE, balance |-> IF o.state = "ok" THEN o.balance ELSE 0]
  BY <1>1, Zenon DEF LookedAt
<1> QED
  BY <1>2 DEF Contract!Saw

LEMMA ReadRefines ==
    ASSUME ServiceInv, NEW c \in Clients, op[c].state = "queued", db.lock = "none",
           asks[c] = [route |-> "read", known |-> TRUE],
           op' = [op EXCEPT ![c] = [state |-> "ok", balance |-> db.balance, upto |-> 0]],
           UNCHANGED <<db, asks, answer, wrote>>
    PROVE  Contract!Look(c)
<1>1. answer[c] = Contract!NotYet
  BY Running DEF Contract!NotYet, Nothing, Response
<1>2. db.balance = Len(db.events) /\ Len(Ledger) = Len(db.events)
  BY Facts DEF ServiceInv, Locked, Ledger
<1>3. op'[c] = [state |-> "ok", balance |-> db.balance, upto |-> 0]
      /\ \A d \in Clients \ {c} : op'[d] = op[d]
  BY DEF ServiceInv, Typed
<1>4. Looked' = [Looked EXCEPT ![c] = Contract!Saw(Len(Ledger))]
  <2>1. LookedAt(c, op'[c]) = Contract!Saw(Len(Ledger))
    BY <1>2, <1>3, LookedWhenOk
  <2>1a. LookedAt(c, op[c])' = LookedAt(c, op'[c])
    BY DEF LookedAt
  <2>2. \A d \in Clients \ {c} : LookedAt(d, op[d])' = LookedAt(d, op[d])
    BY <1>3 DEF LookedAt
  <2> QED
    BY <2>1, <2>1a, <2>2 DEF Looked
<1>5. UNCHANGED Ledger
  BY DEF Ledger
<1> QED
  BY <1>1, <1>4, <1>5 DEF Contract!Look, Ledger, Looked, LookedAt

LEMMA InsertRefines == ASSUME ServiceInv, NEW c \in Clients, Insert(c) PROVE Contract!Apply(c)
<1>1. /\ op[c].state = "holding" /\ UNCHANGED <<asks, answer, wrote>>
      /\ InOrder(asks[c], inv[c], op[c], answer[c], wrote[c], Len(db.events))
      /\ db.events \in Seq(Rowed) /\ Len(db.events) \in Nat
  BY Facts DEF Insert
<1>2. answer[c] = Contract!NotYet /\ asks[c] = [route |-> "update", known |-> TRUE]
  BY <1>1, Running DEF Contract!NotYet, Nothing, Response, InOrder, Operating
<1>3. op' = [op EXCEPT ![c] = [state |-> "ok", balance |-> Len(db.events) + 1, upto |-> 0]]
  BY InsertKeeps
<1>4. PICK e \in Rowed : e.by = c /\ db'.events = Append(db.events, e)
  BY InsertKeeps
<1>5. op'[c] = [state |-> "ok", balance |-> Len(db.events) + 1, upto |-> 0]
      /\ \A d \in Clients \ {c} : op'[d] = op[d]
  BY <1>3 DEF ServiceInv, Typed
<1>6. ~ Contract!Applied(c)
  <2> SUFFICES ASSUME NEW i \in 1 .. Len(db.events), db.events[i].by = c PROVE FALSE
    <3>1. Len(Ledger) = Len(db.events) /\ \A i \in 1 .. Len(db.events) : Ledger[i] = db.events[i].by
      BY <1>1 DEF Ledger
    <3>2. Contract!Applied(c) => \E i \in 1 .. Len(Ledger) : Ledger[i] = c
      BY DEF Contract!Applied, Ledger
    <3> QED
      BY <3>1, <3>2
  <2> QED
    BY <1>1 DEF ServiceInv, Attributed
<1>7. Len(Ledger) = Len(db.events) /\ DOMAIN Ledger = 1 .. Len(db.events)
  BY <1>1 DEF Ledger
<1>8. Ledger' = Append(Ledger, c)
  <2>1. /\ Len(Append(db.events, e)) = Len(db.events) + 1
        /\ \A i \in 1 .. Len(db.events) : Append(db.events, e)[i] = db.events[i]
        /\ Append(db.events, e)[Len(db.events) + 1] = e
    BY <1>1, <1>4, AppendProperties
  <2>2. Ledger' = [i \in 1 .. Len(db.events) + 1 |-> Append(db.events, e)[i].by]
    BY <1>4, <2>1 DEF Ledger
  <2>3. Ledger \in [1 .. Len(db.events) -> Clients \cup {"none"}]
    <3>1. \A i \in 1 .. Len(db.events) : db.events[i] \in Rowed
      BY <1>1, ElementOfSeq
    <3> QED
      BY <3>1 DEF Ledger, Rowed
  <2>4. Ledger \in Seq(Clients \cup {"none"})
    BY <1>1, <2>3, SeqDef
  <2>5. /\ Append(Ledger, c) \in Seq(Clients \cup {"none"})
        /\ Len(Append(Ledger, c)) = Len(db.events) + 1
        /\ \A i \in 1 .. Len(db.events) : Append(Ledger, c)[i] = Ledger[i]
        /\ Append(Ledger, c)[Len(db.events) + 1] = c
    BY <1>7, <2>4, AppendProperties
  <2>6. Append(Ledger, c) = [i \in 1 .. Len(db.events) + 1 |-> Append(Ledger, c)[i]]
    BY <2>5, LenProperties
  <2>7. ASSUME NEW i \in 1 .. Len(db.events) + 1
        PROVE  Append(db.events, e)[i].by = Append(Ledger, c)[i]
    <3>1. i \in 1 .. Len(db.events) \/ i = Len(db.events) + 1
      BY <1>1
    <3>2. \A j \in 1 .. Len(db.events) : Ledger[j] = db.events[j].by
      BY DEF Ledger
    <3> QED
      BY <1>4, <2>1, <2>5, <3>1, <3>2
  <2> QED
    BY <2>2, <2>6, <2>7
<1>9. Looked' = [Looked EXCEPT ![c] = Contract!Saw(Len(Ledger) + 1)]
  <2>1. LookedAt(c, op'[c]) = Contract!Saw(Len(Ledger) + 1)
    BY <1>2, <1>5, <1>7, LookedWhenOk
  <2>1a. LookedAt(c, op[c])' = LookedAt(c, op'[c])
    BY <1>1 DEF LookedAt
  <2>2. \A d \in Clients \ {c} : LookedAt(d, op[d])' = LookedAt(d, op[d])
    BY <1>1, <1>5 DEF LookedAt
  <2> QED
    BY <2>1, <2>1a, <2>2 DEF Looked
<1> QED
  BY <1>1, <1>2, <1>6, <1>8, <1>9 DEF Contract!Apply, Ledger, Looked, LookedAt

LEMMA ThreadRefines ==
    ASSUME ServiceInv, NEW c \in Clients, Thread(c)
    PROVE  [Contract!ContractNext]_(Contract!cvars)
<1>1. /\ op[c] \in Operations /\ asks[c] \in Requests /\ db.balance \in Nat /\ Typed
      /\ InOrder(asks[c], inv[c], op[c], answer[c], wrote[c], Len(db.events))
  BY Facts DEF ServiceInv
<1>2. \A b, u \in Nat, s \in {"missing", "error", "holding"} :
         [state |-> s, balance |-> b, upto |-> u] \in Operations
  BY DEF Operations, OpStates
<1>3. CASE Insert(c)
  BY <1>3, InsertRefines DEF Contract!ContractNext
<1>4. CASE InsertFails(c) \/ ExecuteFails(c)
  <2> DEFINE o == [state |-> "error", balance |-> 0, upto |-> 0]
  <2>1. /\ op' = [op EXCEPT ![c] = o] /\ UNCHANGED <<asks, answer, wrote>>
        /\ op[c].state \in {"queued", "holding"}
    BY <1>4 DEF InsertFails, ExecuteFails, OpEnds
  <2>2. db'.events = db.events
    BY <1>4, InsertFailsKeeps DEF ExecuteFails
  <2>3. LookedAt(c, o) = LookedAt(c, op[c]) /\ o \in Operations
    BY <1>2, <2>1 DEF LookedAt
  <2> HIDE DEF o
  <2> QED
    BY <2>1, <2>2, <2>3, EndsUnseen
<1>5. CASE Execute(c)
  <2>1. /\ op[c].state = "queued" /\ db.lock = "none" /\ UNCHANGED <<asks, answer, wrote>>
        /\ asks[c].route # "static" /\ db.open \in BOOLEAN
    BY <1>1, <1>5, Running DEF Execute, Typed
  <2>2. CASE db.open /\ asks[c].known /\ asks[c].route = "read"
    <3>1. asks[c] = [route |-> "read", known |-> TRUE]
      BY <1>1, <2>2 DEF Requests
    <3>2. /\ op' = [op EXCEPT ![c] = [state |-> "ok", balance |-> db.balance, upto |-> 0]]
          /\ UNCHANGED db
      BY <1>5, <2>2 DEF Execute, OpEnds
    <3> QED
      BY <2>1, <3>1, <3>2, ReadRefines DEF Contract!ContractNext
  <2>3. CASE db.open /\ asks[c].route = "events"
    <3> DEFINE o == [state |-> "ok", balance |-> 0, upto |-> PageEnd(c)]
    <3>1. asks[c].known
      BY <1>1, <2>3 DEF Requests
    <3>2. op' = [op EXCEPT ![c] = o] /\ UNCHANGED db
      BY <1>5, <2>3, <3>1 DEF Execute, OpEnds
    <3>3. o \in Operations
      BY PageEndFits DEF Operations, OpStates
    <3>4. LookedAt(c, o) = LookedAt(c, op[c])
      BY <2>1, <2>3 DEF LookedAt
    <3> HIDE DEF o
    <3> QED
      BY <2>1, <3>2, <3>3, <3>4, EndsUnseen
  <2>4. CASE db.open /\ asks[c].known /\ asks[c].route = "update"
    <3> DEFINE o == [state |-> "holding", balance |-> db.balance + 1, upto |-> 0]
    <3>1. /\ op' = [op EXCEPT ![c] = o]
          /\ db' = [db EXCEPT !.balance = @ + 1, !.lock = c]
      BY <1>5, <2>4 DEF Execute, OpEnds
    <3>2. db'.events = db.events
      BY <1>1, <3>1 DEF Typed
    <3>3a. db.balance + 1 \in Nat
      BY <1>1
    <3>3b. o \in Operations
      BY <1>2, <3>3a
    <3>3c. o.state = "holding"
      OBVIOUS
    <3>3. o \in Operations /\ LookedAt(c, o) = LookedAt(c, op[c])
      BY <2>1, <3>3b, <3>3c DEF LookedAt
    <3> HIDE DEF o
    <3> QED
      BY <2>1, <3>1, <3>2, <3>3, EndsUnseen
  <2>5. CASE ~ db.open \/ ~ asks[c].known
    <3>1. PICK s \in {"error", "missing"} :
             op' = [op EXCEPT ![c] = [state |-> s, balance |-> 0, upto |-> 0]] /\ UNCHANGED db
      <4>1. CASE ~ db.open
        BY <1>5, <4>1 DEF Execute, OpEnds
      <4>2. CASE db.open /\ ~ asks[c].known
        <5>1. asks[c].route # "events"
          BY <1>1, <4>2 DEF Requests
        <5> QED
          BY <1>5, <4>2, <5>1 DEF Execute, OpEnds
      <4> QED
        BY <2>5, <4>1, <4>2
    <3> DEFINE o == [state |-> s, balance |-> 0, upto |-> 0]
    <3>2. o \in Operations /\ LookedAt(c, o) = LookedAt(c, op[c])
      BY <1>2, <2>1 DEF LookedAt
    <3>3. op' = [op EXCEPT ![c] = o] /\ UNCHANGED db
      BY <3>1
    <3> HIDE DEF o
    <3> QED
      BY <2>1, <3>2, <3>3, EndsUnseen
  <2> QED
    BY <1>1, <2>1, <2>2, <2>3, <2>4, <2>5 DEF Requests
<1> QED
  BY <1>3, <1>4, <1>5 DEF Thread

LEMMA StepRefines == ServiceInv /\ [Next]_vars => [Contract!ContractNext]_(Contract!cvars)
<1> SUFFICES ASSUME ServiceInv, [Next]_vars PROVE [Contract!ContractNext]_(Contract!cvars)
  OBVIOUS
<1>1. CASE UNCHANGED vars
  BY <1>1 DEF vars, Contract!cvars
<1>2. CASE Host
  <2>1. UNCHANGED Seen
    BY <1>2, HostKeeps DEF Seen, Ledger, Looked, LookedAt
  <2> QED
    BY <2>1, SeenIsContract DEF Seen, Ledger, Looked, LookedAt, Contract!cvars
<1>3. ASSUME NEW c \in Clients, Client(c) \/ Lose(c) \/ Invocation(c)
      PROVE  [Contract!ContractNext]_(Contract!cvars)
  BY <1>3, ClientKeeps, InvocationKeeps, ShowsRefines
<1> QED
  BY <1>1, <1>2, <1>3, ThreadRefines DEF Next, Stopped

LEMMA InitRefines == Init => Contract!ContractInit
<1> SUFFICES ASSUME Init PROVE Contract!ContractInit
  OBVIOUS
<1>1. asks \in [Clients -> Contract!Requests]
  BY DEF Init, Requests, Contract!Requests
<1>2. Len(db.events) = Past /\ \A i \in 1 .. Past : db.events[i].by = "none"
  BY ServiceAssumption DEF Init, History
<1>3. Ledger = [i \in 1 .. Past |-> "none"]
  BY <1>2 DEF Ledger
<1>4. Looked = [c \in Clients |-> Contract!Unseen]
  BY DEF Init, Looked, LookedAt, Contract!Unseen, Idle
<1>5. answer = [c \in Clients |-> Contract!NotYet] /\ wrote = [c \in Clients |-> <<>>]
  BY DEF Init, Contract!NotYet, Nothing, Response
<1> QED
  BY <1>1, <1>3, <1>4, <1>5 DEF Contract!ContractInit, Ledger, Looked, LookedAt

\* The clients see what the contract promises: an update is applied at most
\* once and as a whole, an answer tells the truth about it, and a stream is the
\* history of the updates from its beginning, in order and without gaps,
\* however connections, threads, errors, cancellation and the host interleave.
THEOREM ServiceImplementsContract == Safe => ImplementsContract
BY InitRefines, StepRefines, ServiceInvariant, PTL DEF Safe, ImplementsContract, Contract!ContractSpec
============================================================================
