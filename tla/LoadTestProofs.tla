--------------------------- MODULE LoadTestProofs ---------------------------
(* The load test of the reference service, for any number of workers,        *)
(* requests and streams.  Three inductive invariants:                        *)
(*  - Books: whatever the service does, the tally counts the requests, and a *)
(*    report without errors was reconciled.  From it SamplerIsWaitedFor and  *)
(*    OkIsAccepted.                                                          *)
(*  - Unaccused: as long as the service keeps its contract, the books of     *)
(*    class Events are exactly what was acknowledged and what was read, so   *)
(*    that no check of the test can fail.  From it NobodyIsAccused.          *)
(*  - Sound: what the test has been told without an error, and what one      *)
(*    fault can have falsified of it.  From it OneFaultIsNoticed.            *)
(* The operators of class Events come first, then Books, then Unaccused and  *)
(* then Sound, each by the service's own steps, the test's steps outside the *)
(* books, an answer, and an event.                                           *)
EXTENDS LoadTest, FiniteSetTheorems, SequenceTheorems, WellFoundedInduction, TLAPS

Phases == {"startup", "workload", "drain", "check", "cleanup", "close", "ended"}
Running == {"startup", "workload", "drain", "check"}
Everyone == Numbers \cup StreamIds

Looks == [done : BOOLEAN, balance : Nat]
Sent == [id : Nat, balance : Nat]
Entries == [acked : BOOLEAN, start : Nat, seen : SUBSET StreamIds, fresh : SUBSET Nat]
Tasks == [at : {"none", "loop", "waiting", "done"}, number : Nat, watermark : Nat]
Readers == [at : {"none", "reading", "done"}, read : Nat]
Kinds == [read : Nat, write : Nat]

\* The books of class Events, and the acknowledgments they know of.
IsBook(e) ==
    /\ e \in [last : [StreamIds -> Nat], pending : [DOMAIN e.pending -> Entries],
              floor : Nat, max : Nat, ahead : SUBSET Nat]
    /\ DOMAIN e.pending \subseteq Nat
    /\ \A j \in e.ahead : j <= e.max

Typed ==
    /\ asks = [k \in Everyone |-> Asked(k)]
    /\ ledger \in Seq(Numbers) /\ looked \in [Everyone -> Looks]
    /\ answer \in [Everyone -> Service!Answers] /\ delivered \in [Everyone -> Seq(Sent)]
    /\ rowsLost \in Nat /\ rowsLost <= Len(ledger) /\ faults \in Nat
    /\ phase \in Phases /\ streams \in 0 .. Streams /\ expired \in BOOLEAN
    /\ worker \in [Workers -> Tasks] /\ issued \in 0 .. RequestCount
    /\ reader \in [StreamIds -> Readers]
    /\ IsBook(events)
    /\ sampler \in [task : {"none", "sleeping", "sampling", "done"}, thread : BOOLEAN]
    /\ stop \in BOOLEAN /\ cancelled \in BOOLEAN /\ dbOpen \in BOOLEAN
    /\ tally \in [attempted : Kinds, succeeded : Kinds]
    /\ final \in [balance : Nat, rows : Nat, taken : BOOLEAN]

\* The sampler waits for its thread, and is waited for before the database is closed.
Watched ==
    /\ sampler.thread <=> sampler.task = "sampling"
    /\ dbOpen <=> phase # "ended"
    /\ phase = "startup" => sampler.task = "none"
    /\ phase \in {"close", "ended"} => sampler.task \in {"none", "done"}

\* The requests of each kind that were dispatched, and those a worker is done with.
Issued(kind) == {k \in 1 .. issued : Kind(k) = kind}
Returned(kind) == {k \in Issued(kind) : ~ InFlight(k)}

\* Who does what when.
Scheduled ==
    /\ \A w \in Workers : worker[w].at = "waiting" => worker[w].number \in 1 .. issued
    /\ \A v, w \in Workers :
          worker[v].at = "waiting" /\ worker[w].at = "waiting"
              /\ worker[v].number = worker[w].number => v = w
    /\ phase = "startup" => issued = 0 /\ \A w \in Workers : worker[w].at = "none"
    /\ phase \in {"drain", "check", "cleanup", "close", "ended"} =>
          \A w \in Workers : worker[w].at = "done"
    /\ phase \in {"cleanup", "close", "ended"} => \A s \in StreamIds : reader[s].at = "done"

\* The tally counts the requests; without errors every request returned is a success.
Tallied ==
    \A kind \in {"read", "write"} :
        /\ tally.attempted[kind] = Cardinality(Issued(kind))
        /\ errors = {} /\ ~ cancelled => tally.succeeded[kind] = Cardinality(Returned(kind))

\* A report without errors was checked.
Reconciled ==
    phase \in {"cleanup", "close", "ended"} /\ errors = {} /\ ~ cancelled =>
        LedgerAgrees(events) /\ StreamsAgree(events)



\* The service, while nothing went wrong, keeps its contract.
Faultless ==
    /\ rowsLost = 0
    /\ \A i, j \in DOMAIN ledger : ledger[i] = ledger[j] => i = j
    /\ \A i \in DOMAIN ledger : ledger[i] \in Issued("write")
    /\ \A k \in Numbers :
          /\ looked[k].done => k \in 1 .. issued
          /\ looked[k].done /\ IsWrite(k) =>
                looked[k].balance \in DOMAIN ledger /\ ledger[looked[k].balance] = k
          /\ looked[k].done /\ ~ IsWrite(k) => looked[k].balance <= Len(ledger)
          /\ answer[k] # Service!NotYet =>
                looked[k].done /\ answer[k] = [status |-> "ok", balance |-> looked[k].balance]
    /\ \A s \in StreamIds :
          Len(delivered[s]) <= Len(ledger) /\ delivered[s] = Service!History(Len(delivered[s]))

\* What is acknowledged: the updates whose answers their workers have.
Acknowledged == 1 .. events.floor \cup events.ahead
Answered == {i \in DOMAIN ledger : answer[ledger[i]] # Service!NotYet /\ ~ InFlight(ledger[i])}

\* A read cannot be older than what was acknowledged when it was dispatched.
Watermarked ==
    \A w \in Workers :
        LET k == worker[w].number IN
        worker[w].at = "waiting" =>
            /\ worker[w].watermark <= Len(ledger)
            /\ looked[k].done /\ ~ IsWrite(k) => worker[w].watermark <= looked[k].balance

Exact ==
    /\ Acknowledged = Answered
    /\ events.floor + 1 \notin events.ahead /\ \A j \in events.ahead : j > events.floor
    /\ \A i \in Acknowledged : i <= events.max
    /\ events.max \in Acknowledged \cup {0}
    /\ \A k \in 1 .. issued : InFlight(k) \/ answer[k] # Service!NotYet

Read(i) == {s \in Connected : events.last[s] >= i}
Pending ==
    /\ DOMAIN events.pending \subseteq DOMAIN ledger
    /\ \A s \in Connected :
          /\ events.last[s] = reader[s].read /\ reader[s].read <= Len(delivered[s])
          /\ reader[s].at = IF phase = "startup" THEN "none" ELSE "reading"
    /\ \A i \in DOMAIN events.pending :
          LET entry == events.pending[i] IN
          /\ entry.acked <=> i \in Acknowledged
          /\ entry.acked => entry.start = ledger[i]
          /\ entry.seen = Read(i)
          /\ \A a \in entry.fresh : ledger[i] <= a
          /\ entry.acked \/ entry.seen # {}
          /\ ~ (entry.acked /\ entry.seen = Connected)
    /\ \A i \in DOMAIN ledger \ DOMAIN events.pending :
          \/ i \notin Acknowledged /\ Read(i) = {}
          \/ i \in Acknowledged /\ Read(i) = Connected

AfterDrain ==
    phase = "check" => final.balance = Len(ledger) /\ final.rows = Len(ledger) /\ Caught(events)

Steady == ~ stop /\ ~ cancelled /\ Watermarked /\ Exact /\ Pending /\ AfterDrain
----------------------------------------------------------------------------
(* The operators of class Events.                                            *)

\* The first gap is where the acknowledgments without a gap end.
LEMMA FloorFacts ==
    ASSUME NEW floor \in Nat, NEW ahead \in SUBSET Nat, NEW m \in Nat, \A j \in ahead : j <= m,
           NEW f, f = FloorAfter(floor, ahead)
    PROVE  f \in Nat /\ f >= floor /\ floor + 1 .. f \subseteq ahead /\ f + 1 \notin ahead
<1> DEFINE Gaps == {n \in Nat : n > floor /\ n \notin ahead}
<1>1. \E x \in Gaps : \A y \in Gaps : x <= y
  <2>1. floor + m + 1 \in Gaps
    OBVIOUS
  <2>2. PICK x \in Gaps : \A y \in Gaps : ~ (<<y, x>> \in OpToRel(<, Nat))
    <3>1. Gaps \subseteq Nat /\ Gaps # {}
      BY <2>1
    <3> HIDE DEF Gaps
    <3> QED
      BY <3>1, NatLessThanWellFounded, WFMin
  <2>3. \A y \in Gaps : ~ (y < x)
    BY <2>2 DEF OpToRel
  <2> QED
    BY <2>3
<1>2. PICK x \in Gaps : \A y \in Gaps : x <= y
  BY <1>1
<1>3. x - 1 \in Nat /\ x - 1 >= floor /\ x \notin ahead /\ (x - 1) + 1 = x
  OBVIOUS
<1>4. floor + 1 .. x - 1 \subseteq ahead
  BY <1>2
<1>5. x - 1 \in floor .. floor + Cardinality(ahead)
  <2>1. IsFiniteSet(ahead)
    BY FS_BoundedSetOfNaturals
  <2>2. Cardinality(floor + 1 .. x - 1) <= Cardinality(ahead)
    BY <2>1, <1>4, FS_Subset
  <2>3. Cardinality(floor + 1 .. x - 1) = IF floor + 1 > x - 1 THEN 0 ELSE (x - 1) - (floor + 1) + 1
    BY <1>3, FS_Interval
  <2>4. Cardinality(ahead) \in Nat
    BY <2>1, FS_CardinalityType
  <2> QED
    BY <2>2, <2>3, <2>4, <1>3
<1> HIDE DEF Gaps
<1>6. /\ f \in floor .. floor + Cardinality(ahead)
      /\ floor + 1 .. f \subseteq ahead /\ f + 1 \notin ahead
  BY <1>3, <1>4, <1>5 DEF FloorAfter
<1>7. Cardinality(ahead) \in Nat
  BY FS_BoundedSetOfNaturals, FS_CardinalityType
<1> QED
  BY <1>6, <1>7

LEMMA BookParts ==
    ASSUME NEW e, IsBook(e)
    PROVE  /\ e.last \in [StreamIds -> Nat] /\ e.floor \in Nat /\ e.max \in Nat
           /\ e.ahead \in SUBSET Nat /\ DOMAIN e.pending \subseteq Nat
           /\ e.pending \in [DOMAIN e.pending -> Entries]
           /\ \A j \in e.ahead : j <= e.max
           /\ e = [last |-> e.last, pending |-> e.pending, floor |-> e.floor, max |-> e.max,
                   ahead |-> e.ahead]
BY DEF IsBook

\* The books e but for the pending entries p.
LEMMA PendingBook ==
    ASSUME NEW e, IsBook(e), NEW p, p \in [DOMAIN p -> Entries], DOMAIN p \subseteq Nat,
           NEW n, n = [e EXCEPT !.pending = p]
    PROVE  /\ IsBook(n) /\ n.pending = p
           /\ n.last = e.last /\ n.floor = e.floor /\ n.max = e.max /\ n.ahead = e.ahead
<1>1. n = [last |-> e.last, pending |-> p, floor |-> e.floor, max |-> e.max, ahead |-> e.ahead]
  BY BookParts
<1> QED
  BY <1>1, BookParts DEF IsBook

LEMMA WithFacts ==
    ASSUME NEW e, IsBook(e), NEW i \in Nat, NEW entry \in Entries, NEW n, n = With(e, i, entry)
    PROVE  /\ IsBook(n)
           /\ DOMAIN n.pending = DOMAIN e.pending \cup {i}
           /\ \A j \in DOMAIN n.pending : n.pending[j] = IF j = i THEN entry ELSE e.pending[j]
           /\ n.last = e.last /\ n.floor = e.floor /\ n.max = e.max /\ n.ahead = e.ahead
<1> DEFINE p == [j \in DOMAIN e.pending \cup {i} |-> IF j = i THEN entry ELSE e.pending[j]]
<1>1. DOMAIN p = DOMAIN e.pending \cup {i} /\ DOMAIN p \subseteq Nat
  BY BookParts
<1>2. p \in [DOMAIN p -> Entries]
  BY BookParts
<1>3. n = [e EXCEPT !.pending = p]
  BY DEF With
<1>4. \A j \in DOMAIN p : p[j] = IF j = i THEN entry ELSE e.pending[j]
  OBVIOUS
<1> HIDE DEF p
<1>5. /\ IsBook(n) /\ n.pending = p
      /\ n.last = e.last /\ n.floor = e.floor /\ n.max = e.max /\ n.ahead = e.ahead
  BY <1>1, <1>2, <1>3, PendingBook
<1> QED
  BY <1>1, <1>4, <1>5

LEMMA WithoutFacts ==
    ASSUME NEW e, IsBook(e), NEW i \in Nat, NEW n, n = Without(e, i)
    PROVE  /\ IsBook(n)
           /\ DOMAIN n.pending = DOMAIN e.pending \ {i}
           /\ \A j \in DOMAIN n.pending : n.pending[j] = e.pending[j]
           /\ n.last = e.last /\ n.floor = e.floor /\ n.max = e.max /\ n.ahead = e.ahead
<1> DEFINE p == [j \in DOMAIN e.pending \ {i} |-> e.pending[j]]
<1>1. DOMAIN p = DOMAIN e.pending \ {i} /\ DOMAIN p \subseteq Nat
  BY BookParts
<1>2. p \in [DOMAIN p -> Entries]
  BY BookParts
<1>3. n = [e EXCEPT !.pending = p]
  BY DEF Without
<1>4. \A j \in DOMAIN p : p[j] = e.pending[j]
  OBVIOUS
<1> HIDE DEF p
<1>5. /\ IsBook(n) /\ n.pending = p
      /\ n.last = e.last /\ n.floor = e.floor /\ n.max = e.max /\ n.ahead = e.ahead
  BY <1>1, <1>2, <1>3, PendingBook
<1> QED
  BY <1>1, <1>4, <1>5

\* What is known of an event, and the entry once an arrival or the
\* acknowledgment is added.
LEMMA KnownFacts ==
    ASSUME NEW e, IsBook(e), NEW i \in Nat, NEW y, y = Known(e, i)
    PROVE  /\ y \in Entries
           /\ i \in DOMAIN e.pending => y = e.pending[i]
           /\ i \notin DOMAIN e.pending => y = [acked |-> FALSE, start |-> 0, seen |-> {}, fresh |-> {}]
BY BookParts DEF Known, Entries

\* How Reconcile leaves the books: with the entry, or without.
LEMMA ReconcileFacts ==
    ASSUME NEW e, IsBook(e), NEW i \in Nat, NEW entry \in Entries,
           NEW n, n = Reconcile(e, i, entry)
    PROVE  /\ n.raised \in BOOLEAN /\ IsBook(n.events)
           /\ n.raised <=> entry.acked /\ \E a \in entry.fresh : a < entry.start
           /\ \/ n.events = With(e, i, entry) /\ (entry.acked => n.raised)
              \/ /\ entry.acked /\ ~ n.raised /\ Cardinality(entry.seen) = streams
                 /\ n.events = Without(e, i)
              \/ /\ entry.acked /\ ~ n.raised /\ Cardinality(entry.seen) # streams
                 /\ n.events = With(e, i, [entry EXCEPT !.fresh = {}])
<1>1. entry.acked \in BOOLEAN /\ [entry EXCEPT !.fresh = {}] \in Entries
  BY DEF Entries
<1>2. CASE ~ entry.acked
  <2>1. n = [events |-> With(e, i, entry), raised |-> FALSE]
    BY <1>2 DEF Reconcile
  <2> QED
    BY <2>1, <1>2, WithFacts
<1>3. CASE entry.acked /\ \E a \in entry.fresh : a < entry.start
  <2>1. n = [events |-> With(e, i, entry), raised |-> TRUE]
    BY <1>3 DEF Reconcile
  <2> QED
    BY <2>1, <1>3, WithFacts
<1>4. CASE entry.acked /\ ~ (\E a \in entry.fresh : a < entry.start) /\ Cardinality(entry.seen) = streams
  <2>1. n = [events |-> Without(e, i), raised |-> FALSE]
    BY <1>4 DEF Reconcile
  <2> QED
    BY <2>1, <1>4, WithoutFacts
<1>5. CASE entry.acked /\ ~ (\E a \in entry.fresh : a < entry.start) /\ Cardinality(entry.seen) # streams
  <2>1. n = [events |-> With(e, i, [entry EXCEPT !.fresh = {}]), raised |-> FALSE]
    BY <1>5 DEF Reconcile
  <2> QED
    BY <2>1, <1>1, <1>5, WithFacts
<1> QED
  BY <1>1, <1>2, <1>3, <1>4, <1>5

\* The books after the floor and the acknowledgments ahead of it were noted.
Noted(e, i) ==
    LET ahead == e.ahead \cup {i}
        f == FloorAfter(e.floor, ahead)
    IN  [e EXCEPT !.floor = f, !.ahead = {j \in ahead : j > f}, !.max = Larger(@, i)]

LEMMA NotedFacts ==
    ASSUME NEW e, IsBook(e), NEW i \in Nat, NEW n, n = Noted(e, i)
    PROVE  /\ IsBook(n) /\ n.last = e.last /\ n.pending = e.pending
           /\ n.max = Larger(e.max, i)
           /\ n.floor \in Nat /\ n.floor >= e.floor
           /\ e.floor + 1 .. n.floor \subseteq e.ahead \cup {i}
           /\ n.floor + 1 \notin e.ahead \cup {i}
           /\ \A j : j \in n.ahead <=> j \in e.ahead \cup {i} /\ j > n.floor
<1> DEFINE ahead == e.ahead \cup {i}
           f == FloorAfter(e.floor, ahead)
           m == Larger(e.max, i)
<1>1. ahead \in SUBSET Nat /\ m \in Nat /\ \A j \in ahead : j <= m
  BY BookParts DEF Larger
<1>2. f \in Nat /\ f >= e.floor /\ e.floor + 1 .. f \subseteq ahead /\ f + 1 \notin ahead
  <2>1. e.floor \in Nat
    BY BookParts
  <2> HIDE DEF ahead, m
  <2> QED
    BY <1>1, <2>1, FloorFacts
<1>3. n = [e EXCEPT !.floor = f, !.ahead = {j \in ahead : j > f}, !.max = m]
  BY DEF Noted
<1> HIDE DEF f, m
<1>4. n = [last |-> e.last, pending |-> e.pending, floor |-> f, max |-> m,
           ahead |-> {j \in ahead : j > f}]
  BY <1>3, BookParts
<1>5. IsBook(n)
  BY <1>1, <1>2, <1>4, BookParts DEF IsBook
<1> QED
  BY <1>2, <1>4, <1>5 DEF m

\* The entry of event i once it is acknowledged, or has arrived on stream s.
AckedEntry(e, i, started) == [Known(e, i) EXCEPT !.acked = TRUE, !.start = started]
SeenEntry(e, i, s, arrived) == [Known(e, i) EXCEPT !.seen = @ \cup {s}, !.fresh = @ \cup {arrived}]

\* acknowledge raises, or notes the acknowledgment and reconciles the event.
LEMMA AcknowledgeFacts ==
    ASSUME NEW e, IsBook(e), NEW i \in Nat, NEW started \in Nat, NEW n, n = Acknowledge(e, i, started),
           NEW noted, noted = Noted(e, i),
           NEW entry, entry = AckedEntry(noted, i, started)
    PROVE  /\ IsBook(n.events) /\ n.raised \in BOOLEAN /\ IsBook(noted) /\ entry \in Entries
           /\ \/ /\ i <= e.floor \/ i \in e.ahead \/ Cardinality(e.ahead) >= MaxPending
                 /\ n.events = e /\ n.raised
              \/ streams = 0 /\ n.events = noted /\ ~ n.raised
              \/ streams # 0 /\ Full(noted, i) /\ n.events = noted /\ n.raised
              \/ streams # 0 /\ n = Reconcile(noted, i, entry)
<1>1. IsBook(noted)
  BY NotedFacts
<1>2. Known(noted, i) \in Entries
  BY <1>1, KnownFacts
<1>3. entry \in Entries
  BY <1>2 DEF Entries, AckedEntry
<1>4. n = IF i <= e.floor \/ i \in e.ahead \/ Cardinality(e.ahead) >= MaxPending
          THEN [events |-> e, raised |-> TRUE]
          ELSE IF streams = 0 THEN [events |-> noted, raised |-> FALSE]
          ELSE IF Full(noted, i) THEN [events |-> noted, raised |-> TRUE]
          ELSE Reconcile(noted, i, entry)
  BY DEF Acknowledge, Noted, AckedEntry
<1>5. IsBook(Reconcile(noted, i, entry).events) /\ Reconcile(noted, i, entry).raised \in BOOLEAN
  BY <1>1, <1>3, ReconcileFacts
<1>6. CASE i <= e.floor \/ i \in e.ahead \/ Cardinality(e.ahead) >= MaxPending
  <2>1. n = [events |-> e, raised |-> TRUE]
    BY <1>4, <1>6
  <2> QED
    BY <2>1, <1>1, <1>3, <1>6
<1>7. CASE ~ (i <= e.floor \/ i \in e.ahead \/ Cardinality(e.ahead) >= MaxPending)
  <2>1. CASE streams = 0
    <3>1. n = [events |-> noted, raised |-> FALSE]
      BY <1>4, <1>7, <2>1
    <3> QED
      BY <3>1, <2>1, <1>1, <1>3
  <2>2. CASE streams # 0 /\ Full(noted, i)
    <3>1. n = [events |-> noted, raised |-> TRUE]
      BY <1>4, <1>7, <2>2
    <3> QED
      BY <3>1, <2>2, <1>1, <1>3
  <2>3. CASE streams # 0 /\ ~ Full(noted, i)
    <3>1. n = Reconcile(noted, i, entry)
      BY <1>4, <1>7, <2>3
    <3> QED
      BY <3>1, <2>3, <1>1, <1>3, <1>5
  <2> QED
    BY <2>1, <2>2, <2>3
<1> QED
  BY <1>6, <1>7

\* The books after stream s was read up to the event.
ReadUp(e, s, i) == [e EXCEPT !.last[s] = i]

LEMMA ReadUpFacts ==
    ASSUME NEW e, IsBook(e), NEW s \in StreamIds, NEW i \in Nat, NEW n, n = ReadUp(e, s, i)
    PROVE  /\ IsBook(n) /\ n.last = [e.last EXCEPT ![s] = i] /\ n.pending = e.pending
           /\ n.floor = e.floor /\ n.max = e.max /\ n.ahead = e.ahead
<1>1. n = [last |-> [e.last EXCEPT ![s] = i], pending |-> e.pending, floor |-> e.floor,
           max |-> e.max, ahead |-> e.ahead]
  BY BookParts DEF ReadUp
<1> QED
  BY <1>1, BookParts DEF IsBook

LEMMA FrameFacts ==
    ASSUME NEW e, IsBook(e), NEW s \in StreamIds, NEW event \in Sent, NEW arrived \in Nat,
           NEW n, n = Frame(e, s, event, arrived),
           NEW i, i = event.id,
           NEW noted, noted = ReadUp(e, s, i),
           NEW entry, entry = SeenEntry(noted, i, s, arrived)
    PROVE  /\ IsBook(n.events) /\ n.raised \in BOOLEAN /\ IsBook(noted) /\ entry \in Entries
           /\ i \in Nat
           /\ \/ (i # e.last[s] + 1 \/ event.balance # i) /\ n.events = e /\ n.raised
              \/ Full(noted, i) /\ n.events = noted /\ n.raised
              \/ n = Reconcile(noted, i, entry)
<1>1. i \in Nat
  BY DEF Sent
<1>2. IsBook(noted)
  BY <1>1, ReadUpFacts
<1>3. Known(noted, i) \in Entries
  BY <1>1, <1>2, KnownFacts
<1>4. entry \in Entries
  BY <1>3 DEF Entries, SeenEntry
<1>5. n = IF event.id # e.last[s] + 1 \/ event.balance # event.id
          THEN [events |-> e, raised |-> TRUE]
          ELSE IF Full(noted, i) THEN [events |-> noted, raised |-> TRUE]
          ELSE Reconcile(noted, i, entry)
  BY DEF Frame, ReadUp, SeenEntry
<1>6. IsBook(Reconcile(noted, i, entry).events) /\ Reconcile(noted, i, entry).raised \in BOOLEAN
  BY <1>1, <1>2, <1>4, ReconcileFacts
<1>7. CASE event.id # e.last[s] + 1 \/ event.balance # event.id
  <2>1. n = [events |-> e, raised |-> TRUE]
    BY <1>5, <1>7
  <2> QED
    BY <2>1, <1>1, <1>2, <1>4, <1>7
<1>8. CASE ~ (event.id # e.last[s] + 1 \/ event.balance # event.id)
  <2>1. CASE Full(noted, i)
    <3>1. n = [events |-> noted, raised |-> TRUE]
      BY <1>5, <1>8, <2>1
    <3> QED
      BY <3>1, <2>1, <1>1, <1>2, <1>4
  <2>2. CASE ~ Full(noted, i)
    <3>1. n = Reconcile(noted, i, entry)
      BY <1>5, <1>8, <2>2
    <3> QED
      BY <3>1, <1>1, <1>2, <1>4, <1>6
  <2> QED
    BY <2>1, <2>2
<1> QED
  BY <1>7, <1>8

----------------------------------------------------------------------------
(* Types, the schedule, the sampler and the tally, action by action.         *)

Books == Typed /\ Watched /\ Scheduled /\ Tallied /\ Reconciled

LEMMA TypeFacts ==
    ASSUME Typed
    PROVE  /\ RequestCount \in Nat /\ Streams \in Nat /\ issued \in Nat /\ streams \in Nat
           /\ Len(ledger) \in Nat /\ DOMAIN ledger = 1 .. Len(ledger)
           /\ \A i \in 1 .. Len(ledger) : ledger[i] \in Numbers
           /\ 1 .. issued \subseteq Numbers /\ Connected \subseteq StreamIds
           /\ \A w \in Workers : worker[w] \in Tasks
           /\ \A s \in StreamIds : reader[s] \in Readers
           /\ \A k \in Everyone : /\ looked[k] \in Looks /\ answer[k] \in Service!Answers
                                  /\ delivered[k] \in Seq(Sent) /\ Len(delivered[k]) \in Nat
<1>1. RequestCount \in Nat /\ Streams \in Nat
  BY LoadAssumption
<1>2. issued \in Nat /\ streams \in Nat /\ ledger \in Seq(Numbers)
  BY <1>1 DEF Typed
<1>3. Len(ledger) \in Nat /\ DOMAIN ledger = 1 .. Len(ledger)
  BY <1>2, LenProperties
<1>4. \A i \in 1 .. Len(ledger) : ledger[i] \in Numbers
  BY <1>2, <1>3, ElementOfSeq
<1>5. 1 .. issued \subseteq Numbers /\ Connected \subseteq StreamIds
  BY <1>1 DEF Typed, Numbers, Connected, StreamIds
<1>6. \A k \in Everyone : /\ looked[k] \in Looks /\ answer[k] \in Service!Answers
                          /\ delivered[k] \in Seq(Sent)
  BY DEF Typed
<1>7. \A k \in Everyone : Len(delivered[k]) \in Nat
  BY <1>6, LenProperties
<1>8. \A w \in Workers : worker[w] \in Tasks
  BY DEF Typed
<1>9. \A s \in StreamIds : reader[s] \in Readers
  BY DEF Typed
<1> QED
  BY <1>1, <1>2, <1>3, <1>4, <1>5, <1>6, <1>7, <1>8, <1>9

\* A step that neither starts nor ends a request.
LEMMA TallyStays ==
    ASSUME Tallied, UNCHANGED <<worker, issued, tally>>, errors \subseteq errors', cancelled => cancelled'
    PROVE  Tallied'
<1>1. \A kind : Issued(kind)' = Issued(kind)
  BY DEF Issued
<1>2. \A kind : Returned(kind)' = Returned(kind)
  BY <1>1 DEF Returned, InFlight
<1> QED
  BY <1>1, <1>2 DEF Tallied

\* The tasks as they are, in the same phase.
LEMMA ScheduleStays ==
    ASSUME Scheduled, UNCHANGED <<worker, issued, reader, phase>>
    PROVE  Scheduled'
BY DEF Scheduled

\* A step of the service alone.
LEMMA ServiceKeepsBooks ==
    ASSUME Books, UNCHANGED <<asks, phase, streams, expired, worker, issued, reader, events, sampler,
                              stop, tally, errors, final, cancelled, dbOpen, invented>>,
           ledger' \in Seq(Numbers), looked' \in [Everyone -> Looks],
           answer' \in [Everyone -> Service!Answers], delivered' \in [Everyone -> Seq(Sent)],
           rowsLost' \in Nat, rowsLost' <= Len(ledger'), faults' \in Nat
    PROVE  Books'
<1>1. Typed'
  BY DEF Books, Typed, IsBook
<1>2. Watched' /\ Reconciled'
  BY DEF Books, Watched, Reconciled, LedgerAgrees, StreamsAgree, Connected, Writes
<1>3. Scheduled' /\ Tallied'
  BY ScheduleStays, TallyStays DEF Books
<1> QED
  BY <1>1, <1>2, <1>3 DEF Books

\* What the service may do for request k or stream s, in the test's terms.
Applies(k) ==
    /\ k \in 1 .. issued /\ IsWrite(k) /\ ~ Service!Applied(k) /\ answer[k] = Service!NotYet
    /\ ledger' = Append(ledger, k)
    /\ looked' = [looked EXCEPT ![k] = [done |-> TRUE, balance |-> Len(ledger) + 1]]
    /\ UNCHANGED <<answer, delivered>>
Seeks(k) ==
    /\ k \in 1 .. issued /\ ~ IsWrite(k) /\ answer[k] = Service!NotYet
    /\ looked' = [looked EXCEPT ![k] = [done |-> TRUE, balance |-> Len(ledger)]]
    /\ UNCHANGED <<ledger, answer, delivered>>
Replies(k) ==
    /\ k \in 1 .. issued /\ looked[k].done /\ answer[k] = Service!NotYet
    /\ answer' = [answer EXCEPT ![k] = [status |-> "ok", balance |-> looked[k].balance]]
    /\ UNCHANGED <<ledger, looked, delivered>>
Shows(s) ==
    /\ s \in Connected
    /\ \E n \in Len(delivered[s]) .. Len(ledger) :
          delivered' = [delivered EXCEPT ![s] = Service!History(n)]
    /\ UNCHANGED <<ledger, looked, answer>>

LEMMA ServeIsOneOf ==
    ASSUME Typed, Serve
    PROVE  \/ \E k \in 1 .. issued : Applies(k) \/ Seeks(k) \/ Replies(k)
           \/ \E s \in Connected : Shows(s)
<1>1. \A k \in 1 .. issued :
         /\ k \in Everyone /\ k \notin StreamIds
         /\ asks[k] = [route |-> IF IsWrite(k) THEN "update" ELSE "read", known |-> TRUE]
  BY TypeFacts DEF Typed, Everyone, Asked, Numbers, StreamIds
<1>a. \A k \in 1 .. issued :
         /\ asks[k].route \in {"update", "read"} /\ asks[k].known
         /\ asks[k] = [route |-> "update", known |-> TRUE] => IsWrite(k)
         /\ asks[k] = [route |-> "read", known |-> TRUE] => ~ IsWrite(k)
  <2> SUFFICES ASSUME NEW k \in 1 .. issued, NEW q, q = asks[k],
                      q = [route |-> IF IsWrite(k) THEN "update" ELSE "read", known |-> TRUE]
               PROVE  /\ q.route \in {"update", "read"} /\ q.known
                      /\ q = [route |-> "update", known |-> TRUE] => IsWrite(k)
                      /\ q = [route |-> "read", known |-> TRUE] => ~ IsWrite(k)
    BY <1>1
  <2>1. q.route = (IF IsWrite(k) THEN "update" ELSE "read") /\ q.known
    OBVIOUS
  <2>2. "update" # "read"
    OBVIOUS
  <2> QED
    BY <2>1, <2>2
<1>2. ASSUME NEW k \in 1 .. issued, Service!Apply(k)
      PROVE  Applies(k)
  <2>1. IsWrite(k)
    BY <1>a, <1>2 DEF Service!Apply
  <2> QED
    BY <2>1, <1>2 DEF Service!Apply, Applies, Service!Saw
<1>3. ASSUME NEW k \in 1 .. issued, Service!Look(k)
      PROVE  Seeks(k)
  <2>1. ~ IsWrite(k)
    BY <1>a, <1>3 DEF Service!Look
  <2> QED
    BY <2>1, <1>3 DEF Service!Look, Seeks, Service!Saw
<1>4. ASSUME NEW k \in 1 .. issued, Service!Answer(k), answer'[k].status = "ok"
      PROVE  Replies(k)
  <2>1. PICK a \in Service!Truthful(k) : answer' = [answer EXCEPT ![k] = a]
    BY <1>4 DEF Service!Answer
  <2>2. answer'[k] = a /\ a.status = "ok"
    BY <2>1, <1>1, <1>4 DEF Typed
  <2>3. asks[k].route \in {"update", "read"} /\ asks[k].known
    BY <1>a
  <2>4. CASE looked[k].done
    <3>1. a = [status |-> "ok", balance |-> looked[k].balance]
      BY <2>1, <2>3, <2>4 DEF Service!Truthful
    <3> QED
      BY <3>1, <2>1, <2>4, <1>4 DEF Replies, Service!Answer
  <2>5. CASE ~ looked[k].done
    BY <2>1, <2>2, <2>3, <2>5 DEF Service!Truthful
  <2> QED
    BY <2>4, <2>5
<1>5. ASSUME NEW s \in Connected, Service!Deliver(s)
      PROVE  Shows(s)
  BY <1>5 DEF Service!Deliver, Shows
<1> QED
  BY <1>2, <1>3, <1>4, <1>5 DEF Serve

LEMMA HistoryIsSent ==
    ASSUME NEW n \in Nat
    PROVE  Service!History(n) \in Seq(Sent) /\ Len(Service!History(n)) = n
           /\ \A i \in 1 .. n : Service!History(n)[i] = [id |-> i, balance |-> i]
BY DEF Service!History, Sent

LEMMA ServeKeepsBooks ==
    ASSUME Books, Serve
    PROVE  Books'
<1>t. Typed
  BY DEF Books
<1>1. UNCHANGED <<rowsLost, faults, phase, streams, expired, worker, issued, reader, events,
                  sampler, stop, tally, errors, final, cancelled, dbOpen, invented>>
      /\ UNCHANGED asks
  BY DEF Serve, Service!Apply, Service!Look, Service!Answer, Service!Deliver
<1>2. /\ ledger \in Seq(Numbers) /\ looked \in [Everyone -> Looks] /\ Len(ledger) \in Nat
      /\ answer \in [Everyone -> Service!Answers] /\ delivered \in [Everyone -> Seq(Sent)]
      /\ rowsLost \in Nat /\ rowsLost <= Len(ledger) /\ faults \in Nat
      /\ 1 .. issued \subseteq Numbers /\ Connected \subseteq StreamIds
      /\ Numbers \subseteq Everyone /\ StreamIds \subseteq Everyone
  BY <1>t, TypeFacts DEF Typed, Everyone
<1>3. /\ ledger' \in Seq(Numbers) /\ looked' \in [Everyone -> Looks]
      /\ answer' \in [Everyone -> Service!Answers] /\ delivered' \in [Everyone -> Seq(Sent)]
      /\ rowsLost' \in Nat /\ rowsLost' <= Len(ledger') /\ faults' \in Nat
  <2>1. ASSUME NEW k \in 1 .. issued, Applies(k) PROVE <1>3
    <3>1. k \in Numbers /\ ledger' = Append(ledger, k)
      BY <2>1, <1>2 DEF Applies
    <3>2. ledger' \in Seq(Numbers) /\ Len(ledger') = Len(ledger) + 1
      BY <3>1, <1>2, AppendProperties
    <3>3. [done |-> TRUE, balance |-> Len(ledger) + 1] \in Looks
      BY <1>2 DEF Looks
    <3> QED
      BY <3>2, <3>3, <2>1, <1>1, <1>2 DEF Applies
  <2>2. ASSUME NEW k \in 1 .. issued, Seeks(k) PROVE <1>3
    <3>1. [done |-> TRUE, balance |-> Len(ledger)] \in Looks
      BY <1>2 DEF Looks
    <3> QED
      BY <3>1, <2>2, <1>1, <1>2 DEF Seeks
  <2>3. ASSUME NEW k \in 1 .. issued, Replies(k) PROVE <1>3
    <3>1. [status |-> "ok", balance |-> looked[k].balance] \in Service!Answers
      BY <1>2 DEF Looks, Service!Answers
    <3> QED
      BY <3>1, <2>3, <1>1, <1>2 DEF Replies
  <2>4. ASSUME NEW s \in Connected, Shows(s) PROVE <1>3
    <3>1. PICK n \in Len(delivered[s]) .. Len(ledger) :
             delivered' = [delivered EXCEPT ![s] = Service!History(n)]
      BY <2>4 DEF Shows
    <3>2. s \in Everyone /\ Len(delivered[s]) \in Nat
      BY <1>t, <1>2, TypeFacts
    <3>3. Service!History(n) \in Seq(Sent)
      BY <3>2, HistoryIsSent
    <3> QED
      BY <3>1, <3>3, <2>4, <1>1, <1>2 DEF Shows
  <2> QED
    BY <2>1, <2>2, <2>3, <2>4, <1>t, ServeIsOneOf
<1> QED
  BY <1>1, <1>3, ServiceKeepsBooks

LEMMA MisbehaveKeepsBooks ==
    ASSUME Books, Misbehave
    PROVE  Books'
<1>t. Typed
  BY DEF Books
<1>1. /\ UNCHANGED <<asks, phase, streams, expired, worker, issued, reader, events, sampler, stop,
                     tally, errors, final, cancelled, dbOpen, invented>>
      /\ faults' = faults + 1
  BY DEF Misbehave
<1>2. /\ ledger \in Seq(Numbers) /\ looked \in [Everyone -> Looks] /\ Len(ledger) \in Nat
      /\ answer \in [Everyone -> Service!Answers] /\ delivered \in [Everyone -> Seq(Sent)]
      /\ rowsLost \in Nat /\ rowsLost <= Len(ledger) /\ faults \in Nat
      /\ 1 .. issued \subseteq Numbers /\ Connected \subseteq StreamIds
      /\ Numbers \subseteq Everyone /\ StreamIds \subseteq Everyone
  BY <1>t, TypeFacts DEF Typed, Everyone
<1>3. faults' \in Nat
  BY <1>1, <1>2
<1>4. CASE \E k \in 1 .. issued, b \in 0 .. Len(ledger) + 1 :
             /\ answer' = [answer EXCEPT ![k] = [status |-> "ok", balance |-> b]]
             /\ UNCHANGED <<ledger, looked, delivered, rowsLost>>
  <2>1. PICK k \in 1 .. issued, b \in 0 .. Len(ledger) + 1 :
             /\ answer' = [answer EXCEPT ![k] = [status |-> "ok", balance |-> b]]
             /\ UNCHANGED <<ledger, looked, delivered, rowsLost>>
    BY <1>4
  <2>2. [status |-> "ok", balance |-> b] \in Service!Answers
    BY DEF Service!Answers
  <2>3. answer' \in [Everyone -> Service!Answers]
    BY <2>1, <2>2, <1>2
  <2> QED
    BY <2>1, <2>3, <1>1, <1>2, <1>3, ServiceKeepsBooks
<1>5. CASE \E s \in Connected : \E event \in Odd(Len(delivered[s])) :
             /\ delivered' = [delivered EXCEPT ![s] = Append(@, event)]
             /\ UNCHANGED <<ledger, looked, answer, rowsLost>>
  <2>1. PICK s \in Connected : \E event \in Odd(Len(delivered[s])) :
             /\ delivered' = [delivered EXCEPT ![s] = Append(@, event)]
             /\ UNCHANGED <<ledger, looked, answer, rowsLost>>
    BY <1>5
  <2>2. PICK event \in Odd(Len(delivered[s])) :
             /\ delivered' = [delivered EXCEPT ![s] = Append(@, event)]
             /\ UNCHANGED <<ledger, looked, answer, rowsLost>>
    BY <2>1
  <2>3. Len(delivered[s]) \in Nat /\ delivered[s] \in Seq(Sent)
    BY <1>t, <1>2, TypeFacts
  <2>4. event \in Sent
    BY <2>3 DEF Odd, Sent
  <2>5. Append(delivered[s], event) \in Seq(Sent)
    BY <2>3, <2>4, AppendProperties
  <2>6. delivered' \in [Everyone -> Seq(Sent)]
    BY <2>2, <2>5, <1>2
  <2> QED
    BY <2>2, <2>6, <1>1, <1>2, <1>3, ServiceKeepsBooks
<1>6. CASE \E k \in 1 .. issued :
             ledger' = Append(ledger, k) /\ UNCHANGED <<looked, answer, delivered, rowsLost>>
  <2>1. PICK k \in 1 .. issued :
             ledger' = Append(ledger, k) /\ UNCHANGED <<looked, answer, delivered, rowsLost>>
    BY <1>6
  <2>2. k \in Numbers
    BY <1>2
  <2>3. ledger' \in Seq(Numbers) /\ Len(ledger') = Len(ledger) + 1
    BY <2>1, <2>2, <1>2, AppendProperties
  <2> QED
    BY <2>1, <2>3, <1>1, <1>2, <1>3, ServiceKeepsBooks
<1>7. CASE Len(ledger) > 0 /\ rowsLost' = 1 /\ UNCHANGED <<ledger, looked, answer, delivered>>
  BY <1>7, <1>1, <1>2, <1>3, ServiceKeepsBooks
<1> QED
  BY <1>4, <1>5, <1>6, <1>7 DEF Misbehave

\* The steps that touch neither the workers' requests nor the tally.
LEMMA ExpireKeepsBooks == Books /\ Expire => Books'
<1> SUFFICES ASSUME Books, Expire PROVE Books'
  OBVIOUS
<1>1. Typed'
  BY DEF Books, Typed, IsBook, Expire, svars
<1>2. Watched' /\ Reconciled'
  BY DEF Books, Watched, Reconciled, LedgerAgrees, StreamsAgree, Connected, Writes, Expire, svars
<1>3. Scheduled' /\ Tallied'
  BY ScheduleStays, TallyStays DEF Books, Expire
<1> QED
  BY <1>1, <1>2, <1>3 DEF Books

LEMMA SampleKeepsBooks == Books /\ (Sample \/ Sampled \/ SamplerReturns) => Books'
<1> SUFFICES ASSUME Books, Sample \/ Sampled \/ SamplerReturns PROVE Books'
  OBVIOUS
<1>1. /\ UNCHANGED <<svars, faults, phase, streams, expired, worker, issued, reader, events, tally,
                     final, cancelled, dbOpen, invented>>
      /\ errors \subseteq errors' /\ stop' \in BOOLEAN
  BY DEF Sample, Sampled, SamplerReturns, Fail, Books, Typed
<1>2. sampler' \in [task : {"none", "sleeping", "sampling", "done"}, thread : BOOLEAN]
  <2> DEFINE Samplers == [task : {"none", "sleeping", "sampling", "done"}, thread : BOOLEAN]
  <2>1. sampler \in Samplers /\ sampler.task \in {"none", "sleeping", "sampling", "done"}
    BY DEF Books, Typed
  <2>2. CASE Sample
    BY <2>2 DEF Sample
  <2>3. CASE Sampled
    <3>1. (IF sampler.task = "sampling" THEN "sleeping" ELSE sampler.task)
             \in {"none", "sleeping", "sampling", "done"}
      BY <2>1
    <3> QED
      BY <3>1, <2>3 DEF Sampled
  <2>4. CASE SamplerReturns
    BY <2>1, <2>4 DEF SamplerReturns
  <2> QED
    BY <2>2, <2>3, <2>4
<1>3. Typed'
  BY <1>1, <1>2 DEF Books, Typed, IsBook, svars
<1>4. Watched'
  <2>1. sampler \in [task : {"none", "sleeping", "sampling", "done"}, thread : BOOLEAN]
    BY DEF Books, Typed
  <2> QED
    BY <2>1, <1>1 DEF Books, Watched, Sample, Sampled, SamplerReturns
<1>5. Reconciled'
  BY <1>1 DEF Books, Reconciled, LedgerAgrees, StreamsAgree, Connected, Writes
<1>6. Scheduled' /\ Tallied'
  BY <1>1, ScheduleStays, TallyStays DEF Books
<1> QED
  BY <1>3, <1>4, <1>5, <1>6 DEF Books

LEMMA StartupKeepsBooks == Books /\ Startup => Books'
<1> SUFFICES ASSUME Books, Startup PROVE Books'
  OBVIOUS
<1>t. Typed /\ Watched /\ Scheduled /\ Tallied
  BY DEF Books
<1>1. /\ UNCHANGED <<svars, faults, streams, expired, issued, events, stop, tally, errors, final,
                     cancelled, dbOpen, invented>>
      /\ phase = "startup" /\ phase' = "workload"
      /\ worker' = [w \in Workers |-> [worker[w] EXCEPT !.at = "loop"]]
      /\ reader' = [s \in StreamIds |-> [reader[s] EXCEPT !.at =
                                             IF s \in Connected THEN "reading" ELSE "none"]]
      /\ sampler' = [sampler EXCEPT !.task = "sleeping"]
  BY DEF Startup
<1>2. /\ worker' \in [Workers -> Tasks] /\ \A w \in Workers : worker'[w].at = "loop"
      /\ \A w \in Workers : worker[w].at = "none"
      /\ reader' \in [StreamIds -> Readers]
      /\ sampler' \in [task : {"none", "sleeping", "sampling", "done"}, thread : BOOLEAN]
      /\ sampler'.task = "sleeping" /\ sampler'.thread = sampler.thread /\ ~ sampler.thread
  <2>1. /\ worker' \in [Workers -> Tasks] /\ \A w \in Workers : worker'[w].at = "loop"
    BY <1>1, <1>t, TypeFacts DEF Tasks
  <2>2. reader' \in [StreamIds -> Readers]
    BY <1>1, <1>t, TypeFacts DEF Readers
  <2>3. \A w \in Workers : worker[w].at = "none"
    BY <1>1, <1>t DEF Scheduled
  <2>4. /\ sampler' \in [task : {"none", "sleeping", "sampling", "done"}, thread : BOOLEAN]
        /\ sampler'.task = "sleeping" /\ sampler'.thread = sampler.thread /\ ~ sampler.thread
    BY <1>1, <1>t DEF Typed, Watched
  <2> QED
    BY <2>1, <2>2, <2>3, <2>4
<1>3. Typed'
  BY <1>1, <1>2, <1>t DEF Typed, IsBook, svars, Phases
<1>4. Watched'
  BY <1>1, <1>2, <1>t DEF Watched
<1>5. Scheduled' /\ Reconciled'
  BY <1>1, <1>2 DEF Scheduled, Reconciled
<1>6. Tallied'
  <2>1. \A k : ~ InFlight(k) /\ ~ InFlight(k)'
    BY <1>2 DEF InFlight
  <2>2. \A kind : Issued(kind)' = Issued(kind) /\ Returned(kind)' = Returned(kind)
    BY <2>1, <1>1 DEF Issued, Returned
  <2> QED
    BY <2>2, <1>1, <1>t DEF Tallied
<1> QED
  BY <1>3, <1>4, <1>5, <1>6 DEF Books

\* WorkersDone, EndDrain: the phases up to the check.
LEMMA DrainKeepsBooks == Books /\ (WorkersDone \/ EndDrain) => Books'
<1> SUFFICES ASSUME Books, WorkersDone \/ EndDrain PROVE Books'
  OBVIOUS
<1>t. Typed /\ Watched /\ Scheduled /\ Tallied
  BY DEF Books
<1>1. /\ UNCHANGED <<svars, faults, streams, expired, worker, issued, reader, events, sampler, stop,
                     tally, cancelled, dbOpen, invented>>
      /\ phase \in {"workload", "drain"} /\ phase' \in {"drain", "check"}
      /\ errors \subseteq errors' /\ \A w \in Workers : worker[w].at = "done"
  BY <1>t DEF WorkersDone, EndDrain, Scheduled
<1>2. final' \in [balance : Nat, rows : Nat, taken : BOOLEAN]
  <2>1. CASE WorkersDone
    BY <2>1, <1>t DEF WorkersDone, Typed
  <2>2. CASE EndDrain
    <3>1. Len(ledger) \in Nat /\ Len(ledger) - rowsLost \in Nat
      BY <1>t, TypeFacts DEF Typed
    <3> QED
      BY <3>1, <2>2 DEF EndDrain
  <2> QED
    BY <2>1, <2>2
<1>3. Typed'
  BY <1>1, <1>2, <1>t DEF Typed, IsBook, svars, Phases
<1>4. Watched'
  BY <1>1, <1>t DEF Watched
<1>5. Scheduled' /\ Reconciled'
  BY <1>1, <1>t DEF Scheduled, Reconciled
<1>6. Tallied'
  BY <1>1, <1>t, TallyStays
<1> QED
  BY <1>3, <1>4, <1>5, <1>6 DEF Books

\* When run goes on to clean up no request is under way, and none of them is
\* counted that was abandoned.
LEMMA CleanupKeepsBooks ==
    ASSUME Books, EnterCleanup,
           UNCHANGED <<svars, streams, expired, issued, events, sampler, tally, final, dbOpen>>,
           phase \in Running, faults' \in Nat, cancelled' \in BOOLEAN, cancelled => cancelled',
           errors \subseteq errors',
           \/ cancelled' \/ errors' # {}
           \/ phase = "check" /\ LedgerAgrees(events) /\ StreamsAgree(events)
    PROVE  Books'
<1>t. Typed /\ Watched /\ Scheduled /\ Tallied
  BY DEF Books
<1>1. /\ phase' = "cleanup" /\ stop' = TRUE
      /\ worker' = [w \in Workers |-> [worker[w] EXCEPT !.at = "done"]]
      /\ reader' = [s \in StreamIds |-> [reader[s] EXCEPT !.at = "done"]]
  BY DEF EnterCleanup
<1>2. /\ worker' \in [Workers -> Tasks] /\ \A w \in Workers : worker'[w].at = "done"
      /\ reader' \in [StreamIds -> Readers] /\ \A s \in StreamIds : reader'[s].at = "done"
  <2>1. worker' \in [Workers -> Tasks] /\ \A w \in Workers : worker'[w].at = "done"
    BY <1>1, <1>t, TypeFacts DEF Tasks
  <2>2. reader' \in [StreamIds -> Readers] /\ \A s \in StreamIds : reader'[s].at = "done"
    BY <1>1, <1>t, TypeFacts DEF Readers
  <2> QED
    BY <2>1, <2>2
<1>3. Typed'
  BY <1>1, <1>2, <1>t DEF Typed, IsBook, svars, Phases
<1>4. Watched'
  BY <1>1, <1>t DEF Watched, Running
<1>5. Scheduled'
  BY <1>1, <1>2, <1>t DEF Scheduled
<1>6. Reconciled'
  BY <1>1 DEF Reconciled, LedgerAgrees, StreamsAgree, Connected, Writes
<1>7. Tallied'
  <2>1. \A kind : Issued(kind)' = Issued(kind)
    BY DEF Issued
  <2>2. errors' = {} /\ ~ cancelled' => errors = {} /\ ~ cancelled /\ phase = "check"
    OBVIOUS
  <2>3. phase = "check" => \A w \in Workers : worker[w].at = "done"
    BY <1>t DEF Scheduled
  <2>4. phase = "check" => \A k : ~ InFlight(k) /\ ~ InFlight(k)'
    BY <2>3, <1>2 DEF InFlight
  <2>5. phase = "check" => \A kind : Returned(kind)' = Returned(kind)
    BY <2>1, <2>4 DEF Returned
  <2> QED
    BY <2>1, <2>2, <2>5, <1>t DEF Tallied
<1> QED
  BY <1>3, <1>4, <1>5, <1>6, <1>7 DEF Books

LEMMA EndingKeepsBooks == Books /\ (Check \/ Cancel \/ StartupFails) => Books'
<1> SUFFICES ASSUME Books, Check \/ Cancel \/ StartupFails PROVE Books'
  OBVIOUS
<1>1. faults \in Nat /\ cancelled \in BOOLEAN
  BY DEF Books, Typed
<1>2. CASE Check
  <2>1. /\ EnterCleanup /\ phase = "check"
        /\ UNCHANGED <<svars, faults, streams, expired, issued, events, sampler, tally, final,
                       cancelled, dbOpen>>
        /\ errors \subseteq errors'
        /\ errors' = {} => LedgerAgrees(events) /\ StreamsAgree(events)
    BY <1>2 DEF Check
  <2> QED
    BY <2>1, <1>1, CleanupKeepsBooks DEF Running
<1>3. CASE Cancel
  <2>1. /\ EnterCleanup /\ phase \in Running /\ cancelled' = TRUE
        /\ UNCHANGED <<svars, faults, streams, expired, issued, events, sampler, tally, errors, final,
                       dbOpen>>
    BY <1>3 DEF Cancel, Running
  <2> QED
    BY <2>1, <1>1, CleanupKeepsBooks
<1>4. CASE StartupFails
  <2>1. /\ EnterCleanup /\ phase \in Running /\ faults' = faults + 1
        /\ errors \subseteq errors' /\ errors' # {}
        /\ UNCHANGED <<svars, streams, expired, issued, events, sampler, tally, final,
                       cancelled, dbOpen>>
    BY <1>4 DEF StartupFails, Running
  <2> QED
    BY <2>1, <1>1, CleanupKeepsBooks
<1> QED
  BY <1>2, <1>3, <1>4

LEMMA ClosingKeepsBooks == Books /\ (JoinTasks \/ CloseAll) => Books'
<1> SUFFICES ASSUME Books, JoinTasks \/ CloseAll PROVE Books'
  OBVIOUS
<1>t. Typed /\ Watched /\ Scheduled /\ Tallied /\ Reconciled
  BY DEF Books
<1>1. /\ UNCHANGED <<svars, faults, streams, expired, worker, issued, reader, events, sampler, stop,
                     tally, errors, final, cancelled, invented>>
      /\ phase \in {"cleanup", "close"} /\ phase' \in {"close", "ended"} /\ dbOpen' \in BOOLEAN
      /\ dbOpen' <=> phase' # "ended"
  BY <1>t DEF JoinTasks, CloseAll, Typed, Watched
<1>2. Typed'
  BY <1>1, <1>t DEF Typed, IsBook, svars, Phases
<1>3. Watched'
  BY <1>1, <1>t DEF Watched, JoinTasks, CloseAll
<1>4. Scheduled' /\ Reconciled'
  BY <1>1, <1>t DEF Scheduled, Reconciled, LedgerAgrees, StreamsAgree, Connected, Writes
<1>5. Tallied'
  BY <1>1, <1>t, TallyStays
<1> QED
  BY <1>2, <1>3, <1>4, <1>5 DEF Books

\* The worker at the top of its loop, after the request it waited for.
Loops(w) == [worker EXCEPT ![w].at = "loop"]

LEMMA LoopsFacts ==
    ASSUME Typed, NEW w \in Workers
    PROVE  /\ Loops(w) \in [Workers -> Tasks] /\ Loops(w)[w].at = "loop"
           /\ \A v \in Workers : v # w => Loops(w)[v] = worker[v]
BY TypeFacts DEF Loops, Typed, Tasks

\* A request that returned is in flight no longer; the others are as they were.
LEMMA ReturnedFlight ==
    ASSUME Typed, Scheduled, NEW w \in Workers, worker[w].at = "waiting", worker' = Loops(w),
           NEW n, n = worker[w].number
    PROVE  /\ InFlight(n) /\ ~ InFlight(n)'
           /\ \A k : k # n => (InFlight(k)' <=> InFlight(k))
<1>1. /\ worker'[w].at = "loop"
      /\ \A v \in Workers : v # w => worker'[v] = worker[v]
  BY LoopsFacts
<1>2. \A v \in Workers : v # w /\ worker[v].at = "waiting" => worker[v].number # n
  BY DEF Scheduled
<1>3. InFlight(n)
  BY DEF InFlight
<1>4. ~ InFlight(n)'
  BY <1>1, <1>2 DEF InFlight
<1>5. ASSUME NEW k, k # n
      PROVE  InFlight(k)' <=> InFlight(k)
  <2>1. ASSUME InFlight(k) PROVE InFlight(k)'
    <3>1. PICK v \in Workers : worker[v].at = "waiting" /\ worker[v].number = k
      BY <2>1 DEF InFlight
    <3>2. v # w
      BY <3>1, <1>5
    <3> QED
      BY <3>1, <3>2, <1>1 DEF InFlight
  <2>2. ASSUME InFlight(k)' PROVE InFlight(k)
    <3>1. PICK v \in Workers : worker'[v].at = "waiting" /\ worker'[v].number = k
      BY <2>2 DEF InFlight
    <3>2. v # w
      BY <3>1, <1>1
    <3> QED
      BY <3>1, <3>2, <1>1 DEF InFlight
  <2> QED
    BY <2>1, <2>2
<1> QED
  BY <1>3, <1>4, <1>5

\* A worker ends, or a worker's request returns.
LEMMA ScheduledAfterLoop ==
    ASSUME Typed, Scheduled, NEW w \in Workers, UNCHANGED <<issued, reader, phase>>,
           worker' \in [Workers -> Tasks], worker[w].at \in {"loop", "waiting"},
           worker'[w].at \in {"loop", "done"},
           \A v \in Workers : v # w => worker'[v] = worker[v]
    PROVE  Scheduled' /\ phase = "workload"
<1>1. phase = "workload"
  BY DEF Scheduled, Typed, Phases
<1>2. \A v \in Workers : worker'[v].at = "waiting" => v # w /\ worker[v].at = "waiting"
                            /\ worker'[v].number = worker[v].number
  OBVIOUS
<1> QED
  BY <1>1, <1>2 DEF Scheduled

LEMMA WorkerReturnsKeepsBooks ==
    ASSUME Books, NEW w \in Workers, WorkerReturns(w)
    PROVE  Books'
<1>t. Typed /\ Watched /\ Scheduled /\ Tallied /\ Reconciled
  BY DEF Books
<1>1. /\ UNCHANGED <<svars, faults, phase, streams, expired, issued, reader, events, sampler, stop,
                     tally, errors, final, cancelled, dbOpen, invented>>
      /\ worker[w].at = "loop" /\ worker' = [worker EXCEPT ![w].at = "done"]
  BY DEF WorkerReturns
<1>2. /\ worker' \in [Workers -> Tasks] /\ worker'[w].at = "done"
      /\ \A v \in Workers : v # w => worker'[v] = worker[v]
  BY <1>1, <1>t, TypeFacts DEF Typed, Tasks
<1>3. Typed'
  BY <1>1, <1>2, <1>t DEF Typed, IsBook, svars
<1>4. Scheduled' /\ phase = "workload"
  BY <1>1, <1>2, <1>t, ScheduledAfterLoop
<1>5. Watched' /\ Reconciled'
  BY <1>1, <1>4, <1>t DEF Watched, Reconciled
<1>6. Tallied'
  <2>1. \A k : InFlight(k)' <=> InFlight(k)
    BY <1>1, <1>2 DEF InFlight
  <2>2. \A kind : Issued(kind)' = Issued(kind) /\ Returned(kind)' = Returned(kind)
    BY <2>1, <1>1 DEF Issued, Returned
  <2> QED
    BY <2>2, <1>1, <1>t DEF Tallied
<1> QED
  BY <1>3, <1>4, <1>5, <1>6 DEF Books

\* Counting.
LEMMA IssuedIsFinite ==
    ASSUME Typed, NEW kind
    PROVE  /\ IsFiniteSet(Issued(kind)) /\ IsFiniteSet(Returned(kind))
           /\ Cardinality(Issued(kind)) \in Nat /\ Cardinality(Returned(kind)) \in Nat
           /\ Issued(kind) \subseteq 1 .. issued /\ Returned(kind) \subseteq Issued(kind)
<1>1. IsFiniteSet(1 .. issued)
  <2>1. 1 \in Int /\ issued \in Int
    BY TypeFacts
  <2> QED
    BY <2>1, FS_Interval
<1>2. Issued(kind) \subseteq 1 .. issued /\ Returned(kind) \subseteq Issued(kind)
  BY DEF Issued, Returned
<1>3. IsFiniteSet(Issued(kind)) /\ IsFiniteSet(Returned(kind))
  BY <1>1, <1>2, FS_Subset
<1> QED
  BY <1>2, <1>3, FS_CardinalityType

LEMMA TallyFacts ==
    ASSUME Typed, NEW kind \in {"read", "write"}
    PROVE  /\ LET f == [tally EXCEPT !.attempted[kind] = @ + 1] IN
              /\ f \in [attempted : Kinds, succeeded : Kinds] /\ f.succeeded = tally.succeeded
              /\ f.attempted[kind] = tally.attempted[kind] + 1
              /\ \A y \in {"read", "write"} : y # kind => f.attempted[y] = tally.attempted[y]
           /\ LET f == [tally EXCEPT !.succeeded[kind] = @ + 1] IN
              /\ f \in [attempted : Kinds, succeeded : Kinds] /\ f.attempted = tally.attempted
              /\ f.succeeded[kind] = tally.succeeded[kind] + 1
              /\ \A y \in {"read", "write"} : y # kind => f.succeeded[y] = tally.succeeded[y]
<1>1. ASSUME NEW k \in Kinds, NEW n, n = [k EXCEPT ![kind] = @ + 1]
      PROVE  /\ n \in Kinds /\ n[kind] = k[kind] + 1
             /\ \A y \in {"read", "write"} : y # kind => n[y] = k[y]
  BY <1>1 DEF Kinds
<1>2. tally = [attempted |-> tally.attempted, succeeded |-> tally.succeeded]
      /\ tally.attempted \in Kinds /\ tally.succeeded \in Kinds
  BY DEF Typed
<1>3. [tally EXCEPT !.attempted[kind] = @ + 1] =
         [attempted |-> [tally.attempted EXCEPT ![kind] = @ + 1], succeeded |-> tally.succeeded]
  BY <1>2
<1>4. [tally EXCEPT !.succeeded[kind] = @ + 1] =
         [attempted |-> tally.attempted, succeeded |-> [tally.succeeded EXCEPT ![kind] = @ + 1]]
  BY <1>2
<1> QED
  BY <1>1, <1>2, <1>3, <1>4

LEMMA DispatchFacts ==
    ASSUME Typed, Scheduled, NEW w \in Workers, Dispatch(w), NEW n, n = issued + 1
    PROVE  /\ n \in Numbers /\ n \notin 1 .. issued /\ 1 .. n = 1 .. issued \cup {n}
           /\ worker' \in [Workers -> Tasks]
           /\ worker'[w] = [at |-> "waiting", number |-> n, watermark |-> events.max]
           /\ \A v \in Workers : v # w => worker'[v] = worker[v]
           /\ InFlight(n)' /\ \A k \in 1 .. issued : InFlight(k)' <=> InFlight(k)
           /\ Kind(n) \in {"read", "write"}
           /\ Issued(Kind(n))' = Issued(Kind(n)) \cup {n} /\ n \notin Issued(Kind(n))
           /\ \A kind : kind # Kind(n) => Issued(kind)' = Issued(kind)
           /\ \A kind : Returned(kind)' = Returned(kind)
           /\ phase = "workload"
<1>1. /\ worker[w].at = "loop" /\ issued < RequestCount /\ issued' = n
      /\ worker' = [worker EXCEPT ![w] = [at |-> "waiting", number |-> n, watermark |-> events.max]]
  BY DEF Dispatch
<1>2. n \in Numbers /\ n \notin 1 .. issued /\ 1 .. n = 1 .. issued \cup {n} /\ n \in Nat
  BY <1>1, TypeFacts DEF Numbers
<1>3. [at |-> "waiting", number |-> n, watermark |-> events.max] \in Tasks
  BY <1>2, BookParts DEF Tasks, Typed
<1>4. /\ worker' \in [Workers -> Tasks]
      /\ worker'[w] = [at |-> "waiting", number |-> n, watermark |-> events.max]
      /\ \A v \in Workers : v # w => worker'[v] = worker[v]
  <2> DEFINE r == [at |-> "waiting", number |-> n, watermark |-> events.max]
  <2>1. r \in Tasks /\ worker' = [worker EXCEPT ![w] = r]
    BY <1>1, <1>3
  <2> HIDE DEF r
  <2>2. /\ worker' \in [Workers -> Tasks] /\ worker'[w] = r
        /\ \A v \in Workers : v # w => worker'[v] = worker[v]
    BY <2>1 DEF Typed
  <2> QED
    BY <2>2 DEF r
<1>5. InFlight(n)'
  BY <1>4 DEF InFlight
<1>6. \A k \in 1 .. issued : InFlight(k)' <=> InFlight(k)
  BY <1>1, <1>2, <1>4 DEF InFlight
<1>7. Kind(n) \in {"read", "write"}
  BY DEF Kind
<1>8. /\ Issued(Kind(n))' = Issued(Kind(n)) \cup {n} /\ n \notin Issued(Kind(n))
      /\ \A kind : kind # Kind(n) => Issued(kind)' = Issued(kind)
  <2>1. \A kind : Issued(kind)' = {k \in 1 .. n : Kind(k) = kind}
    BY <1>1 DEF Issued, Kind, IsWrite
  <2>2. \A kind : Issued(kind) = {k \in 1 .. issued : Kind(k) = kind}
    BY DEF Issued
  <2> QED
    BY <2>1, <2>2, <1>2
<1>9. \A kind : Returned(kind)' = Returned(kind)
  <2> SUFFICES ASSUME NEW kind, NEW k PROVE k \in Returned(kind)' <=> k \in Returned(kind)
    OBVIOUS
  <2>1. k \in Returned(kind)' <=> k \in Issued(kind)' /\ ~ InFlight(k)'
    BY DEF Returned
  <2>2. k \in Returned(kind) <=> k \in Issued(kind) /\ ~ InFlight(k)
    BY DEF Returned
  <2>3. k \in Issued(kind) => k \in 1 .. issued
    BY DEF Issued
  <2>4. k \in Issued(kind)' <=> k \in Issued(kind) \/ (k = n /\ kind = Kind(n))
    BY <1>8
  <2> QED
    BY <2>1, <2>2, <2>3, <2>4, <1>5, <1>6
<1>10. phase = "workload"
  BY <1>1 DEF Scheduled, Typed, Phases
<1> QED
  BY <1>2, <1>4, <1>5, <1>6, <1>7, <1>8, <1>9, <1>10

LEMMA DispatchKeepsBooks ==
    ASSUME Books, NEW w \in Workers, Dispatch(w)
    PROVE  Books'
<1>t. Typed /\ Watched /\ Scheduled /\ Tallied /\ Reconciled
  BY DEF Books
<1> PICK n : n = issued + 1
  OBVIOUS
<1>1. /\ UNCHANGED <<svars, faults, phase, streams, expired, reader, events, sampler, stop, errors,
                     final, cancelled, dbOpen, invented>>
      /\ issued < RequestCount /\ issued' = n
      /\ tally' = [tally EXCEPT !.attempted[Kind(n)] = @ + 1]
  BY DEF Dispatch
<1>2. /\ n \in Numbers /\ n \notin 1 .. issued /\ 1 .. n = 1 .. issued \cup {n}
      /\ worker' \in [Workers -> Tasks]
      /\ worker'[w] = [at |-> "waiting", number |-> n, watermark |-> events.max]
      /\ \A v \in Workers : v # w => worker'[v] = worker[v]
      /\ Kind(n) \in {"read", "write"}
      /\ Issued(Kind(n))' = Issued(Kind(n)) \cup {n} /\ n \notin Issued(Kind(n))
      /\ \A kind : kind # Kind(n) => Issued(kind)' = Issued(kind)
      /\ \A kind : Returned(kind)' = Returned(kind)
      /\ phase = "workload"
  BY <1>t, DispatchFacts
<1>3. /\ tally' \in [attempted : Kinds, succeeded : Kinds] /\ tally'.succeeded = tally.succeeded
      /\ tally'.attempted[Kind(n)] = tally.attempted[Kind(n)] + 1
      /\ \A y \in {"read", "write"} : y # Kind(n) => tally'.attempted[y] = tally.attempted[y]
  BY <1>1, <1>2, <1>t, TallyFacts
<1>n. issued' \in 0 .. RequestCount
  BY <1>1, <1>t, TypeFacts
<1>4. Typed'
  BY <1>1, <1>2, <1>3, <1>n, <1>t DEF Typed, IsBook, svars
<1>5. Watched' /\ Reconciled'
  BY <1>1, <1>2, <1>t DEF Watched, Reconciled
<1>6. Scheduled'
  <2>1. \A v \in Workers : worker[v].at = "waiting" => worker[v].number \in 1 .. issued
    BY <1>t DEF Scheduled
  <2>2. \A v \in Workers : worker'[v].at = "waiting" =>
           \/ v = w /\ worker'[v].number = n
           \/ v # w /\ worker[v].at = "waiting" /\ worker'[v].number = worker[v].number
    BY <1>2
  <2>3. n \in 1 .. n
    BY <1>2
  <2>4. \A v \in Workers : worker'[v].at = "waiting" => worker'[v].number \in 1 .. issued'
    BY <2>1, <2>2, <2>3, <1>1, <1>2
  <2>5. \A u, v \in Workers :
           worker'[u].at = "waiting" /\ worker'[v].at = "waiting"
              /\ worker'[u].number = worker'[v].number => u = v
    BY <2>1, <2>2, <1>2, <1>t DEF Scheduled
  <2> QED
    BY <2>4, <2>5, <1>1, <1>2 DEF Scheduled
<1>7. Tallied'
  <2> SUFFICES ASSUME NEW kind \in {"read", "write"}
               PROVE  /\ tally'.attempted[kind] = Cardinality(Issued(kind)')
                      /\ errors' = {} /\ ~ cancelled' =>
                            tally'.succeeded[kind] = Cardinality(Returned(kind)')
    BY DEF Tallied
  <2>1. /\ tally.attempted[kind] = Cardinality(Issued(kind))
        /\ errors' = {} /\ ~ cancelled' => tally'.succeeded[kind] = Cardinality(Returned(kind))
    BY <1>1, <1>3, <1>t DEF Tallied
  <2>2. CASE kind = Kind(n)
    <3>1. IsFiniteSet(Issued(kind))
      BY <1>t, IssuedIsFinite
    <3>2. Cardinality(Issued(kind)') = Cardinality(Issued(kind)) + 1
      <4>1. PICK old : old = Issued(kind)
        OBVIOUS
      <4>2. Cardinality(old \cup {n}) = Cardinality(old) + 1
        BY <4>1, <2>2, <3>1, <1>2, FS_AddElement
      <4> QED
        BY <4>1, <4>2, <2>2, <1>2
    <3> QED
      BY <3>2, <2>1, <2>2, <1>2, <1>3
  <2>3. CASE kind # Kind(n)
    BY <2>1, <2>3, <1>2, <1>3
  <2> QED
    BY <2>2, <2>3
<1> QED
  BY <1>4, <1>5, <1>6, <1>7 DEF Books

\* What the worker makes of the response to its request.
Heard(w) ==
    LET k == worker[w].number IN
    IF IsWrite(k) /\ answer[k].status = "ok" /\ answer[k].balance > 0
    THEN Acknowledge(events, answer[k].balance, k).events ELSE events
Accepts(w) ==
    LET k == worker[w].number
        b == answer[k].balance
    IN  /\ answer[k].status = "ok"
        /\ IF IsWrite(k) THEN b > 0 /\ ~ Acknowledge(events, b, k).raised ELSE Plausible(w, b)

LEMMA RespondParts ==
    ASSUME NEW w \in Workers, Respond(w)
    PROVE  /\ worker[w].at = "waiting" /\ answer[worker[w].number] # Service!NotYet
           /\ events' = Heard(w)
           /\ tally' = IF Accepts(w) THEN [tally EXCEPT !.succeeded[Kind(worker[w].number)] = @ + 1]
                       ELSE tally
           /\ IF Accepts(w) THEN UNCHANGED <<errors, stop>>
              ELSE errors' = errors \cup {Kind(worker[w].number)} /\ stop' = TRUE
           /\ worker' = Loops(w)
           /\ UNCHANGED <<svars, faults, phase, streams, expired, issued, reader, sampler, final,
                          cancelled, dbOpen, invented>>
BY DEF Respond, Heard, Accepts, Loops, Fail

\* A request returns; when it does without an error, it succeeded.
LEMMA ReturnKeepsBooks ==
    ASSUME Books, NEW w \in Workers, worker[w].at = "waiting", worker' = Loops(w),
           NEW n, n = worker[w].number, IsBook(events'), faults' \in Nat, errors \subseteq errors',
           stop' \in BOOLEAN,
           UNCHANGED <<svars, phase, streams, expired, issued, reader, sampler, final, cancelled,
                       dbOpen>>,
           \/ tally' = [tally EXCEPT !.succeeded[Kind(n)] = @ + 1]
           \/ tally' = tally /\ errors' # {}
    PROVE  Books'
<1>t. Typed /\ Watched /\ Scheduled /\ Tallied /\ Reconciled
  BY DEF Books
<1>1. /\ worker' \in [Workers -> Tasks] /\ worker'[w].at = "loop"
      /\ \A v \in Workers : v # w => worker'[v] = worker[v]
  BY <1>t, LoopsFacts
<1>2. Scheduled' /\ phase = "workload"
  BY <1>1, <1>t, ScheduledAfterLoop
<1>3. /\ InFlight(n) /\ ~ InFlight(n)'
      /\ \A k : k # n => (InFlight(k)' <=> InFlight(k))
  BY <1>t, ReturnedFlight
<1>4. Kind(n) \in {"read", "write"} /\ n \in 1 .. issued
  BY <1>t DEF Kind, Scheduled
<1>5. /\ tally' \in [attempted : Kinds, succeeded : Kinds] /\ tally'.attempted = tally.attempted
      /\ \/ errors' # {}
         \/ /\ tally'.succeeded[Kind(n)] = tally.succeeded[Kind(n)] + 1
            /\ \A y \in {"read", "write"} : y # Kind(n) => tally'.succeeded[y] = tally.succeeded[y]
  <2>1. CASE tally' = [tally EXCEPT !.succeeded[Kind(n)] = @ + 1]
    BY <2>1, <1>4, <1>t, TallyFacts
  <2>2. CASE tally' = tally /\ errors' # {}
    BY <2>2, <1>t DEF Typed
  <2> QED
    BY <2>1, <2>2
<1>6. Typed'
  <2>1. /\ asks \in [Everyone -> {asks[k] : k \in Everyone}] /\ asks' = asks
    BY <1>t DEF Typed, svars
  <2> HIDE DEF IsBook
  <2> QED
    BY <1>1, <1>5, <1>t DEF Typed, svars
<1>7. Watched' /\ Reconciled'
  BY <1>2, <1>t DEF Watched, Reconciled
<1>8. Tallied'
  <2> SUFFICES ASSUME NEW kind \in {"read", "write"}
               PROVE  /\ tally'.attempted[kind] = Cardinality(Issued(kind)')
                      /\ errors' = {} /\ ~ cancelled' =>
                            tally'.succeeded[kind] = Cardinality(Returned(kind)')
    BY DEF Tallied
  <2>1. Issued(kind)' = Issued(kind) /\ tally'.attempted[kind] = Cardinality(Issued(kind))
    BY <1>5, <1>t DEF Tallied, Issued
  <2>2. ASSUME errors' = {}, ~ cancelled'
        PROVE  tally'.succeeded[kind] = Cardinality(Returned(kind)')
    <3>1. tally.succeeded[kind] = Cardinality(Returned(kind)) /\ IsFiniteSet(Returned(kind))
      BY <2>2, <1>t, IssuedIsFinite DEF Tallied
    <3>2. CASE kind = Kind(n)
      <4>1. Returned(kind)' = Returned(kind) \cup {n} /\ n \notin Returned(kind)
        <5>1. n \in Issued(kind)
          BY <3>2, <1>4 DEF Issued
        <5> QED
          BY <5>1, <2>1, <1>3 DEF Returned
      <4>2. Cardinality(Returned(kind)') = Cardinality(Returned(kind)) + 1
        BY <4>1, <3>1, FS_AddElement
      <4> QED
        BY <4>2, <3>1, <3>2, <2>2, <1>5
    <3>3. CASE kind # Kind(n)
      <4>1. n \notin Issued(kind)
        BY <3>3 DEF Issued
      <4>2. Returned(kind)' = Returned(kind)
        BY <4>1, <2>1, <1>3 DEF Returned
      <4> QED
        BY <4>2, <3>1, <3>3, <2>2, <1>5
    <3> QED
      BY <3>2, <3>3
  <2> QED
    BY <2>1, <2>2
<1> QED
  BY <1>2, <1>6, <1>7, <1>8 DEF Books

LEMMA HeardIsBook ==
    ASSUME Typed, Scheduled, NEW w \in Workers, worker[w].at = "waiting"
    PROVE  IsBook(Heard(w))
<1>1. /\ worker[w].number \in Nat /\ worker[w].number \in Everyone
      /\ IsBook(events)
  BY TypeFacts DEF Typed, Scheduled, Everyone
<1>2. answer[worker[w].number].balance \in Nat
  BY <1>1, TypeFacts DEF Service!Answers
<1>3. IsBook(Acknowledge(events, answer[worker[w].number].balance, worker[w].number).events)
  BY <1>1, <1>2, AcknowledgeFacts
<1> QED
  BY <1>1, <1>3 DEF Heard

LEMMA RespondKeepsBooks ==
    ASSUME Books, NEW w \in Workers, Respond(w) \/ RequestFails(w)
    PROVE  Books'
<1>t. Typed /\ Scheduled
  BY DEF Books
<1>1. CASE Respond(w)
  <2>1. /\ worker[w].at = "waiting" /\ events' = Heard(w) /\ worker' = Loops(w)
        /\ tally' = IF Accepts(w) THEN [tally EXCEPT !.succeeded[Kind(worker[w].number)] = @ + 1]
                    ELSE tally
        /\ IF Accepts(w) THEN UNCHANGED <<errors, stop>>
           ELSE errors' = errors \cup {Kind(worker[w].number)} /\ stop' = TRUE
        /\ UNCHANGED <<svars, faults, phase, streams, expired, issued, reader, sampler, final,
                       cancelled, dbOpen, invented>>
    BY <1>1, RespondParts
  <2>2. IsBook(events') /\ faults' \in Nat /\ stop' \in BOOLEAN /\ errors \subseteq errors'
    BY <2>1, <1>t, HeardIsBook DEF Typed
  <2>3. \/ tally' = [tally EXCEPT !.succeeded[Kind(worker[w].number)] = @ + 1]
        \/ tally' = tally /\ errors' # {}
    BY <2>1
  <2> QED
    BY <2>1, <2>2, <2>3, ReturnKeepsBooks
<1>2. CASE RequestFails(w)
  <2>1. /\ worker[w].at = "waiting" /\ worker' = Loops(w) /\ faults' = faults + 1
        /\ errors' = errors \cup {Kind(worker[w].number)} /\ stop' = TRUE
        /\ UNCHANGED <<svars, phase, streams, expired, issued, reader, events, sampler, tally, final,
                       cancelled, dbOpen>>
    BY <1>2 DEF RequestFails, Fail, Loops
  <2>2. IsBook(events') /\ faults' \in Nat /\ stop' \in BOOLEAN /\ errors \subseteq errors'
        /\ errors' # {}
    BY <2>1, <1>t DEF Typed
  <2> QED
    BY <2>1, <2>2, ReturnKeepsBooks
<1> QED
  BY <1>1, <1>2

LEMMA FrameOf ==
    ASSUME Typed, NEW s \in Connected, ReadFrame(s), NEW n, n = reader[s].read + 1
    PROVE  /\ n \in 1 .. Len(delivered[s]) /\ delivered[s][n] \in Sent /\ s \in StreamIds
           /\ [reader EXCEPT ![s] = [at |-> "done", read |-> n]] \in [StreamIds -> Readers]
           /\ [reader EXCEPT ![s].read = n] \in [StreamIds -> Readers]
           /\ [reader EXCEPT ![s].read = n][s] = [at |-> reader[s].at, read |-> n]
<1>1. s \in StreamIds /\ s \in Everyone
  BY TypeFacts DEF Everyone
<1>2. reader[s].read \in Nat /\ reader[s].read < Len(delivered[s]) /\ Len(delivered[s]) \in Nat
      /\ delivered[s] \in Seq(Sent)
  BY <1>1, TypeFacts DEF ReadFrame, Readers
<1>3. n \in 1 .. Len(delivered[s]) /\ n \in Nat
  BY <1>2
<1>4. delivered[s][n] \in Sent
  BY <1>2, <1>3, ElementOfSeq
<1>5. reader \in [StreamIds -> Readers]
  BY DEF Typed
<1>6. reader[s] = [at |-> reader[s].at, read |-> reader[s].read] /\ reader[s] \in Readers
  BY <1>1, <1>5 DEF Readers
<1>7. [reader EXCEPT ![s] = [at |-> "done", read |-> n]] \in [StreamIds -> Readers]
  BY <1>3, <1>5 DEF Readers
<1>8. /\ [reader EXCEPT ![s].read = n] \in [StreamIds -> Readers]
      /\ [reader EXCEPT ![s].read = n][s] = [at |-> reader[s].at, read |-> n]
  BY <1>1, <1>3, <1>5, <1>6 DEF Readers
<1> QED
  BY <1>1, <1>3, <1>4, <1>7, <1>8

\* A step of a stream's reader.
LEMMA StreamKeepsBooks ==
    ASSUME Books, NEW s \in Connected, ReadFrame(s) \/ StreamFails(s)
    PROVE  Books'
<1>t. Typed /\ Watched /\ Scheduled /\ Tallied /\ Reconciled
  BY DEF Books
<1>s. s \in StreamIds
  BY <1>t, TypeFacts
<1>1. /\ UNCHANGED <<svars, phase, streams, expired, worker, issued, sampler, tally, final,
                     cancelled, dbOpen>>
      /\ reader[s].at = "reading" /\ errors \subseteq errors' /\ stop' \in BOOLEAN
      /\ faults' \in Nat
  <2>1. CASE ReadFrame(s)
    <3>1. /\ UNCHANGED <<svars, faults, phase, streams, expired, worker, issued, sampler, tally, final,
                         cancelled, dbOpen>>
          /\ reader[s].at = "reading"
          /\ \/ errors' = errors /\ stop' = stop
             \/ errors' = errors \cup {"sse"} /\ stop' = TRUE
      BY <2>1 DEF ReadFrame, Fail
    <3> QED
      BY <3>1, <1>t DEF Typed
  <2>2. CASE StreamFails(s)
    <3>1. /\ UNCHANGED <<svars, phase, streams, expired, worker, issued, sampler, tally, final,
                         cancelled, dbOpen>>
          /\ reader[s].at = "reading" /\ faults' = faults + 1
          /\ errors' = errors \cup {"sse"} /\ stop' = TRUE
      BY <2>2 DEF StreamFails, Fail
    <3> QED
      BY <3>1, <1>t DEF Typed
  <2> QED
    BY <2>1, <2>2
<1>2. reader' \in [StreamIds -> Readers] /\ IsBook(events')
  <2>1. CASE ReadFrame(s)
    <3>1. PICK n : n = reader[s].read + 1
      OBVIOUS
    <3>2. PICK event : event = delivered[s][n]
      OBVIOUS
    <3>3. /\ event \in Sent
          /\ [reader EXCEPT ![s] = [at |-> "done", read |-> n]] \in [StreamIds -> Readers]
          /\ [reader EXCEPT ![s].read = n] \in [StreamIds -> Readers]
      BY <2>1, <3>1, <3>2, <1>t, FrameOf
    <3>4. issued \in Nat /\ IsBook(events)
      BY <1>t, TypeFacts DEF Typed
    <3>5. IsBook(Frame(events, s, event, issued).events)
      BY <3>3, <3>4, <1>s, FrameFacts
    <3> QED
      BY <3>1, <3>2, <3>3, <3>5, <2>1 DEF ReadFrame
  <2>2. CASE StreamFails(s)
    <3>1. reader' = [reader EXCEPT ![s].at = "done"] /\ events' = events
      BY <2>2 DEF StreamFails
    <3> QED
      BY <3>1, <1>s, <1>t, TypeFacts DEF Typed, Readers
  <2> QED
    BY <2>1, <2>2
<1>3. Typed'
  BY <1>1, <1>2, <1>t DEF Typed, svars
<1>4. phase \notin {"cleanup", "close", "ended"}
  BY <1>1, <1>s, <1>t DEF Scheduled
<1>5. Watched' /\ Scheduled' /\ Reconciled'
  BY <1>1, <1>4, <1>t DEF Watched, Scheduled, Reconciled
<1>6. Tallied'
  BY <1>1, <1>t, TallyStays
<1> QED
  BY <1>3, <1>5, <1>6 DEF Books

LEMMA BooksInit == Init => Books
<1> SUFFICES ASSUME Init PROVE Books
  OBVIOUS
<1>1. Typed
  <2>1. /\ asks = [k \in Everyone |-> Asked(k)] /\ streams \in 0 .. Streams
        /\ rowsLost = 0 /\ faults = 0 /\ phase = "startup" /\ expired = FALSE /\ issued = 0
        /\ stop = FALSE /\ cancelled = FALSE /\ dbOpen = TRUE
        /\ final = [balance |-> 0, rows |-> 0, taken |-> FALSE]
        /\ sampler = [task |-> "none", thread |-> FALSE]
    BY DEF Init, Everyone, Unknown
  <2>2. /\ ledger \in Seq(Numbers) /\ Len(ledger) = 0
    BY DEF Init, Service!ContractInit
  <2>3. /\ looked \in [Everyone -> Looks] /\ answer \in [Everyone -> Service!Answers]
        /\ delivered \in [Everyone -> Seq(Sent)]
    BY DEF Init, Service!ContractInit, Everyone, Looks, Service!Unseen, Service!NotYet,
           Service!Answers
  <2>4. worker \in [Workers -> Tasks] /\ reader \in [StreamIds -> Readers]
    BY DEF Init, Tasks, Readers
  <2>5. IsBook(events)
    <3>1. events = [last |-> [s \in StreamIds |-> 0], pending |-> <<>>, floor |-> 0, max |-> 0,
                    ahead |-> {}]
      BY DEF Init
    <3>2. DOMAIN events.pending = {} /\ events.pending \in [{} -> Entries]
      BY <3>1
    <3> QED
      BY <3>1, <3>2 DEF IsBook
  <2>6. tally \in [attempted : Kinds, succeeded : Kinds]
    BY DEF Init, Kinds
  <2>7. 0 \in 0 .. RequestCount
    BY LoadAssumption
  <2>8. /\ final \in [balance : Nat, rows : Nat, taken : BOOLEAN]
        /\ sampler \in [task : {"none", "sleeping", "sampling", "done"}, thread : BOOLEAN]
        /\ rowsLost \in Nat /\ rowsLost <= Len(ledger) /\ faults \in Nat
    BY <2>1, <2>2
  <2>9. phase \in Phases /\ expired \in BOOLEAN /\ issued \in 0 .. RequestCount
        /\ stop \in BOOLEAN /\ cancelled \in BOOLEAN /\ dbOpen \in BOOLEAN
    BY <2>1, <2>7 DEF Phases
  <2> QED
    BY <2>1, <2>2, <2>3, <2>4, <2>5, <2>6, <2>8, <2>9 DEF Typed
<1>2. Watched /\ Reconciled
  BY DEF Init, Watched, Reconciled
<1>3. Scheduled
  BY DEF Init, Scheduled
<1>4. Tallied
  <2>1. issued = 0 /\ 1 .. 0 = {}
    BY DEF Init
  <2>2. \A kind : Issued(kind) = {} /\ Returned(kind) = {}
    BY <2>1 DEF Issued, Returned
  <2> QED
    <3>1. \A kind \in {"read", "write"} : tally.attempted[kind] = 0 /\ tally.succeeded[kind] = 0
      BY DEF Init
    <3>2. Cardinality({}) = 0
      BY FS_EmptySet
    <3> QED
      BY <3>1, <3>2, <2>2 DEF Tallied
<1> QED
  BY <1>1, <1>2, <1>3, <1>4 DEF Books

LEMMA BooksStep == Books /\ [Next]_vars => Books'
<1> SUFFICES ASSUME Books, [Next]_vars PROVE Books'
  OBVIOUS
<1>1. CASE Serve
  BY <1>1, ServeKeepsBooks
<1>2. CASE Misbehave
  BY <1>2, MisbehaveKeepsBooks
<1>3. CASE Expire
  BY <1>3, ExpireKeepsBooks
<1>4. CASE Run
  BY <1>4, StartupKeepsBooks, DrainKeepsBooks, EndingKeepsBooks, ClosingKeepsBooks DEF Run
<1>5. CASE Sampling
  BY <1>5, SampleKeepsBooks DEF Sampling
<1>6. CASE \E w \in Workers : Work(w)
  BY <1>6, WorkerReturnsKeepsBooks, DispatchKeepsBooks, RespondKeepsBooks DEF Work
<1>7. CASE \E s \in Connected : Streaming(s)
  BY <1>7, StreamKeepsBooks DEF Streaming
<1>8. CASE UNCHANGED vars
  <2>1. Typed'
    BY <1>8 DEF Books, Typed, IsBook, vars, svars
  <2>2. Watched' /\ Reconciled'
    BY <1>8 DEF Books, Watched, Reconciled, LedgerAgrees, StreamsAgree, Connected, Writes, vars
  <2>3. Scheduled' /\ Tallied'
    BY <1>8, ScheduleStays, TallyStays DEF Books, vars
  <2> QED
    BY <2>1, <2>2, <2>3 DEF Books
<1> QED
  BY <1>1, <1>2, <1>3, <1>4, <1>5, <1>6, <1>7, <1>8 DEF Next, Ended

\* The invariant of every behaviour of the test, whatever the service does: types,
\* the order in which run waits for its tasks, the tally as the number of requests
\* dispatched and returned, and the reconciliation behind a report without errors.
THEOREM BooksInvariant == Spec => []Books
BY BooksInit, BooksStep, PTL DEF Spec

\* The sampler's thread never reads a closed database, also when run is
\* cancelled while a sample is being taken: run waits for the sampler.
THEOREM SamplerIsWaitedFor == Spec => []SamplerMeetsOpenDatabase
<1>1. Books => SamplerMeetsOpenDatabase
  BY DEF Books, Typed, Watched, SamplerMeetsOpenDatabase
<1> QED
  BY <1>1, BooksInvariant, PTL

\* A report that says ok passes the acceptance profile's own checks, for any
\* number of workers, requests and streams and any misbehaviour of the service.
THEOREM OkIsAccepted == Spec => []OkIsAcceptable
<1>1. Books => OkIsAcceptable
  <2> SUFFICES ASSUME Books, Ok, Duration,
                      tally.succeeded["read"] > 0, tally.succeeded["write"] > 0
               PROVE  Accepted
    BY DEF OkIsAcceptable
  <2>t. Typed /\ Scheduled /\ Tallied
    BY DEF Books
  <2>1. phase = "ended" /\ ~ cancelled /\ errors = {}
    BY DEF Ok
  <2>2. LedgerAgrees(events) /\ StreamsAgree(events)
    BY <2>1 DEF Books, Reconciled
  <2>3. \A k : ~ InFlight(k)
    BY <2>1, <2>t DEF InFlight, Scheduled
  <2>4. \A kind : Returned(kind) = Issued(kind)
    BY <2>3 DEF Returned, Issued
  <2>5. \A kind \in {"read", "write"} :
           tally.attempted[kind] = tally.succeeded[kind] /\ tally.succeeded[kind] = Cardinality(Issued(kind))
    BY <2>1, <2>4, <2>t DEF Tallied
  <2>6. issued = Cardinality(Issued("read")) + Cardinality(Issued("write"))
    <3>1. PICK R, W : R = Issued("read") /\ W = Issued("write")
      OBVIOUS
    <3>2. IsFiniteSet(R) /\ IsFiniteSet(W) /\ Cardinality(R) \in Nat /\ Cardinality(W) \in Nat
      BY <3>1, <2>t, IssuedIsFinite
    <3>3. R \cup W = 1 .. issued /\ R \cap W = {}
      BY <3>1 DEF Issued, Kind
    <3>4. Cardinality(1 .. issued) = issued
      <4>1. 1 \in Int /\ issued \in Int /\ issued \in Nat
        BY <2>t, TypeFacts
      <4> QED
        BY <4>1, FS_Interval
    <3>5. Cardinality(R \cap W) = 0
      BY <3>3, FS_EmptySet
    <3>6. Cardinality(R \cup W) = Cardinality(R) + Cardinality(W) - Cardinality(R \cap W)
      BY <3>2, FS_Union
    <3>7. issued = Cardinality(R) + Cardinality(W)
      <4>1. Cardinality(R \cup W) = issued
        BY <3>3, <3>4, Zenon
      <4>2. \A r, w, z \in Int : z = 0 /\ issued = r + w - z => issued = r + w
        OBVIOUS
      <4>3. Cardinality(R) \in Int /\ Cardinality(W) \in Int /\ Cardinality(R \cap W) \in Int
        BY <3>2, <3>5
      <4>4. issued = Cardinality(R) + Cardinality(W) - Cardinality(R \cap W)
        BY <3>6, <4>1, Zenon
      <4> QED
        BY <3>5, <4>2, <4>3, <4>4, Zenon
    <3> QED
      BY <3>1, <3>7
  <2> QED
    BY <2>1, <2>2, <2>5, <2>6 DEF Accepted, LedgerAgrees
<1> QED
  BY <1>1, BooksInvariant, PTL

----------------------------------------------------------------------------
(* A service that keeps its contract.                                        *)

LEMMA Appended ==
    ASSUME Typed, NEW k \in Numbers, ledger' = Append(ledger, k), NEW n, n = Len(ledger) + 1
    PROVE  /\ Len(ledger') = n /\ n \in Nat /\ n > 0 /\ DOMAIN ledger' = DOMAIN ledger \cup {n}
           /\ n \notin DOMAIN ledger /\ n \in DOMAIN ledger' /\ DOMAIN ledger' = 1 .. Len(ledger')
           /\ ledger'[n] = k /\ \A i \in DOMAIN ledger : i \in DOMAIN ledger' /\ ledger'[i] = ledger[i]
<1>1. ledger \in Seq(Numbers) /\ Len(ledger) \in Nat /\ DOMAIN ledger = 1 .. Len(ledger)
  BY TypeFacts DEF Typed
<1>2. /\ ledger' \in Seq(Numbers) /\ Len(ledger') = n
      /\ \A i \in 1 .. Len(ledger) : ledger'[i] = ledger[i]
      /\ ledger'[n] = k
  BY <1>1, AppendProperties
<1>3. DOMAIN ledger' = 1 .. n
  BY <1>2, LenProperties
<1> QED
  BY <1>1, <1>2, <1>3

\* The clauses of Faultless.
Once == \A i, j \in DOMAIN ledger : ledger[i] = ledger[j] => i = j
ForWrites == \A i \in DOMAIN ledger : ledger[i] \in Issued("write")
Truthful(k) ==
    /\ looked[k].done => k \in 1 .. issued
    /\ looked[k].done /\ IsWrite(k) =>
          looked[k].balance \in DOMAIN ledger /\ ledger[looked[k].balance] = k
    /\ looked[k].done /\ ~ IsWrite(k) => looked[k].balance <= Len(ledger)
    /\ answer[k] # Service!NotYet =>
          looked[k].done /\ answer[k] = [status |-> "ok", balance |-> looked[k].balance]
InOrder(s) ==
    Len(delivered[s]) <= Len(ledger) /\ delivered[s] = Service!History(Len(delivered[s]))

LEMMA FaultlessParts ==
    Faultless <=> /\ rowsLost = 0 /\ Once /\ ForWrites
                  /\ \A k \in Numbers : Truthful(k)
                  /\ \A s \in StreamIds : InOrder(s)
BY DEF Faultless, Once, ForWrites, Truthful, InOrder

LEMMA AppliesStaysFaultless ==
    ASSUME Typed, Faultless, NEW k, Applies(k), rowsLost' = rowsLost, issued' = issued
    PROVE  Faultless'
<1>1. k \in 1 .. issued /\ k \in Numbers /\ k \in Everyone /\ IsWrite(k)
  BY TypeFacts DEF Applies, Everyone
<1> PICK n : n = Len(ledger) + 1
  OBVIOUS
<1>2. /\ Len(ledger') = n /\ n \in Nat /\ n > 0 /\ DOMAIN ledger' = DOMAIN ledger \cup {n}
      /\ n \notin DOMAIN ledger /\ n \in DOMAIN ledger'
      /\ ledger'[n] = k /\ \A i \in DOMAIN ledger : i \in DOMAIN ledger' /\ ledger'[i] = ledger[i]
  BY <1>1, Appended DEF Applies
<1>3. Len(ledger) \in Nat /\ DOMAIN ledger = 1 .. Len(ledger)
  BY TypeFacts
<1>4. \A i \in DOMAIN ledger : ledger[i] # k
  BY <1>3 DEF Applies, Service!Applied
<1>5. Once'
  BY <1>2, <1>4, FaultlessParts DEF Once
<1>6. Issued("write")' = Issued("write") /\ k \in Issued("write")
  BY <1>1 DEF Issued, Kind
<1>7. ForWrites'
  BY <1>2, <1>6, FaultlessParts DEF ForWrites
<1>8. ASSUME NEW j \in Numbers
      PROVE  Truthful(j)'
  <2>1. Truthful(j) /\ j \in Everyone /\ looked[j] \in Looks
    BY FaultlessParts, TypeFacts DEF Everyone
  <2>2. looked' = [looked EXCEPT ![k] = [done |-> TRUE, balance |-> n]] /\ answer' = answer
        /\ answer[k] = Service!NotYet /\ looked \in [Everyone -> Looks]
    BY DEF Applies, Typed
  <2>3. CASE j = k
    <3>1. looked'[j] = [done |-> TRUE, balance |-> n]
      BY <2>2, <2>3, <1>1
    <3>2. looked'[j].done /\ looked'[j].balance = n
      BY <3>1
    <3> QED
      BY <3>2, <2>2, <2>3, <1>1, <1>2 DEF Truthful
  <2>4. CASE j # k
    <3>1. looked'[j] = looked[j]
      BY <2>1, <2>2, <2>4
    <3> QED
      BY <3>1, <2>1, <2>2, <1>2, <1>3 DEF Truthful, Looks
  <2> QED
    BY <2>3, <2>4
<1>9. ASSUME NEW s \in StreamIds
      PROVE  InOrder(s)'
  <2>1. InOrder(s) /\ Len(delivered[s]) \in Nat /\ delivered' = delivered
    BY FaultlessParts, TypeFacts DEF Everyone, Applies
  <2>2. delivered'[s] = delivered[s]
    BY <2>1
  <2> QED
    BY <2>1, <2>2, <1>2, <1>3 DEF InOrder
<1>10. rowsLost' = 0
  BY FaultlessParts
<1> QED
  BY <1>5, <1>7, <1>8, <1>9, <1>10 DEF Faultless, Once, ForWrites, Truthful, InOrder

\* The ledger as it is.
LEMMA LedgerStays ==
    ASSUME Once, ForWrites, ledger' = ledger, issued' = issued
    PROVE  Once' /\ ForWrites'
BY DEF Once, ForWrites, Issued

LEMMA SeeksStaysFaultless ==
    ASSUME Typed, Faultless, NEW k, Seeks(k), rowsLost' = rowsLost, issued' = issued
    PROVE  Faultless'
<1>1. k \in 1 .. issued /\ k \in Numbers /\ k \in Everyone /\ ~ IsWrite(k)
  BY TypeFacts DEF Seeks, Everyone
<1>3. Len(ledger) \in Nat /\ DOMAIN ledger = 1 .. Len(ledger)
  BY TypeFacts
<1>5. ledger' = ledger /\ answer' = answer /\ delivered' = delivered /\ answer[k] = Service!NotYet
      /\ looked' = [looked EXCEPT ![k] = [done |-> TRUE, balance |-> Len(ledger)]]
      /\ looked \in [Everyone -> Looks]
  BY DEF Seeks, Typed
<1>6. Once' /\ ForWrites' /\ rowsLost' = 0
  BY <1>5, FaultlessParts, LedgerStays
<1>8. ASSUME NEW j \in Numbers
      PROVE  Truthful(j)'
  <2>1. Truthful(j) /\ j \in Everyone
    BY FaultlessParts DEF Everyone
  <2>3. CASE j = k
    <3>1. looked'[j] = [done |-> TRUE, balance |-> Len(ledger)]
      BY <1>5, <2>3, <1>1
    <3>2. looked'[j].done /\ looked'[j].balance = Len(ledger)
      BY <3>1
    <3> QED
      BY <3>2, <1>5, <2>3, <1>1, <1>3 DEF Truthful
  <2>4. CASE j # k
    <3>1. looked'[j] = looked[j]
      BY <2>1, <1>5, <2>4
    <3> QED
      BY <3>1, <2>1, <1>5 DEF Truthful
  <2> QED
    BY <2>3, <2>4
<1>9. \A s \in StreamIds : InOrder(s)'
  BY <1>5, FaultlessParts DEF InOrder
<1> QED
  BY <1>6, <1>8, <1>9 DEF Faultless, Once, ForWrites, Truthful, InOrder

LEMMA RepliesStaysFaultless ==
    ASSUME Typed, Faultless, NEW k, Replies(k), rowsLost' = rowsLost, issued' = issued
    PROVE  Faultless'
<1>1. k \in 1 .. issued /\ k \in Numbers /\ k \in Everyone
  BY TypeFacts DEF Replies, Everyone
<1>5. ledger' = ledger /\ looked' = looked /\ delivered' = delivered /\ looked[k].done
      /\ answer' = [answer EXCEPT ![k] = [status |-> "ok", balance |-> looked[k].balance]]
      /\ answer \in [Everyone -> Service!Answers]
  BY DEF Replies, Typed
<1>6. Once' /\ ForWrites' /\ rowsLost' = 0
  BY <1>5, FaultlessParts, LedgerStays
<1>8. ASSUME NEW j \in Numbers
      PROVE  Truthful(j)'
  <2>1. Truthful(j) /\ j \in Everyone
    BY FaultlessParts DEF Everyone
  <2>2. answer'[j] = IF j = k THEN [status |-> "ok", balance |-> looked[k].balance] ELSE answer[j]
    BY <2>1, <1>5
  <2> QED
    BY <2>1, <2>2, <1>5 DEF Truthful
<1>9. \A s \in StreamIds : InOrder(s)'
  BY <1>5, FaultlessParts DEF InOrder
<1> QED
  BY <1>6, <1>8, <1>9 DEF Faultless, Once, ForWrites, Truthful, InOrder

LEMMA ShowsStaysFaultless ==
    ASSUME Typed, Faultless, NEW s, Shows(s), rowsLost' = rowsLost, issued' = issued
    PROVE  /\ Faultless' /\ Len(delivered'[s]) >= Len(delivered[s])
           /\ \A z \in StreamIds : z # s => delivered'[z] = delivered[z]
<1>1. s \in StreamIds /\ s \in Everyone
  BY TypeFacts DEF Shows, Everyone
<1>2. PICK n \in Len(delivered[s]) .. Len(ledger) :
         delivered' = [delivered EXCEPT ![s] = Service!History(n)]
  BY DEF Shows
<1>3. /\ Len(delivered[s]) \in Nat /\ Len(ledger) \in Nat /\ n \in Nat
      /\ n <= Len(ledger) /\ n >= Len(delivered[s])
  BY <1>1, TypeFacts
<1>5. ledger' = ledger /\ looked' = looked /\ answer' = answer
      /\ delivered \in [Everyone -> Seq(Sent)]
  BY DEF Shows, Typed
<1>6. Once' /\ ForWrites' /\ rowsLost' = 0
  BY <1>5, FaultlessParts, LedgerStays
<1>7. delivered'[s] = Service!History(n) /\ Len(delivered'[s]) = n
  BY <1>1, <1>2, <1>3, <1>5, HistoryIsSent
<1>8. \A z \in StreamIds : z # s => delivered'[z] = delivered[z]
  BY <1>2, <1>5 DEF Everyone
<1>9. ASSUME NEW z \in StreamIds
      PROVE  InOrder(z)'
  <2>1. InOrder(z)
    BY FaultlessParts
  <2>2. CASE z = s
    BY <2>2, <1>3, <1>5, <1>7 DEF InOrder
  <2>3. CASE z # s
    BY <2>1, <2>3, <1>5, <1>8 DEF InOrder
  <2> QED
    BY <2>2, <2>3
<1>10. \A j \in Numbers : Truthful(j)'
  BY <1>5, FaultlessParts DEF Truthful
<1> QED
  BY <1>3, <1>6, <1>7, <1>8, <1>9, <1>10 DEF Faultless, Once, ForWrites, Truthful, InOrder

\* A step that is not one of the service's.
LEMMA FaultlessStays ==
    ASSUME Typed, Faultless, UNCHANGED svars, issued' = issued \/ issued' = issued + 1
    PROVE  Faultless'
<1>1. issued \in Nat
  BY TypeFacts
<1>2. 1 .. issued \subseteq 1 .. issued'
  BY <1>1
<1>3. Issued("write") \subseteq Issued("write")'
  BY <1>2 DEF Issued
<1>4. ForWrites' /\ Once'
  BY <1>3, FaultlessParts DEF ForWrites, Once, svars
<1>5. \A k \in Numbers : Truthful(k)'
  BY <1>2, FaultlessParts DEF Truthful, svars
<1>6. rowsLost' = 0 /\ \A s \in StreamIds : InOrder(s)'
  BY FaultlessParts DEF InOrder, svars
<1> QED
  BY <1>4, <1>5, <1>6 DEF Faultless, Once, ForWrites, Truthful, InOrder

LEMMA UpTo ==
    ASSUME NEW n \in Nat
    PROVE  IsFiniteSet(1 .. n) /\ Cardinality(1 .. n) = n
<1>1. 1 \in Int /\ n \in Int
  OBVIOUS
<1> QED
  BY <1>1, FS_Interval

\* The ledger numbers the writes that were applied, and there are no more of
\* them than were dispatched.
LEMMA LedgerIsCounted ==
    ASSUME Typed, Faultless
    PROVE  /\ Len(ledger) <= Cardinality(Issued("write")) /\ Len(ledger) <= RequestCount
           /\ (\A k \in Issued("write") : \E i \in DOMAIN ledger : ledger[i] = k)
                 => Cardinality(Issued("write")) = Len(ledger)
<1>1. PICK D, W : D = DOMAIN ledger /\ W = Issued("write")
  OBVIOUS
<1>2. /\ IsFiniteSet(W) /\ Cardinality(W) \in Nat /\ W \subseteq 1 .. issued
  BY <1>1, IssuedIsFinite
<1>3. /\ Len(ledger) \in Nat /\ D = 1 .. Len(ledger) /\ ledger \in Seq(Numbers)
      /\ issued \in Nat /\ issued <= RequestCount /\ RequestCount \in Nat
  BY <1>1, TypeFacts DEF Typed
<1>4. Cardinality(D) = Len(ledger)
  BY <1>3, UpTo
<1>5. ledger \in [D -> W]
  <2>1. \A i \in D : ledger[i] \in W
    BY <1>1, FaultlessParts DEF ForWrites
  <2>2. ledger \in [D -> Numbers]
    BY <1>3
  <2> QED
    BY <2>1, <2>2
<1>6. ledger \in Injection(D, W)
  BY <1>1, <1>5, FaultlessParts DEF Once, Injection, IsInjective
<1>7. /\ Cardinality(D) <= Cardinality(W)
      /\ Cardinality(D) = Cardinality(W) <=> ledger \in Surjection(D, W)
  BY <1>2, <1>6, FS_Injection
<1>8. Cardinality(W) <= issued
  <2>1. IsFiniteSet(1 .. issued) /\ Cardinality(1 .. issued) = issued
    BY <1>3, UpTo
  <2> QED
    BY <2>1, <1>2, FS_Subset
<1>9. (\A k \in W : \E i \in D : ledger[i] = k) => ledger \in Surjection(D, W)
  BY <1>5 DEF Surjection
<1>10. Len(ledger) <= RequestCount
  BY <1>2, <1>3, <1>4, <1>7, <1>8
<1>11. Len(ledger) <= Cardinality(W) /\ (Cardinality(W) = Len(ledger) <=> ledger \in Surjection(D, W))
  BY <1>4, <1>7
<1> QED
  BY <1>1, <1>9, <1>10, <1>11

\* The ledger of the test never reaches its bound.
LEMMA Room ==
    ASSUME Typed, Faultless, MaxPending >= RequestCount, NEW S \in SUBSET DOMAIN ledger,
           NEW b \in DOMAIN ledger, b \notin S
    PROVE  Cardinality(S) < MaxPending
<1>1. /\ Len(ledger) \in Nat /\ DOMAIN ledger = 1 .. Len(ledger) /\ RequestCount \in Nat
      /\ MaxPending \in Nat /\ Len(ledger) <= RequestCount
  BY TypeFacts, LedgerIsCounted, LoadAssumption
<1>2. IsFiniteSet(1 .. Len(ledger)) /\ Cardinality(1 .. Len(ledger)) = Len(ledger)
  BY <1>1, UpTo
<1>3. IsFiniteSet(S) /\ Cardinality(S) \in Nat
  <2>1. S \in SUBSET (1 .. Len(ledger))
    BY <1>1
  <2>2. IsFiniteSet(S)
    BY <2>1, <1>2, FS_Subset
  <2> QED
    BY <2>2, FS_CardinalityType
<1>4. Cardinality(S \cup {b}) = Cardinality(S) + 1
  BY <1>3, FS_AddElement
<1>5. Cardinality(S \cup {b}) <= Cardinality(1 .. Len(ledger))
  <2>1. S \cup {b} \in SUBSET (1 .. Len(ledger))
    BY <1>1
  <2> QED
    BY <2>1, <1>2, FS_Subset
<1> QED
  BY <1>1, <1>2, <1>3, <1>4, <1>5

\* An event was seen on as many streams as there are iff it was seen on all.
LEMMA SeenByAll ==
    ASSUME Typed, NEW T \in SUBSET Connected
    PROVE  Cardinality(T) = streams <=> T = Connected
<1>1. streams \in Nat /\ RequestCount \in Nat
  BY TypeFacts
<1>2. IsFiniteSet(Connected) /\ Cardinality(Connected) = streams
  <2>1. RequestCount + 1 \in Int /\ RequestCount + streams \in Int
    BY <1>1
  <2>2. /\ IsFiniteSet(RequestCount + 1 .. RequestCount + streams)
        /\ Cardinality(RequestCount + 1 .. RequestCount + streams) =
              IF RequestCount + 1 > RequestCount + streams THEN 0
              ELSE (RequestCount + streams) - (RequestCount + 1) + 1
    BY <2>1, FS_Interval
  <2> QED
    BY <2>2, <1>1 DEF Connected
<1> QED
  BY <1>2, FS_Subset

\* What is acknowledged is in the ledger.
LEMMA AcknowledgedIsApplied ==
    ASSUME Typed, Exact
    PROVE  /\ Acknowledged \subseteq DOMAIN ledger /\ events.max \in Nat /\ events.max <= Len(ledger)
           /\ events.floor \in Nat /\ events.floor <= Len(ledger)
           /\ events.ahead \subseteq DOMAIN ledger
<1>1. events.max \in Nat /\ events.floor \in Nat /\ events.ahead \in SUBSET Nat
  BY BookParts DEF Typed
<1>2. Len(ledger) \in Nat /\ DOMAIN ledger = 1 .. Len(ledger)
  BY TypeFacts
<1>3. Acknowledged \subseteq DOMAIN ledger
  BY DEF Exact, Answered
<1>4. events.max <= Len(ledger)
  BY <1>1, <1>2, <1>3 DEF Exact
<1>5. events.floor <= Len(ledger) /\ events.ahead \subseteq DOMAIN ledger
  BY <1>1, <1>2, <1>3 DEF Acknowledged
<1> QED
  BY <1>1, <1>3, <1>4, <1>5

\* After the workload, every update is acknowledged.
LEMMA Drained ==
    ASSUME Typed, Scheduled, Faultless, Exact, phase \in {"drain", "check"}
    PROVE  /\ Acknowledged = DOMAIN ledger
           /\ events.floor = Len(ledger) /\ events.max = Len(ledger)
           /\ \A k : ~ InFlight(k)
<1>1. \A k : ~ InFlight(k)
  BY DEF Scheduled, InFlight
<1>2. \A i \in DOMAIN ledger : answer[ledger[i]] # Service!NotYet
  BY <1>1, FaultlessParts DEF ForWrites, Issued, Exact
<1>3. Acknowledged = DOMAIN ledger
  BY <1>1, <1>2 DEF Exact, Answered
<1>4. /\ events.max \in Nat /\ events.floor \in Nat
      /\ events.max <= Len(ledger) /\ events.floor <= Len(ledger)
  BY AcknowledgedIsApplied
<1>5. Len(ledger) \in Nat /\ DOMAIN ledger = 1 .. Len(ledger)
  BY TypeFacts
<1>6. events.floor + 1 \notin Acknowledged
  BY <1>4 DEF Exact, Acknowledged
<1>7. events.floor = Len(ledger)
  BY <1>3, <1>4, <1>5, <1>6
<1>8. events.max = Len(ledger)
  <2>1. CASE Len(ledger) = 0
    BY <2>1, <1>4
  <2>2. CASE Len(ledger) # 0
    <3>1. Len(ledger) \in Acknowledged
      BY <2>2, <1>3, <1>5
    <3> QED
      BY <3>1, <1>4, <1>5 DEF Exact
  <2> QED
    BY <2>1, <2>2
<1> QED
  BY <1>1, <1>3, <1>7, <1>8

----------------------------------------------------------------------------
(* Nobody is accused: the steps of the service.                              *)

\* What the steps of the service alone leave as it is.
LEMMA SameBooks ==
    ASSUME UNCHANGED <<streams, worker, issued, reader, events, phase>>
    PROVE  /\ Acknowledged' = Acknowledged /\ Connected' = Connected
           /\ \A i : Read(i)' = Read(i)
           /\ \A k : InFlight(k)' <=> InFlight(k)
<1>1. Connected' = Connected
  BY DEF Connected
<1> QED
  BY <1>1 DEF Acknowledged, Read, InFlight

\* Requests that are not answered are in flight, during the workload only.
LEMMA Unanswered ==
    ASSUME Typed, Scheduled, Exact, NEW k \in 1 .. issued, answer[k] = Service!NotYet
    PROVE  InFlight(k) /\ phase \notin {"startup", "drain", "check"}
<1>1. InFlight(k)
  BY DEF Exact
<1> QED
  BY <1>1 DEF InFlight, Scheduled

LEMMA AppliesStaysSteady ==
    ASSUME Typed, Scheduled, Faultless, Steady, NEW k, Applies(k),
           UNCHANGED <<rowsLost, phase, streams, worker, issued, reader, events, stop, final, cancelled>>
    PROVE  Steady'
<1> PICK n : n = Len(ledger) + 1
  OBVIOUS
<1>1. k \in 1 .. issued /\ k \in Numbers /\ k \in Everyone /\ IsWrite(k)
      /\ answer[k] = Service!NotYet /\ answer' = answer /\ delivered' = delivered
      /\ looked' = [looked EXCEPT ![k] = [done |-> TRUE, balance |-> n]]
  BY TypeFacts DEF Applies, Everyone
<1>2. /\ Len(ledger') = n /\ n \in Nat /\ n > 0 /\ DOMAIN ledger' = DOMAIN ledger \cup {n}
      /\ n \notin DOMAIN ledger /\ n \in DOMAIN ledger'
      /\ ledger'[n] = k /\ \A i \in DOMAIN ledger : i \in DOMAIN ledger' /\ ledger'[i] = ledger[i]
  BY <1>1, Appended DEF Applies
<1>3. Len(ledger) \in Nat /\ DOMAIN ledger = 1 .. Len(ledger)
  BY TypeFacts
<1>4. /\ Acknowledged' = Acknowledged /\ Connected' = Connected
      /\ \A i : Read(i)' = Read(i)
      /\ \A j : InFlight(j)' <=> InFlight(j)
  BY SameBooks
<1>5. Exact /\ phase \notin {"startup", "drain", "check"}
  BY <1>1, Unanswered DEF Steady
<1>6. Watermarked'
  <2> SUFFICES ASSUME NEW w \in Workers, NEW j, j = worker[w].number, worker[w].at = "waiting"
               PROVE  /\ worker[w].watermark <= Len(ledger')
                      /\ looked'[j].done /\ ~ IsWrite(j) => worker[w].watermark <= looked'[j].balance
    BY DEF Watermarked
  <2>1. worker[w] \in Tasks /\ j \in 1 .. issued /\ j \in Everyone
    BY TypeFacts DEF Scheduled, Everyone
  <2>2. /\ worker[w].watermark <= Len(ledger)
        /\ looked[j].done /\ ~ IsWrite(j) => worker[w].watermark <= looked[j].balance
    BY DEF Steady, Watermarked
  <2>3. ~ IsWrite(j) => looked'[j] = looked[j]
    BY <2>1, <1>1 DEF Typed
  <2>4. worker[w].watermark <= Len(ledger')
    BY <2>1, <2>2, <1>2, <1>3 DEF Tasks
  <2> QED
    BY <2>2, <2>3, <2>4
<1>7. Exact'
  <2>1. Answered' = Answered
    BY <1>1, <1>2, <1>4 DEF Answered
  <2> QED
    BY <2>1, <1>1, <1>4, <1>5 DEF Exact
<1>8. Pending'
  <2>1. n \notin Acknowledged
    BY <1>2, <1>5 DEF Exact, Answered
  <2>2. Read(n) = {}
    <3> SUFFICES ASSUME NEW s \in Connected PROVE ~ (events.last[s] >= n)
      BY DEF Read
    <3>1. s \in StreamIds /\ s \in Everyone /\ reader[s] \in Readers /\ Len(delivered[s]) \in Nat
      BY TypeFacts DEF Everyone
    <3>2. events.last[s] = reader[s].read /\ reader[s].read <= Len(delivered[s])
      BY DEF Steady, Pending
    <3>3. Len(delivered[s]) <= Len(ledger)
      BY <3>1, FaultlessParts DEF InOrder
    <3> QED
      BY <3>1, <3>2, <3>3, <1>2, <1>3 DEF Readers
  <2>3. DOMAIN events.pending \subseteq DOMAIN ledger
    BY DEF Steady, Pending
  <2>4. \A i \in DOMAIN ledger' \ DOMAIN events.pending : i = n \/ i \in DOMAIN ledger \ DOMAIN events.pending
    BY <1>2
  <2> QED
    BY <2>1, <2>2, <2>3, <2>4, <1>1, <1>2, <1>4 DEF Steady, Pending
<1>9. AfterDrain'
  BY <1>5 DEF AfterDrain
<1> QED
  BY <1>6, <1>7, <1>8, <1>9 DEF Steady

\* The books and the ledger as they are, and no stream shows less.
LEMMA PendingStays ==
    ASSUME Pending, UNCHANGED <<ledger, streams, worker, issued, reader, events, phase>>,
           \A s \in Connected : reader[s].read <= Len(delivered'[s])
    PROVE  Pending'
BY SameBooks DEF Pending

LEMMA AfterDrainStays ==
    ASSUME AfterDrain, UNCHANGED <<ledger, streams, events, phase, final>>
    PROVE  AfterDrain'
BY DEF AfterDrain, Caught, Connected

LEMMA SeeksStaysSteady ==
    ASSUME Typed, Scheduled, Faultless, Steady, NEW k, Seeks(k),
           UNCHANGED <<rowsLost, phase, streams, worker, issued, reader, events, stop, final, cancelled>>
    PROVE  Steady'
<1>1. k \in 1 .. issued /\ k \in Everyone
      /\ ledger' = ledger /\ answer' = answer /\ delivered' = delivered
      /\ looked' = [looked EXCEPT ![k] = [done |-> TRUE, balance |-> Len(ledger)]]
  BY TypeFacts DEF Seeks, Everyone
<1>2. Watermarked'
  <2> SUFFICES ASSUME NEW w \in Workers, NEW j, j = worker[w].number, worker[w].at = "waiting"
               PROVE  /\ worker[w].watermark <= Len(ledger)
                      /\ looked'[j].done /\ ~ IsWrite(j) => worker[w].watermark <= looked'[j].balance
    BY <1>1 DEF Watermarked
  <2>1. j \in Everyone
    BY TypeFacts DEF Scheduled, Everyone
  <2>2. /\ worker[w].watermark <= Len(ledger)
        /\ looked[j].done /\ ~ IsWrite(j) => worker[w].watermark <= looked[j].balance
    BY DEF Steady, Watermarked
  <2>3. CASE j = k
    <3>1. looked'[j] = [done |-> TRUE, balance |-> Len(ledger)]
      BY <2>3, <1>1 DEF Typed
    <3>2. looked'[j].balance = Len(ledger)
      BY <3>1
    <3> QED
      BY <3>2, <2>2
  <2>4. CASE j # k
    <3>1. looked'[j] = looked[j]
      BY <2>1, <2>4, <1>1 DEF Typed
    <3> QED
      BY <3>1, <2>2
  <2> QED
    BY <2>3, <2>4
<1>3. Exact'
  BY <1>1, SameBooks DEF Steady, Exact, Answered
<1>4. Pending' /\ AfterDrain'
  BY <1>1, PendingStays, AfterDrainStays DEF Steady, Pending
<1> QED
  BY <1>2, <1>3, <1>4 DEF Steady

\* The watermarks, when no more is looked at.
LEMMA WatermarksStay ==
    ASSUME Watermarked, UNCHANGED <<ledger, looked, worker>>
    PROVE  Watermarked'
BY DEF Watermarked

LEMMA RepliesStaysSteady ==
    ASSUME Typed, Scheduled, Faultless, Steady, NEW k, Replies(k),
           UNCHANGED <<rowsLost, phase, streams, worker, issued, reader, events, stop, final, cancelled>>
    PROVE  Steady'
<1>1. k \in 1 .. issued /\ k \in Everyone /\ answer[k] = Service!NotYet
      /\ ledger' = ledger /\ looked' = looked /\ delivered' = delivered
      /\ answer' = [answer EXCEPT ![k] = [status |-> "ok", balance |-> looked[k].balance]]
  BY TypeFacts DEF Replies, Everyone
<1>2. Exact /\ InFlight(k)
  BY <1>1, Unanswered DEF Steady
<1>3. \A j \in Everyone : j # k => answer'[j] = answer[j]
  BY <1>1 DEF Typed
<1>4. Exact'
  <2>1. \A i \in DOMAIN ledger : ledger[i] \in Everyone
    BY TypeFacts DEF Everyone
  <2>2. Answered' = Answered
    BY <2>1, <1>1, <1>2, <1>3, SameBooks DEF Answered
  <2>3. \A j \in 1 .. issued : InFlight(j) \/ answer'[j] # Service!NotYet
    BY <1>2, <1>3, TypeFacts DEF Exact, Everyone
  <2> QED
    BY <2>2, <2>3, <1>2, SameBooks DEF Exact
<1>5. Pending' /\ AfterDrain' /\ Watermarked'
  BY <1>1, PendingStays, AfterDrainStays, WatermarksStay DEF Steady, Pending
<1> QED
  BY <1>4, <1>5 DEF Steady

LEMMA ShowsStaysSteady ==
    ASSUME Typed, Scheduled, Faultless, Steady, NEW s, Shows(s),
           UNCHANGED <<rowsLost, phase, streams, worker, issued, reader, events, stop, final, cancelled>>
    PROVE  Steady'
<1>1. ledger' = ledger /\ looked' = looked /\ answer' = answer
  BY DEF Shows
<1>2. /\ Len(delivered'[s]) >= Len(delivered[s])
      /\ \A z \in StreamIds : z # s => delivered'[z] = delivered[z]
  BY ShowsStaysFaultless
<1>3. Faultless'
  BY ShowsStaysFaultless
<1>4. \A z \in Connected : reader[z].read <= Len(delivered'[z])
  <2> SUFFICES ASSUME NEW z \in Connected PROVE reader[z].read <= Len(delivered'[z])
    OBVIOUS
  <2>1. z \in StreamIds /\ z \in Everyone /\ reader[z].read \in Nat /\ Len(delivered[z]) \in Nat
    BY TypeFacts DEF Everyone, Readers
  <2>2. reader[z].read <= Len(delivered[z])
    BY DEF Steady, Pending
  <2>3. CASE z = s
    <3>1. PICK n \in Len(delivered[s]) .. Len(ledger) :
             delivered' = [delivered EXCEPT ![s] = Service!History(n)]
      BY DEF Shows
    <3>2. n \in Nat /\ delivered'[s] = Service!History(n)
      BY <3>1, <2>1, <2>3, TypeFacts DEF Typed
    <3>3. Len(delivered'[s]) \in Nat
      BY <3>2, HistoryIsSent
    <3> QED
      BY <3>3, <2>1, <2>2, <2>3, <1>2
  <2>4. CASE z # s
    BY <2>1, <2>2, <2>4, <1>2
  <2> QED
    BY <2>3, <2>4
<1>5. Exact'
  BY <1>1, SameBooks DEF Steady, Exact, Answered
<1>6. Pending' /\ AfterDrain' /\ Watermarked'
  BY <1>1, <1>4, PendingStays, AfterDrainStays, WatermarksStay DEF Steady
<1> QED
  BY <1>5, <1>6 DEF Steady

\* The service is true to its contract; the test has no error, and its books
\* are in order as long as it runs.
Calm == Faultless /\ errors = {} /\ (phase \in Running => Steady)

LEMMA ServeStaysCalm ==
    ASSUME Typed, Scheduled, Calm, Serve
    PROVE  Calm'
<1>1. UNCHANGED <<rowsLost, phase, streams, worker, issued, reader, events, stop, errors, final, cancelled>>
  BY DEF Serve
<1>2. ASSUME NEW k, Applies(k) \/ Seeks(k) \/ Replies(k)
      PROVE  Faultless' /\ (phase \in Running => Steady')
  BY <1>1, <1>2, AppliesStaysFaultless, SeeksStaysFaultless, RepliesStaysFaultless,
     AppliesStaysSteady, SeeksStaysSteady, RepliesStaysSteady DEF Calm
<1>3. ASSUME NEW s, Shows(s)
      PROVE  Faultless' /\ (phase \in Running => Steady')
  BY <1>1, <1>3, ShowsStaysFaultless, ShowsStaysSteady DEF Calm
<1> QED
  BY <1>1, <1>2, <1>3, ServeIsOneOf DEF Calm

----------------------------------------------------------------------------
(* Nobody is accused: the steps of run, and the workers' dispatches.         *)

\* A step that leaves the service, the requests, the streams and the books.
LEMMA IdleStaysSteady ==
    ASSUME Steady, UNCHANGED <<svars, phase, streams, issued, reader, events, stop, final, cancelled>>,
           \A k : InFlight(k)' <=> InFlight(k),
           \A w \in Workers : worker'[w].at = "waiting" => worker'[w] = worker[w]
    PROVE  Steady'
<1>1. /\ UNCHANGED <<asks, ledger, looked, answer, delivered, rowsLost>>
  BY DEF svars
<1>2. Acknowledged' = Acknowledged /\ Connected' = Connected /\ \A i : Read(i)' = Read(i)
  BY DEF Acknowledged, Connected, Read
<1>3. Watermarked'
  <2> SUFFICES ASSUME NEW w \in Workers, NEW j, j = worker'[w].number, worker'[w].at = "waiting"
               PROVE  /\ worker'[w].watermark <= Len(ledger)
                      /\ looked[j].done /\ ~ IsWrite(j) => worker'[w].watermark <= looked[j].balance
    BY <1>1 DEF Watermarked
  <2>1. worker'[w] = worker[w]
    OBVIOUS
  <2> QED
    BY <2>1 DEF Steady, Watermarked
<1>4. Exact'
  BY <1>1, <1>2 DEF Steady, Exact, Answered
<1>5. Pending'
  BY <1>1, <1>2 DEF Steady, Pending
<1>6. AfterDrain'
  BY <1>1, <1>2 DEF Steady, AfterDrain, Caught
<1> QED
  BY <1>3, <1>4, <1>5, <1>6 DEF Steady

\* Steps of the time, the sampler and a worker that is done.
LEMMA QuietStaysCalm ==
    ASSUME Typed, Watched, Calm,
           \/ Expire \/ Sample \/ Sampled \/ SamplerReturns
           \/ \E w \in Workers : WorkerReturns(w)
    PROVE  Calm'
<1>1. /\ UNCHANGED <<svars, phase, streams, issued, reader, events, stop, final, cancelled, errors>>
  <2>1. CASE Sampled
    BY <2>1 DEF Sampled, Watched
  <2>2. CASE ~ Sampled
    BY <2>2 DEF Expire, Sample, SamplerReturns, WorkerReturns
  <2> QED
    BY <2>1, <2>2
<1>2. /\ \A k : InFlight(k)' <=> InFlight(k)
      /\ \A w \in Workers : worker'[w].at = "waiting" => worker'[w] = worker[w]
  <2>1. CASE Expire \/ Sample \/ Sampled \/ SamplerReturns
    <3>1. worker' = worker
      BY <2>1 DEF Expire, Sample, Sampled, SamplerReturns
    <3> QED
      BY <3>1 DEF InFlight
  <2>2. ASSUME NEW w \in Workers, WorkerReturns(w)
        PROVE  <1>2
    <3>1. /\ worker[w].at = "loop" /\ worker'[w].at = "done"
          /\ \A v \in Workers : v # w => worker'[v] = worker[v]
      BY <2>2, TypeFacts DEF WorkerReturns, Typed, Tasks
    <3> QED
      BY <3>1 DEF InFlight
  <2> QED
    BY <2>1, <2>2
<1>3. Faultless'
  BY <1>1, FaultlessStays DEF Calm
<1>4. phase' \in Running => Steady'
  BY <1>1, <1>2, IdleStaysSteady DEF Calm
<1> QED
  BY <1>1, <1>3, <1>4 DEF Calm

LEMMA StartupStaysCalm ==
    ASSUME Typed, Scheduled, Calm, Startup
    PROVE  Calm'
<1>1. /\ UNCHANGED <<svars, streams, issued, events, stop, final, cancelled, errors>>
      /\ UNCHANGED <<asks, ledger, looked, answer, delivered, rowsLost>>
      /\ phase = "startup" /\ phase' = "workload"
      /\ worker' = [w \in Workers |-> [worker[w] EXCEPT !.at = "loop"]]
      /\ reader' = [s \in StreamIds |-> [reader[s] EXCEPT !.at =
                                             IF s \in Connected THEN "reading" ELSE "none"]]
  BY DEF Startup, svars
<1>2. Steady
  BY <1>1 DEF Calm, Running
<1>3. \A w \in Workers : worker[w].at = "none" /\ worker'[w].at = "loop"
  BY <1>1, TypeFacts DEF Scheduled, Tasks
<1>4. \A k : ~ InFlight(k) /\ ~ InFlight(k)'
  BY <1>3 DEF InFlight
<1>5. Acknowledged' = Acknowledged /\ Connected' = Connected /\ \A i : Read(i)' = Read(i)
  BY <1>1 DEF Acknowledged, Connected, Read
<1>6. \A s \in Connected : reader'[s].at = "reading" /\ reader'[s].read = reader[s].read
  BY <1>1, TypeFacts DEF Readers
<1>7. Watermarked' /\ AfterDrain'
  BY <1>1, <1>3 DEF Watermarked, AfterDrain
<1>8. Exact'
  BY <1>1, <1>2, <1>4, <1>5 DEF Steady, Exact, Answered
<1>9. Pending'
  BY <1>1, <1>2, <1>5, <1>6 DEF Steady, Pending
<1>10. Faultless'
  BY <1>1, FaultlessStays DEF Calm
<1> QED
  BY <1>1, <1>2, <1>7, <1>8, <1>9, <1>10 DEF Calm, Steady

LEMMA WorkersDoneStaysCalm ==
    ASSUME Typed, Scheduled, Calm, WorkersDone
    PROVE  Calm'
<1>1. /\ UNCHANGED <<svars, streams, worker, issued, reader, events, stop, final, cancelled, errors>>
      /\ UNCHANGED <<asks, ledger, looked, answer, delivered, rowsLost>>
      /\ phase = "workload" /\ phase' = "drain"
  BY DEF WorkersDone, svars
<1>2. Steady
  BY <1>1 DEF Calm, Running
<1>5. Acknowledged' = Acknowledged /\ Connected' = Connected /\ \A i : Read(i)' = Read(i)
      /\ \A k : InFlight(k)' <=> InFlight(k)
  BY <1>1 DEF Acknowledged, Connected, Read, InFlight
<1>7. Watermarked' /\ AfterDrain'
  BY <1>1, <1>2 DEF Steady, Watermarked, AfterDrain
<1>8. Exact'
  BY <1>1, <1>2, <1>5 DEF Steady, Exact, Answered
<1>9. Pending'
  BY <1>1, <1>2, <1>5 DEF Steady, Pending
<1>10. Faultless'
  BY <1>1, FaultlessStays DEF Calm
<1> QED
  BY <1>1, <1>2, <1>7, <1>8, <1>9, <1>10 DEF Calm, Steady

\* Once every stream has read the whole ledger, nothing is pending.
LEMMA SettledIsCaught ==
    ASSUME Typed, Scheduled, Faultless, Steady, phase \in {"drain", "check"}, Settled
    PROVE  Caught(events)
<1>1. /\ Acknowledged = DOMAIN ledger
      /\ events.floor = Len(ledger) /\ events.max = Len(ledger)
  BY Drained DEF Steady
<1>2. \A s \in Connected : events.last[s] = Len(ledger)
  BY DEF Steady, Pending, Settled
<1>3. Len(ledger) \in Nat /\ DOMAIN ledger = 1 .. Len(ledger)
  BY TypeFacts
<1>4. \A i \in DOMAIN ledger : Read(i) = Connected
  BY <1>2, <1>3 DEF Read
<1>5. DOMAIN events.pending = {}
  BY <1>1, <1>4 DEF Steady, Pending
<1> QED
  BY <1>1, <1>2, <1>5 DEF Caught

LEMMA EndDrainStaysCalm ==
    ASSUME Typed, Scheduled, Calm, EndDrain, faults = 0
    PROVE  Calm'
<1>1. /\ UNCHANGED <<svars, streams, worker, issued, reader, events, stop, cancelled>>
      /\ UNCHANGED <<asks, ledger, looked, answer, delivered, rowsLost>>
      /\ phase = "drain" /\ phase' = "check"
      /\ final' = [balance |-> Len(ledger), rows |-> Len(ledger) - rowsLost, taken |-> TRUE]
  BY DEF EndDrain, svars
<1>2. Steady
  BY <1>1 DEF Calm, Running
<1>3. Caught(events) /\ errors' = errors
  <2>1. Settled => Caught(events)
    BY <1>1, <1>2, SettledIsCaught DEF Calm
  <2> QED
    BY <2>1, <1>2 DEF EndDrain, Steady
<1>5. Acknowledged' = Acknowledged /\ Connected' = Connected /\ \A i : Read(i)' = Read(i)
      /\ \A k : InFlight(k)' <=> InFlight(k)
  BY <1>1 DEF Acknowledged, Connected, Read, InFlight
<1>6. Watermarked'
  BY <1>1, <1>2 DEF Steady, Watermarked
<1>7. AfterDrain'
  <2>1. rowsLost = 0 /\ Len(ledger) \in Nat
    BY FaultlessParts, TypeFacts DEF Calm
  <2>2. final'.balance = Len(ledger) /\ final'.rows = Len(ledger)
    BY <2>1, <1>1
  <2> QED
    BY <2>2, <1>1, <1>3, <1>5 DEF AfterDrain, Caught
<1>8. Exact'
  BY <1>1, <1>2, <1>5 DEF Steady, Exact, Answered
<1>9. Pending'
  BY <1>1, <1>2, <1>5 DEF Steady, Pending
<1>10. Faultless'
  BY <1>1, FaultlessStays DEF Calm
<1> QED
  BY <1>1, <1>2, <1>3, <1>6, <1>7, <1>8, <1>9, <1>10 DEF Calm, Steady

\* The check finds what it expects: every write was acknowledged and is in the
\* ledger, and every stream has shown it.
LEMMA CheckStaysCalm ==
    ASSUME Typed, Scheduled, Tallied, Calm, Check
    PROVE  Calm'
<1>1. UNCHANGED svars /\ issued' = issued /\ phase = "check" /\ phase' = "cleanup"
  BY DEF Check, EnterCleanup
<1>2. Steady /\ Faultless /\ errors = {} /\ ~ cancelled
  BY <1>1 DEF Calm, Running, Steady
<1>3. /\ Acknowledged = DOMAIN ledger /\ events.floor = Len(ledger) /\ events.max = Len(ledger)
      /\ \A k : ~ InFlight(k)
  BY <1>1, <1>2, Drained DEF Steady
<1>4. \A k \in Issued("write") : \E i \in DOMAIN ledger : ledger[i] = k
  <2> SUFFICES ASSUME NEW k \in Issued("write") PROVE \E i \in DOMAIN ledger : ledger[i] = k
    OBVIOUS
  <2>1. k \in 1 .. issued /\ k \in Numbers /\ IsWrite(k)
    BY TypeFacts DEF Issued, Kind
  <2>2. answer[k] # Service!NotYet
    BY <2>1, <1>2, <1>3 DEF Steady, Exact
  <2> QED
    BY <2>1, <2>2, <1>2, FaultlessParts DEF Truthful
<1>5. Returned("write") = Issued("write")
  BY <1>3 DEF Returned
<1>6. Writes = Len(ledger)
  BY <1>2, <1>4, <1>5, LedgerIsCounted DEF Writes, Tallied
<1>7. LedgerAgrees(events) /\ StreamsAgree(events)
  BY <1>1, <1>2, <1>3, <1>6 DEF LedgerAgrees, StreamsAgree, Steady, AfterDrain, Caught
<1>8. errors' = {}
  BY <1>2, <1>7 DEF Check
<1>9. Faultless'
  BY <1>1, <1>2, FaultlessStays
<1> QED
  BY <1>1, <1>8, <1>9 DEF Calm, Running

LEMMA EndingStaysCalm ==
    ASSUME Typed, Calm, Cancel \/ JoinTasks \/ CloseAll
    PROVE  Calm'
<1>1. UNCHANGED <<svars, issued, errors>> /\ phase' \in {"cleanup", "close", "ended"}
  BY DEF Cancel, JoinTasks, CloseAll, EnterCleanup
<1>2. Faultless'
  BY <1>1, FaultlessStays DEF Calm
<1> QED
  BY <1>1, <1>2 DEF Calm, Running

LEMMA DispatchStaysCalm ==
    ASSUME Typed, Scheduled, Calm, NEW w \in Workers, Dispatch(w)
    PROVE  Calm'
<1> PICK n : n = issued + 1
  OBVIOUS
<1>1. /\ UNCHANGED <<svars, phase, streams, reader, events, stop, final, cancelled, errors>>
      /\ UNCHANGED <<asks, ledger, looked, answer, delivered, rowsLost>> /\ issued' = n
  BY DEF Dispatch, svars
<1>2. /\ n \in Numbers /\ n \notin 1 .. issued /\ 1 .. n = 1 .. issued \cup {n}
      /\ worker'[w] = [at |-> "waiting", number |-> n, watermark |-> events.max]
      /\ \A v \in Workers : v # w => worker'[v] = worker[v]
      /\ InFlight(n)' /\ \A k \in 1 .. issued : InFlight(k)' <=> InFlight(k)
      /\ phase = "workload"
  BY DispatchFacts
<1>3. Steady /\ Faultless /\ errors = {}
  BY <1>2 DEF Calm, Running
<1>4. Faultless'
  BY <1>1, <1>3, FaultlessStays
<1>5. Acknowledged' = Acknowledged /\ Connected' = Connected /\ \A i : Read(i)' = Read(i)
  BY <1>1 DEF Acknowledged, Connected, Read
<1>6. Watermarked'
  <2> SUFFICES ASSUME NEW v \in Workers, NEW j, j = worker'[v].number, worker'[v].at = "waiting"
               PROVE  /\ worker'[v].watermark <= Len(ledger)
                      /\ looked[j].done /\ ~ IsWrite(j) => worker'[v].watermark <= looked[j].balance
    BY <1>1 DEF Watermarked
  <2>1. CASE v = w
    <3>1. j = n /\ worker'[v].watermark = events.max
      BY <2>1, <1>2
    <3>2. ~ looked[n].done
      BY <1>2, <1>3, FaultlessParts DEF Truthful
    <3>3. events.max <= Len(ledger)
      BY <1>3, AcknowledgedIsApplied DEF Steady
    <3> QED
      BY <3>1, <3>2, <3>3
  <2>2. CASE v # w
    BY <2>2, <1>2, <1>3 DEF Steady, Watermarked
  <2> QED
    BY <2>1, <2>2
<1>7. Exact'
  <2>1. \A i \in DOMAIN ledger : ledger[i] \in 1 .. issued
    BY <1>3, FaultlessParts DEF ForWrites, Issued
  <2>2. Answered' = Answered
    BY <2>1, <1>1, <1>2 DEF Answered
  <2>3. \A k \in 1 .. n : InFlight(k)' \/ answer[k] # Service!NotYet
    BY <1>2, <1>3 DEF Steady, Exact
  <2> QED
    BY <2>2, <2>3, <1>1, <1>3, <1>5 DEF Steady, Exact
<1>8. Pending'
  BY <1>1, <1>3, <1>5 DEF Steady, Pending
<1>9. AfterDrain'
  BY <1>1, <1>2 DEF AfterDrain
<1> QED
  BY <1>1, <1>3, <1>4, <1>6, <1>7, <1>8, <1>9 DEF Calm, Steady

----------------------------------------------------------------------------
(* Nobody is accused: the answers and the frames.                            *)

\* What an entry that is not settled says, with the acknowledgments and the
\* readers as they are.
Says(entry, i) ==
    /\ entry.acked <=> i \in Acknowledged
    /\ entry.acked => entry.start = ledger[i]
    /\ entry.seen = Read(i)
    /\ \A a \in entry.fresh : ledger[i] <= a
    /\ entry.acked \/ entry.seen # {}
    /\ ~ (entry.acked /\ entry.seen = Connected)
Clear(i) ==
    \/ i \notin Acknowledged /\ Read(i) = {}
    \/ i \in Acknowledged /\ Read(i) = Connected

LEMMA PendingParts ==
    Pending <=>
        /\ DOMAIN events.pending \subseteq DOMAIN ledger
        /\ \A s \in Connected :
              /\ events.last[s] = reader[s].read /\ reader[s].read <= Len(delivered[s])
              /\ reader[s].at = IF phase = "startup" THEN "none" ELSE "reading"
        /\ \A i \in DOMAIN events.pending : Says(events.pending[i], i)
        /\ \A i \in DOMAIN ledger \ DOMAIN events.pending : Clear(i)
BY DEF Pending, Says, Clear

\* What is known of an event in the ledger.
LEMMA KnownOf ==
    ASSUME Typed, Pending, NEW i \in DOMAIN ledger, NEW e, IsBook(e), e.pending = events.pending,
           NEW y, y = Known(e, i)
    PROVE  /\ y \in Entries /\ \A a \in y.fresh : a \in Nat /\ ledger[i] <= a
           /\ \/ Read(i) = Connected /\ i \in Acknowledged
              \/ /\ y.seen = Read(i) /\ (y.acked <=> i \in Acknowledged)
                 /\ y.acked => y.start = ledger[i]
<1>1. i \in Nat
  BY TypeFacts
<1>2. /\ y \in Entries
      /\ i \in DOMAIN e.pending => y = e.pending[i]
      /\ i \notin DOMAIN e.pending => y = [acked |-> FALSE, start |-> 0, seen |-> {}, fresh |-> {}]
  BY <1>1, KnownFacts
<1>3. y.fresh \in SUBSET Nat
  BY <1>2 DEF Entries
<1>4. CASE i \in DOMAIN e.pending
  <2>1. Says(y, i)
    BY <1>2, <1>4, PendingParts
  <2> QED
    BY <2>1, <1>2, <1>3 DEF Says
<1>5. CASE i \notin DOMAIN e.pending
  <2>1. ~ y.acked /\ y.seen = {} /\ y.fresh = {}
    BY <1>2, <1>5
  <2>2. Clear(i)
    BY <1>5, PendingParts
  <2> QED
    BY <2>1, <2>2, <1>2 DEF Clear
<1> QED
  BY <1>4, <1>5

\* Reconciling the entry of an event in the ledger does not raise, and leaves
\* the books as they should be, when acknowledgments A and readers R are known.
LEMMA ReconcileIsFair ==
    ASSUME Typed, Faultless, Pending, NEW i \in DOMAIN ledger,
           NEW e, IsBook(e), e.pending = events.pending,
           NEW entry \in Entries, NEW n, n = Reconcile(e, i, entry),
           entry.acked => entry.start = ledger[i], entry.acked \/ entry.seen # {},
           entry.seen \in SUBSET Connected, \A a \in entry.fresh : ledger[i] <= a
    PROVE  /\ ~ n.raised /\ n.events.last = e.last
           /\ n.events.floor = e.floor /\ n.events.max = e.max /\ n.events.ahead = e.ahead
           /\ DOMAIN n.events.pending \subseteq DOMAIN ledger
           /\ \A j : j # i => (j \in DOMAIN n.events.pending <=> j \in DOMAIN events.pending)
           /\ \A j \in DOMAIN n.events.pending : j # i => n.events.pending[j] = events.pending[j]
           /\ \/ i \notin DOMAIN n.events.pending /\ entry.acked /\ entry.seen = Connected
              \/ /\ i \in DOMAIN n.events.pending /\ ~ (entry.acked /\ entry.seen = Connected)
                 /\ LET now == n.events.pending[i] IN
                    /\ now.acked = entry.acked /\ now.start = entry.start /\ now.seen = entry.seen
                    /\ now.fresh \subseteq entry.fresh
<1>1. i \in Nat /\ ledger[i] \in Nat /\ entry.fresh \in SUBSET Nat
  BY TypeFacts DEF Entries, Numbers
<1>2. /\ n.raised <=> entry.acked /\ \E a \in entry.fresh : a < entry.start
      /\ \/ n.events = With(e, i, entry) /\ (entry.acked => n.raised)
         \/ /\ entry.acked /\ ~ n.raised /\ Cardinality(entry.seen) = streams
            /\ n.events = Without(e, i)
         \/ /\ entry.acked /\ ~ n.raised /\ Cardinality(entry.seen) # streams
            /\ n.events = With(e, i, [entry EXCEPT !.fresh = {}])
  BY <1>1, ReconcileFacts
<1>3. ~ n.raised
  BY <1>1, <1>2
<1>4. Cardinality(entry.seen) = streams <=> entry.seen = Connected
  BY SeenByAll
<1>5. DOMAIN events.pending \subseteq DOMAIN ledger
  BY PendingParts
<1>6. CASE n.events = With(e, i, entry) /\ ~ entry.acked
  <2> PICK m : m = n.events
    OBVIOUS
  <2>1. /\ DOMAIN m.pending = DOMAIN e.pending \cup {i}
        /\ \A j \in DOMAIN m.pending : m.pending[j] = IF j = i THEN entry ELSE e.pending[j]
        /\ m.last = e.last /\ m.floor = e.floor /\ m.max = e.max /\ m.ahead = e.ahead
    BY <1>1, <1>6, WithFacts
  <2> QED
    BY <2>1, <1>3, <1>5, <1>6
<1>7. CASE /\ entry.acked /\ Cardinality(entry.seen) = streams
           /\ n.events = Without(e, i)
  <2> PICK m : m = n.events
    OBVIOUS
  <2>1. /\ DOMAIN m.pending = DOMAIN e.pending \ {i}
        /\ \A j \in DOMAIN m.pending : m.pending[j] = e.pending[j]
        /\ m.last = e.last /\ m.floor = e.floor /\ m.max = e.max /\ m.ahead = e.ahead
    BY <1>1, <1>7, WithoutFacts
  <2> QED
    BY <2>1, <1>3, <1>4, <1>5, <1>7
<1>8. CASE /\ entry.acked /\ Cardinality(entry.seen) # streams
           /\ n.events = With(e, i, [entry EXCEPT !.fresh = {}])
  <2> PICK m, now : m = n.events /\ now = [entry EXCEPT !.fresh = {}]
    OBVIOUS
  <2>1. /\ now \in Entries /\ now.fresh = {}
        /\ now.acked = entry.acked /\ now.start = entry.start /\ now.seen = entry.seen
    BY DEF Entries
  <2>2. /\ DOMAIN m.pending = DOMAIN e.pending \cup {i}
        /\ \A j \in DOMAIN m.pending : m.pending[j] = IF j = i THEN now ELSE e.pending[j]
        /\ m.last = e.last /\ m.floor = e.floor /\ m.max = e.max /\ m.ahead = e.ahead
    <3>1. m = With(e, i, now)
      BY <1>8
    <3>2. now \in Entries /\ i \in Nat /\ IsBook(e)
      BY <2>1, <1>1
    <3> HIDE <2>1, <1>1
    <3> QED
      BY ONLY <3>1, <3>2, WithFacts
  <2>3. i \in DOMAIN m.pending /\ m.pending[i] = now
    BY <2>2
  <2>4. /\ DOMAIN m.pending \subseteq DOMAIN ledger
        /\ \A j : j # i => (j \in DOMAIN m.pending <=> j \in DOMAIN events.pending)
        /\ \A j \in DOMAIN m.pending : j # i => m.pending[j] = events.pending[j]
    BY <2>2, <1>5
  <2> QED
    BY <2>1, <2>2, <2>3, <2>4, <1>3, <1>4, <1>8
<1> QED
  BY <1>2, <1>3, <1>6, <1>7, <1>8

\* Of a request whose answer arrives the service told the truth.
LEMMA AnswerIsTrue ==
    ASSUME Typed, Scheduled, Faultless, NEW w \in Workers, worker[w].at = "waiting",
           NEW k, k = worker[w].number, answer[k] # Service!NotYet, NEW b, b = looked[k].balance
    PROVE  /\ k \in 1 .. issued /\ k \in Numbers /\ b \in Nat /\ looked[k].done
           /\ answer[k].status = "ok" /\ answer[k].balance = b
           /\ IsWrite(k) => b \in DOMAIN ledger /\ ledger[b] = k /\ b > 0
           /\ ~ IsWrite(k) => b <= Len(ledger)
<1>1. k \in 1 .. issued /\ k \in Numbers /\ k \in Everyone
  BY TypeFacts DEF Scheduled, Everyone
<1>2. b \in Nat
  BY <1>1 DEF Typed, Looks
<1>3. Truthful(k)
  BY <1>1, FaultlessParts
<1>4. answer[k] = [status |-> "ok", balance |-> b] /\ looked[k].done
  BY <1>3 DEF Truthful
<1>5. answer[k].status = "ok" /\ answer[k].balance = b
  BY <1>4
<1>6. IsWrite(k) => b \in DOMAIN ledger /\ ledger[b] = k /\ b > 0
  BY <1>3, <1>4, TypeFacts DEF Truthful
<1> QED
  BY <1>1, <1>2, <1>3, <1>4, <1>5, <1>6 DEF Truthful

\* A true answer to a read is plausible.
LEMMA ReadIsPlausible ==
    ASSUME Typed, Scheduled, Tallied, Faultless, Steady, NEW w \in Workers, worker[w].at = "waiting",
           answer[worker[w].number] # Service!NotYet, ~ IsWrite(worker[w].number)
    PROVE  Accepts(w) /\ Heard(w) = events
<1> PICK k : k = worker[w].number
  OBVIOUS
<1> PICK b : b = looked[k].balance
  OBVIOUS
<1>1. /\ b \in Nat /\ looked[k].done /\ answer[k].status = "ok" /\ answer[k].balance = b
      /\ b <= Len(ledger)
  BY AnswerIsTrue
<1>2. worker[w].watermark <= b
  BY <1>1 DEF Steady, Watermarked
<1>3. b <= tally.attempted["write"]
  <2>1. tally.attempted["write"] = Cardinality(Issued("write")) /\ Cardinality(Issued("write")) \in Nat
    BY IssuedIsFinite DEF Tallied
  <2>2. Len(ledger) <= Cardinality(Issued("write")) /\ Len(ledger) \in Nat
    BY LedgerIsCounted, TypeFacts
  <2> QED
    BY <2>1, <2>2, <1>1
<1> QED
  BY <1>1, <1>2, <1>3 DEF Accepts, Heard, Plausible

\* The floor moves over acknowledgments and forgets none.
LEMMA FloorMoves ==
    ASSUME NEW f \in Nat, NEW g \in Nat, g >= f, NEW A \in SUBSET Nat, NEW b \in Nat, b > 0,
           f + 1 .. g \subseteq A \cup {b}, \A j \in A \cup {b} : j > f,
           NEW B, \A j : j \in B <=> j \in A \cup {b} /\ j > g
    PROVE  1 .. g \cup B = 1 .. f \cup A \cup {b}
<1>1. ASSUME NEW j \in 1 .. g PROVE j \in 1 .. f \cup A \cup {b}
  <2>1. j \in 1 .. f \/ j \in f + 1 .. g
    OBVIOUS
  <2> QED
    BY <2>1
<1>2. ASSUME NEW j \in A \cup {b} PROVE j \in 1 .. g \cup B
  OBVIOUS
<1>3. \A j \in 1 .. f : j \in 1 .. g
  OBVIOUS
<1> QED
  BY <1>1, <1>2, <1>3

\* The entry of an event that was acknowledged and waits for streams to show it.
Waits(entry, i) ==
    /\ Read(i) # Connected
    /\ entry.acked /\ entry.start = ledger[i] /\ entry.seen = Read(i)
    /\ \A a \in entry.fresh : ledger[i] <= a

\* A true answer to an update is acknowledged.
LEMMA WriteIsAcknowledged ==
    ASSUME Typed, Scheduled, Faultless, Steady, MaxPending >= RequestCount,
           NEW w \in Workers, worker[w].at = "waiting",
           NEW k, k = worker[w].number, answer[k] # Service!NotYet, IsWrite(k),
           NEW b, b = looked[k].balance, NEW n, n = Acknowledge(events, b, k), NEW m, m = n.events
    PROVE  /\ ~ n.raised /\ b \in DOMAIN ledger /\ ledger[b] = k /\ b \notin Acknowledged
           /\ m.last = events.last /\ m.max = Larger(events.max, b)
           /\ 1 .. m.floor \cup m.ahead = Acknowledged \cup {b}
           /\ m.floor + 1 \notin m.ahead /\ \A j \in m.ahead : j > m.floor
           /\ DOMAIN m.pending \subseteq DOMAIN ledger
           /\ \A j : j # b => (j \in DOMAIN m.pending <=> j \in DOMAIN events.pending)
           /\ \A j \in DOMAIN m.pending : j # b => m.pending[j] = events.pending[j]
           /\ b \notin DOMAIN m.pending => Read(b) = Connected
           /\ b \in DOMAIN m.pending => Waits(m.pending[b], b)
<1>1. /\ k \in 1 .. issued /\ k \in Numbers /\ b \in Nat /\ b \in DOMAIN ledger /\ ledger[b] = k /\ b > 0
  BY AnswerIsTrue
<1>2. b \notin Acknowledged
  <2>1. InFlight(k)
    BY DEF InFlight
  <2> QED
    BY <2>1, <1>1 DEF Steady, Exact, Answered
<1>t. /\ IsBook(events) /\ events.floor \in Nat /\ events.ahead \in SUBSET Nat /\ k \in Nat
      /\ streams \in Nat
  BY <1>1, BookParts, TypeFacts DEF Typed
<1>3. ~ (b <= events.floor) /\ b \notin events.ahead
  BY <1>1, <1>2, <1>t DEF Acknowledged
<1>4. Cardinality(events.ahead) < MaxPending /\ Cardinality(events.ahead) \in Int /\ MaxPending \in Int
  <2>1. events.ahead \in SUBSET DOMAIN ledger
    BY AcknowledgedIsApplied DEF Steady
  <2>2. Cardinality(events.ahead) < MaxPending
    BY <2>1, <1>1, <1>3, Room
  <2>3. events.ahead \in SUBSET (1 .. Len(ledger)) /\ Len(ledger) \in Nat
    BY <2>1, TypeFacts
  <2>4. IsFiniteSet(events.ahead)
    BY <2>3, UpTo, FS_Subset
  <2>5. Cardinality(events.ahead) \in Nat
    BY <2>4, FS_CardinalityType
  <2> QED
    BY <2>2, <2>5, LoadAssumption
<1>a. PICK noted : noted = Noted(events, b)
  OBVIOUS
<1>b. PICK entry : entry = AckedEntry(noted, b, k)
  OBVIOUS
<1>5. /\ IsBook(noted) /\ entry \in Entries
      /\ n = IF streams = 0 THEN [events |-> noted, raised |-> FALSE]
             ELSE IF Full(noted, b) THEN [events |-> noted, raised |-> TRUE]
             ELSE Reconcile(noted, b, entry)
  <2>1. /\ n = Acknowledge(events, b, k) /\ IsBook(events) /\ b \in Nat /\ k \in Nat
        /\ noted = Noted(events, b) /\ entry = AckedEntry(noted, b, k)
    BY <1>1, <1>t, <1>a, <1>b
  <2>2. IsBook(noted) /\ entry \in Entries
    BY ONLY <2>1, AcknowledgeFacts
  <2>3. ~ (Cardinality(events.ahead) >= MaxPending)
    BY <1>4
  <2> QED
    BY <2>1, <2>2, <2>3, <1>3 DEF Acknowledge, Noted, AckedEntry
<1>6. /\ noted.last = events.last /\ noted.pending = events.pending
      /\ noted.max = Larger(events.max, b)
      /\ noted.floor \in Nat /\ noted.floor >= events.floor
      /\ events.floor + 1 .. noted.floor \subseteq events.ahead \cup {b}
      /\ noted.floor + 1 \notin events.ahead \cup {b}
      /\ \A j : j \in noted.ahead <=> j \in events.ahead \cup {b} /\ j > noted.floor
  <2>1. noted = Noted(events, b) /\ IsBook(events) /\ b \in Nat
    BY <1>1, <1>t, <1>a
  <2> QED
    BY ONLY <2>1, NotedFacts
<1>7. 1 .. noted.floor \cup noted.ahead = Acknowledged \cup {b}
  <2>1. \A j \in events.ahead \cup {b} : j > events.floor /\ j \in Nat
    BY <1>1, <1>3, <1>t DEF Steady, Exact
  <2>2. 1 .. noted.floor \cup noted.ahead = 1 .. events.floor \cup events.ahead \cup {b}
    BY ONLY <2>1, <1>1, <1>6, <1>t, FloorMoves
  <2> QED
    BY <2>2 DEF Acknowledged
<1>8. noted.floor + 1 \notin noted.ahead /\ \A j \in noted.ahead : j > noted.floor
  BY <1>6
<1>9. DOMAIN events.pending \subseteq DOMAIN ledger
  BY PendingParts DEF Steady
<1>10. CASE streams = 0
  <2>a. m = noted /\ ~ n.raised
    BY <1>5, <1>10
  <2>1. Connected = {}
    BY <1>10, TypeFacts DEF Connected
  <2>2. Read(b) = {}
    BY <2>1 DEF Read
  <2>3. b \notin DOMAIN events.pending
    <3>1. b \in DOMAIN events.pending => Says(events.pending[b], b)
      BY PendingParts DEF Steady
    <3> QED
      BY <3>1, <2>1, <2>2 DEF Says
  <2> QED
    BY <2>a, <2>1, <2>2, <2>3, <1>1, <1>2, <1>6, <1>7, <1>8, <1>9
<1>11. ~ Full(noted, b)
  <2>1. b \notin DOMAIN events.pending => Cardinality(DOMAIN events.pending) < MaxPending
    BY <1>1, <1>9, Room
  <2>2. DOMAIN events.pending \in SUBSET (1 .. Len(ledger)) /\ Len(ledger) \in Nat
    BY <1>9, TypeFacts
  <2>3. IsFiniteSet(DOMAIN events.pending)
    BY <2>2, UpTo, FS_Subset
  <2>4. Cardinality(DOMAIN events.pending) \in Nat
    BY <2>3, FS_CardinalityType
  <2>5. MaxPending \in Nat
    BY LoadAssumption
  <2>6. Full(noted, b) =>
           b \notin DOMAIN events.pending /\ Cardinality(DOMAIN events.pending) >= MaxPending
    BY <1>6, Zenon DEF Full
  <2> QED
    BY <2>1, <2>4, <2>5, <2>6
<1>12. CASE streams # 0
  <2>a. PICK y : y = Known(noted, b)
    OBVIOUS
  <2>1. /\ y \in Entries /\ \A a \in y.fresh : a \in Nat /\ ledger[b] <= a
        /\ y.seen = Read(b) \/ b \in Acknowledged
    <3>1. Pending
      BY DEF Steady
    <3>2. /\ y \in Entries /\ \A a \in y.fresh : a \in Nat /\ ledger[b] <= a
          /\ \/ Read(b) = Connected /\ b \in Acknowledged
             \/ /\ y.seen = Read(b) /\ (y.acked <=> b \in Acknowledged)
                /\ y.acked => y.start = ledger[b]
      <4>1. Typed /\ b \in DOMAIN ledger /\ IsBook(noted) /\ noted.pending = events.pending
        BY <1>1, <1>5, <1>6
      <4> QED
        BY ONLY <4>1, <3>1, <2>a, KnownOf
    <3> QED
      BY ONLY <3>2
  <2>2. entry.acked /\ entry.start = k /\ entry.seen = Read(b) /\ entry.fresh = y.fresh
    <3>1. entry = [y EXCEPT !.acked = TRUE, !.start = k]
      BY ONLY <2>a, <1>b DEF AckedEntry
    <3> QED
      BY ONLY <3>1, <2>1, <1>2 DEF Entries
  <2>3. Read(b) \in SUBSET Connected
    BY DEF Read
  <2>4. /\ ~ n.raised /\ m.last = noted.last
        /\ m.floor = noted.floor /\ m.max = noted.max /\ m.ahead = noted.ahead
        /\ DOMAIN m.pending \subseteq DOMAIN ledger
        /\ \A j : j # b => (j \in DOMAIN m.pending <=> j \in DOMAIN events.pending)
        /\ \A j \in DOMAIN m.pending : j # b => m.pending[j] = events.pending[j]
        /\ \/ b \notin DOMAIN m.pending /\ entry.seen = Connected
           \/ /\ b \in DOMAIN m.pending /\ ~ (entry.acked /\ entry.seen = Connected)
              /\ m.pending[b].acked = entry.acked /\ m.pending[b].start = entry.start
              /\ m.pending[b].seen = entry.seen /\ m.pending[b].fresh \subseteq entry.fresh
    <3>1. Pending
      BY DEF Steady
    <3>2. \A a \in entry.fresh : ledger[b] <= a
      BY <2>1, <2>2
    <3>3. entry.acked /\ entry.start = ledger[b] /\ entry.seen \in SUBSET Connected
      BY <2>2, <2>3, <1>1
    <3>4. /\ Typed /\ Faultless /\ b \in DOMAIN ledger /\ IsBook(noted)
          /\ noted.pending = events.pending /\ entry \in Entries
          /\ n = Reconcile(noted, b, entry)
      BY <1>1, <1>5, <1>6, <1>11, <1>12
    <3>5. /\ ~ n.raised /\ n.events.last = noted.last
          /\ n.events.floor = noted.floor /\ n.events.max = noted.max /\ n.events.ahead = noted.ahead
      BY ONLY <3>1, <3>2, <3>3, <3>4, ReconcileIsFair
    <3>6. DOMAIN n.events.pending \subseteq DOMAIN ledger
      BY ONLY <3>1, <3>2, <3>3, <3>4, ReconcileIsFair
    <3>7. \A j : j # b => (j \in DOMAIN n.events.pending <=> j \in DOMAIN events.pending)
      BY ONLY <3>1, <3>2, <3>3, <3>4, ReconcileIsFair
    <3>8. \A j \in DOMAIN n.events.pending : j # b => n.events.pending[j] = events.pending[j]
      BY ONLY <3>1, <3>2, <3>3, <3>4, ReconcileIsFair
    <3>9. b \notin DOMAIN n.events.pending => entry.acked /\ entry.seen = Connected
      BY ONLY <3>1, <3>2, <3>3, <3>4, ReconcileIsFair
    <3>10. b \in DOMAIN n.events.pending =>
              /\ ~ (entry.acked /\ entry.seen = Connected)
              /\ LET now == n.events.pending[b] IN
                 /\ now.acked = entry.acked /\ now.start = entry.start /\ now.seen = entry.seen
                 /\ now.fresh \subseteq entry.fresh
      BY ONLY <3>1, <3>2, <3>3, <3>4, ReconcileIsFair
    <3>11. m = n.events
      OBVIOUS
    <3> QED
      BY ONLY <3>5, <3>6, <3>7, <3>8, <3>9, <3>10, <3>11
  <2>5. /\ b \notin DOMAIN m.pending => Read(b) = Connected
        /\ b \in DOMAIN m.pending => Waits(m.pending[b], b)
    BY ONLY <2>1, <2>2, <2>4, <1>1 DEF Waits
  <2>6. /\ m.last = events.last /\ m.max = Larger(events.max, b)
        /\ 1 .. m.floor \cup m.ahead = Acknowledged \cup {b}
        /\ m.floor + 1 \notin m.ahead /\ \A j \in m.ahead : j > m.floor
    BY ONLY <2>4, <1>6, <1>7, <1>8
  <2> QED
    BY ONLY <2>4, <2>5, <2>6, <1>1, <1>2
<1> QED
  BY <1>10, <1>12

\* The watermarks of the workers that still wait.
LEMMA LoopKeepsWatermarks ==
    ASSUME Typed, Watermarked, NEW w \in Workers, worker' = Loops(w), UNCHANGED <<ledger, looked>>
    PROVE  Watermarked'
<1> SUFFICES ASSUME NEW v \in Workers, NEW j, j = worker'[v].number, worker'[v].at = "waiting"
             PROVE  /\ worker'[v].watermark <= Len(ledger)
                    /\ looked[j].done /\ ~ IsWrite(j) => worker'[v].watermark <= looked[j].balance
  BY DEF Watermarked
<1>1. worker'[v] = worker[v]
  BY LoopsFacts
<1> QED
  BY <1>1 DEF Watermarked

\* The books after an answer.
LEMMA ReadStaysSteady ==
    ASSUME Typed, Scheduled, Faultless, Steady, NEW w \in Workers, worker[w].at = "waiting",
           NEW k, k = worker[w].number, answer[k] # Service!NotYet, ~ IsWrite(k), worker' = Loops(w),
           UNCHANGED <<svars, phase, streams, issued, reader, events, stop, final, cancelled>>
    PROVE  Steady'
<1>1. UNCHANGED <<asks, ledger, looked, answer, delivered, rowsLost>>
  BY DEF svars
<1>2. /\ ~ InFlight(k)' /\ \A j : j # k => (InFlight(j)' <=> InFlight(j))
  BY ReturnedFlight
<1>3. Acknowledged' = Acknowledged /\ Connected' = Connected /\ \A i : Read(i)' = Read(i)
  BY DEF Acknowledged, Connected, Read
<1>4. Watermarked'
  BY <1>1, LoopKeepsWatermarks DEF Steady
<1>5. Exact'
  <2>1. \A i \in DOMAIN ledger : ledger[i] # k
    BY FaultlessParts DEF ForWrites, Issued, Kind
  <2>2. Answered' = Answered
    BY <2>1, <1>1, <1>2 DEF Answered
  <2>3. \A j \in 1 .. issued : InFlight(j)' \/ answer[j] # Service!NotYet
    BY <1>2 DEF Steady, Exact
  <2> QED
    BY <2>2, <2>3, <1>1, <1>3 DEF Steady, Exact
<1>6. Pending'
  BY <1>1, <1>3 DEF Steady, Pending
<1>7. AfterDrain'
  BY <1>1, <1>3 DEF Steady, AfterDrain, Caught
<1> QED
  BY <1>4, <1>5, <1>6, <1>7 DEF Steady

LEMMA WriteStaysSteady ==
    ASSUME Typed, Scheduled, Faultless, Steady, MaxPending >= RequestCount,
           NEW w \in Workers, worker[w].at = "waiting", phase = "workload",
           NEW k, k = worker[w].number, answer[k] # Service!NotYet, IsWrite(k), worker' = Loops(w),
           NEW b, b = looked[k].balance, events' = Acknowledge(events, b, k).events,
           UNCHANGED <<svars, phase, streams, issued, reader, stop, final, cancelled>>
    PROVE  Steady'
<1> PICK n, m : n = Acknowledge(events, b, k) /\ m = n.events
  OBVIOUS
<1>1. UNCHANGED <<asks, ledger, looked, answer, delivered, rowsLost>> /\ events' = m
  BY DEF svars
<1>2. /\ ~ InFlight(k)' /\ \A j : j # k => (InFlight(j)' <=> InFlight(j))
  BY ReturnedFlight
<1>a. /\ Typed /\ Scheduled /\ Faultless /\ Steady /\ MaxPending >= RequestCount
      /\ w \in Workers /\ worker[w].at = "waiting"
      /\ k = worker[w].number /\ answer[k] # Service!NotYet /\ IsWrite(k)
      /\ b = looked[k].balance /\ n = Acknowledge(events, b, k) /\ m = n.events
  OBVIOUS
<1>3. /\ b \in DOMAIN ledger /\ ledger[b] = k /\ b \notin Acknowledged
      /\ m.last = events.last /\ m.max = Larger(events.max, b)
      /\ 1 .. m.floor \cup m.ahead = Acknowledged \cup {b}
      /\ m.floor + 1 \notin m.ahead /\ \A j \in m.ahead : j > m.floor
  BY ONLY <1>a, WriteIsAcknowledged
<1>4. /\ DOMAIN m.pending \subseteq DOMAIN ledger
      /\ \A j : j # b => (j \in DOMAIN m.pending <=> j \in DOMAIN events.pending)
      /\ \A j \in DOMAIN m.pending : j # b => m.pending[j] = events.pending[j]
  BY ONLY <1>a, WriteIsAcknowledged
<1>5. /\ b \notin DOMAIN m.pending => Read(b) = Connected
      /\ b \in DOMAIN m.pending => Waits(m.pending[b], b)
  BY ONLY <1>a, WriteIsAcknowledged
<1>6. Connected' = Connected /\ \A i : Read(i)' = Read(i)
  BY <1>1, <1>3 DEF Connected, Read
<1>7. Acknowledged' = Acknowledged \cup {b}
  BY <1>1, <1>3 DEF Acknowledged
<1>8. Watermarked'
  BY <1>1, LoopKeepsWatermarks DEF Steady
<1>9. Exact'
  <2>1. \A i \in DOMAIN ledger : ledger[i] = k => i = b
    BY <1>3, FaultlessParts DEF Once
  <2>2. Answered' = Answered \cup {b}
    <3> SUFFICES ASSUME NEW i \in DOMAIN ledger
                 PROVE  i \in Answered' <=> i \in Answered \/ i = b
      BY <1>1, <1>3 DEF Answered
    <3> PICK j : j = ledger[i]
      OBVIOUS
    <3>1. i \in Answered' <=> answer[j] # Service!NotYet /\ ~ InFlight(j)'
      BY <1>1 DEF Answered
    <3>2. i \in Answered <=> answer[j] # Service!NotYet /\ ~ InFlight(j)
      BY DEF Answered
    <3>3. i = b <=> j = k
      BY <2>1, <1>3
    <3> QED
      BY <3>1, <3>2, <3>3, <1>2
  <2>3. \A j \in 1 .. issued : InFlight(j)' \/ answer[j] # Service!NotYet
    BY <1>2 DEF Steady, Exact
  <2>4. /\ \A i \in Acknowledged \cup {b} : i <= m.max
        /\ m.max \in Acknowledged \cup {b} \cup {0}
    <3>1. /\ events.max \in Nat /\ b \in Nat /\ \A i \in Acknowledged : i \in Nat /\ i <= events.max
          /\ events.max \in Acknowledged \cup {0}
      <4>1. Exact
        BY DEF Steady
      <4>2. Acknowledged \subseteq DOMAIN ledger /\ events.max \in Nat
        BY <4>1, AcknowledgedIsApplied
      <4>3. DOMAIN ledger \subseteq Nat
        BY TypeFacts
      <4> QED
        BY <4>1, <4>2, <4>3, <1>3 DEF Exact
    <3>2. m.max = IF events.max > b THEN events.max ELSE b
      BY <1>3 DEF Larger
    <3> QED
      BY ONLY <3>1, <3>2
  <2>5. Acknowledged' = Answered'
    BY <2>2, <1>7 DEF Steady, Exact
  <2> QED
    BY <2>3, <2>4, <2>5, <1>1, <1>3, <1>7 DEF Exact
<1>10. Pending'
  <2>1. /\ \A s \in Connected :
              /\ events.last[s] = reader[s].read /\ reader[s].read <= Len(delivered[s])
              /\ reader[s].at = IF phase = "startup" THEN "none" ELSE "reading"
        /\ \A i \in DOMAIN events.pending : Says(events.pending[i], i)
        /\ \A i \in DOMAIN ledger \ DOMAIN events.pending : Clear(i)
    BY PendingParts DEF Steady
  <2>2. ASSUME NEW i \in DOMAIN m.pending
        PROVE  /\ m.pending[i].acked <=> i \in Acknowledged \cup {b}
               /\ m.pending[i].acked => m.pending[i].start = ledger[i]
               /\ m.pending[i].seen = Read(i)
               /\ \A a \in m.pending[i].fresh : ledger[i] <= a
               /\ m.pending[i].acked \/ m.pending[i].seen # {}
               /\ ~ (m.pending[i].acked /\ m.pending[i].seen = Connected)
    <3>1. CASE i = b
      BY <3>1, <1>5 DEF Waits
    <3>2. CASE i # b
      <4>1. Says(m.pending[i], i)
        BY <3>2, <2>1, <1>4
      <4> QED
        BY <4>1, <3>2 DEF Says
    <3> QED
      BY <3>1, <3>2
  <2>3. ASSUME NEW i \in DOMAIN ledger \ DOMAIN m.pending
        PROVE  \/ i \notin Acknowledged \cup {b} /\ Read(i) = {}
               \/ i \in Acknowledged \cup {b} /\ Read(i) = Connected
    <3>1. CASE i = b
      BY <3>1, <1>5
    <3>2. CASE i # b
      <4>1. Clear(i)
        BY <3>2, <2>1, <1>4
      <4> QED
        BY <4>1, <3>2 DEF Clear
    <3> QED
      BY <3>1, <3>2
  <2> QED
    <3>1. DOMAIN m.pending \subseteq DOMAIN ledger
      BY <1>4
    <3>2. \A s \in Connected :
             /\ m.last[s] = reader[s].read /\ reader[s].read <= Len(delivered[s])
             /\ reader[s].at = IF phase = "startup" THEN "none" ELSE "reading"
      BY <2>1, <1>3
    <3>3. \A i \in DOMAIN m.pending :
             /\ m.pending[i].acked <=> i \in Acknowledged'
             /\ m.pending[i].acked => m.pending[i].start = ledger[i]
             /\ m.pending[i].seen = Read(i)'
             /\ \A a \in m.pending[i].fresh : ledger[i] <= a
             /\ m.pending[i].acked \/ m.pending[i].seen # {}
             /\ ~ (m.pending[i].acked /\ m.pending[i].seen = Connected')
      BY <2>2, <1>6, <1>7
    <3>4. \A i \in DOMAIN ledger \ DOMAIN m.pending :
             \/ i \notin Acknowledged' /\ Read(i)' = {}
             \/ i \in Acknowledged' /\ Read(i)' = Connected'
      BY <2>3, <1>6, <1>7
    <3>5. Connected' = Connected /\ ledger' = ledger /\ delivered' = delivered /\ events' = m
          /\ reader' = reader /\ phase' = phase
      BY <1>1, <1>6
    <3> QED
      BY ONLY <3>1, <3>2, <3>3, <3>4, <3>5 DEF Pending
<1>11. AfterDrain'
  BY DEF AfterDrain
<1> QED
  BY <1>8, <1>9, <1>10, <1>11 DEF Steady

LEMMA RespondStaysCalm ==
    ASSUME Typed, Scheduled, Tallied, Calm, MaxPending >= RequestCount, NEW w \in Workers, Respond(w)
    PROVE  Calm'
<1> PICK k : k = worker[w].number
  OBVIOUS
<1> PICK b : b = looked[k].balance
  OBVIOUS
<1>1. /\ worker[w].at = "waiting" /\ answer[k] # Service!NotYet
      /\ events' = Heard(w) /\ (Accepts(w) => UNCHANGED <<errors, stop>>) /\ worker' = Loops(w)
      /\ UNCHANGED <<svars, phase, streams, issued, reader, final, cancelled>>
  BY RespondParts
<1>2. phase = "workload"
  BY <1>1, LoopsFacts, ScheduledAfterLoop
<1>3. Faultless /\ Steady /\ errors = {}
  BY <1>2 DEF Calm, Running
<1>4. Faultless'
  BY <1>1, <1>3, FaultlessStays
<1>5. /\ answer[k].status = "ok" /\ answer[k].balance = b
      /\ IsWrite(k) => b > 0
  BY <1>1, <1>3, AnswerIsTrue
<1>6. CASE ~ IsWrite(k)
  <2>1. Accepts(w) /\ Heard(w) = events
    BY <1>1, <1>3, <1>6, ReadIsPlausible
  <2>2. events' = events /\ errors' = {} /\ stop' = stop
    BY <2>1, <1>1, <1>3
  <2>3. Steady'
    BY <2>2, <1>1, <1>3, <1>6, ReadStaysSteady
  <2> QED
    BY <2>2, <2>3, <1>4 DEF Calm
<1>7. CASE IsWrite(k)
  <2>1. ~ Acknowledge(events, b, k).raised
    BY <1>1, <1>3, <1>7, WriteIsAcknowledged
  <2>2. Accepts(w) /\ Heard(w) = Acknowledge(events, b, k).events
    BY <2>1, <1>5, <1>7 DEF Accepts, Heard
  <2>3. events' = Acknowledge(events, b, k).events /\ errors' = {} /\ stop' = stop
    BY <2>2, <1>1, <1>3
  <2>4. Steady'
    BY <2>3, <1>1, <1>2, <1>3, <1>7, WriteStaysSteady
  <2> QED
    BY <2>3, <2>4, <1>4 DEF Calm
<1> QED
  BY <1>6, <1>7

\* The entry of an event that has now arrived on stream s too.
Arrived(entry, i, s) ==
    /\ entry.acked <=> i \in Acknowledged
    /\ entry.acked => entry.start = ledger[i]
    /\ entry.seen = Read(i) \cup {s}
    /\ \A a \in entry.fresh : ledger[i] <= a
    /\ ~ (entry.acked /\ entry.seen = Connected)

\* The entries of p are those of q, but for event i's.
SameBut(p, q, i) ==
    \A j : j # i => (j \in DOMAIN p <=> j \in DOMAIN q) /\ (j \in DOMAIN p => p[j] = q[j])

\* What a stream shows next is the next event of the ledger, and new to the stream.
LEMMA NextEvent ==
    ASSUME Typed, Scheduled, Faultless, Steady, phase \in Running,
           NEW s \in Connected, ReadFrame(s), NEW i, i = reader[s].read + 1
    PROVE  /\ i \in DOMAIN ledger /\ s \in StreamIds /\ phase \in {"workload", "drain"}
           /\ delivered[s][i] = [id |-> i, balance |-> i] /\ i = events.last[s] + 1
           /\ i \in Nat /\ events.last[s] \in Nat /\ s \notin Read(i) /\ i <= Len(delivered[s])
<1>1. s \in StreamIds /\ s \in Everyone
  BY TypeFacts DEF Everyone
<1>2. /\ reader[s].read \in Nat /\ reader[s].read < Len(delivered[s]) /\ Len(delivered[s]) \in Nat
      /\ reader[s].at = "reading"
  BY <1>1, TypeFacts DEF ReadFrame, Readers
<1>3. Len(delivered[s]) <= Len(ledger) /\ delivered[s] = Service!History(Len(delivered[s]))
  BY <1>1, FaultlessParts DEF InOrder
<1>4. Len(ledger) \in Nat /\ DOMAIN ledger = 1 .. Len(ledger)
  BY TypeFacts
<1>5. events.last[s] = reader[s].read
  BY DEF Steady, Pending
<1>6. i \in 1 .. Len(delivered[s]) /\ i \in DOMAIN ledger /\ i \in Nat
  BY <1>2, <1>3, <1>4
<1>7. delivered[s][i] = [id |-> i, balance |-> i]
  BY <1>2, <1>3, <1>6, HistoryIsSent
<1>8. s \notin Read(i)
  BY <1>2, <1>5 DEF Read
<1>9. phase # "startup"
  BY <1>2 DEF Steady, Pending
<1>10. phase # "check"
  <2>1. phase = "check" => events.last[s] = events.max /\ events.max = Len(ledger)
    BY Drained DEF Steady, AfterDrain, Caught
  <2> QED
    BY <2>1, <1>2, <1>3, <1>4, <1>5
<1> QED
  BY <1>1, <1>2, <1>5, <1>6, <1>7, <1>8, <1>9, <1>10 DEF Running

LEMMA FrameIsFair ==
    ASSUME Typed, Scheduled, Faultless, Steady, MaxPending >= RequestCount, phase \in Running,
           NEW s \in Connected, ReadFrame(s), NEW i, i = reader[s].read + 1,
           NEW n, n = Frame(events, s, delivered[s][i], issued), NEW m, m = n.events
    PROVE  /\ ~ n.raised /\ m.last = [events.last EXCEPT ![s] = i]
           /\ m.floor = events.floor /\ m.max = events.max /\ m.ahead = events.ahead
           /\ DOMAIN m.pending \subseteq DOMAIN ledger
           /\ SameBut(m.pending, events.pending, i)
           /\ i \notin DOMAIN m.pending => i \in Acknowledged /\ Read(i) \cup {s} = Connected
           /\ i \in DOMAIN m.pending => Arrived(m.pending[i], i, s)
<1>1. /\ i \in DOMAIN ledger /\ s \in StreamIds
      /\ delivered[s][i] = [id |-> i, balance |-> i] /\ i = events.last[s] + 1
      /\ i \in Nat /\ s \notin Read(i)
  BY NextEvent, Zenon
<1>2. IsBook(events) /\ issued \in Nat /\ ledger[i] \in Numbers /\ ledger[i] \in Nat /\ Pending
  BY <1>1, TypeFacts DEF Typed, Steady, Numbers
<1>3. ledger[i] <= issued
  BY <1>1, <1>2, FaultlessParts DEF ForWrites, Issued
<1>a. PICK noted : noted = ReadUp(events, s, i)
  OBVIOUS
<1>b. PICK entry : entry = SeenEntry(noted, i, s, issued)
  OBVIOUS
<1>c. PICK y : y = Known(noted, i)
  OBVIOUS
<1>4. /\ IsBook(noted) /\ noted.last = [events.last EXCEPT ![s] = i] /\ noted.pending = events.pending
      /\ noted.floor = events.floor /\ noted.max = events.max /\ noted.ahead = events.ahead
  BY ONLY <1>1, <1>2, <1>a, ReadUpFacts
<1>5. n = IF Full(noted, i) THEN [events |-> noted, raised |-> TRUE] ELSE Reconcile(noted, i, entry)
  <2>1. delivered[s][i].id = i /\ delivered[s][i].balance = i
    BY <1>1
  <2> QED
    BY <2>1, <1>1, <1>a, <1>b DEF Frame, ReadUp, SeenEntry
<1>6. DOMAIN events.pending \subseteq DOMAIN ledger
  BY <1>2, PendingParts
<1>7. ~ Full(noted, i)
  <2>1. i \notin DOMAIN events.pending => Cardinality(DOMAIN events.pending) < MaxPending
    BY <1>1, <1>6, Room
  <2>2. DOMAIN events.pending \in SUBSET (1 .. Len(ledger)) /\ Len(ledger) \in Nat
    BY <1>6, TypeFacts
  <2>3. IsFiniteSet(DOMAIN events.pending)
    BY <2>2, UpTo, FS_Subset
  <2>4. Cardinality(DOMAIN events.pending) \in Nat
    BY <2>3, FS_CardinalityType
  <2>5. MaxPending \in Nat
    BY LoadAssumption
  <2>6. Full(noted, i) =>
           i \notin DOMAIN events.pending /\ Cardinality(DOMAIN events.pending) >= MaxPending
    BY <1>4, Zenon DEF Full
  <2> QED
    BY <2>1, <2>4, <2>5, <2>6
<1>8. n = Reconcile(noted, i, entry)
  BY <1>5, <1>7
<1>9. /\ y \in Entries /\ \A a \in y.fresh : a \in Nat /\ ledger[i] <= a
      /\ y.seen = Read(i) /\ (y.acked <=> i \in Acknowledged)
      /\ y.acked => y.start = ledger[i]
  <2>1. /\ y \in Entries /\ \A a \in y.fresh : a \in Nat /\ ledger[i] <= a
        /\ \/ Read(i) = Connected /\ i \in Acknowledged
           \/ /\ y.seen = Read(i) /\ (y.acked <=> i \in Acknowledged)
              /\ y.acked => y.start = ledger[i]
    <3>1. Typed /\ i \in DOMAIN ledger /\ Pending /\ IsBook(noted) /\ noted.pending = events.pending
      BY <1>1, <1>2, <1>4
    <3> QED
      BY ONLY <3>1, <1>c, KnownOf
  <2>2. Read(i) # Connected
    BY <1>1
  <2> QED
    BY ONLY <2>1, <2>2
<1>10. /\ entry \in Entries /\ entry.acked = y.acked /\ entry.start = y.start
       /\ entry.seen = Read(i) \cup {s} /\ entry.fresh = y.fresh \cup {issued}
  <2>1. entry = [y EXCEPT !.seen = @ \cup {s}, !.fresh = @ \cup {issued}]
    BY ONLY <1>b, <1>c DEF SeenEntry
  <2> QED
    BY ONLY <2>1, <1>1, <1>2, <1>9 DEF Entries
<1>11. /\ entry.acked <=> i \in Acknowledged
       /\ entry.acked => entry.start = ledger[i]
  BY ONLY <1>9, <1>10
<1>12. \A a \in entry.fresh : ledger[i] <= a
  BY ONLY <1>3, <1>9, <1>10
<1>13. /\ Typed /\ Faultless /\ Pending /\ i \in DOMAIN ledger /\ IsBook(noted)
       /\ noted.pending = events.pending /\ entry \in Entries /\ n = Reconcile(noted, i, entry)
       /\ (entry.acked \/ entry.seen # {}) /\ entry.seen \in SUBSET Connected
  BY <1>1, <1>2, <1>4, <1>8, <1>10 DEF Read
<1>14. /\ ~ n.raised /\ n.events.last = noted.last
       /\ n.events.floor = noted.floor /\ n.events.max = noted.max /\ n.events.ahead = noted.ahead
  BY ONLY <1>11, <1>12, <1>13, ReconcileIsFair
<1>15. DOMAIN n.events.pending \subseteq DOMAIN ledger
  BY ONLY <1>11, <1>12, <1>13, ReconcileIsFair
<1>16. \A j : j # i => (j \in DOMAIN n.events.pending <=> j \in DOMAIN events.pending)
  BY ONLY <1>11, <1>12, <1>13, ReconcileIsFair
<1>17. \A j \in DOMAIN n.events.pending : j # i => n.events.pending[j] = events.pending[j]
  BY ONLY <1>11, <1>12, <1>13, ReconcileIsFair
<1>18. i \notin DOMAIN n.events.pending => entry.acked /\ entry.seen = Connected
  BY ONLY <1>11, <1>12, <1>13, ReconcileIsFair
<1>19. i \in DOMAIN n.events.pending =>
          /\ ~ (entry.acked /\ entry.seen = Connected)
          /\ LET now == n.events.pending[i] IN
             /\ now.acked = entry.acked /\ now.start = entry.start /\ now.seen = entry.seen
             /\ now.fresh \subseteq entry.fresh
  BY ONLY <1>11, <1>12, <1>13, ReconcileIsFair
<1>20. i \in DOMAIN n.events.pending => Arrived(n.events.pending[i], i, s)
  BY ONLY <1>10, <1>11, <1>12, <1>19 DEF Arrived
<1>21. m = n.events /\ SameBut(n.events.pending, events.pending, i)
  BY <1>16, <1>17 DEF SameBut
<1> QED
  BY ONLY <1>4, <1>10, <1>11, <1>14, <1>15, <1>18, <1>20, <1>21

LEMMA ReadFrameStaysCalm ==
    ASSUME Typed, Scheduled, Calm, MaxPending >= RequestCount, NEW s \in Connected, ReadFrame(s)
    PROVE  Calm'
<1> PICK i : i = reader[s].read + 1
  OBVIOUS
<1> PICK n, m : n = Frame(events, s, delivered[s][i], issued) /\ m = n.events
  OBVIOUS
<1>1. /\ UNCHANGED <<svars, phase, streams, worker, issued, final, cancelled>>
      /\ UNCHANGED <<asks, ledger, looked, answer, delivered, rowsLost>>
      /\ events' = m /\ reader[s].at = "reading"
      /\ ~ n.raised => UNCHANGED <<errors, stop>> /\ reader' = [reader EXCEPT ![s].read = i]
  BY DEF ReadFrame, svars
<1>2. s \in StreamIds /\ phase \in Running
  <2>1. s \in StreamIds
    BY TypeFacts
  <2> QED
    BY <2>1, <1>1 DEF Scheduled, Typed, Phases, Running
<1>3. Faultless /\ Steady /\ errors = {}
  BY <1>2 DEF Calm
<1>4. /\ i \in DOMAIN ledger /\ phase \in {"workload", "drain"}
      /\ i = events.last[s] + 1 /\ i \in Nat /\ events.last[s] \in Nat
      /\ s \notin Read(i) /\ i <= Len(delivered[s])
  BY <1>2, <1>3, NextEvent
<1>a. /\ Typed /\ Scheduled /\ Faultless /\ Steady /\ MaxPending >= RequestCount /\ phase \in Running
      /\ s \in Connected /\ ReadFrame(s) /\ i = reader[s].read + 1
      /\ n = Frame(events, s, delivered[s][i], issued) /\ m = n.events
  BY <1>2, <1>3
<1>5. /\ ~ n.raised /\ m.last = [events.last EXCEPT ![s] = i]
      /\ m.floor = events.floor /\ m.max = events.max /\ m.ahead = events.ahead
  BY ONLY <1>a, FrameIsFair
<1>6. /\ DOMAIN m.pending \subseteq DOMAIN ledger
      /\ \A j : j # i => (j \in DOMAIN m.pending <=> j \in DOMAIN events.pending)
      /\ \A j \in DOMAIN m.pending : j # i => m.pending[j] = events.pending[j]
  <2>1. DOMAIN m.pending \subseteq DOMAIN ledger
    BY ONLY <1>a, FrameIsFair
  <2>2. SameBut(m.pending, events.pending, i)
    BY ONLY <1>a, FrameIsFair
  <2> QED
    BY <2>1, <2>2 DEF SameBut
<1>7. /\ i \notin DOMAIN m.pending => i \in Acknowledged /\ Read(i) \cup {s} = Connected
      /\ i \in DOMAIN m.pending => Arrived(m.pending[i], i, s)
  BY ONLY <1>a, FrameIsFair
<1>8. errors' = {} /\ stop' = stop /\ reader' = [reader EXCEPT ![s].read = i]
  BY <1>1, <1>3, <1>5
<1>9. /\ reader'[s].at = reader[s].at /\ reader'[s].read = i
      /\ \A z \in StreamIds : z # s => reader'[z] = reader[z]
  BY <1>2, <1>8, FrameOf DEF Typed
<1>10. /\ events.last \in [StreamIds -> Nat] /\ m.last[s] = i
       /\ \A z \in StreamIds : z # s => m.last[z] = events.last[z]
  BY <1>2, <1>5, BookParts DEF Typed
<1>11. /\ Acknowledged' = Acknowledged /\ Connected' = Connected
       /\ \A k : InFlight(k)' <=> InFlight(k)
  BY <1>1, <1>5 DEF Acknowledged, Connected, InFlight
<1>12. /\ Read(i)' = Read(i) \cup {s}
       /\ \A j \in DOMAIN ledger : j # i => Read(j)' = Read(j)
  <2>1. Connected \subseteq StreamIds
    BY TypeFacts
  <2>2. \A j : Read(j)' = {z \in Connected : m.last[z] >= j}
    BY <1>1, <1>11 DEF Read
  <2>3. ASSUME NEW j \in DOMAIN ledger
        PROVE  Read(j)' = IF j = i THEN Read(j) \cup {s} ELSE Read(j)
    <3>1. j \in Nat
      BY TypeFacts
    <3>2. \A z \in Connected : z # s => m.last[z] = events.last[z]
      BY <2>1, <1>10
    <3>3. m.last[s] >= j <=> j = i \/ events.last[s] >= j
      BY <3>1, <1>4, <1>10
    <3> QED
      BY <3>2, <3>3, <2>2 DEF Read
  <2>5. Read(i)' = Read(i) \cup {s}
    BY <2>3, <1>4, Zenon
  <2>6. \A j \in DOMAIN ledger : j # i => Read(j)' = Read(j)
    BY <2>3, Zenon
  <2> QED
    BY <2>5, <2>6
<1>13. Faultless'
  BY <1>1, <1>3, FaultlessStays
<1>14. Watermarked' /\ AfterDrain'
  BY <1>1, <1>3, <1>4, WatermarksStay DEF Steady, AfterDrain
<1>15. Exact'
  BY <1>1, <1>3, <1>5, <1>11 DEF Steady, Exact, Answered
<1>16. Pending'
  <2>1. /\ \A z \in Connected :
              /\ events.last[z] = reader[z].read /\ reader[z].read <= Len(delivered[z])
              /\ reader[z].at = IF phase = "startup" THEN "none" ELSE "reading"
        /\ \A j \in DOMAIN events.pending : Says(events.pending[j], j)
        /\ \A j \in DOMAIN ledger \ DOMAIN events.pending : Clear(j)
    BY <1>3, PendingParts DEF Steady
  <2>2. \A z \in Connected :
           /\ m.last[z] = reader'[z].read /\ reader'[z].read <= Len(delivered[z])
           /\ reader'[z].at = IF phase = "startup" THEN "none" ELSE "reading"
    <3> SUFFICES ASSUME NEW z \in Connected
                 PROVE  /\ m.last[z] = reader'[z].read /\ reader'[z].read <= Len(delivered[z])
                        /\ reader'[z].at = IF phase = "startup" THEN "none" ELSE "reading"
      OBVIOUS
    <3>1. z \in StreamIds
      BY TypeFacts
    <3>2. CASE z = s
      BY <3>2, <2>1, <1>4, <1>9, <1>10
    <3>3. CASE z # s
      BY <3>1, <3>3, <2>1, <1>9, <1>10
    <3> QED
      BY <3>2, <3>3
  <2>3. \A j \in DOMAIN m.pending :
           /\ m.pending[j].acked <=> j \in Acknowledged'
           /\ m.pending[j].acked => m.pending[j].start = ledger[j]
           /\ m.pending[j].seen = Read(j)'
           /\ \A a \in m.pending[j].fresh : ledger[j] <= a
           /\ m.pending[j].acked \/ m.pending[j].seen # {}
           /\ ~ (m.pending[j].acked /\ m.pending[j].seen = Connected')
    <3> SUFFICES ASSUME NEW j \in DOMAIN m.pending
                 PROVE  /\ m.pending[j].acked <=> j \in Acknowledged
                        /\ m.pending[j].acked => m.pending[j].start = ledger[j]
                        /\ m.pending[j].seen = Read(j)'
                        /\ \A a \in m.pending[j].fresh : ledger[j] <= a
                        /\ m.pending[j].acked \/ m.pending[j].seen # {}
                        /\ ~ (m.pending[j].acked /\ m.pending[j].seen = Connected)
      BY <1>11
    <3> PICK y : y = m.pending[j]
      OBVIOUS
    <3>1. CASE j = i
      BY <3>1, <1>7, <1>12 DEF Arrived
    <3>2. CASE j # i
      <4>1. j \in DOMAIN events.pending /\ y = events.pending[j] /\ j \in DOMAIN ledger
        BY <3>2, <1>6
      <4>2. Says(y, j) /\ Read(j)' = Read(j)
        BY <4>1, <3>2, <2>1, <1>12
      <4> QED
        BY <4>2 DEF Says
    <3> QED
      BY <3>1, <3>2
  <2>4. \A j \in DOMAIN ledger \ DOMAIN m.pending :
           \/ j \notin Acknowledged' /\ Read(j)' = {}
           \/ j \in Acknowledged' /\ Read(j)' = Connected'
    <3> SUFFICES ASSUME NEW j \in DOMAIN ledger \ DOMAIN m.pending
                 PROVE  \/ j \notin Acknowledged /\ Read(j)' = {}
                        \/ j \in Acknowledged /\ Read(j)' = Connected
      BY <1>11
    <3>1. CASE j = i
      BY <3>1, <1>7, <1>12
    <3>2. CASE j # i
      <4>1. Clear(j) /\ Read(j)' = Read(j)
        BY <3>2, <2>1, <1>6, <1>12
      <4> QED
        BY <4>1 DEF Clear
    <3> QED
      BY <3>1, <3>2
  <2>5. /\ Connected' = Connected /\ ledger' = ledger /\ delivered' = delivered /\ events' = m
        /\ phase' = phase /\ DOMAIN m.pending \subseteq DOMAIN ledger
    BY <1>1, <1>6, <1>11
  <2> QED
    BY ONLY <2>2, <2>3, <2>4, <2>5 DEF Pending
<1> QED
  BY <1>1, <1>3, <1>8, <1>13, <1>14, <1>15, <1>16 DEF Calm, Steady

----------------------------------------------------------------------------
(* Nobody is accused: the invariant.                                         *)

\* As long as nothing went wrong, and the books have room for every request.
Unaccused == faults = 0 /\ MaxPending >= RequestCount => Calm

LEMMA CalmInit == Init => Calm
<1> SUFFICES ASSUME Init PROVE Calm
  OBVIOUS
<1>1. /\ rowsLost = 0 /\ issued = 0 /\ phase = "startup" /\ errors = {} /\ ~ stop /\ ~ cancelled
      /\ events.floor = 0 /\ events.max = 0 /\ events.ahead = {} /\ events.pending = <<>>
      /\ events.last = [s \in StreamIds |-> 0]
      /\ reader = [s \in StreamIds |-> [at |-> "none", read |-> 0]]
      /\ \A w \in Workers : worker[w].at = "none"
  BY DEF Init
<1>2. /\ ledger = [i \in 1 .. 0 |-> "none"] /\ DOMAIN ledger = {} /\ Len(ledger) = 0
      /\ \A k \in Numbers : ~ looked[k].done /\ answer[k] = Service!NotYet
      /\ \A s \in StreamIds : delivered[s] = <<>>
  BY DEF Init, Service!ContractInit, Service!Unseen
<1>3. Faultless
  <2>1. \A s \in StreamIds : Len(delivered[s]) <= 0 /\ delivered[s] = Service!History(0)
    <3>1. Service!History(0) = <<>>
      BY DEF Service!History
    <3> QED
      BY <1>2, <3>1
  <2>2. \A s \in StreamIds :
            Len(delivered[s]) <= Len(ledger) /\ delivered[s] = Service!History(Len(delivered[s]))
    BY <1>2, <2>1
  <2> QED
    BY ONLY <1>1, <1>2, <2>2 DEF Faultless
<1>4. Watermarked /\ AfterDrain
  BY <1>1 DEF Watermarked, AfterDrain
<1>5. Acknowledged = {} /\ Answered = {}
  BY <1>1, <1>2 DEF Acknowledged, Answered
<1>6. Exact
  <2>1. \A k \in 1 .. issued : FALSE
    BY <1>1
  <2> QED
    BY <1>1, <1>5, <2>1 DEF Exact
<1>7. Pending
  <2>1. Connected \subseteq StreamIds
    BY LoadAssumption DEF Init, Connected, StreamIds
  <2>2. DOMAIN events.pending = {}
    BY <1>1
  <2>3. \A s \in Connected :
            /\ events.last[s] = reader[s].read /\ reader[s].read <= Len(delivered[s])
            /\ reader[s].at = IF phase = "startup" THEN "none" ELSE "reading"
    BY <1>1, <1>2, <2>1
  <2> QED
    BY ONLY <1>2, <2>2, <2>3 DEF Pending
<1> QED
  BY ONLY <1>1, <1>3, <1>4, <1>6, <1>7 DEF Calm, Steady

\* What goes wrong is counted, and nothing else touches the count.
LEMMA FaultsAreCounted ==
    ASSUME Typed, [Next]_vars
    PROVE  \/ faults' = faults + 1
           \/ /\ faults' = faults
              /\ \/ Serve \/ Expire \/ Sampling \/ UNCHANGED vars
                 \/ Startup \/ WorkersDone \/ EndDrain \/ Check \/ Cancel \/ JoinTasks \/ CloseAll
                 \/ \E w \in Workers : WorkerReturns(w) \/ Dispatch(w) \/ Respond(w)
                 \/ \E s \in Connected : ReadFrame(s)
<1>1. CASE Serve \/ Misbehave \/ Expire
  BY <1>1 DEF Serve, Misbehave, Expire
<1>2. CASE Run
  BY <1>2 DEF Run, Startup, StartupFails, WorkersDone, EndDrain, Check, Cancel, JoinTasks, CloseAll
<1>3. CASE Sampling
  BY <1>3 DEF Sampling, Sample, Sampled, SamplerReturns
<1>4. CASE \E w \in Workers : Work(w)
  BY <1>4 DEF Work, WorkerReturns, Dispatch, Respond, RequestFails
<1>5. CASE \E s \in Connected : Streaming(s)
  BY <1>5 DEF Streaming, ReadFrame, StreamFails
<1>6. CASE UNCHANGED vars
  BY <1>6 DEF vars
<1> QED
  BY <1>1, <1>2, <1>3, <1>4, <1>5, <1>6 DEF Next, Ended

LEMMA CalmIsKept ==
    ASSUME Typed, Calm, UNCHANGED vars
    PROVE  Calm'
<1>1. Faultless'
  BY FaultlessStays DEF Calm, vars, svars
<1>2. phase \in Running => Steady'
  <2>1. (\A k : InFlight(k)' <=> InFlight(k)) /\ UNCHANGED svars
    BY DEF InFlight, vars, svars
  <2> QED
    BY <2>1, IdleStaysSteady DEF Calm, vars
<1> QED
  BY <1>1, <1>2 DEF Calm, vars

LEMMA UnaccusedStep == Books /\ Unaccused /\ [Next]_vars => Unaccused'
<1> SUFFICES ASSUME Books, Unaccused, [Next]_vars, faults' = 0, MaxPending >= RequestCount
             PROVE  Calm'
  BY DEF Unaccused
<1>t. Typed /\ Watched /\ Scheduled /\ Tallied /\ faults \in Nat
  BY DEF Books, Typed
<1>1. faults' = faults /\ faults = 0
  BY <1>t, FaultsAreCounted
<1>2. Calm
  BY <1>1 DEF Unaccused
<1>3. CASE Serve
  BY <1>t, <1>2, <1>3, ServeStaysCalm
<1>4. CASE Expire \/ Sampling
  BY <1>t, <1>2, <1>4, QuietStaysCalm DEF Sampling
<1>5. CASE Startup \/ WorkersDone \/ EndDrain
  BY <1>t, <1>1, <1>2, <1>5, StartupStaysCalm, WorkersDoneStaysCalm, EndDrainStaysCalm
<1>6. CASE Check \/ Cancel \/ JoinTasks \/ CloseAll
  BY <1>t, <1>2, <1>6, CheckStaysCalm, EndingStaysCalm
<1>7. CASE \E w \in Workers : WorkerReturns(w) \/ Dispatch(w) \/ Respond(w)
  BY <1>t, <1>2, <1>7, QuietStaysCalm, DispatchStaysCalm, RespondStaysCalm
<1>8. CASE \E s \in Connected : ReadFrame(s)
  BY <1>t, <1>2, <1>8, ReadFrameStaysCalm
<1>9. CASE UNCHANGED vars
  BY <1>t, <1>2, <1>9, CalmIsKept
<1>10. faults' # faults + 1
  BY <1>t, <1>1
<1> QED
  BY <1>t, <1>3, <1>4, <1>5, <1>6, <1>7, <1>8, <1>9, <1>10, FaultsAreCounted

\* A service that keeps its contract is never accused by the test, for any
\* number of workers, requests and streams, however its answers and its events
\* overtake each other: run records no error while nothing went wrong and the
\* books of class Events have room for every request.
THEOREM NobodyIsAccused == Spec => []NoFalseAlarm
<1>1. Init => Unaccused
  BY CalmInit DEF Unaccused
<1>2. Unaccused => NoFalseAlarm
  BY DEF Unaccused, Calm, NoFalseAlarm
<1> QED
  BY <1>1, <1>2, BooksInvariant, UnaccusedStep, PTL DEF Spec

----------------------------------------------------------------------------
(* A report that says ok, when at most one thing went wrong.                 *)

\* What was applied, and for whom, as the service remembers it.
Recorded ==
    /\ ForWrites
    /\ \A k \in Numbers : looked[k].done /\ IsWrite(k) =>
          looked[k].balance \in DOMAIN ledger /\ ledger[looked[k].balance] = k

\* An update was not answered falsely, an entry of the ledger was not written twice.
Straight(k) ==
    IsWrite(k) /\ answer[k] # Service!NotYet =>
        looked[k].done /\ answer[k] = [status |-> "ok", balance |-> looked[k].balance]
Meant(i) == looked[ledger[i]].done /\ looked[ledger[i]].balance = i

\* One fault makes one false answer, or an entry too many, and not both.
OneSlip ==
    /\ faults = 0 => (\A k \in Numbers : Straight(k)) /\ (\A i \in DOMAIN ledger : Meant(i))
    /\ faults <= 1 =>
          /\ (\A k \in Numbers : Straight(k)) \/ (\A i \in DOMAIN ledger : Meant(i))
          /\ \A j, k \in Numbers : Straight(j) \/ Straight(k) \/ j = k

\* As long as there is no error: the requests that returned were answered, and
\* the balances of the updates among them are what is acknowledged, once each.
Replied ==
    \A k \in 1 .. issued :
        InFlight(k) \/ (answer[k].status = "ok" /\ (IsWrite(k) => answer[k].balance > 0))
Numbered ==
    /\ \A i \in Acknowledged : \E k \in Returned("write") : answer[k].balance = i
    /\ \A k \in Returned("write") : answer[k].balance \in Acknowledged
    /\ \A j, k \in Returned("write") : answer[j].balance = answer[k].balance => j = k
    /\ events.floor + 1 \notin events.ahead /\ \A j \in events.ahead : j > events.floor

\* The start of an acknowledged event is the request whose answer acknowledged it.
AnswerOf(i, k) == k \in Returned("write") /\ answer[k].balance = i
Started ==
    \A i \in DOMAIN events.pending :
        events.pending[i].acked => AnswerOf(i, events.pending[i].start)

\* An event that came before it happened waits for its acknowledgment, or was
\* acknowledged to a request that had been dispatched by then.
Excused(x) ==
    \/ /\ x[1] \in DOMAIN events.pending /\ ~ events.pending[x[1]].acked
       /\ x[2] \in events.pending[x[1]].fresh
    \/ \E k \in Returned("write") : answer[k].balance = x[1] /\ k <= x[2]
Foretold == (streams = 0 => invented = {}) /\ \A x \in invented : Excused(x)

\* What was read of a stream is the history.
Followed ==
    \A s \in Connected :
        /\ events.last[s] = reader[s].read /\ reader[s].read <= Len(delivered[s])
        /\ \A i \in 1 .. reader[s].read : delivered[s][i] = [id |-> i, balance |-> i]

\* The last sample still holds.
LastSample ==
    phase \in {"check", "cleanup", "close", "ended"} =>
        /\ final.taken /\ final.balance = Len(ledger) /\ final.rows = Len(ledger) - rowsLost

Told == Replied /\ Numbered /\ Started /\ Foretold /\ Followed /\ LastSample
Clean == errors = {} /\ ~ cancelled
Sound == Recorded /\ OneSlip /\ (Clean => Told)

----------------------------------------------------------------------------
\* An acknowledgment that does not raise.
LEMMA AcknowledgeAccepts ==
    ASSUME NEW e, IsBook(e), NEW b \in Nat, b > 0, NEW k \in Nat, NEW n, n = Acknowledge(e, b, k), ~ n.raised,
           NEW m, m = n.events,
           e.floor + 1 \notin e.ahead, \A j \in e.ahead : j > e.floor
    PROVE  /\ b \notin 1 .. e.floor \cup e.ahead /\ m.last = e.last
           /\ 1 .. m.floor \cup m.ahead = (1 .. e.floor \cup e.ahead) \cup {b}
           /\ m.floor + 1 \notin m.ahead /\ \A j \in m.ahead : j > m.floor
           /\ \A j : j # b => (j \in DOMAIN m.pending <=> j \in DOMAIN e.pending)
           /\ \A j \in DOMAIN m.pending : j # b => m.pending[j] = e.pending[j]
           /\ streams = 0 => m.pending = e.pending
           /\ streams # 0 /\ b \in DOMAIN m.pending => m.pending[b].acked /\ m.pending[b].start = k
           /\ streams # 0 /\ b \in DOMAIN e.pending => \A a \in e.pending[b].fresh : ~ (a < k)
<1>a. PICK noted : noted = Noted(e, b)
  OBVIOUS
<1>b. PICK entry : entry = AckedEntry(noted, b, k)
  OBVIOUS
<1>t. e.floor \in Nat /\ e.ahead \in SUBSET Nat
  BY BookParts
<1>1. IsBook(noted) /\ entry \in Entries
  BY <1>a, <1>b, AcknowledgeFacts
<1>2. n = IF b <= e.floor \/ b \in e.ahead \/ Cardinality(e.ahead) >= MaxPending
          THEN [events |-> e, raised |-> TRUE]
          ELSE IF streams = 0 THEN [events |-> noted, raised |-> FALSE]
          ELSE IF Full(noted, b) THEN [events |-> noted, raised |-> TRUE]
          ELSE Reconcile(noted, b, entry)
  BY <1>a, <1>b DEF Acknowledge, Noted, AckedEntry
<1>3. ~ (b <= e.floor) /\ b \notin e.ahead
  <2>1. CASE b <= e.floor \/ b \in e.ahead
    <3>1. n = [events |-> e, raised |-> TRUE]
      BY <1>2, <2>1
    <3> QED
      BY <3>1
  <2> QED
    BY <2>1
<1>4. \/ streams = 0 /\ m = noted
      \/ streams # 0 /\ n = Reconcile(noted, b, entry)
  <2>1. ~ (Cardinality(e.ahead) >= MaxPending)
    <3>1. CASE Cardinality(e.ahead) >= MaxPending
      <4>1. n = [events |-> e, raised |-> TRUE]
        BY <1>2, <3>1
      <4> QED
        BY <4>1
    <3> QED
      BY <3>1
  <2>2. CASE streams = 0
    <3>1. n = [events |-> noted, raised |-> FALSE]
      BY <1>2, <1>3, <2>1, <2>2
    <3> QED
      BY <3>1, <2>2
  <2>3. CASE streams # 0 /\ Full(noted, b)
    <3>1. n = [events |-> noted, raised |-> TRUE]
      BY <1>2, <1>3, <2>1, <2>3
    <3> QED
      BY <3>1
  <2>4. CASE streams # 0 /\ ~ Full(noted, b)
    BY <1>2, <1>3, <2>1, <2>4
  <2> QED
    BY <2>2, <2>3, <2>4
<1>5. /\ noted.last = e.last /\ noted.pending = e.pending
      /\ noted.floor \in Nat /\ noted.floor >= e.floor
      /\ e.floor + 1 .. noted.floor \subseteq e.ahead \cup {b}
      /\ noted.floor + 1 \notin e.ahead \cup {b}
      /\ \A j : j \in noted.ahead <=> j \in e.ahead \cup {b} /\ j > noted.floor
  BY ONLY <1>a, NotedFacts, IsBook(e), b \in Nat
<1>6. 1 .. noted.floor \cup noted.ahead = (1 .. e.floor \cup e.ahead) \cup {b}
  <2>1. \A j \in e.ahead \cup {b} : j > e.floor /\ j \in Nat
    BY <1>3, <1>t
  <2>2. 1 .. noted.floor \cup noted.ahead = 1 .. e.floor \cup e.ahead \cup {b}
    BY ONLY <2>1, <1>5, <1>t, b \in Nat, b > 0, FloorMoves
  <2> QED
    BY <2>2
<1>7. noted.floor + 1 \notin noted.ahead /\ \A j \in noted.ahead : j > noted.floor
  BY <1>5
<1>8. b \notin 1 .. e.floor \cup e.ahead
  BY <1>3, <1>t
<1>9. CASE streams = 0 /\ m = noted
  BY <1>9, <1>5, <1>6, <1>7, <1>8
<1>10. CASE streams # 0 /\ n = Reconcile(noted, b, entry)
  <2>1. PICK y : y = Known(noted, b)
    OBVIOUS
  <2>2. /\ y \in Entries
        /\ b \in DOMAIN e.pending => y = e.pending[b]
    BY <2>1, <1>1, <1>5, KnownFacts
  <2>3. entry.acked /\ entry.start = k /\ entry.fresh = y.fresh
    <3>1. entry = [y EXCEPT !.acked = TRUE, !.start = k]
      BY <2>1, <1>b DEF AckedEntry
    <3> QED
      BY ONLY <3>1, <2>2, k \in Nat DEF Entries
  <2>4. /\ n.raised <=> entry.acked /\ \E a \in entry.fresh : a < entry.start
        /\ \/ m = With(noted, b, entry) /\ (entry.acked => n.raised)
           \/ m = Without(noted, b)
           \/ m = With(noted, b, [entry EXCEPT !.fresh = {}])
    BY <1>1, <1>10, ReconcileFacts
  <2>5. \A a \in y.fresh : ~ (a < k)
    BY <2>3, <2>4
  <2>6. CASE m = Without(noted, b)
    <3>1. /\ DOMAIN m.pending = DOMAIN noted.pending \ {b}
          /\ \A j \in DOMAIN m.pending : m.pending[j] = noted.pending[j]
          /\ m.last = noted.last /\ m.floor = noted.floor /\ m.ahead = noted.ahead
      BY ONLY <2>6, <1>1, b \in Nat, WithoutFacts
    <3>2. b \notin DOMAIN m.pending /\ \A j : j # b => (j \in DOMAIN m.pending <=> j \in DOMAIN e.pending)
      BY ONLY <3>1, <1>5
    <3>3. \A j \in DOMAIN m.pending : j # b => m.pending[j] = e.pending[j]
      BY ONLY <3>1, <1>5
    <3>4. b \in DOMAIN e.pending => \A a \in e.pending[b].fresh : ~ (a < k)
      BY ONLY <2>2, <2>5
    <3>5. /\ m.last = e.last /\ 1 .. m.floor \cup m.ahead = (1 .. e.floor \cup e.ahead) \cup {b}
          /\ m.floor + 1 \notin m.ahead /\ \A j \in m.ahead : j > m.floor
      BY ONLY <3>1, <1>5, <1>6, <1>7
    <3> QED
      BY ONLY <3>2, <3>3, <3>4, <3>5, <1>8, <1>10
  <2>7. CASE m = With(noted, b, [entry EXCEPT !.fresh = {}])
    <3>1. PICK z : z = [entry EXCEPT !.fresh = {}]
      OBVIOUS
    <3>2. z \in Entries /\ z.acked /\ z.start = k
      BY <3>1, <2>3, <1>1 DEF Entries
    <3>3. /\ DOMAIN m.pending = DOMAIN noted.pending \cup {b}
          /\ \A j \in DOMAIN m.pending : m.pending[j] = IF j = b THEN z ELSE noted.pending[j]
          /\ m.last = noted.last /\ m.floor = noted.floor /\ m.ahead = noted.ahead
      <4>1. m = With(noted, b, z)
        BY <2>7, <3>1
      <4> QED
        BY ONLY <4>1, <3>2, <1>1, b \in Nat, WithFacts
    <3>4. \A j : j # b => (j \in DOMAIN m.pending <=> j \in DOMAIN e.pending)
      BY ONLY <3>3, <1>5
    <3>5. \A j \in DOMAIN m.pending : j # b => m.pending[j] = e.pending[j]
      BY ONLY <3>3, <1>5
    <3>6. b \in DOMAIN e.pending => \A a \in e.pending[b].fresh : ~ (a < k)
      BY ONLY <2>2, <2>5
    <3>7. m.pending[b] = z
      BY ONLY <3>3
    <3>8. /\ m.last = e.last /\ 1 .. m.floor \cup m.ahead = (1 .. e.floor \cup e.ahead) \cup {b}
          /\ m.floor + 1 \notin m.ahead /\ \A j \in m.ahead : j > m.floor
      BY ONLY <3>3, <1>5, <1>6, <1>7
    <3> QED
      BY ONLY <3>2, <3>4, <3>5, <3>6, <3>7, <3>8, <1>8, <1>10
  <2> QED
    BY <2>3, <2>4, <2>6, <2>7
<1> QED
  BY <1>4, <1>9, <1>10

\* An event that is read without an error.
LEMMA FrameAccepts ==
    ASSUME NEW e, IsBook(e), NEW s \in StreamIds, NEW event \in Sent, NEW arrived \in Nat,
           NEW n, n = Frame(e, s, event, arrived), ~ n.raised, NEW m, m = n.events,
           NEW i, i = event.id
    PROVE  /\ i = e.last[s] + 1 /\ event = [id |-> i, balance |-> i]
           /\ m.last = [e.last EXCEPT ![s] = i] /\ m.floor = e.floor /\ m.ahead = e.ahead
           /\ \A j : j # i => (j \in DOMAIN m.pending <=> j \in DOMAIN e.pending)
           /\ \A j \in DOMAIN m.pending : j # i => m.pending[j] = e.pending[j]
           /\ i \in DOMAIN m.pending /\ m.pending[i].acked =>
                 i \in DOMAIN e.pending /\ e.pending[i].acked /\ m.pending[i].start = e.pending[i].start
           /\ i \in DOMAIN e.pending /\ e.pending[i].acked => ~ (arrived < e.pending[i].start)
           /\ ~ (i \in DOMAIN e.pending /\ e.pending[i].acked) =>
                 /\ i \in DOMAIN m.pending /\ ~ m.pending[i].acked /\ arrived \in m.pending[i].fresh
                 /\ i \in DOMAIN e.pending => e.pending[i].fresh \subseteq m.pending[i].fresh
<1>a. PICK noted : noted = ReadUp(e, s, i)
  OBVIOUS
<1>b. PICK entry : entry = SeenEntry(noted, i, s, arrived)
  OBVIOUS
<1>1. IsBook(noted) /\ entry \in Entries /\ i \in Nat
  BY <1>a, <1>b, FrameFacts
<1>2. n = IF event.id # e.last[s] + 1 \/ event.balance # event.id
          THEN [events |-> e, raised |-> TRUE]
          ELSE IF Full(noted, i) THEN [events |-> noted, raised |-> TRUE]
          ELSE Reconcile(noted, i, entry)
  BY <1>a, <1>b DEF Frame, ReadUp, SeenEntry
<1>3. i = e.last[s] + 1 /\ event.balance = i
  <2>1. CASE event.id # e.last[s] + 1 \/ event.balance # event.id
    <3>1. n = [events |-> e, raised |-> TRUE]
      BY <1>2, <2>1
    <3> QED
      BY <3>1
  <2> QED
    BY <2>1
<1>4. n = Reconcile(noted, i, entry)
  <2>1. CASE Full(noted, i)
    <3>1. n = [events |-> noted, raised |-> TRUE]
      BY <1>2, <1>3, <2>1
    <3> QED
      BY <3>1
  <2>2. CASE ~ Full(noted, i)
    BY <1>2, <1>3, <2>2
  <2> QED
    BY <2>1, <2>2
<1>5. /\ noted.last = [e.last EXCEPT ![s] = i] /\ noted.pending = e.pending
      /\ noted.floor = e.floor /\ noted.ahead = e.ahead
  BY <1>1, <1>a, ReadUpFacts
<1>6. event = [id |-> i, balance |-> i]
  BY <1>3 DEF Sent
<1>7. PICK y : y = Known(noted, i)
  OBVIOUS
<1>8. /\ y \in Entries
      /\ i \in DOMAIN e.pending => y = e.pending[i]
      /\ i \notin DOMAIN e.pending => ~ y.acked
  <2>1. /\ y \in Entries
        /\ i \in DOMAIN e.pending => y = e.pending[i]
        /\ i \notin DOMAIN e.pending => y = [acked |-> FALSE, start |-> 0, seen |-> {}, fresh |-> {}]
    <3>1. IsBook(noted) /\ i \in Nat
      BY <1>1
    <3>2. /\ y \in Entries
          /\ i \in DOMAIN noted.pending => y = noted.pending[i]
          /\ i \notin DOMAIN noted.pending => y = [acked |-> FALSE, start |-> 0, seen |-> {}, fresh |-> {}]
      BY ONLY <3>1, <1>7, KnownFacts
    <3> QED
      BY ONLY <3>2, <1>5
  <2> QED
    BY <2>1
<1>9. /\ entry.acked = y.acked /\ entry.start = y.start
      /\ entry.fresh = y.fresh \cup {arrived}
  <2>1. entry = [y EXCEPT !.seen = @ \cup {s}, !.fresh = @ \cup {arrived}]
    BY <1>7, <1>b DEF SeenEntry
  <2> QED
    BY ONLY <2>1, <1>8 DEF Entries
<1>10. /\ n.raised <=> entry.acked /\ \E a \in entry.fresh : a < entry.start
       /\ \/ m = With(noted, i, entry) /\ (entry.acked => n.raised)
          \/ m = Without(noted, i) /\ entry.acked
          \/ m = With(noted, i, [entry EXCEPT !.fresh = {}]) /\ entry.acked
  BY <1>1, <1>4, ReconcileFacts
<1>11. entry.acked => ~ (arrived < entry.start)
  BY <1>9, <1>10
<1>12. CASE m = With(noted, i, entry) /\ ~ entry.acked
  <2>1. /\ DOMAIN m.pending = DOMAIN noted.pending \cup {i}
        /\ \A j \in DOMAIN m.pending : m.pending[j] = IF j = i THEN entry ELSE noted.pending[j]
        /\ m.last = noted.last /\ m.floor = noted.floor /\ m.ahead = noted.ahead
    BY <1>12, <1>1, WithFacts
  <2>2. \A j : j # i => (j \in DOMAIN m.pending <=> j \in DOMAIN e.pending)
    BY ONLY <2>1, <1>5
  <2>3. \A j \in DOMAIN m.pending : j # i => m.pending[j] = e.pending[j]
    BY ONLY <2>1, <1>5
  <2>4. m.last = [e.last EXCEPT ![s] = i] /\ m.floor = e.floor /\ m.ahead = e.ahead
    BY ONLY <2>1, <1>5
  <2>5. i \in DOMAIN m.pending /\ m.pending[i] = entry
    BY ONLY <2>1
  <2>6. i \in DOMAIN e.pending => e.pending[i] = y
    BY ONLY <1>8
  <2>7. ~ y.acked /\ arrived \in entry.fresh /\ y.fresh \subseteq entry.fresh
    BY ONLY <1>9, <1>12
  <2> QED
    BY ONLY <2>2, <2>3, <2>4, <2>5, <2>6, <2>7, <1>3, <1>6, <1>12
<1>13. CASE m = Without(noted, i) /\ entry.acked
  <2>1. /\ DOMAIN m.pending = DOMAIN noted.pending \ {i}
        /\ \A j \in DOMAIN m.pending : m.pending[j] = noted.pending[j]
        /\ m.last = noted.last /\ m.floor = noted.floor /\ m.ahead = noted.ahead
    BY ONLY <1>13, <1>1, WithoutFacts
  <2>2. \A j : j # i => (j \in DOMAIN m.pending <=> j \in DOMAIN e.pending)
    BY ONLY <2>1, <1>5
  <2>3. \A j \in DOMAIN m.pending : j # i => m.pending[j] = e.pending[j]
    BY ONLY <2>1, <1>5
  <2>4. m.last = [e.last EXCEPT ![s] = i] /\ m.floor = e.floor /\ m.ahead = e.ahead
    BY ONLY <2>1, <1>5
  <2>5. i \notin DOMAIN m.pending
    BY ONLY <2>1
  <2>6. i \in DOMAIN e.pending /\ e.pending[i] = y /\ y.acked
    BY ONLY <1>8, <1>9, <1>13
  <2>7. ~ (arrived < y.start)
    BY ONLY <1>9, <1>11, <1>13
  <2> QED
    BY ONLY <2>2, <2>3, <2>4, <2>5, <2>6, <2>7, <1>3, <1>6
<1>14. CASE m = With(noted, i, [entry EXCEPT !.fresh = {}]) /\ entry.acked
  <2>1. PICK z : z = [entry EXCEPT !.fresh = {}]
    OBVIOUS
  <2>2. z \in Entries /\ z.acked /\ z.start = entry.start
    BY <2>1, <1>14, <1>1 DEF Entries
  <2>3. /\ DOMAIN m.pending = DOMAIN noted.pending \cup {i}
        /\ \A j \in DOMAIN m.pending : m.pending[j] = IF j = i THEN z ELSE noted.pending[j]
        /\ m.last = noted.last /\ m.floor = noted.floor /\ m.ahead = noted.ahead
    <3>1. m = With(noted, i, z)
      BY <1>14, <2>1
    <3> QED
      BY ONLY <3>1, <2>2, <1>1, WithFacts
  <2>4. \A j : j # i => (j \in DOMAIN m.pending <=> j \in DOMAIN e.pending)
    BY ONLY <2>3, <1>5
  <2>5. \A j \in DOMAIN m.pending : j # i => m.pending[j] = e.pending[j]
    BY ONLY <2>3, <1>5
  <2>6. m.last = [e.last EXCEPT ![s] = i] /\ m.floor = e.floor /\ m.ahead = e.ahead
    BY ONLY <2>3, <1>5
  <2>7. i \in DOMAIN m.pending /\ m.pending[i] = z
    BY ONLY <2>3
  <2>8. i \in DOMAIN e.pending /\ e.pending[i] = y /\ y.acked
    BY ONLY <1>8, <1>9, <1>14
  <2>9. ~ (arrived < y.start) /\ z.acked /\ z.start = y.start
    BY ONLY <1>9, <1>11, <1>14, <2>2
  <2> QED
    BY ONLY <2>4, <2>5, <2>6, <2>7, <2>8, <2>9, <1>3, <1>6
<1> QED
  BY <1>10, <1>12, <1>13, <1>14

\* The service's own steps.
AllStraight == \A k \in Numbers : Straight(k)
AllMeant == \A i \in DOMAIN ledger : Meant(i)
Unlike == \A j, k \in Numbers : Straight(j) \/ Straight(k) \/ j = k

LEMMA SlipParts ==
    /\ OneSlip <=> /\ faults = 0 => AllStraight /\ AllMeant
                   /\ faults <= 1 => (AllStraight \/ AllMeant) /\ Unlike
    /\ AllStraight => Unlike
BY DEF OneSlip, AllStraight, AllMeant, Unlike

LEMMA NothingSlips ==
    ASSUME OneSlip, faults' = faults, \A k \in Numbers : Straight(k) => Straight(k)', AllMeant => AllMeant'
    PROVE  OneSlip'
<1>1. AllStraight => AllStraight'
  BY DEF AllStraight
<1>2. Unlike => Unlike'
  BY DEF Unlike
<1>3. /\ faults = 0 => AllStraight /\ AllMeant
      /\ faults <= 1 => (AllStraight \/ AllMeant) /\ Unlike
  BY SlipParts
<1>4. /\ faults' = 0 => AllStraight' /\ AllMeant'
      /\ faults' <= 1 => (AllStraight' \/ AllMeant') /\ Unlike'
  BY <1>1, <1>2, <1>3
<1> QED
  BY <1>4 DEF OneSlip, AllStraight, AllMeant, Unlike

LEMMA SomethingSlips ==
    ASSUME OneSlip, faults \in Nat, faults' = faults + 1,
           AllStraight /\ AllMeant => (AllStraight' \/ AllMeant') /\ Unlike'
    PROVE  OneSlip'
<1>1. faults = 0 => AllStraight /\ AllMeant
  BY SlipParts
<1>2. faults' # 0 /\ (faults' <= 1 => faults = 0)
  OBVIOUS
<1>3. faults' <= 1 => (AllStraight' \/ AllMeant') /\ Unlike'
  BY <1>1, <1>2
<1> QED
  BY <1>2, <1>3 DEF OneSlip, AllStraight, AllMeant, Unlike

\* An answer is given once.
AnswersStay == \A k \in Numbers : answer[k] # Service!NotYet => answer'[k] = answer[k]

LEMMA ServeKeepsRecord ==
    ASSUME Typed, Recorded, OneSlip, Serve
    PROVE  Recorded' /\ OneSlip' /\ AnswersStay
<1>1. faults' = faults /\ issued' = issued
  BY DEF Serve
<1>2. /\ looked \in [Everyone -> Looks] /\ answer \in [Everyone -> Service!Answers]
      /\ \A k \in Numbers : k \in Everyone
      /\ \A i \in DOMAIN ledger : ledger[i] \in Numbers
      /\ \A k \in 1 .. issued : k \in Numbers
  BY TypeFacts DEF Typed, Everyone
<1>3. ASSUME NEW k \in 1 .. issued, Applies(k)
      PROVE  Recorded' /\ OneSlip' /\ AnswersStay
  <2> PICK n : n = Len(ledger) + 1
    OBVIOUS
  <2>1. /\ k \in Numbers /\ IsWrite(k) /\ answer[k] = Service!NotYet /\ answer' = answer
        /\ ledger' = Append(ledger, k)
        /\ looked' = [looked EXCEPT ![k] = [done |-> TRUE, balance |-> n]]
    BY <1>2, <1>3 DEF Applies
  <2>2. /\ n \in Nat /\ DOMAIN ledger' = DOMAIN ledger \cup {n}
        /\ ledger'[n] = k /\ \A i \in DOMAIN ledger : i \in DOMAIN ledger' /\ ledger'[i] = ledger[i]
    BY <2>1, Appended
  <2>3. \A i \in DOMAIN ledger : ledger[i] # k
    <3>1. DOMAIN ledger = 1 .. Len(ledger)
      BY TypeFacts
    <3> QED
      BY <3>1, <1>3 DEF Applies, Service!Applied
  <2>4. looked'[k] = [done |-> TRUE, balance |-> n] /\ \A j \in Numbers : j # k => looked'[j] = looked[j]
    BY <1>2, <2>1
  <2>5. looked'[k].done /\ looked'[k].balance = n
    BY <2>4
  <2>6. Issued("write")' = Issued("write") /\ k \in Issued("write")
    BY <1>1, <2>1 DEF Issued, Kind
  <2>7. ForWrites'
    BY <2>2, <2>6 DEF Recorded, ForWrites
  <2>8. ASSUME NEW j \in Numbers, looked'[j].done, IsWrite(j)
        PROVE  looked'[j].balance \in DOMAIN ledger' /\ ledger'[looked'[j].balance] = j
    <3>1. CASE j = k
      BY <3>1, <2>2, <2>5
    <3>2. CASE j # k
      <4>1. looked[j].balance \in DOMAIN ledger /\ ledger[looked[j].balance] = j
        BY <2>4, <2>8, <3>2 DEF Recorded
      <4> QED
        BY <4>1, <3>2, <2>2, <2>4
    <3> QED
      BY <3>1, <3>2
  <2>9. Recorded'
    BY <2>7, <2>8 DEF Recorded
  <2>10. \A j \in Numbers : Straight(j) => Straight(j)'
    BY <2>1, <2>4 DEF Straight
  <2>11. AllMeant => AllMeant'
    <3> SUFFICES ASSUME AllMeant, NEW i \in DOMAIN ledger' PROVE Meant(i)'
      BY DEF AllMeant
    <3>1. CASE i = n
      BY <3>1, <2>2, <2>5 DEF Meant
    <3>2. CASE i \in DOMAIN ledger
      <4>1. looked'[ledger'[i]] = looked[ledger[i]]
        BY <3>2, <1>2, <2>2, <2>3, <2>4
      <4> QED
        BY <4>1, <3>2 DEF AllMeant, Meant
    <3> QED
      BY <3>1, <3>2, <2>2
  <2>12. AnswersStay
    BY <2>1 DEF AnswersStay
  <2> QED
    BY <1>1, <2>9, <2>10, <2>11, <2>12, NothingSlips
<1>4. ASSUME NEW k \in 1 .. issued, Seeks(k)
      PROVE  Recorded' /\ OneSlip' /\ AnswersStay
  <2>1. /\ k \in Numbers /\ ~ IsWrite(k) /\ answer' = answer /\ ledger' = ledger
        /\ looked' = [looked EXCEPT ![k] = [done |-> TRUE, balance |-> Len(ledger)]]
    BY <1>2, <1>4 DEF Seeks
  <2>2. \A j \in Numbers : j # k => looked'[j] = looked[j]
    BY <1>2, <2>1
  <2>3. \A i \in DOMAIN ledger : ledger[i] # k
    BY <2>1 DEF Recorded, ForWrites, Issued, Kind
  <2>4. Recorded'
    <3>1. ForWrites'
      BY <1>1, <2>1 DEF Recorded, ForWrites, Issued
    <3>2. \A j \in Numbers : IsWrite(j) => looked'[j] = looked[j]
      BY <2>1, <2>2
    <3> QED
      BY <3>1, <3>2, <2>1 DEF Recorded
  <2>5. \A j \in Numbers : Straight(j) => Straight(j)'
    BY <2>1, <2>2 DEF Straight
  <2>6. AllMeant => AllMeant'
    BY <1>2, <2>1, <2>2, <2>3 DEF AllMeant, Meant
  <2> QED
    BY <1>1, <2>1, <2>4, <2>5, <2>6, NothingSlips DEF AnswersStay
<1>5. ASSUME NEW k \in 1 .. issued, Replies(k)
      PROVE  Recorded' /\ OneSlip' /\ AnswersStay
  <2>1. /\ k \in Numbers /\ looked[k].done /\ answer[k] = Service!NotYet /\ ledger' = ledger /\ looked' = looked
        /\ answer' = [answer EXCEPT ![k] = [status |-> "ok", balance |-> looked[k].balance]]
    BY <1>2, <1>5 DEF Replies
  <2>2. /\ \A j \in Numbers : j # k => answer'[j] = answer[j]
        /\ answer'[k] = [status |-> "ok", balance |-> looked[k].balance]
    BY <1>2, <2>1
  <2>3. Recorded'
    BY <1>1, <2>1 DEF Recorded, ForWrites, Issued
  <2>4. \A j \in Numbers : Straight(j) => Straight(j)'
    BY <2>1, <2>2 DEF Straight
  <2>5. AllMeant => AllMeant'
    BY <2>1 DEF AllMeant, Meant
  <2>6. AnswersStay
    BY <2>1, <2>2 DEF AnswersStay
  <2> QED
    BY <1>1, <2>3, <2>4, <2>5, <2>6, NothingSlips
<1>6. ASSUME NEW s \in Connected, Shows(s)
      PROVE  Recorded' /\ OneSlip' /\ AnswersStay
  <2>1. ledger' = ledger /\ looked' = looked /\ answer' = answer
    BY <1>6 DEF Shows
  <2>2. Recorded'
    BY <1>1, <2>1 DEF Recorded, ForWrites, Issued
  <2>3. \A j \in Numbers : Straight(j) => Straight(j)'
    BY <2>1 DEF Straight
  <2>4. AllMeant => AllMeant'
    BY <2>1 DEF AllMeant, Meant
  <2> QED
    BY <1>1, <2>1, <2>2, <2>3, <2>4, NothingSlips DEF AnswersStay
<1> QED
  BY <1>3, <1>4, <1>5, <1>6, ServeIsOneOf

\* A step that is not the service's.
LEMMA RecordStays ==
    ASSUME Typed, Recorded, OneSlip, UNCHANGED <<ledger, looked, answer>>,
           issued' = issued \/ issued' = issued + 1, faults' = faults \/ faults' = faults + 1
    PROVE  Recorded' /\ OneSlip' /\ AnswersStay
<1>1. issued \in Nat /\ faults \in Nat
  BY TypeFacts DEF Typed
<1>2. Issued("write") \subseteq Issued("write")'
  BY <1>1 DEF Issued
<1>3. Recorded'
  BY <1>2 DEF Recorded, ForWrites
<1>4. \A j \in Numbers : Straight(j) => Straight(j)'
  BY DEF Straight
<1>5. AllMeant => AllMeant'
  BY DEF AllMeant, Meant
<1>6. AllStraight => AllStraight' /\ Unlike'
  BY <1>4 DEF AllStraight, Unlike
<1>7. OneSlip'
  BY <1>1, <1>4, <1>5, <1>6, NothingSlips, SomethingSlips
<1> QED
  BY <1>3, <1>7 DEF AnswersStay

LEMMA MisbehaveKeepsRecord ==
    ASSUME Typed, Recorded, OneSlip, Misbehave
    PROVE  Recorded' /\ OneSlip' /\ AnswersStay
<1>1. faults' = faults + 1 /\ issued' = issued /\ faults \in Nat
  BY DEF Misbehave, Typed
<1>2. /\ answer \in [Everyone -> Service!Answers]
      /\ \A k \in Numbers : k \in Everyone
      /\ \A k \in 1 .. issued : k \in Numbers
  BY TypeFacts DEF Typed, Everyone
<1>3. ASSUME NEW k \in 1 .. issued, NEW b, answer[k] = Service!NotYet,
             answer' = [answer EXCEPT ![k] = [status |-> "ok", balance |-> b]],
             UNCHANGED <<ledger, looked>>
      PROVE  Recorded' /\ OneSlip' /\ AnswersStay
  <2>1. \A j \in Numbers : j # k => answer'[j] = answer[j]
    BY <1>2, <1>3
  <2>2. Recorded'
    BY <1>1, <1>3 DEF Recorded, ForWrites, Issued
  <2>3. \A j \in Numbers : j # k => (Straight(j) => Straight(j)')
    BY <2>1, <1>3 DEF Straight
  <2>4. AllMeant => AllMeant'
    BY <1>3 DEF AllMeant, Meant
  <2>5. AllStraight => Unlike'
    BY <2>3 DEF AllStraight, Unlike
  <2>6. OneSlip'
    BY <1>1, <2>4, <2>5, SomethingSlips
  <2> QED
    BY <2>1, <2>2, <2>6, <1>3 DEF AnswersStay
<1>4. ASSUME NEW k \in 1 .. issued, IsWrite(k), ledger' = Append(ledger, k), UNCHANGED <<looked, answer>>
      PROVE  Recorded' /\ OneSlip' /\ AnswersStay
  <2> PICK n : n = Len(ledger) + 1
    OBVIOUS
  <2>1. /\ n \in Nat /\ DOMAIN ledger' = DOMAIN ledger \cup {n}
        /\ ledger'[n] = k /\ \A i \in DOMAIN ledger : i \in DOMAIN ledger' /\ ledger'[i] = ledger[i]
    BY <1>2, <1>4, Appended
  <2>2. Issued("write")' = Issued("write") /\ k \in Issued("write")
    BY <1>1, <1>4 DEF Issued, Kind
  <2>3. Recorded'
    BY <2>1, <2>2, <1>4 DEF Recorded, ForWrites
  <2>4. AllStraight => AllStraight' /\ Unlike'
    BY <1>4 DEF AllStraight, Straight, Unlike
  <2>5. OneSlip'
    BY <1>1, <2>4, SomethingSlips
  <2> QED
    BY <2>3, <2>5, <1>4 DEF AnswersStay
<1>5. CASE UNCHANGED <<ledger, looked, answer>>
  BY <1>1, <1>5, RecordStays
<1> QED
  BY <1>3, <1>4, <1>5 DEF Misbehave

\* The updates that returned without an error.
LEMMA ReturnedAnswers ==
    ASSUME Typed, Replied, NEW k \in Returned("write")
    PROVE  /\ k \in 1 .. issued /\ k \in Numbers /\ IsWrite(k) /\ ~ InFlight(k)
           /\ answer[k].status = "ok" /\ answer[k].balance > 0 /\ answer[k].balance \in Nat
           /\ answer[k] # Service!NotYet
<1>1. k \in 1 .. issued /\ Kind(k) = "write" /\ ~ InFlight(k)
  BY DEF Returned, Issued
<1>2. k \in Numbers /\ k \in Everyone /\ answer[k] \in Service!Answers /\ IsWrite(k)
  BY <1>1, TypeFacts DEF Everyone, Kind
<1>3. answer[k].status = "ok" /\ answer[k].balance > 0
  BY <1>1, <1>2 DEF Replied
<1>4. answer[k] # Service!NotYet
  <2>1. Service!NotYet.status = "none"
    BY DEF Service!NotYet
  <2> QED
    BY <2>1, <1>3
<1> QED
  BY <1>1, <1>2, <1>3, <1>4 DEF Service!Answers

\* The books as they are, and the requests that returned.
LEMMA BooksStand ==
    ASSUME Numbered, Started, Foretold, UNCHANGED <<events, streams, invented>>,
           Returned("write")' = Returned("write"),
           \A k \in Returned("write") : answer'[k] = answer[k]
    PROVE  Numbered' /\ Started' /\ Foretold'
<1>1. Acknowledged' = Acknowledged
  BY DEF Acknowledged
<1>2. Numbered'
  BY <1>1 DEF Numbered
<1>3. Started'
  BY DEF Started, AnswerOf
<1>4. Foretold'
  BY DEF Foretold, Excused
<1> QED
  BY <1>2, <1>3, <1>4

LEMMA RepliesStand ==
    ASSUME Typed, Replied, Numbered, Started, Foretold, UNCHANGED <<events, streams, invented, issued>>,
           \A k : InFlight(k)' <=> InFlight(k), AnswersStay
    PROVE  Replied' /\ Numbered' /\ Started' /\ Foretold'
<1>1. Returned("write")' = Returned("write")
  BY DEF Returned, Issued
<1>2. \A k \in Returned("write") : answer'[k] = answer[k]
  BY ReturnedAnswers DEF AnswersStay
<1>3. Replied'
  <2> SUFFICES ASSUME NEW k \in 1 .. issued, ~ InFlight(k)
               PROVE  answer'[k] = answer[k]
    BY DEF Replied
  <2>1. answer[k].status = "ok" /\ k \in Numbers
    BY TypeFacts DEF Replied
  <2>2. answer[k] # Service!NotYet
    <3>1. Service!NotYet.status = "none"
      BY DEF Service!NotYet
    <3> QED
      BY <2>1, <3>1
  <2> QED
    BY <2>1, <2>2 DEF AnswersStay
<1> QED
  BY <1>1, <1>2, <1>3, BooksStand

\* A step of the test that neither sends nor reads.
LEMMA QuietKeepsSound ==
    ASSUME Typed, Sound, UNCHANGED <<svars, streams, issued, events, invented>>,
           faults' = faults \/ faults' = faults + 1,
           Clean' => /\ Clean /\ \A k : InFlight(k)' <=> InFlight(k)
                     /\ \A s \in Connected : reader'[s].read = reader[s].read
                     /\ LastSample => LastSample'
    PROVE  Sound'
<1>1. Recorded' /\ OneSlip' /\ AnswersStay
  BY RecordStays DEF Sound, svars
<1>2. ASSUME Clean' PROVE Told'
  <2>1. Told
    BY <1>2 DEF Sound
  <2>2. Replied' /\ Numbered' /\ Started' /\ Foretold'
    BY <1>1, <1>2, <2>1, RepliesStand DEF Told
  <2>3. Followed'
    <3>1. Connected' = Connected /\ delivered' = delivered /\ events' = events
      BY DEF Connected, svars
    <3> QED
      BY <3>1, <1>2, <2>1 DEF Told, Followed
  <2>4. LastSample'
    BY <1>2, <2>1 DEF Told
  <2> QED
    BY <2>2, <2>3, <2>4 DEF Told
<1> QED
  BY <1>1, <1>2 DEF Sound

LEMMA ServeKeepsSound ==
    ASSUME Typed, Scheduled, Sound, Serve \/ Misbehave
    PROVE  Sound'
<1>1. /\ UNCHANGED <<streams, issued, events, invented, worker, reader, errors, cancelled, phase, final>>
      /\ Serve => rowsLost' = rowsLost
  BY DEF Serve, Misbehave
<1>2. Recorded' /\ OneSlip' /\ AnswersStay
  BY ServeKeepsRecord, MisbehaveKeepsRecord DEF Sound
<1>3. ASSUME Clean' PROVE Told'
  <2>1. Told
    BY <1>1, <1>3 DEF Sound, Clean
  <2>2. Replied' /\ Numbered' /\ Started' /\ Foretold'
    <3>1. \A k : InFlight(k)' <=> InFlight(k)
      BY <1>1 DEF InFlight
    <3> QED
      BY <1>1, <1>2, <2>1, <3>1, RepliesStand DEF Told
  <2>3. Followed'
    <3> SUFFICES ASSUME NEW s \in Connected
                 PROVE  /\ reader[s].read <= Len(delivered'[s])
                        /\ \A i \in 1 .. reader[s].read : delivered'[s][i] = [id |-> i, balance |-> i]
      <4>1. Connected' = Connected
        BY <1>1 DEF Connected
      <4> QED
        BY <4>1, <1>1, <2>1 DEF Told, Followed
    <3>1. /\ reader[s].read <= Len(delivered[s])
          /\ \A i \in 1 .. reader[s].read : delivered[s][i] = [id |-> i, balance |-> i]
      BY <2>1 DEF Told, Followed
    <3>2. /\ reader[s].read \in Nat /\ Len(delivered[s]) \in Nat /\ s \in Everyone
          /\ delivered[s] \in Seq(Sent) /\ delivered \in [Everyone -> Seq(Sent)]
          /\ Len(ledger) \in Nat
      BY TypeFacts DEF Typed, Everyone, Readers
    <3>3. ASSUME NEW z \in Connected, Shows(z) PROVE s = z \/ delivered'[s] = delivered[s]
      BY <3>2, <3>3 DEF Shows
    <3>4. CASE Shows(s)
      <4>1. PICK n \in Len(delivered[s]) .. Len(ledger) :
               delivered' = [delivered EXCEPT ![s] = Service!History(n)]
        BY <3>4 DEF Shows
      <4>2. n \in Nat /\ n >= Len(delivered[s]) /\ delivered'[s] = Service!History(n)
        BY <4>1, <3>2
      <4>3. Len(delivered'[s]) = n /\ \A i \in 1 .. n : delivered'[s][i] = [id |-> i, balance |-> i]
        BY <4>2, HistoryIsSent
      <4>4. reader[s].read <= n
        BY <4>2, <3>1, <3>2
      <4> QED
        BY <4>3, <4>4, <3>2
    <3>5. CASE \E event \in Odd(Len(delivered[s])) :
                  delivered' = [delivered EXCEPT ![s] = Append(@, event)]
      <4>1. PICK event \in Odd(Len(delivered[s])) :
               delivered' = [delivered EXCEPT ![s] = Append(@, event)]
        BY <3>5
      <4>2. event \in Sent
        BY <3>2 DEF Odd, Sent
      <4>3. delivered'[s] = Append(delivered[s], event)
        BY <4>1, <3>2
      <4>4. /\ Len(delivered'[s]) = Len(delivered[s]) + 1
            /\ \A i \in 1 .. Len(delivered[s]) : delivered'[s][i] = delivered[s][i]
        BY <4>2, <4>3, <3>2, AppendProperties
      <4> QED
        BY <4>4, <3>1, <3>2
    <3>6. CASE delivered'[s] = delivered[s]
      BY <3>1, <3>6
    <3>7. Shows(s) \/ delivered'[s] = delivered[s] \/
             \E event \in Odd(Len(delivered[s])) :
                  delivered' = [delivered EXCEPT ![s] = Append(@, event)]
      <4>1. CASE Serve
        BY <4>1, <3>3, ServeIsOneOf DEF Applies, Seeks, Replies
      <4>2. CASE Misbehave
        <5>1. CASE \E z \in Connected : \E event \in Odd(Len(delivered[z])) :
                      delivered' = [delivered EXCEPT ![z] = Append(@, event)]
          <6>1. PICK z \in Connected : \E event \in Odd(Len(delivered[z])) :
                      delivered' = [delivered EXCEPT ![z] = Append(@, event)]
            BY <5>1
          <6>2. CASE z = s
            BY <6>1, <6>2
          <6>3. CASE z # s
            BY <6>1, <6>3, <3>2
          <6> QED
            BY <6>2, <6>3
        <5>2. CASE delivered' = delivered
          BY <5>2
        <5> QED
          BY <4>2, <5>1, <5>2 DEF Misbehave
      <4> QED
        BY <4>1, <4>2
    <3> QED
      BY <3>4, <3>5, <3>6, <3>7
  <2>4. LastSample'
    <3> SUFFICES ASSUME phase \in {"check", "cleanup", "close", "ended"}
                 PROVE  ledger' = ledger /\ rowsLost' = rowsLost
      BY <1>1, <2>1 DEF Told, LastSample
    <3>1. final.taken
      BY <2>1 DEF Told, LastSample
    <3>2. Serve
      BY <3>1 DEF Misbehave
    <3>3. \A k \in 1 .. issued : answer[k] # Service!NotYet
      <4>1. \A k : ~ InFlight(k)
        BY DEF InFlight, Scheduled
      <4>2. Service!NotYet.status = "none"
        BY DEF Service!NotYet
      <4> QED
        BY <4>1, <4>2, <2>1 DEF Told, Replied
    <3>4. \A k \in 1 .. issued : ~ Applies(k)
      BY <3>3 DEF Applies
    <3> QED
      BY <3>2, <3>4, <1>1, ServeIsOneOf DEF Seeks, Replies, Shows
  <2> QED
    BY <2>2, <2>3, <2>4 DEF Told
<1> QED
  BY <1>2, <1>3 DEF Sound

LEMMA RunKeepsSound ==
    ASSUME Typed, Scheduled, Sound, Expire \/ Run \/ Sampling
    PROVE  Sound'
<1>1. /\ UNCHANGED <<svars, streams, issued, events, invented>>
      /\ faults' = faults \/ faults' = faults + 1
  BY DEF Expire, Run, Sampling, Sample, Sampled, SamplerReturns, Startup, StartupFails, WorkersDone,
         EndDrain, Check, Cancel, JoinTasks, CloseAll
<1>2. ASSUME Clean'
      PROVE  /\ Clean /\ \A k : InFlight(k)' <=> InFlight(k)
             /\ \A s \in Connected : reader'[s].read = reader[s].read
             /\ LastSample => LastSample'
  <2>1. CASE UNCHANGED <<worker, reader, final>> /\ errors \subseteq errors' /\ cancelled' = cancelled
             /\ (phase' \in {"check", "cleanup", "close", "ended"} =>
                   phase \in {"check", "cleanup", "close", "ended"})
    <3>1. Clean
      BY <1>2, <2>1 DEF Clean
    <3> QED
      BY <3>1, <1>1, <2>1 DEF InFlight, LastSample, svars
  <2>2. CASE Expire \/ Sampling \/ WorkersDone \/ JoinTasks \/ CloseAll
    BY <2>1, <2>2 DEF Expire, Sampling, Sample, Sampled, SamplerReturns, WorkersDone, JoinTasks, CloseAll,
                      Fail
  <2>3. CASE Startup
    <3>1. /\ worker' = [w \in Workers |-> [worker[w] EXCEPT !.at = "loop"]]
          /\ reader' = [s \in StreamIds |-> [reader[s] EXCEPT !.at =
                                               IF s \in Connected THEN "reading" ELSE "none"]]
          /\ phase = "startup" /\ phase' = "workload" /\ UNCHANGED <<errors, cancelled>>
      BY <2>3 DEF Startup
    <3>2. \A k : ~ InFlight(k)
      BY <3>1 DEF InFlight, Scheduled
    <3>3. \A w \in Workers : worker'[w].at = "loop"
      BY <3>1, TypeFacts DEF Tasks
    <3>4. \A k : ~ InFlight(k)'
      BY <3>3 DEF InFlight
    <3>5. \A s \in Connected : reader'[s].read = reader[s].read
      BY <3>1, TypeFacts DEF Readers
    <3> QED
      BY <3>1, <3>2, <3>4, <3>5, <1>2 DEF Clean, LastSample
  <2>4. CASE EndDrain
    <3>1. /\ UNCHANGED <<worker, reader, cancelled, svars>> /\ errors \subseteq errors'
          /\ final' = [balance |-> Len(ledger), rows |-> Len(ledger) - rowsLost, taken |-> TRUE]
      BY <2>4 DEF EndDrain
    <3>2. Clean
      BY <1>2, <3>1 DEF Clean
    <3>3. LastSample'
      BY <3>1 DEF LastSample, svars
    <3> QED
      BY <3>1, <3>2, <3>3 DEF InFlight
  <2>5. CASE Check
    <3>1. /\ phase = "check" /\ errors \subseteq errors' /\ UNCHANGED <<cancelled, final, svars>>
          /\ worker' = [w \in Workers |-> [worker[w] EXCEPT !.at = "done"]]
          /\ reader' = [s \in StreamIds |-> [reader[s] EXCEPT !.at = "done"]]
      BY <2>5 DEF Check, EnterCleanup
    <3>2. \A k : ~ InFlight(k)
      BY <3>1 DEF InFlight, Scheduled
    <3>3. \A w \in Workers : worker'[w].at = "done"
      BY <3>1, TypeFacts DEF Tasks
    <3>4. \A k : ~ InFlight(k)'
      BY <3>3 DEF InFlight
    <3>5. \A s \in Connected : reader'[s].read = reader[s].read
      BY <3>1, TypeFacts DEF Readers
    <3>6. Clean
      BY <1>2, <3>1 DEF Clean
    <3> QED
      BY <3>1, <3>2, <3>4, <3>5, <3>6 DEF LastSample, svars
  <2>6. CASE Cancel \/ StartupFails
    BY <2>6, <1>2 DEF Clean, Cancel, StartupFails
  <2> QED
    BY <2>2, <2>3, <2>4, <2>5, <2>6 DEF Run
<1> QED
  BY <1>1, <1>2, QuietKeepsSound

LEMMA DispatchKeepsSound ==
    ASSUME Typed, Scheduled, Sound, NEW w \in Workers, Dispatch(w)
    PROVE  Sound'
<1> PICK n : n = issued + 1
  OBVIOUS
<1>1. /\ UNCHANGED <<svars, faults, phase, streams, reader, events, errors, final, cancelled, invented>>
      /\ issued' = n
  BY DEF Dispatch
<1>2. /\ 1 .. n = 1 .. issued \cup {n} /\ InFlight(n)'
      /\ \A k \in 1 .. issued : InFlight(k)' <=> InFlight(k)
      /\ \A kind : Returned(kind)' = Returned(kind)
  BY DispatchFacts
<1>3. Recorded' /\ OneSlip'
  BY <1>1, RecordStays DEF Sound, svars
<1>4. ASSUME Clean' PROVE Told'
  <2>1. Told
    BY <1>1, <1>4 DEF Sound, Clean
  <2>2. Replied'
    BY <1>1, <1>2, <2>1 DEF Told, Replied, svars
  <2>3. Numbered' /\ Started' /\ Foretold'
    <3>1. answer' = answer
      BY <1>1 DEF svars
    <3> QED
      BY <3>1, <1>1, <1>2, <2>1, BooksStand DEF Told
  <2>4. Followed' /\ LastSample'
    BY <1>1, <2>1 DEF Told, Followed, LastSample, Connected, svars
  <2> QED
    BY <2>2, <2>3, <2>4 DEF Told
<1> QED
  BY <1>3, <1>4 DEF Sound

\* A read's answer is only looked at, an update's is acknowledged.
LEMMA RespondKeepsSound ==
    ASSUME Typed, Scheduled, Sound, NEW w \in Workers, Respond(w)
    PROVE  Sound'
<1> PICK k : k = worker[w].number
  OBVIOUS
<1> PICK b : b = answer[k].balance
  OBVIOUS
<1>1. /\ worker[w].at = "waiting" /\ events' = Heard(w) /\ worker' = Loops(w)
      /\ IF Accepts(w) THEN UNCHANGED <<errors, stop>>
         ELSE errors' = errors \cup {Kind(k)} /\ stop' = TRUE
      /\ UNCHANGED <<svars, faults, phase, streams, expired, issued, reader, sampler, final,
                     cancelled, invented>>
  BY RespondParts
<1>2. Recorded' /\ OneSlip'
  BY <1>1, RecordStays DEF Sound, svars
<1>3. ASSUME Clean' PROVE Told'
  <2>1. Accepts(w) /\ Clean
    BY <1>1, <1>3 DEF Clean
  <2>2. Told /\ answer' = answer
    BY <1>1, <2>1 DEF Sound, svars
  <2>3. /\ answer[k].status = "ok"
        /\ IsWrite(k) => b > 0 /\ ~ Acknowledge(events, b, k).raised
    BY <2>1 DEF Accepts
  <2>4. k \in 1 .. issued /\ k \in Nat /\ b \in Nat
    <3>1. k \in 1 .. issued /\ k \in Everyone
      BY <1>1, TypeFacts DEF Scheduled, Everyone
    <3> QED
      BY <3>1, TypeFacts DEF Service!Answers
  <2>5. /\ InFlight(k) /\ ~ InFlight(k)'
        /\ \A j : j # k => (InFlight(j)' <=> InFlight(j))
    BY <1>1, ReturnedFlight
  <2>6. Replied'
    BY <1>1, <2>2, <2>3, <2>4, <2>5 DEF Told, Replied
  <2>7. Followed' \/ ~ (events'.last = events.last)
    <3>1. Connected' = Connected /\ delivered' = delivered /\ reader' = reader
      BY <1>1 DEF Connected, svars
    <3> QED
      BY <3>1, <2>2 DEF Told, Followed
  <2>8. LastSample'
    BY <1>1, <2>2 DEF Told, LastSample, svars
  <2>9. CASE ~ IsWrite(k)
    <3>1. events' = events
      BY <1>1, <2>9 DEF Heard
    <3>2. Returned("write")' = Returned("write")
      BY <1>1, <2>5, <2>9 DEF Returned, Issued, Kind
    <3>3. Numbered' /\ Started' /\ Foretold'
      BY <3>1, <3>2, <1>1, <2>2, BooksStand DEF Told
    <3> QED
      BY <3>1, <3>3, <2>6, <2>7, <2>8 DEF Told
  <2>10. CASE IsWrite(k)
    <3> PICK R : R = Returned("write")
      OBVIOUS
    <3>1. Returned("write")' = R \cup {k} /\ k \notin R
      BY <1>1, <2>4, <2>5, <2>10 DEF Returned, Issued, Kind
    <3>2. b > 0 /\ ~ Acknowledge(events, b, k).raised /\ events' = Acknowledge(events, b, k).events
      BY <1>1, <2>3, <2>10 DEF Heard
    <3>a. PICK m : m = events'
      OBVIOUS
    <3>3. IsBook(events) /\ events.floor + 1 \notin events.ahead /\ \A j \in events.ahead : j > events.floor
      BY <2>2 DEF Typed, Told, Numbered
    <3>4. /\ b \notin 1 .. events.floor \cup events.ahead /\ m.last = events.last
          /\ 1 .. m.floor \cup m.ahead = (1 .. events.floor \cup events.ahead) \cup {b}
          /\ m.floor + 1 \notin m.ahead /\ \A j \in m.ahead : j > m.floor
          /\ \A j : j # b => (j \in DOMAIN m.pending <=> j \in DOMAIN events.pending)
          /\ \A j \in DOMAIN m.pending : j # b => m.pending[j] = events.pending[j]
          /\ streams = 0 => m.pending = events.pending
          /\ streams # 0 /\ b \in DOMAIN m.pending => m.pending[b].acked /\ m.pending[b].start = k
          /\ streams # 0 /\ b \in DOMAIN events.pending => \A a \in events.pending[b].fresh : ~ (a < k)
      <4>1. PICK n : n = Acknowledge(events, b, k)
        OBVIOUS
      <4>2. IsBook(events) /\ b \in Nat /\ b > 0 /\ k \in Nat /\ ~ n.raised /\ m = n.events
            /\ events.floor + 1 \notin events.ahead /\ \A j \in events.ahead : j > events.floor
        BY <2>4, <3>2, <3>3, <3>a, <4>1
      <4> QED
        BY ONLY <4>1, <4>2, AcknowledgeAccepts
    <3>5. b \notin Acknowledged /\ Acknowledged' = Acknowledged \cup {b}
      BY <3>4, <3>a DEF Acknowledged
    <3>6. Numbered'
      <4>1. /\ \A i \in Acknowledged : \E j \in R : answer[j].balance = i
            /\ \A j \in R : answer[j].balance \in Acknowledged
            /\ \A i, j \in R : answer[i].balance = answer[j].balance => i = j
        BY <2>2 DEF Told, Numbered
      <4>2. /\ \A i \in Acknowledged \cup {b} : \E j \in R \cup {k} : answer[j].balance = i
            /\ \A j \in R \cup {k} : answer[j].balance \in Acknowledged \cup {b}
            /\ \A i, j \in R \cup {k} : answer[i].balance = answer[j].balance => i = j
        BY <4>1, <3>5
      <4>3. events'.floor + 1 \notin events'.ahead /\ \A j \in events'.ahead : j > events'.floor
        BY <3>4, <3>a
      <4> QED
        BY <4>2, <4>3, <3>1, <3>5, <2>2 DEF Numbered
    <3>7. \A i, j : AnswerOf(i, j) => AnswerOf(i, j)'
      BY <3>1, <2>2 DEF AnswerOf
    <3>8. AnswerOf(b, k)'
      BY <3>1, <2>2 DEF AnswerOf
    <3>9. Started'
      <4> SUFFICES ASSUME NEW i \in DOMAIN m.pending, m.pending[i].acked
                   PROVE  AnswerOf(i, m.pending[i].start)'
        BY <3>a DEF Started, AnswerOf
      <4>1. CASE i # b \/ streams = 0
        <5>1. i \in DOMAIN events.pending /\ m.pending[i] = events.pending[i]
          BY <4>1, <3>4
        <5>2. AnswerOf(i, events.pending[i].start)
          BY <5>1, <2>2 DEF Told, Started
        <5> QED
          BY <5>1, <5>2, <3>7
      <4>2. CASE i = b /\ streams # 0
        BY <4>2, <3>4, <3>8
      <4> QED
        BY <4>1, <4>2
    <3>10. Foretold'
      <4>1. streams = 0 => invented = {}
        BY <2>2 DEF Told, Foretold
      <4> SUFFICES ASSUME NEW x \in invented, streams # 0
                   PROVE  Excused(x)'
        BY <4>1, <1>1 DEF Foretold
      <4>2. Excused(x)
        BY <2>2 DEF Told, Foretold
      <4>3. CASE \E j \in Returned("write") : answer[j].balance = x[1] /\ j <= x[2]
        <5>1. \E j \in Returned("write")' : answer'[j].balance = x[1] /\ j <= x[2]
          BY <4>3, <3>1, <2>2
        <5> QED
          BY <5>1 DEF Excused
      <4>4. CASE /\ x[1] \in DOMAIN events.pending /\ ~ events.pending[x[1]].acked
                 /\ x[2] \in events.pending[x[1]].fresh
        <5>1. CASE x[1] = b
          <6>1. ~ (x[2] < k)
            BY <4>4, <5>1, <3>4
          <6>2. x[2] \in Nat
            <7>1. events.pending[x[1]] \in Entries
              BY <4>4, <3>3, BookParts
            <7> QED
              BY <7>1, <4>4 DEF Entries
          <6>3. k <= x[2]
            BY <6>1, <6>2, <2>4
          <6>4. \E j \in Returned("write")' : answer'[j].balance = x[1] /\ j <= x[2]
            BY <6>3, <5>1, <3>1, <2>2
          <6> QED
            BY <6>4 DEF Excused
        <5>2. CASE x[1] # b
          <6>1. x[1] \in DOMAIN m.pending /\ m.pending[x[1]] = events.pending[x[1]]
            BY <4>4, <5>2, <3>4
          <6> QED
            BY <6>1, <4>4, <3>a DEF Excused
        <5> QED
          BY <5>1, <5>2
      <4> QED
        BY <4>2, <4>3, <4>4 DEF Excused
    <3>11. Followed'
      BY <3>4, <3>a, <2>7
    <3> QED
      BY <3>6, <3>9, <3>10, <3>11, <2>6, <2>8 DEF Told
  <2> QED
    BY <2>9, <2>10
<1> QED
  BY <1>2, <1>3 DEF Sound

LEMMA WorkKeepsSound ==
    ASSUME Typed, Scheduled, Sound, NEW w \in Workers, Work(w)
    PROVE  Sound'
<1>1. CASE WorkerReturns(w)
  <2>1. /\ worker[w].at = "loop" /\ worker' = [worker EXCEPT ![w].at = "done"]
        /\ UNCHANGED <<svars, faults, phase, streams, issued, reader, events, errors, final, cancelled,
                       invented>>
    BY <1>1 DEF WorkerReturns
  <2>2. worker'[w].at = "done" /\ \A v \in Workers : v # w => worker'[v] = worker[v]
    BY <2>1, TypeFacts DEF Typed, Tasks
  <2>3. \A k : InFlight(k)' <=> InFlight(k)
    BY <2>1, <2>2 DEF InFlight
  <2>4. (Clean' => Clean) /\ (LastSample => LastSample')
    BY <2>1 DEF Clean, LastSample, svars
  <2> QED
    BY <2>1, <2>3, <2>4, QuietKeepsSound
<1>2. CASE RequestFails(w)
  <2>1. /\ UNCHANGED <<svars, streams, issued, events, invented>> /\ faults' = faults + 1
        /\ errors' # {}
    BY <1>2 DEF RequestFails, Fail
  <2> QED
    BY <2>1, QuietKeepsSound DEF Clean
<1> QED
  BY <1>1, <1>2, DispatchKeepsSound, RespondKeepsSound DEF Work

\* An event is read, perhaps before it happened.
LEMMA ReadFrameKeepsSound ==
    ASSUME Typed, Sound, NEW s \in Connected, ReadFrame(s)
    PROVE  Sound'
<1> PICK p : p = reader[s].read + 1
  OBVIOUS
<1> PICK event : event = delivered[s][p]
  OBVIOUS
<1> PICK f : f = Frame(events, s, event, issued)
  OBVIOUS
<1>1. /\ UNCHANGED <<svars, faults, phase, streams, worker, issued, final, cancelled>>
      /\ events' = f.events
      /\ IF f.raised THEN errors' = errors \cup {"sse"}
         ELSE errors' = errors /\ reader' = [reader EXCEPT ![s].read = p]
      /\ invented' = IF event.id > Len(ledger) THEN invented \cup {<<event.id, issued>>} ELSE invented
  BY DEF ReadFrame, Fail
<1>2. Recorded' /\ OneSlip'
  BY <1>1, RecordStays DEF Sound, svars
<1>3. ASSUME Clean' PROVE Told'
  <2>1. ~ f.raised /\ Clean
    BY <1>1, <1>3 DEF Clean
  <2>2. Told /\ answer' = answer /\ ledger' = ledger /\ delivered' = delivered
    BY <1>1, <2>1 DEF Sound, svars
  <2>3. p \in 1 .. Len(delivered[s]) /\ event \in Sent /\ s \in StreamIds
    BY FrameOf
  <2>4. /\ reader'[s].read = p
        /\ \A z \in StreamIds : z # s => reader'[z] = reader[z]
    <3>1. reader' = [reader EXCEPT ![s].read = p] /\ reader \in [StreamIds -> Readers]
      BY <1>1, <2>1 DEF Typed
    <3>2. reader'[s] = [at |-> reader[s].at, read |-> p]
      BY <3>1, FrameOf
    <3> QED
      BY <3>1, <3>2, <2>3
  <2> PICK i : i = event.id
    OBVIOUS
  <2> PICK m : m = events'
    OBVIOUS
  <2>5. /\ i = events.last[s] + 1 /\ event = [id |-> i, balance |-> i]
        /\ m.last = [events.last EXCEPT ![s] = i] /\ m.floor = events.floor /\ m.ahead = events.ahead
        /\ \A j : j # i => (j \in DOMAIN m.pending <=> j \in DOMAIN events.pending)
        /\ \A j \in DOMAIN m.pending : j # i => m.pending[j] = events.pending[j]
        /\ i \in DOMAIN m.pending /\ m.pending[i].acked =>
              i \in DOMAIN events.pending /\ events.pending[i].acked
                 /\ m.pending[i].start = events.pending[i].start
        /\ i \in DOMAIN events.pending /\ events.pending[i].acked => ~ (issued < events.pending[i].start)
        /\ ~ (i \in DOMAIN events.pending /\ events.pending[i].acked) =>
              /\ i \in DOMAIN m.pending /\ ~ m.pending[i].acked /\ issued \in m.pending[i].fresh
              /\ i \in DOMAIN events.pending => events.pending[i].fresh \subseteq m.pending[i].fresh
    <3>1. IsBook(events) /\ issued \in Nat /\ m = f.events
      BY <1>1, TypeFacts DEF Typed
    <3> QED
      BY ONLY <3>1, <2>1, <2>3, f = Frame(events, s, event, issued), i = event.id, FrameAccepts
  <2>6. /\ Acknowledged' = Acknowledged /\ Returned("write")' = Returned("write")
    BY <1>1, <2>5 DEF Acknowledged, Returned, Issued, InFlight
  <2>7. Replied' /\ LastSample'
    BY <1>1, <2>2 DEF Told, Replied, LastSample, InFlight, svars
  <2>8. Numbered'
    <3>1. events'.floor = events.floor /\ events'.ahead = events.ahead
      BY <2>5
    <3> QED
      BY <3>1, <2>2, <2>6 DEF Told, Numbered
  <2>9. \A j, k : AnswerOf(j, k)' <=> AnswerOf(j, k)
    BY <2>2, <2>6 DEF AnswerOf
  <2>10. Started'
    <3> SUFFICES ASSUME NEW j \in DOMAIN m.pending, m.pending[j].acked
                 PROVE  AnswerOf(j, m.pending[j].start)'
      BY DEF Started, AnswerOf
    <3>1. j \in DOMAIN events.pending /\ events.pending[j].acked
          /\ m.pending[j].start = events.pending[j].start
      BY <2>5
    <3>2. AnswerOf(j, events.pending[j].start)
      BY <3>1, <2>2 DEF Told, Started
    <3> QED
      BY <3>1, <3>2, <2>9
  <2>11. Foretold'
    <3>1. streams # 0
      BY <1>1, TypeFacts DEF Connected
    <3>2. ASSUME NEW x \in invented PROVE Excused(x)'
      <4>1. Excused(x)
        BY <2>2 DEF Told, Foretold
      <4>2. CASE \E k \in Returned("write") : answer[k].balance = x[1] /\ k <= x[2]
        <5>1. \E k \in Returned("write")' : answer'[k].balance = x[1] /\ k <= x[2]
          BY <4>2, <2>2, <2>6
        <5> QED
          BY <5>1 DEF Excused
      <4>3. CASE /\ x[1] \in DOMAIN events.pending /\ ~ events.pending[x[1]].acked
                 /\ x[2] \in events.pending[x[1]].fresh
        <5>1. /\ x[1] \in DOMAIN m.pending /\ ~ m.pending[x[1]].acked
              /\ x[2] \in m.pending[x[1]].fresh
          <6>1. CASE x[1] = i
            BY <6>1, <4>3, <2>5
          <6>2. CASE x[1] # i
            BY <6>2, <4>3, <2>5
          <6> QED
            BY <6>1, <6>2
        <5> QED
          BY <5>1 DEF Excused
      <4> QED
        BY <4>1, <4>2, <4>3 DEF Excused
    <3>3. ASSUME NEW x, x = <<i, issued>> PROVE Excused(x)'
      <4>1. x[1] = i /\ x[2] = issued
        BY <3>3
      <4>2. CASE i \in DOMAIN events.pending /\ events.pending[i].acked
        <5>1. PICK k : k = events.pending[i].start
          OBVIOUS
        <5>2. k \in Returned("write") /\ answer[k].balance = i
          BY <4>2, <5>1, <2>2 DEF Told, Started, AnswerOf
        <5>3. k \in Nat /\ issued \in Nat
          BY <5>2, TypeFacts DEF Returned, Issued
        <5>4. k <= issued
          BY <5>1, <5>3, <4>2, <2>5
        <5>5. \E j \in Returned("write")' : answer'[j].balance = x[1] /\ j <= x[2]
          BY <5>2, <5>4, <4>1, <2>2, <2>6
        <5> QED
          BY <5>5 DEF Excused
      <4>3. CASE ~ (i \in DOMAIN events.pending /\ events.pending[i].acked)
        <5>1. /\ x[1] \in DOMAIN m.pending /\ ~ m.pending[x[1]].acked
              /\ x[2] \in m.pending[x[1]].fresh
          BY <4>1, <4>3, <2>5
        <5> QED
          BY <5>1 DEF Excused
      <4> QED
        BY <4>2, <4>3
    <3>4. \A x \in invented' : x \in invented \/ x = <<i, issued>>
      BY <1>1
    <3>5. \A x \in invented' : Excused(x)'
      BY <3>2, <3>3, <3>4
    <3> QED
      BY <3>1, <3>5, <1>1 DEF Foretold
  <2>12. Followed'
    <3> SUFFICES ASSUME NEW z \in Connected
                 PROVE  /\ events'.last[z] = reader'[z].read /\ reader'[z].read <= Len(delivered[z])
                        /\ \A j \in 1 .. reader'[z].read : delivered[z][j] = [id |-> j, balance |-> j]
      BY <1>1, <2>2 DEF Followed, Connected
    <3>1. /\ events.last[z] = reader[z].read /\ reader[z].read <= Len(delivered[z])
          /\ \A j \in 1 .. reader[z].read : delivered[z][j] = [id |-> j, balance |-> j]
      BY <2>2 DEF Told, Followed
    <3>2. z \in StreamIds /\ events.last \in [StreamIds -> Nat] /\ reader[z].read \in Nat
      BY TypeFacts, BookParts DEF Typed, Readers
    <3>3. CASE z = s
      <4>1. i = p /\ events'.last[z] = p /\ reader'[z].read = p
        BY <3>1, <3>2, <3>3, <2>4, <2>5
      <4>2. p \in Nat /\ p <= Len(delivered[z]) /\ \A j \in 1 .. p : j = p \/ j \in 1 .. reader[z].read
        BY <3>2, <3>3, <2>3
      <4>3. delivered[z][p] = [id |-> p, balance |-> p]
        BY <4>1, <3>3, <2>5
      <4> QED
        BY <4>1, <4>2, <4>3, <3>1
    <3>4. CASE z # s
      <4>1. events'.last[z] = events.last[z] /\ reader'[z] = reader[z]
        BY <3>2, <3>4, <2>4, <2>5
      <4> QED
        BY <4>1, <3>1
    <3> QED
      BY <3>3, <3>4
  <2> QED
    BY <2>7, <2>8, <2>10, <2>11, <2>12 DEF Told
<1> QED
  BY <1>2, <1>3 DEF Sound

----------------------------------------------------------------------------
(* The invariant, and what it says of the end.                               *)

LEMMA StreamingKeepsSound ==
    ASSUME Typed, Sound, NEW s \in Connected, Streaming(s)
    PROVE  Sound'
<1>1. CASE StreamFails(s)
  <2>1. /\ UNCHANGED <<svars, streams, issued, events, invented>> /\ faults' = faults + 1
        /\ errors' = errors \cup {"sse"}
    BY <1>1 DEF StreamFails, Fail
  <2>2. ~ Clean'
    BY <2>1 DEF Clean
  <2> QED
    BY <2>1, <2>2, QuietKeepsSound
<1> QED
  BY <1>1, ReadFrameKeepsSound DEF Streaming

LEMMA SoundInit == Init => Sound
<1> SUFFICES ASSUME Init PROVE Sound
  OBVIOUS
<1>1. /\ issued = 0 /\ phase = "startup" /\ faults = 0 /\ invented = {}
      /\ events.floor = 0 /\ events.ahead = {} /\ events.pending = <<>>
      /\ events.last = [s \in StreamIds |-> 0]
      /\ reader = [s \in StreamIds |-> [at |-> "none", read |-> 0]]
  BY DEF Init
<1>2. /\ DOMAIN ledger = {}
      /\ \A k \in Numbers : ~ looked[k].done /\ answer[k] = Service!NotYet
      /\ \A s \in StreamIds : delivered[s] = <<>>
  BY DEF Init, Service!ContractInit, Service!Unseen
<1>3. Recorded
  BY <1>2 DEF Recorded, ForWrites
<1>4. OneSlip
  <2>1. (\A k \in Numbers : Straight(k)) /\ \A i \in DOMAIN ledger : Meant(i)
    BY <1>2 DEF Straight
  <2> QED
    BY <2>1 DEF OneSlip
<1>5. Told
  <2>1. \A k \in 1 .. issued : FALSE
    BY <1>1
  <2>2. Returned("write") = {} /\ Acknowledged = {} /\ DOMAIN events.pending = {}
    BY <1>1, <2>1 DEF Returned, Issued, Acknowledged
  <2>3. Replied /\ Started /\ Foretold /\ LastSample
    BY <1>1, <2>1, <2>2 DEF Replied, Started, Foretold, LastSample
  <2>4. Numbered
    BY <1>1, <2>2 DEF Numbered
  <2>5. Followed
    <3>1. Connected \subseteq StreamIds
      BY LoadAssumption DEF Init, Connected, StreamIds
    <3>2. \A s \in Connected :
              events.last[s] = 0 /\ reader[s].read = 0 /\ Len(delivered[s]) = 0
      BY <1>1, <1>2, <3>1
    <3>3. \A i \in 1 .. 0 : FALSE
      OBVIOUS
    <3> QED
      BY <3>2, <3>3 DEF Followed
  <2> QED
    BY <2>3, <2>4, <2>5 DEF Told
<1> QED
  BY <1>3, <1>4, <1>5 DEF Sound

LEMMA SoundStep == Books /\ Sound /\ [Next]_vars => Sound'
<1> SUFFICES ASSUME Books, Sound, [Next]_vars PROVE Sound'
  OBVIOUS
<1>t. Typed /\ Scheduled
  BY DEF Books
<1>1. CASE Serve \/ Misbehave
  BY <1>t, <1>1, ServeKeepsSound
<1>2. CASE Expire \/ Run \/ Sampling
  BY <1>t, <1>2, RunKeepsSound
<1>3. CASE \E w \in Workers : Work(w)
  BY <1>t, <1>3, WorkKeepsSound
<1>4. CASE \E s \in Connected : Streaming(s)
  BY <1>t, <1>4, StreamingKeepsSound
<1>5. CASE UNCHANGED vars
  <2>1. UNCHANGED <<svars, streams, issued, events, invented>> /\ faults' = faults
    BY <1>5 DEF vars, svars
  <2>2. Clean' => /\ Clean /\ \A k : InFlight(k)' <=> InFlight(k)
                  /\ \A s \in Connected : reader'[s].read = reader[s].read
                  /\ LastSample => LastSample'
    BY <1>5 DEF vars, Clean, InFlight, LastSample
  <2> QED
    BY <1>t, <2>1, <2>2, QuietKeepsSound
<1> QED
  BY <1>1, <1>2, <1>3, <1>4, <1>5 DEF Next, Ended

\* The balances answered to as many updates as there are balances up to the
\* floor are those balances, one each.
LEMMA BalancesNumberWrites ==
    ASSUME Typed, Numbered, NEW W, W = Returned("write"), events.floor = Cardinality(W)
    PROVE  \A k \in W : answer[k].balance \in 1 .. Cardinality(W)
<1>1. IsFiniteSet(W) /\ Cardinality(W) \in Nat
  BY IssuedIsFinite
<1> PICK c : c = Cardinality(W)
  OBVIOUS
<1> PICK f : f = [k \in W |-> answer[k].balance]
  OBVIOUS
<1>2. f \in Surjection(W, Acknowledged)
  <2>1. f \in [W -> Acknowledged]
    BY DEF Numbered
  <2>2. \A i \in Acknowledged : \E k \in W : f[k] = i
    BY DEF Numbered
  <2> QED
    BY ONLY <2>1, <2>2 DEF Surjection
<1>3. f \in Injection(W, Acknowledged)
  <2>1. f \in [W -> Acknowledged]
    BY DEF Numbered
  <2>2. \A j, k \in W : f[j] = f[k] => j = k
    BY DEF Numbered
  <2> QED
    BY ONLY <2>1, <2>2 DEF Injection, IsInjective
<1>4. IsFiniteSet(Acknowledged) /\ Cardinality(Acknowledged) = c
  BY <1>1, <1>2, <1>3, FS_Surjection
<1>5. c \in Nat /\ IsFiniteSet(1 .. c) /\ Cardinality(1 .. c) = c
  BY <1>1, UpTo
<1>6. 1 .. c \subseteq Acknowledged
  BY DEF Acknowledged
<1>7. 1 .. c = Acknowledged
  BY ONLY <1>4, <1>5, <1>6, FS_Subset
<1> QED
  BY <1>7 DEF Numbered

\* An update that was answered with a balance of the ledger is the one there.
LEMMA LedgerKnowsWrite ==
    ASSUME Typed, Recorded, OneSlip, faults <= 1, Replied, Numbered, Issued("write") = Returned("write"),
           NEW k \in Returned("write"), answer[k].balance \in DOMAIN ledger
    PROVE  ledger[answer[k].balance] = k
<1> PICK b : b = answer[k].balance
  OBVIOUS
<1>1. k \in Numbers /\ IsWrite(k) /\ answer[k] # Service!NotYet
  BY ReturnedAnswers
<1>2. ASSUME NEW j \in Returned("write"), Straight(j)
      PROVE  looked[j].done /\ answer[j].balance = looked[j].balance
  <2>1. j \in Numbers /\ IsWrite(j) /\ answer[j] # Service!NotYet
    BY ReturnedAnswers
  <2> QED
    BY <1>2, <2>1 DEF Straight
<1>3. CASE Straight(k)
  BY <1>1, <1>2, <1>3 DEF Recorded
<1>4. CASE ~ Straight(k)
  <2> PICK j : j = ledger[b]
    OBVIOUS
  <2>1. AllMeant /\ Unlike /\ ~ AllStraight
    BY <1>1, <1>4, SlipParts DEF AllStraight
  <2>2. looked[j].done /\ looked[j].balance = b
    BY <2>1 DEF AllMeant, Meant
  <2>3. j \in Returned("write")
    BY DEF Recorded, ForWrites
  <2>4. j \in Numbers
    BY <2>3, ReturnedAnswers
  <2>5. CASE j # k
    <3>1. Straight(j)
      BY <1>1, <1>4, <2>1, <2>4, <2>5 DEF Unlike
    <3>2. answer[j].balance = b
      BY <1>2, <2>2, <2>3, <3>1
    <3> QED
      BY <2>3, <2>5, <3>2 DEF Numbered
  <2> QED
    BY <2>5
<1> QED
  BY <1>3, <1>4

LEMMA SoundIsTrue ==
    ASSUME Books, Sound, faults <= 1
    PROVE  OkIsTrue
<1> SUFFICES ASSUME Ok
             PROVE  LET written == {k \in 1 .. issued : IsWrite(k)}
                    IN  /\ Len(ledger) = Cardinality(written) /\ rowsLost = 0
                        /\ \A k \in written : ledger[answer[k].balance] = k
                        /\ \A s \in Connected :
                              SubSeq(delivered[s], 1, reader[s].read) = Service!History(Len(ledger))
                        /\ \A x \in invented : x[2] >= ledger[x[1]]
  BY DEF OkIsTrue
<1> PICK W : W = Returned("write")
  OBVIOUS
<1> PICK c : c = Len(ledger)
  OBVIOUS
<1>t. Typed /\ Scheduled /\ Tallied /\ Recorded /\ OneSlip
  BY DEF Books, Sound
<1>1. phase = "ended" /\ ~ cancelled /\ errors = {}
  BY DEF Ok
<1>2. Replied /\ Numbered /\ Foretold /\ Followed /\ LastSample
  BY <1>1 DEF Sound, Clean, Told
<1>3. LedgerAgrees(events) /\ StreamsAgree(events)
  BY <1>1 DEF Books, Reconciled
<1>4. Issued("write") = W /\ W = {k \in 1 .. issued : IsWrite(k)}
  <2>1. \A k : ~ InFlight(k)
    BY <1>1, <1>t DEF InFlight, Scheduled
  <2> QED
    BY <2>1 DEF Returned, Issued, Kind
<1>5. c \in Nat /\ DOMAIN ledger = 1 .. c /\ rowsLost \in Nat
  BY <1>t, TypeFacts DEF Typed
<1>6. Writes = Cardinality(W) /\ final.balance = c /\ final.rows = c - rowsLost
  BY <1>1, <1>2, <1>t DEF Writes, Tallied, LastSample
<1>7. c = Cardinality(W) /\ events.floor = c /\ rowsLost = 0 /\ Writes = c
  BY <1>3, <1>5, <1>6 DEF LedgerAgrees
<1>8. \A k \in W : ledger[answer[k].balance] = k
  <2> SUFFICES ASSUME NEW k \in W PROVE ledger[answer[k].balance] = k
    OBVIOUS
  <2>1. answer[k].balance \in DOMAIN ledger
    BY <1>2, <1>5, <1>7, <1>t, BalancesNumberWrites
  <2> QED
    BY <1>2, <1>4, <1>t, <2>1, LedgerKnowsWrite
<1>9. ASSUME NEW s \in Connected
      PROVE  SubSeq(delivered[s], 1, reader[s].read) = Service!History(c)
  <2> PICK h : h = SubSeq(delivered[s], 1, c)
    OBVIOUS
  <2>1. events.last[s] = c
    BY <1>3, <1>7 DEF StreamsAgree
  <2>2. reader[s].read = c /\ \A i \in 1 .. c : delivered[s][i] = [id |-> i, balance |-> i]
    BY <1>2, <2>1 DEF Followed
  <2>3. \A i \in 1 .. c : delivered[s][i] \in Sent
    <3>1. \A i \in 1 .. c : [id |-> i, balance |-> i] \in Sent
      BY <1>5 DEF Sent
    <3> QED
      BY ONLY <2>2, <3>1
  <2>4. h \in Seq(Sent) /\ Len(h) = c /\ \A i \in 1 .. c : h[i] = delivered[s][i]
    <3>1. /\ h \in Seq(Sent)
          /\ Len(h) = IF 1 <= c THEN c - 1 + 1 ELSE 0
          /\ \A i \in 1 .. c - 1 + 1 : h[i] = delivered[s][1 + i - 1]
      <4>1. 1 \in Int /\ c \in Int
        BY <1>5
      <4> QED
        BY <2>3, <4>1, SubSeqProperties
    <3>2. c - 1 + 1 = c /\ \A i \in 1 .. c : 1 + i - 1 = i
      BY <1>5
    <3> QED
      BY <1>5, <3>1, <3>2
  <2>5. /\ Service!History(c) \in Seq(Sent) /\ Len(Service!History(c)) = c
        /\ \A i \in 1 .. c : Service!History(c)[i] = [id |-> i, balance |-> i]
    BY <1>5, HistoryIsSent
  <2>6. h = Service!History(c)
    <3> PICK g : g = Service!History(c)
      OBVIOUS
    <3>1. g \in Seq(Sent) /\ Len(g) = c /\ \A i \in 1 .. c : g[i] = [id |-> i, balance |-> i]
      BY <2>5
    <3>2. \A i \in 1 .. c : h[i] = g[i]
      BY ONLY <2>2, <2>4, <3>1
    <3>3. h = g
      BY ONLY <2>4, <3>1, <3>2, SeqEqual
    <3> QED
      BY <3>3
  <2> QED
    BY <2>2, <2>6
<1>10. ASSUME NEW x \in invented
       PROVE  x[2] >= ledger[x[1]]
  <2>1. DOMAIN events.pending = {}
    BY <1>3 DEF StreamsAgree
  <2>2. PICK k \in W : answer[k].balance = x[1] /\ k <= x[2]
    BY <1>2, <2>1 DEF Foretold, Excused
  <2>3. ledger[x[1]] = k
    BY <1>8, <2>2
  <2> QED
    BY <2>2, <2>3
<1> QED
  BY <1>4, <1>7, <1>8, <1>9, <1>10

\* What goes wrong is what the bound allows.
LEMMA FaultsAreBounded == Spec => [](Typed => faults <= MaxFaults[streams])
<1>1. Init => (Typed => faults <= MaxFaults[streams])
  BY LoadAssumption DEF Init
<1>2. Books /\ (Typed => faults <= MaxFaults[streams]) /\ [Next]_vars
      => (Typed => faults <= MaxFaults[streams])'
  <2> SUFFICES ASSUME Books, faults <= MaxFaults[streams], [Next]_vars
               PROVE  faults' <= MaxFaults'[streams']
    BY DEF Books
  <2>t. Typed /\ faults \in Nat /\ MaxFaults[streams] \in Nat
    BY LoadAssumption DEF Books, Typed
  <2>1. streams' = streams /\ (faults' = faults \/ (faults' = faults + 1 /\ faults < MaxFaults[streams]))
    <3>1. CASE Serve \/ Misbehave \/ Expire
      BY <3>1 DEF Serve, Misbehave, Expire
    <3>2. CASE Run
      BY <3>2 DEF Run, Startup, StartupFails, WorkersDone, EndDrain, Check, Cancel, JoinTasks, CloseAll
    <3>3. CASE Sampling
      BY <3>3 DEF Sampling, Sample, Sampled, SamplerReturns
    <3>4. CASE \E w \in Workers : Work(w)
      BY <3>4 DEF Work, WorkerReturns, Dispatch, Respond, RequestFails
    <3>5. CASE \E s \in Connected : Streaming(s)
      BY <3>5 DEF Streaming, ReadFrame, StreamFails
    <3>6. CASE UNCHANGED vars
      BY <3>6 DEF vars
    <3> QED
      BY <3>1, <3>2, <3>3, <3>4, <3>5, <3>6 DEF Next, Ended
  <2> QED
    BY <2>t, <2>1
<1> QED
  BY <1>1, <1>2, BooksInvariant, PTL DEF Spec

\* A report that says ok is true as long as at most one thing went wrong, for
\* any number of workers, requests and streams and any order of answers and
\* events: run's reconciliation lets no single false answer, lost, repeated or
\* invented event, repeated update or lost row pass.
THEOREM OneFaultIsNoticed == Spec => [](faults <= 1 => OkIsTrue)
<1>1. Books /\ Sound => (faults <= 1 => OkIsTrue)
  BY SoundIsTrue
<1> QED
  BY <1>1, SoundInit, SoundStep, BooksInvariant, PTL DEF Spec

\* The same where the model allows no second fault, as in the checked run.
THEOREM OkIsBelieved ==
    ASSUME \A n \in 0 .. Streams : MaxFaults[n] <= 1
    PROVE  Spec => []OkIsTrue
<1>1. Books /\ (Typed => faults <= MaxFaults[streams]) => faults <= 1
  BY LoadAssumption DEF Books, Typed
<1> QED
  BY <1>1, FaultsAreBounded, OneFaultIsNoticed, BooksInvariant, PTL
============================================================================
