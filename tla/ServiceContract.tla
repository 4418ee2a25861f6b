-------------------------- MODULE ServiceContract --------------------------
(* What the clients of the reference service may rely on                     *)
(* (examples/reference_service): an update is applied at most once and as a  *)
(* whole, an answer tells the truth about it, and a stream of events is the  *)
(* history of the updates from its beginning, in order and without gaps.     *)
(*                                                                           *)
(* Every update increments one user by one, so that the balance after the    *)
(* n-th update is n and its event has the number n.                          *)
EXTENDS Naturals, Sequences

CONSTANTS Clients, Past   \* and the updates applied before

\* What one connection may ask.  "static" is whatever is
\* answered without the database: health, bad requests, unknown routes and
\* headers that are too long.
Requests == [route : {"read", "update"}, known : BOOLEAN]
            \cup [route : {"events", "static"}, known : {TRUE}]

VARIABLES
    asks,      \* what each client asks
    ledger,    \* the clients whose updates were applied, in that order
    looked,    \* whether a read or update of each client was done, and the balance it saw
    answer,    \* what each client was answered
    delivered  \* the events each client was sent

cvars == <<asks, ledger, looked, answer, delivered>>

Unseen == [done |-> FALSE, balance |-> 0]
Saw(b) == [done |-> TRUE, balance |-> b]
NotYet == [status |-> "none", balance |-> 0]
Answers == [status : {"none", "ok", "missing", "unavailable", "static"}, balance : Nat]

\* The history of n updates as a stream shows it.
History(n) == [i \in 1 .. n |-> [id |-> i, balance |-> i]]

Applied(c) == \E i \in 1 .. Len(ledger) : ledger[i] = c

ContractInit ==
    /\ asks \in [Clients -> Requests]
    /\ ledger = [i \in 1 .. Past |-> "none"]
    /\ looked = [c \in Clients |-> Unseen]
    /\ answer = [c \in Clients |-> NotYet]
    /\ delivered = [c \in Clients |-> <<>>]

\* The update of c takes effect, once, and never after c was answered.
Apply(c) ==
    /\ asks[c] = [route |-> "update", known |-> TRUE]
    /\ ~ Applied(c) /\ answer[c] = NotYet
    /\ ledger' = Append(ledger, c)
    /\ looked' = [looked EXCEPT ![c] = Saw(Len(ledger) + 1)]
    /\ UNCHANGED <<asks, answer, delivered>>

Look(c) ==
    /\ asks[c] = [route |-> "read", known |-> TRUE]
    /\ answer[c] = NotYet
    /\ looked' = [looked EXCEPT ![c] = Saw(Len(ledger))]
    /\ UNCHANGED <<asks, ledger, answer, delivered>>

\* The answers that are true of c's request.
Truthful(c) ==
    CASE asks[c].route \in {"update", "read"} /\ looked[c].done ->
            {[status |-> "ok", balance |-> looked[c].balance]}
      [] asks[c].route \in {"update", "read"} /\ ~ looked[c].done ->
            {[status |-> "unavailable", balance |-> 0]} \cup
            IF asks[c].known THEN {} ELSE {[status |-> "missing", balance |-> 0]}
      [] asks[c].route = "static" -> {[status |-> "static", balance |-> 0]}
      [] OTHER -> {}

Answer(c) ==
    /\ answer[c] = NotYet
    /\ \E a \in Truthful(c) : answer' = [answer EXCEPT ![c] = a]
    /\ UNCHANGED <<asks, ledger, looked, delivered>>

Deliver(c) ==
    /\ asks[c].route = "events"
    /\ \E n \in Len(delivered[c]) .. Len(ledger) :
          delivered' = [delivered EXCEPT ![c] = History(n)]
    /\ UNCHANGED <<asks, ledger, looked, answer>>

ContractNext == \E c \in Clients : Apply(c) \/ Look(c) \/ Answer(c) \/ Deliver(c)

ContractSpec == ContractInit /\ [][ContractNext]_cvars

============================================================================
