--------------------------- MODULE CacheContract ---------------------------
(* What the frontend pool may rely on when it uses the summary cache         *)
(* (internal/cache): a disposable, lossy store.  A write may be lost, an     *)
(* entry may disappear, a read may always miss; but a read that hits answers *)
(* a summary that some write offered under exactly the key that was asked.   *)
EXTENDS FiniteSets

CONSTANTS Procs,      \* goroutines and processes that use one cache directory
          Keys,
          Summaries,
          Miss,       \* no summary: a read found nothing usable
          Nobody      \* no key: the process is not reading

VARIABLES
    offered,  \* the <<key, summary>> pairs any write has offered
    asked,    \* the key each process is reading, or Nobody
    answer    \* the last answer of a read of each process

cvars == <<offered, asked, answer>>

ContractInit ==
    /\ offered = {}
    /\ asked = [p \in Procs |-> Nobody]
    /\ answer = [p \in Procs |-> Miss]

\* The answers a read of key k may get.
Served(k) == {s \in Summaries : <<k, s>> \in offered} \cup {Miss}

Offer(p, k, s) ==
    /\ asked[p] = Nobody
    /\ offered' = offered \cup {<<k, s>>}
    /\ answer' = [answer EXCEPT ![p] = Miss]
    /\ UNCHANGED asked

Ask(p, k) ==
    /\ asked[p] = Nobody
    /\ asked' = [asked EXCEPT ![p] = k]
    /\ answer' = [answer EXCEPT ![p] = Miss]
    /\ UNCHANGED offered

Answer(p, s) ==
    /\ asked[p] # Nobody
    /\ s \in Served(asked[p])
    /\ answer' = [answer EXCEPT ![p] = s]
    /\ asked' = [asked EXCEPT ![p] = Nobody]
    /\ UNCHANGED offered

\* A process may die while it reads, and forgets its last answer when it
\* starts something else.
Forget(p) ==
    /\ asked' = [asked EXCEPT ![p] = Nobody]
    /\ answer' = [answer EXCEPT ![p] = Miss]
    /\ UNCHANGED offered

ContractNext ==
    \E p \in Procs :
        \/ \E k \in Keys, s \in Summaries : Offer(p, k, s)
        \/ \E k \in Keys : Ask(p, k)
        \/ \E s \in Summaries \cup {Miss} : Answer(p, s)
        \/ Forget(p)

ContractSpec == ContractInit /\ [][ContractNext]_cvars

============================================================================
