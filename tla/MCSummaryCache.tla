--------------------------- MODULE MCSummaryCache ---------------------------
(* The summary cache on small instances: who does what, and which faults     *)
(* occur, is chosen per run.                                                 *)
EXTENDS SummaryCache, TLC

CONSTANTS p1, p2

\* Two verifier goroutines that look up and store, as the frontend pool does.
TwoUsers == [p \in {p1, p2} |-> {"read", "write"}]

\* A worker that stores, and a process that stores, looks up or cleans.
Mixed == (p1 :> {"write"}) @@ (p2 :> {"write", "clean", "read"})

\* One verifier at a time: it stores, it is killed or not, it cleans.
Cleaning == (p1 :> {"write", "clean"})

\* Processes that do the same, the keys and the summaries are interchangeable.
Interchangeable ==
    Permutations({p1, p2}) \cup Permutations(Keys) \cup Permutations(Summaries)

NamesInterchangeable == Permutations(Keys) \cup Permutations(Temps)

\* The directory has nothing in it at the start.
Bare == {[x \in Names |-> NoInode]}

\* The user has files under names of his own.
Inhabited == {[x \in Names |-> IF x \in Foreign THEN 0 ELSE NoInode]}

SmallInodes == 0 .. 4
============================================================================
