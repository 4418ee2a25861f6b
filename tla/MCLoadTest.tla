----------------------------- MODULE MCLoadTest -----------------------------
(* Two workers, up to two streams, two reads and two increments.                    *)
EXTENDS LoadTest, TLC

\* With two streams the service and the network do what they should.
FaultsWith == (0 :> 1) @@ (1 :> 1) @@ (2 :> 0)

Interchangeable == Permutations(Workers)
============================================================================
