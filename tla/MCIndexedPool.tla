--------------------------- MODULE MCIndexedPool ---------------------------
(* IndexedPool on a small slice, with a Jobs that has to be replaced and      *)
(* a pool narrower than the slice, so that a worker takes several items.      *)
EXTENDS IndexedPool

NegativeJobs == -1
============================================================================
