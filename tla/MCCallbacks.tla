---------------------------- MODULE MCCallbacks ----------------------------
(* Two functions that take and return callbacks, one of them perhaps through  *)
(* the other, and an external function that is passed on.                     *)
EXTENDS CallbackProvenance, TLC

CONSTANTS f, g, e, pf, pg, rf, rg, re, local1

Signatures == (f :> <<pf>>) @@ (g :> <<pg>>) @@ (e :> <<>>)
Results == (f :> rf) @@ (g :> rg) @@ (e :> re)

Value(name) == [result |-> FALSE, name |-> name]
ResultOf(name) == [result |-> TRUE, name |-> name]
To(slot, source) == [slot |-> slot, source |-> source]
Passing(target, sources) ==
    [target |-> target, arguments |-> [i \in DOMAIN sources |-> [position |-> 1, source |-> sources[i]]]]

Assigned == {To(local1, s) : s \in {Value(f), Value(g), Value(pf), ResultOf(f), ResultOf(local1)}}
Returned == {To(rf, s) : s \in {Value(g), Value(pf), Value(e)}} \cup {To(rg, s) : s \in {Value(local1), Value(pg)}}
Given == {To(pf, s) : s \in {Value(e), Value(g), ResultOf(pg)}} \cup {To(pg, Value(f))}

SomePrograms ==
    {[bindings |-> <<a, b, c>>, invocations |-> i,
      calls |-> {[caller |-> f, callee |-> local1], [caller |-> f, callee |-> g], [caller |-> g, callee |-> pg]}] :
        a \in Assigned, b \in Returned \cup Given, c \in Assigned \cup Given,
        i \in {<<>>} \cup {<<Passing(t, s)>> : t \in {Value(local1), Value(pf), ResultOf(local1)},
                                               s \in {<<Value(local1)>>, <<Value(pg), Value(e)>>}}}
============================================================================
