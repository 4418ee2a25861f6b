----------------------------- MODULE MCGenerics -----------------------------
(* A generic function with a closure, one of two parameters, and one that is *)
(* not generic, with every three calls between them.                         *)
EXTENDS GenericCycles, TLC

CONSTANTS one, inner, two, plain

Nesting == (one :> "none") @@ (inner :> one) @@ (two :> "none") @@ (plain :> "none")
Parameters == (one :> 1) @@ (inner :> 0) @@ (two :> 2) @@ (plain :> 0)

Same(i) == [parameter |-> i, wrapped |-> 0]
Wrapped(i) == [parameter |-> i, wrapped |-> 1]
Calling(caller, callee, arguments) ==
    [caller |-> caller, callee |-> callee, kind |-> "sync", instantiation |-> arguments]
MakesClosure == [caller |-> one, callee |-> inner, kind |-> "closure", instantiation |-> <<>>]
BackTo(caller) == [caller |-> caller, callee |-> inner, kind |-> "callback", instantiation |-> <<>>]

SomeCalls ==
    <<MakesClosure, BackTo(two), BackTo(plain), Calling(one, plain, <<>>), Calling(inner, plain, <<>>),
      Calling(one, one, <<Same(1)>>), Calling(one, one, <<Wrapped(1)>>), Calling(inner, one, <<Same(1)>>),
      Calling(inner, one, <<Wrapped(1)>>), Calling(plain, one, <<Same(0)>>), Calling(plain, one, <<Wrapped(0)>>),
      Calling(one, two, <<Same(1), Same(1)>>), Calling(one, two, <<Wrapped(1), Same(0)>>),
      Calling(inner, two, <<Same(0), Wrapped(1)>>), Calling(two, two, <<Same(1), Same(2)>>),
      Calling(two, two, <<Same(2), Wrapped(1)>>), Calling(two, two, <<Wrapped(1), Wrapped(2)>>),
      Calling(two, two, <<Same(2), Same(1)>>), Calling(two, one, <<Same(2)>>), Calling(two, one, <<Wrapped(1)>>),
      Calling(two, plain, <<>>), Calling(plain, two, <<Same(0), Wrapped(0)>>)>>

\* And none, for a program without any.
ThreeCalls ==
    {<<>>} \cup
    {[i \in 1 .. 3 |-> SomeCalls[chosen[i]]] :
        chosen \in {t \in (1 .. 20) \X (2 .. 21) \X (3 .. 22) : t[1] < t[2] /\ t[2] < t[3]}}
=============================================================================
