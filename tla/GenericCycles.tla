---------------------------- MODULE GenericCycles ----------------------------
(* internal/check/functional_closures.go checkGenericCycles: a generic call  *)
(* on a cycle of calls has to pass the caller's own type parameters on, in   *)
(* their order.  Afterwards the program is instantiated from some function.  *)
EXTENDS Naturals, Sequences, FiniteSets

CONSTANTS
    Named,        \* Program.Functions
    ParentOf,     \* the function a nested function is defined in, or "none"
    Arity,        \* the number of type parameters; nested functions have none
    CallLists,    \* what Result.Calls may be
    GenericBudget \* 1000000 in the code

\* A type argument is a type parameter of the caller, or with 0 some data type,
\* by itself or wrapped in another type, as in tuple[T, ...].
TypeArguments == [parameter : Nat, wrapped : {0, 1}]

Nests(outer) ==
    \A f \in Named : /\ ParentOf[outer[f]] = "none"
                     /\ outer[f] = IF ParentOf[f] = "none" THEN f ELSE outer[ParentOf[f]]

\* The outermost function around a nested one; its type parameters are in scope.
Outermost == CHOOSE outer \in [Named -> Named] : Nests(outer)

\* What calls of result.Calls are: closures are made by the function around them,
\* and whatever is called or used as a value by its name is an outermost function.
\* Calls of external functions, which lead nowhere, are left out.
Calls ==
    {call \in [caller : Named, callee : Named, kind : {"sync", "function_value", "closure", "callback"},
               instantiation : Seq(TypeArguments)] :
        /\ \A i \in DOMAIN call.instantiation : call.instantiation[i].parameter <= Arity[Outermost[call.caller]]
        /\ call.kind \in {"closure", "callback"} => call.instantiation = <<>>
        /\ call.kind = "closure" => ParentOf[call.callee] = call.caller
        /\ call.kind \in {"sync", "function_value"} =>
              ParentOf[call.callee] = "none" /\ Len(call.instantiation) = Arity[call.callee]}

ASSUME GenericAssumption ==
    /\ ParentOf \in [Named -> Named \cup {"none"}] /\ "none" \notin Named
    /\ IsFiniteSet(Named)
    /\ \E outer \in [Named -> Named] : Nests(outer)
    /\ Arity \in [Named -> Nat]
    /\ CallLists \subseteq Seq(Calls)
    /\ GenericBudget \in Nat

VARIABLES
    calls,     \* Result.Calls
    edge,      \* the call under way
    queue,     \* what the search from its callee has still to visit
    seen,      \* and has visited
    spent,     \* of the budget
    refused,   \* the calls reported with PP203
    judging,   \* "calls", "search", or how the analysis ended: "done" or "exceeded"
    instance   \* afterwards, the function being instantiated and how deep its types are

genericVars == <<calls, edge, queue, seen, spent, refused, judging, instance>>

Nobody == [function |-> "none", depth |-> <<>>]

GenericInit ==
    /\ calls \in CallLists
    /\ edge = 1 /\ queue = <<>> /\ seen = {} /\ spent = 0 /\ refused = {} /\ judging = "calls"
    /\ instance = Nobody

\* The callees of a function, in the order of its calls.
Adjacent(f) ==
    LET from == {i \in DOMAIN calls : calls[i].caller = f}
        place(i) == Cardinality({j \in from : j <= i})
    IN  [k \in 1 .. Cardinality(from) |-> calls[CHOOSE i \in from : place(i) = k].callee]

Newest == queue[Len(queue)]
Remaining == SubSeq(queue, 1, Len(queue) - 1)

Preserves(call) ==
    /\ Len(call.instantiation) = Arity[Outermost[call.caller]]
    /\ \A i \in DOMAIN call.instantiation : call.instantiation[i] = [parameter |-> i, wrapped |-> 0]

----------------------------------------------------------------------------
(* checkGenericCycles.                                                       *)

\* A call without type arguments is of no concern by itself.
NextCall ==
    /\ judging = "calls" /\ edge <= Len(calls)
    /\ IF calls[edge].instantiation = <<>>
       THEN edge' = edge + 1 /\ UNCHANGED <<queue, seen, judging>>
       ELSE judging' = "search" /\ queue' = <<calls[edge].callee>> /\ seen' = {} /\ UNCHANGED edge
    /\ UNCHANGED <<calls, spent, refused, instance>>

\* The call is on a cycle.
CycleFound ==
    /\ judging = "search" /\ queue # <<>> /\ Newest = calls[edge].caller
    /\ refused' = IF Preserves(calls[edge]) THEN refused ELSE refused \cup {edge}
    /\ edge' = edge + 1 /\ judging' = "calls" /\ queue' = <<>> /\ seen' = {}
    /\ UNCHANGED <<calls, spent, instance>>

Searching == judging = "search" /\ queue # <<>> /\ Newest # calls[edge].caller

SkipSeen ==
    /\ Searching /\ Newest \in seen
    /\ queue' = Remaining
    /\ UNCHANGED <<calls, edge, seen, spent, refused, judging, instance>>

\* Slip: nested functions are not followed.
SearchOutermost ==
    /\ Searching /\ Newest \notin seen /\ spent < GenericBudget
    /\ seen' = seen \cup {Newest} /\ spent' = spent + 1
    /\ queue' = Remaining \o SelectSeq(Adjacent(Newest), LAMBDA f : ParentOf[f] = "none")
    /\ UNCHANGED <<calls, edge, refused, judging, instance>>

Search ==
    /\ Searching /\ Newest \notin seen /\ spent < GenericBudget
    /\ seen' = seen \cup {Newest} /\ spent' = spent + 1
    /\ queue' = Remaining \o Adjacent(Newest)
    /\ UNCHANGED <<calls, edge, refused, judging, instance>>

SearchExceeds ==
    /\ Searching /\ Newest \notin seen /\ spent = GenericBudget
    /\ seen' = seen \cup {Newest} /\ queue' = Remaining
    /\ refused' = refused \cup {edge} /\ judging' = "exceeded"
    /\ UNCHANGED <<calls, edge, spent, instance>>

NoCycle ==
    /\ judging = "search" /\ queue = <<>>
    /\ edge' = edge + 1 /\ judging' = "calls" /\ seen' = {}
    /\ UNCHANGED <<calls, queue, spent, refused, instance>>

AllJudged ==
    /\ judging = "calls" /\ edge > Len(calls)
    /\ judging' = "done"
    /\ UNCHANGED <<calls, edge, queue, seen, spent, refused, instance>>

----------------------------------------------------------------------------
(* An accepted program.                                                      *)

\* It starts with some function at simple types.
FirstInstance ==
    /\ judging = "done" /\ refused = {} /\ instance = Nobody
    /\ \E f \in Named : ParentOf[f] = "none" /\ instance' = [function |-> f, depth |-> [i \in 1 .. Arity[f] |-> 0]]
    /\ UNCHANGED <<calls, edge, queue, seen, spent, refused, judging>>

\* How deep a type argument is where the caller's parameters are as deep as given.
Depth(argument, depth) ==
    argument.wrapped + (IF argument.parameter = 0 THEN 0 ELSE depth[argument.parameter])

\* A call, or the value of a function, instantiates it; a closure has the types
\* of the instance that creates it.  A callback runs an instance made before.
Instantiate ==
    /\ \E i \in DOMAIN calls :
          LET call == calls[i] IN
          /\ call.caller = instance.function /\ call.kind # "callback"
          /\ instance' = [function |-> call.callee,
                          depth |-> IF call.kind = "closure" THEN instance.depth
                                    ELSE [k \in DOMAIN call.instantiation |->
                                             Depth(call.instantiation[k], instance.depth)]]
    /\ UNCHANGED <<calls, edge, queue, seen, spent, refused, judging>>

GenericRests == judging \in {"done", "exceeded"} /\ UNCHANGED genericVars

GenericNext ==
    \/ NextCall \/ CycleFound \/ SkipSeen \/ Search \/ SearchExceeds \/ NoCycle \/ AllJudged
    \/ FirstInstance \/ Instantiate \/ GenericRests

GenericSpec == GenericInit /\ [][GenericNext]_genericVars

----------------------------------------------------------------------------
\* An accepted program needs finitely many instances of its functions: however
\* they call, return and capture one another, types are wrapped at most once
\* from one outermost function to the next and never around a cycle.
InstancesAreBounded ==
    \A i \in DOMAIN instance.depth :
        instance.depth[i] < Cardinality({f \in Named : ParentOf[f] = "none"})
=============================================================================
