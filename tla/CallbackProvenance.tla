------------------------- MODULE CallbackProvenance -------------------------
(* internal/check/functional_dependencies.go: which functions a callback may *)
(* be.  The checker has collected where function values flow; resolveCallbacks*)
(* follows them to a fixpoint, in a budget, and replaces the calls of         *)
(* callbacks by calls of those functions.  internal/app/reports.go walks the  *)
(* calls to tell which trusted external functions a function may reach.       *)
(* Afterwards the verified program runs.                                      *)
EXTENDS Integers, Sequences, FiniteSets, FiniteSetsExt

CONSTANTS
    Functions,     \* Program.Functions
    External,      \* those of Origin "manifest", which are not verified
    Slots,         \* parameters, results, variables and calls that hold functions
    ParameterOf,   \* the slots of a function's parameters, by position
    ReturnOf,      \* the slot of a function's results
    Programs,      \* what the checker may have collected: Result.Bindings, with one source
                   \* each; Result.Invocations, with one target each and the sources of an
                   \* argument one after the other; Result.Calls
    Budget,        \* 1000000 in resolveCallbacks
    Checks         \* how often the same program is checked

\* Where a value comes from: a function, what a slot holds, or what a function
\* or the functions in a slot return ("$result:").
Sources == [result : BOOLEAN, name : Functions \cup Slots]

ASSUME ProvenanceAssumption ==
    /\ External \subseteq Functions
    /\ Functions \cap Slots = {}
    /\ ParameterOf \in [Functions -> Seq(Slots)]
    /\ ReturnOf \in [Functions -> Slots]
    /\ Programs \subseteq
          [bindings : Seq([slot : Slots, source : Sources]),
           invocations : Seq([target : Sources, arguments : Seq([position : Nat, source : Sources])]),
           calls : SUBSET [caller : Functions \ External, callee : Functions \cup Slots]]

VARIABLES
    program,   \* what the checker collected
    values,    \* the functions found in each slot so far
    budget,    \* what is left of it
    changed,   \* the pass found something new
    stage,     \* bindings, invocations, targets, verdict
    at,        \* the binding or invocation the pass is at
    pending,   \* the targets of the invocation not visited yet
    visiting,  \* the target being visited, a set of at most one
    argument,  \* the argument it is passed next
    verdict,   \* none, resolved or PP203
    verdicts,  \* those of the checks before
    entry,     \* the function that runs
    held,      \* the functions each slot held at run time
    active     \* the functions that were called at run time

resolveVars == <<values, budget, changed, stage, at, pending, visiting, argument>>
runVars == <<held, active>>
provenanceVars == <<program, resolveVars, verdict, verdicts, entry, runVars>>

Nothing == [s \in Slots |-> {}]

\* origins: what a source may be, when the slots hold v.
Base(v, name) == IF name \in Functions THEN {name} ELSE v[name]
Origins(v, source) ==
    IF source.result THEN UNION {v[ReturnOf[f]] : f \in Base(v, source.name)} ELSE Base(v, source.name)

\* What origins and the loop over its result take from the budget.
Price(v, source) ==
    Cardinality(Origins(v, source)) +
    IF source.result THEN 2 + MapThenSumSet(LAMBDA f : Cardinality(v[ReturnOf[f]]), Base(v, source.name)) ELSE 1

Bindings == program.bindings
Invocations == program.invocations
Arguments == Invocations[at].arguments

ProvenanceInit ==
    /\ program \in Programs /\ entry \in Functions \ External
    /\ values = Nothing /\ budget = Budget /\ changed = FALSE
    /\ stage = "bindings" /\ at = 1 /\ pending = {} /\ visiting = {} /\ argument = 1
    /\ verdict = "none" /\ verdicts = <<>>
    /\ held = Nothing /\ active = {entry}

Spend(n) == budget >= 0 /\ budget' = budget - n

\* Slip: only what is added last counts as a change.
AddLast(slot, found) ==
    /\ values' = [values EXCEPT ![slot] = @ \cup found]
    /\ changed' = ~ found \subseteq values[slot]

Add(slot, found) ==
    /\ values' = [values EXCEPT ![slot] = @ \cup found]
    /\ changed' = (changed \/ ~ found \subseteq values[slot])

FollowBinding ==
    /\ stage = "bindings" /\ at \in DOMAIN Bindings
    /\ Spend(Price(values, Bindings[at].source))
    /\ Add(Bindings[at].slot, Origins(values, Bindings[at].source))
    /\ at' = at + 1
    /\ UNCHANGED <<stage, pending, visiting, argument>>

BindingsDone ==
    /\ stage = "bindings" /\ at \notin DOMAIN Bindings /\ budget >= 0
    /\ stage' = "invocations" /\ at' = 1
    /\ UNCHANGED <<values, budget, changed, pending, visiting, argument>>

Enter ==
    /\ stage = "invocations" /\ at \in DOMAIN Invocations
    /\ Spend(Price(values, Invocations[at].target))
    /\ pending' = Origins(values, Invocations[at].target)
    /\ stage' = "targets"
    /\ UNCHANGED <<values, changed, at, visiting, argument>>

\* The loop over the targets is over a map: in any order.
Visit ==
    /\ stage = "targets" /\ visiting = {}
    /\ \E f \in pending :
          /\ Spend(1 + Len(ParameterOf[f]))
          /\ pending' = pending \ {f} /\ visiting' = {f} /\ argument' = 1
    /\ UNCHANGED <<values, changed, stage, at>>

\* What a function's parameter gains.  When the loop is over the map that
\* gains it, the loop may come to the new targets or may not.
Pass ==
    /\ stage = "targets" /\ argument \in DOMAIN Arguments
    /\ \E f \in visiting :
          LET passed == Arguments[argument]
              target == Invocations[at].target
          IN  IF passed.position \in DOMAIN ParameterOf[f]
              THEN LET slot == ParameterOf[f][passed.position]
                       found == Origins(values, passed.source)
                   IN  /\ Spend(Price(values, passed.source))
                       /\ Add(slot, found)
                       /\ \E met \in SUBSET (found \ values[slot]) :
                             /\ met # {} => ~ target.result /\ target.name = slot
                             /\ pending' = pending \cup met
              ELSE Spend(0) /\ UNCHANGED <<values, changed, pending>>
    /\ argument' = argument + 1
    /\ UNCHANGED <<stage, at, visiting>>

Visited ==
    /\ stage = "targets" /\ visiting # {} /\ argument \notin DOMAIN Arguments /\ budget >= 0
    /\ visiting' = {} /\ argument' = 1
    /\ UNCHANGED <<values, budget, changed, stage, at, pending>>

Leave ==
    /\ stage = "targets" /\ visiting = {} /\ pending = {} /\ budget >= 0
    /\ stage' = "invocations" /\ at' = at + 1
    /\ UNCHANGED <<values, budget, changed, pending, visiting, argument>>

PassAgain ==
    /\ stage = "invocations" /\ at \notin DOMAIN Invocations /\ changed /\ budget >= 0
    /\ stage' = "bindings" /\ at' = 1 /\ changed' = FALSE
    /\ UNCHANGED <<values, budget, pending, visiting, argument>>

\* The calls of slots become calls of the functions in them; a call of a slot
\* that holds none stays as it is and leads nowhere.
Callbacks == {c \in program.calls : c.callee \in Slots}
EdgePrice == MapThenSumSet(LAMBDA c : 1 + Cardinality(values[c.callee]), Callbacks)

Resolve ==
    /\ stage = "invocations" /\ at \notin DOMAIN Invocations /\ ~ changed
    /\ Spend(EdgePrice)
    /\ stage' = "verdict"
    /\ verdict' = IF budget' < 0 THEN "PP203" ELSE "resolved"
    /\ UNCHANGED <<values, changed, at, pending, visiting, argument>>

Exceeded ==
    /\ stage # "verdict" /\ budget < 0
    /\ stage' = "verdict" /\ verdict' = "PP203"
    /\ UNCHANGED <<values, budget, changed, at, pending, visiting, argument>>

\* The verifier is run again on the same project.
CheckAgain ==
    /\ stage = "verdict" /\ Len(verdicts) + 1 < Checks
    /\ verdicts' = Append(verdicts, verdict) /\ verdict' = "none"
    /\ values' = Nothing /\ budget' = Budget /\ changed' = FALSE
    /\ stage' = "bindings" /\ at' = 1 /\ pending' = {} /\ visiting' = {} /\ argument' = 1

----------------------------------------------------------------------------
(* The calls reported, and the verified program running.                     *)

Edges == {e \in [from : Functions, to : Functions] :
            \E c \in program.calls : c.caller = e.from /\ e.to \in Base(values, c.callee)}

\* Slip: the calls of the functions that f calls are not followed.
WalksDirect(f, S) ==
    /\ f \in S
    /\ \A e \in Edges : e.from = f => e.to \in S

\* The functions a walk from f over the calls comes to: it goes on from those
\* of the project only.
Walks(f, S) ==
    /\ f \in S
    /\ \A e \in Edges : e.from \in S \ External => e.to \in S
Reached(f) == {g \in Functions : \A S \in SUBSET Functions : Walks(f, S) => g \in S}
ReachableTrustedExternal(f) == Reached(f) \cap External

\* Values flow as the collected bindings say.
Flow ==
    /\ \E i \in DOMAIN Bindings : \E f \in Origins(held, Bindings[i].source) :
          held' = [held EXCEPT ![Bindings[i].slot] = @ \cup {f}]
    /\ UNCHANGED active

\* A function that was passed as a callback is called with arguments.
CallBack ==
    /\ \E i \in DOMAIN Invocations : \E f \in Origins(held, Invocations[i].target) :
       \E j \in DOMAIN Invocations[i].arguments :
          LET passed == Invocations[i].arguments[j]
          IN  /\ passed.position \in DOMAIN ParameterOf[f]
              /\ \E g \in Origins(held, passed.source) :
                    held' = [held EXCEPT ![ParameterOf[f][passed.position]] = @ \cup {g}]
    /\ UNCHANGED active

CallOf ==
    /\ \E c \in program.calls : c.caller \in active /\ \E f \in Base(held, c.callee) : active' = active \cup {f}
    /\ UNCHANGED held

Analyse ==
    \/ FollowBinding \/ BindingsDone \/ Enter \/ Visit \/ Pass \/ Visited \/ Leave \/ PassAgain
Runs ==
    /\ verdict = "resolved" /\ Len(verdicts) + 1 = Checks
    /\ Flow \/ CallBack \/ CallOf
Rests == stage = "verdict" /\ UNCHANGED <<resolveVars, verdict, verdicts, runVars>>

ProvenanceNext ==
    /\ UNCHANGED <<program, entry>>
    /\ \/ Analyse /\ UNCHANGED <<verdict, verdicts, runVars>>
       \/ (Resolve \/ Exceeded) /\ UNCHANGED <<verdicts, runVars>>
       \/ CheckAgain /\ UNCHANGED runVars
       \/ Runs /\ UNCHANGED <<resolveVars, verdict, verdicts>>
       \/ Rests

ProvenanceSpec == ProvenanceInit /\ [][ProvenanceNext]_provenanceVars
----------------------------------------------------------------------------
\* An assignment of functions to slots that no binding and no call of a
\* callback adds anything to.
BindingHolds(v, b) == Origins(v, b.source) \subseteq v[b.slot]
ArgumentHolds(v, f, a) ==
    a.position \in DOMAIN ParameterOf[f] => Origins(v, a.source) \subseteq v[ParameterOf[f][a.position]]
InvocationHolds(v, c, f) == \A j \in DOMAIN c.arguments : ArgumentHolds(v, f, c.arguments[j])
IsFixpoint(v) ==
    /\ \A i \in DOMAIN Bindings : BindingHolds(v, Bindings[i])
    /\ \A i \in DOMAIN Invocations : \A f \in Origins(v, Invocations[i].target) :
          InvocationHolds(v, Invocations[i], f)

Held(v) == {h \in Slots \X Functions : h[2] \in v[h[1]]}

\* When the analysis ends within its budget it has found the least closed
\* assignment, whatever the order in which it met the targets: every function
\* a callback may be, and no other; so two checks of a project that both end
\* report the same calls.
ResolvedIsLeast ==
    verdict = "resolved" =>
        /\ IsFixpoint(values)
        /\ \A Part \in SUBSET Held(values) :
              IsFixpoint([s \in Slots |-> {f \in Functions : <<s, f>> \in Part}]) => Part = Held(values)

\* No function the verified program calls, through whatever callbacks, closures
\* and recursion, is missing from what the capability report walks to: the
\* trusted external functions it lists are all the program can reach.
NothingHidden == verdict = "resolved" => active \cap External \subseteq ReachableTrustedExternal(entry)

\* docs/PUREPY_SPEC.md asks for deterministic results: two checks of the same
\* project have the same verdict.
VerdictIsTheSame == verdict # "none" => \A i \in DOMAIN verdicts : verdicts[i] = verdict
=============================================================================
