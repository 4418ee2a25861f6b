------------------------------ MODULE FlowExec ------------------------------
(* What Python does with a function body that the flow checker accepted.     *)
(* The body of an accepted function is run statement by statement; a test    *)
(* that is opaque to the checker, the result of an optional-valued call and  *)
(* the length of a range may come out either way.                            *)
EXTENDS FlowCheck

CONSTANTS Bodies    \* the function bodies that are considered

ASSUME FlowAssumption == \A b \in Bodies : Body(b)

VARIABLES
    body,      \* the body that is run
    pc,        \* the line that comes next; after the last one: it is over
    local,     \* the value of each local: int, None, or unbound
    declared,  \* the type the checker gave each local
    returns,   \* the declared result of the function: int or None
    status     \* running, returned, fell through, or the fault that occurred

evars == <<body, pc, local, declared, returns, status>>

ValuesOf(type) == IF type = "optional" THEN {"int", "None"} ELSE {type}

ExecInit ==
    /\ returns \in {"int", "None"}
    /\ body \in Bodies
    /\ \E parameters \in SUBSET Vars :
           LET verdict == Function(parameters, body, returns) IN
           /\ verdict.codes = {}
           /\ local \in [Vars -> {"int", "None", "unbound"}]
           /\ \A x \in Vars : x \in parameters <=> local[x] # "unbound"
           /\ declared = [x \in Vars |-> verdict.vars[x].Type]
    /\ pc = 1
    /\ status = "running"

Now(kinds) == status = "running" /\ pc \in DOMAIN body /\ body[pc].kind \in kinds

Continuing(line) == pc' = line /\ UNCHANGED status
Stop(reason) == status' = reason /\ UNCHANGED <<pc, local>>

DoAssign ==
    /\ Now({"Assign"})
    /\ LET n == body[pc] IN
       IF n.value = "absent" THEN UNCHANGED local
       ELSE \E v \in ValuesOf(n.value) : local' = [local EXCEPT ![n.var] = v]
    /\ Continuing(pc + 1)
    /\ UNCHANGED <<body, declared, returns>>

\* What happens to a value that goes where a type is wanted.
Fault(x, want) ==
    IF local[x] = "unbound" THEN "unbound" ELSE IF local[x] \in ValuesOf(want) THEN "none" ELSE "mistyped"

DoCall ==
    /\ Now({"Call"})
    /\ LET fault == Fault(body[pc].var, body[pc].want) IN
       IF fault = "none" THEN Continuing(pc + 1) /\ UNCHANGED local ELSE Stop(fault)
    /\ UNCHANGED <<body, declared, returns>>

DoReturn ==
    /\ Now({"Return"})
    /\ Stop("returned")
    /\ UNCHANGED <<body, declared, returns>>

\* What a test may come to in the current state: its truth, or a fault.
Truth(b) == IF b THEN "true" ELSE "false"
PlainOutcomes(test) ==
    CASE test.kind = "Opaque" -> {"true", "false"}
      [] test.kind = "True" -> {Truth(~ test.negated)}
      [] test.kind = "Is" -> IF local[test.var] = "unbound" THEN {"unbound"}
                             ELSE {Truth((local[test.var] = "None") # test.negated)}
Outcomes(test) ==
    IF test.kind \in {"And", "Or"}
    THEN LET goesOn == Truth(test.kind = "And")
             left == PlainOutcomes(test.left)
             fault == Fault(test.var, test.want)
         IN  (left \ {goesOn}) \cup
             (IF goesOn \notin left THEN {} ELSE IF fault = "none" THEN {"true", "false"} ELSE {fault})
    ELSE PlainOutcomes(test)

\* A branch, and a loop that starts or comes to its next iteration.
DoTest ==
    /\ Now({"If", "While"})
    /\ \E outcome \in Outcomes(body[pc].test) :
          IF outcome \in {"true", "false"}
          THEN /\ Continuing(IF outcome = "true" THEN pc + 1
                             ELSE IF body[pc].kind = "If" THEN body[pc].other + 1 ELSE body[pc].end + 1)
               /\ UNCHANGED local
          ELSE Stop(outcome)
    /\ UNCHANGED <<body, declared, returns>>
DoFor ==
    /\ Now({"For"})
    /\ \/ Continuing(pc + 1) /\ local' = [local EXCEPT ![body[pc].var] = "int"]
       \/ Continuing(body[pc].end + 1) /\ UNCHANGED local
    /\ UNCHANGED <<body, declared, returns>>

\* The end of a block, and what leaves it: Break goes behind the innermost
\* loop, Continue goes on with it.
DoJump ==
    /\ Now({"Else", "EndIf", "EndLoop", "Break", "Continue"})
    /\ LET n == body[pc] IN
       IF n.kind \in {"Break", "Continue"} /\ LoopsAround(body, pc) = {} THEN Stop("stray")
       ELSE /\ Continuing(CASE n.kind = "Else" -> body[n.head].end + 1
                            [] n.kind = "EndIf" -> pc + 1
                            [] n.kind = "EndLoop" -> n.head
                            [] n.kind = "Break" -> body[Innermost(body, pc)].end + 1
                            [] n.kind = "Continue" -> Innermost(body, pc))
            /\ UNCHANGED local
    /\ UNCHANGED <<body, declared, returns>>

FallOff ==
    /\ status = "running" /\ pc \notin DOMAIN body
    /\ Stop("fell")
    /\ UNCHANGED <<body, declared, returns>>

Halted == status # "running" /\ UNCHANGED evars

ExecNext == DoAssign \/ DoCall \/ DoReturn \/ DoTest \/ DoFor \/ DoJump \/ FallOff \/ Halted

ExecSpec == ExecInit /\ [][ExecNext]_evars

----------------------------------------------------------------------------

\* An accepted function never reads a local that no path to the read has
\* assigned: not after a loop of no iterations, a break, a continue, or a
\* branch that only seems to return.
NoUnboundRead == status # "unbound"

\* Where the checker let a local through as an int, it never holds None: a
\* refinement does not outlive the assignments, iterations and joins after it.
NoneNeverEscapes == status # "mistyped"

\* A function that declares a result never ends without returning one.
NoFallThrough == returns # "None" => status # "fell"

\* The type a local has at the end of the checker's walk is the type of every
\* value it holds anywhere in the function, on branches that returned or ran
\* into a break as well.
TypeIsFunctionWide ==
    \A x \in Vars : local[x] # "unbound" => local[x] \in ValuesOf(declared[x])

============================================================================
