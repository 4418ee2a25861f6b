----------------------------- MODULE FlowCheck -----------------------------
(* The flow checker of one function body (internal/check/flow.go): which     *)
(* locals are definitely assigned, which type each one has, how a test for   *)
(* None narrows it, and whether the body may fall through.                   *)
(*                                                                           *)
(* Types are reduced to what narrowing tells apart: int, None, and the       *)
(* optional of int.  Expressions are reduced to the reading of one local     *)
(* where a type is wanted, and to values of a known type.  A diagnostic is   *)
(* its code.                                                                 *)
(*                                                                           *)
(* A body is its tree, written down in order: the line of a compound         *)
(* statement names the lines where its blocks end, and the call that checks  *)
(* it is three stretches: to the line itself, between its blocks (Else), and *)
(* after them (End).                                                         *)
EXTENDS Naturals, Sequences, FiniteSets

CONSTANTS Vars      \* names of parameters and locals

Known == {"None", "int", "optional"}
Types == Known \cup {"invalid"}

----------------------------------------------------------------------------
(* Statements and tests                                                      *)

Assign(x, annotation, value) ==
    [kind |-> "Assign", var |-> x, annotation |-> annotation, value |-> value]
Call(x, want) == [kind |-> "Call", var |-> x, want |-> want]   \* f(x)
Return(t) == [kind |-> "Return", value |-> t]
Break == [kind |-> "Break"]
Continue == [kind |-> "Continue"]
If(test, other, end) == [kind |-> "If", test |-> test, other |-> other, end |-> end]
While(test, end) == [kind |-> "While", test |-> test, end |-> end]
For(x, end) == [kind |-> "For", var |-> x, end |-> end]        \* for x in range(...)
Else(head) == [kind |-> "Else", head |-> head]
EndIf(head) == [kind |-> "EndIf", head |-> head]
EndLoop(head) == [kind |-> "EndLoop", head |-> head]

\* Under any number of nots, of which an odd one negates.
Opaque == [kind |-> "Opaque"]
True(negated) == [kind |-> "True", negated |-> negated]
Is(x, negated) == [kind |-> "Is", var |-> x, negated |-> negated]      \* x is None
And(left, x, want) == [kind |-> "And", left |-> left, var |-> x, want |-> want] \* left and f(x)
Or(left, x, want) == [kind |-> "Or", left |-> left, var |-> x, want |-> want]   \* left or f(x)

Plain == {Opaque} \cup {True(b) : b \in BOOLEAN} \cup {Is(x, b) : x \in Vars, b \in BOOLEAN}
Tests == Plain \cup {And(t, x, k) : t \in Plain, x \in Vars, k \in Known}
               \cup {Or(t, x, k) : t \in Plain, x \in Vars, k \in Known}

Heads(body) == {i \in DOMAIN body : body[i].kind \in {"If", "While", "For"}}
Loops(body) == {i \in DOMAIN body : body[i].kind \in {"While", "For"}}

\* The compound statements around a line, which end with that line or later.
Around(body, i) == {h \in Heads(body) : h < i /\ i <= body[h].end}
LoopsAround(body, i) == Around(body, i) \cap Loops(body)
Innermost(body, i) == CHOOSE h \in LoopsAround(body, i) : \A g \in LoopsAround(body, i) : g <= h

\* What a parsed body is made of, and that its blocks are nested.
Body(body) ==
    /\ Len(body) \in Nat /\ DOMAIN body = 1 .. Len(body)
    /\ \A i \in DOMAIN body :
          LET n == body[i] IN
          \/ n.kind = "Assign" /\ n.var \in Vars /\ n.annotation \in Types /\ n.value \in Known
          \/ n.kind = "Assign" /\ n.var \in Vars /\ n.annotation \in Known /\ n.value = "absent"
          \/ n.kind = "Call" /\ n.var \in Vars /\ n.want \in Known
          \/ n.kind = "Return" /\ n.value \in Known
          \/ n.kind \in {"Break", "Continue"}
          \/ /\ n.kind = "If" /\ n.test \in Tests /\ {n.other, n.end} \subseteq DOMAIN body
             /\ i < n.other /\ n.other < n.end /\ body[n.other] = Else(i) /\ body[n.end] = EndIf(i)
          \/ n.kind = "While" /\ n.test \in Tests /\ n.end \in DOMAIN body /\ i < n.end /\ body[n.end] = EndLoop(i)
          \/ n.kind = "For" /\ n.var \in Vars /\ n.end \in DOMAIN body /\ i < n.end /\ body[n.end] = EndLoop(i)
          \/ n.kind = "Else" /\ n.head \in Heads(body) /\ body[n.head].kind = "If" /\ body[n.head].other = i
          \/ n.kind = "EndIf" /\ n.head \in Heads(body) /\ body[n.head].kind = "If" /\ body[n.head].end = i
          \/ n.kind = "EndLoop" /\ n.head \in Loops(body) /\ body[n.head].end = i
    /\ \A h, g \in Heads(body) :
          /\ h < g /\ g < body[h].end => body[g].end < body[h].end
          /\ body[h].kind = "If" /\ h < g /\ g < body[h].other => body[g].end < body[h].other

----------------------------------------------------------------------------
(* The environment: variable, clone, checker                                 *)

Unknown == [Type |-> "invalid", Current |-> "invalid", Assigned |-> FALSE]
Parameter == [Type |-> "optional", Current |-> "optional", Assigned |-> TRUE]

\* A checker before a line: its environment, the declared result of its
\* function, the codes it reported, and whether this block goes on here.
Checker(vars, returns) == [vars |-> vars, returns |-> returns, codes |-> {}, alive |-> TRUE]

Accepts(want, got) == want = got \/ (want = "optional" /\ got \in {"None", "int"})

Error(c, code) == [c EXCEPT !.codes = @ \cup {code}]

Expect(c, want, got) ==
    IF "invalid" \in {want, got} \/ Accepts(want, got) THEN c ELSE Error(c, "PP205")

\* The checker after the expression x, where a value of type want goes.
Read(c, x, want) ==
    IF c.vars[x].Assigned THEN Expect(c, want, c.vars[x].Current) ELSE Error(c, "PP206")

\* A test for None refines an optional that is assigned.
Narrow(vars, test, truth) ==
    IF test.kind = "Is" /\ vars[test.var].Assigned /\ vars[test.var].Type = "optional"
    THEN [vars EXCEPT ![test.var].Current = IF truth # test.negated THEN "None" ELSE "int"]
    ELSE vars

PlainTest(c, test) ==
    IF test.kind = "Is" /\ ~ c.vars[test.var].Assigned THEN Error(c, "PP206") ELSE c

\* What stands behind "and" or "or" is checked as the left side allows it.
Test(c, test) ==
    IF test.kind \in {"And", "Or"}
    THEN LET left == PlainTest(c, test.left)
             right == Read([left EXCEPT !.vars = Narrow(@, test.left, test.kind = "And")], test.var, test.want)
         IN  [right EXCEPT !.vars = c.vars]
    ELSE PlainTest(c, test)

\* Slip: refinements are kept over a loop that assigns the name.
KeepRefinements(vars, names) == vars

ResetRefinements(vars, names) ==
    [x \in Vars |-> IF x \in names THEN [vars[x] EXCEPT !.Current = vars[x].Type] ELSE vars[x]]

\* collectLocals: every name a loop assigns, in nested blocks too.
Writes(body, h) ==
    {body[i].var : i \in {j \in h .. body[h].end : body[j].kind \in {"Assign", "For"}}}

\* Slip: a break behind a condition is overlooked.
ContainsDirectBreak(body, h) ==
    \E i \in DOMAIN body : body[i].kind = "Break" /\ h \in Around(body, i) /\ \A g \in Around(body, i) : g <= h

\* A break that leaves this loop: those of nested loops do not count.
ContainsBreak(body, h) ==
    \E i \in DOMAIN body : body[i].kind = "Break" /\ LoopsAround(body, i) # {} /\ Innermost(body, i) = h

\* The first binding of a local decides its type for the whole function, an
\* annotation may repeat it; a binding that assigns ends its refinement.
Bind(c, x, t, annotation, assigned) ==
    LET v == c.vars[x]
        clash == /\ annotation # "invalid" /\ v.Type # "invalid"
                 /\ v.Type # annotation
        type == CASE annotation # "invalid" /\ ~ clash -> annotation
                  [] v.Type # "invalid" -> v.Type
                  [] OTHER -> t
        bound == [c EXCEPT !.vars[x] = [Type |-> type, Current |-> type,
                                        Assigned |-> v.Assigned \/ assigned]]
        declared == IF clash THEN Error(bound, "PP205") ELSE bound
    IN  IF assigned THEN Expect(declared, type, t) ELSE declared

\* Slip: the type of a local is only taken over from a branch that survives.
JoinForgetful(a, b, aliveA, aliveB) ==
    [x \in Vars |->
        IF aliveA # aliveB THEN IF aliveA THEN a[x] ELSE b[x]
        ELSE [Type |-> IF a[x].Type = "invalid" THEN b[x].Type ELSE a[x].Type,
              Current |-> IF a[x].Current = b[x].Current THEN a[x].Current ELSE
                          IF a[x].Type = "invalid" THEN b[x].Type ELSE a[x].Type,
              Assigned |-> a[x].Assigned /\ b[x].Assigned]]

\* Slip: assigned on one branch is taken for assigned.
JoinEither(a, b, aliveA, aliveB) ==
    [x \in Vars |->
        LET type == IF a[x].Type = "invalid" THEN b[x].Type ELSE a[x].Type
        IN  [Type |-> type,
             Current |-> IF a[x].Current = b[x].Current THEN a[x].Current ELSE type,
             Assigned |-> a[x].Assigned \/ b[x].Assigned]]

\* The environment after two branches.  A type is function-wide, also when it
\* was found on a branch that does not survive; what is assigned and refined
\* comes from the branches that do.
Join(a, b, aliveA, aliveB) ==
    [x \in Vars |->
        LET type == IF a[x].Type = "invalid" THEN b[x].Type ELSE a[x].Type
        IN  CASE aliveA /\ ~ aliveB -> [a[x] EXCEPT !.Type = type]
              [] ~ aliveA /\ aliveB ->
                    [b[x] EXCEPT !.Type = IF @ = "invalid" THEN type ELSE @]
              [] OTHER ->
                    [Type |-> type,
                     Current |-> IF a[x].Current = b[x].Current THEN a[x].Current ELSE type,
                     Assigned |-> a[x].Assigned /\ b[x].Assigned]]

\* Two branches may not leave a name with two types (PP205).
Disagree(a, b) == \E x \in Vars :
    "invalid" \notin {a[x].Type, b[x].Type} /\ a[x].Type # b[x].Type

----------------------------------------------------------------------------
(* block and statement.  What comes after a return is checked all the same.  *)

Dead(c) == [c EXCEPT !.alive = FALSE]

CheckAssign(c, n) ==
    Bind(c, n.var, IF n.value = "absent" THEN n.annotation ELSE n.value, n.annotation, n.value # "absent")

\* The test and the first branch; the second one starts from the same
\* environment; what they leave is joined.
CheckIf(c, n) == [Test(c, n.test) EXCEPT !.vars = Narrow(@, n.test, TRUE), !.alive = TRUE]
CheckElse(before, left, n) == [left EXCEPT !.vars = Narrow(before.vars, n.test, FALSE), !.alive = TRUE]
CheckEndIf(before, left, right) ==
    LET joined == [right EXCEPT !.vars = Join(left.vars, right.vars, left.alive, right.alive),
                                !.alive = before.alive /\ (left.alive \/ right.alive)]
    IN  IF Disagree(left.vars, right.vars) THEN Error(joined, "PP205") ELSE joined

\* The body is checked once, for every iteration: what it assigns has lost
\* its refinements before it starts and when it is over.
CheckLoop(c, n, writes) ==
    LET reset == [c EXCEPT !.vars = ResetRefinements(@, writes)]
        entered == IF n.kind = "For" THEN Bind(reset, n.var, "int", "invalid", TRUE)
                   ELSE [Test(reset, n.test) EXCEPT !.vars = Narrow(@, n.test, TRUE)]
    IN  [entered EXCEPT !.alive = TRUE]
CheckEndLoop(before, after, n, writes, breaks) ==
    LET joined == [after EXCEPT
                     !.vars = ResetRefinements(Join(before.vars, after.vars, TRUE, TRUE), writes),
                     !.alive = before.alive /\ ~ (n.kind = "While" /\ n.test = True(FALSE) /\ ~ breaks)]
    IN  IF Disagree(before.vars, after.vars) THEN Error(joined, "PP205") ELSE joined

\* The checker after a line, from those before the lines up to it.
After(known, body, i) ==
    LET n == body[i]
        c == known[i]
    IN  CASE n.kind = "Assign" -> CheckAssign(c, n)
          [] n.kind = "Call" -> Read(c, n.var, n.want)
          [] n.kind = "Return" -> Dead(Expect(c, c.returns, n.value))
          [] n.kind \in {"Break", "Continue"} ->
                Dead(IF LoopsAround(body, i) = {} THEN Error(c, "PP215") ELSE c)
          [] n.kind = "If" -> CheckIf(c, n)
          [] n.kind = "Else" -> CheckElse(known[n.head], c, body[n.head])
          [] n.kind = "EndIf" -> CheckEndIf(known[n.head], known[body[n.head].other], c)
          [] n.kind \in {"While", "For"} -> CheckLoop(c, n, Writes(body, i))
          [] n.kind = "EndLoop" ->
                CheckEndLoop(known[n.head], c, body[n.head], Writes(body, n.head), ContainsBreak(body, n.head))

\* The checker before each line of a body, and after the last.
Walk(parameters, body, returns) ==
    LET known[i \in 1 .. Len(body) + 1] ==
            IF i = 1 THEN Checker([x \in Vars |-> IF x \in parameters THEN Parameter ELSE Unknown], returns)
            ELSE After(known, body, i - 1)
    IN  known

\* checker.function: a body whose end can be reached must return None.
Function(parameters, body, returns) ==
    LET c == Walk(parameters, body, returns)[Len(body) + 1]
    IN  IF c.alive /\ returns # "None" THEN Error(c, "PP213") ELSE c

============================================================================
