----------------------------- MODULE FlowProofs -----------------------------
(* The flow checker is right about every body and every set of locals: what  *)
(* Python does with an accepted body is what the checker has allowed for.    *)
EXTENDS FlowExec, WellFoundedInduction, TLAPS

Environment == [Vars -> [Type : Types, Current : Types, Assigned : BOOLEAN]]
Codes == {"PP205", "PP206", "PP213", "PP215"}
Checkers == [vars : Environment, returns : Known, codes : SUBSET Codes, alive : BOOLEAN]

\* What is assigned has a type.
Typed(vars) == \A x \in Vars : vars[x].Assigned => {vars[x].Type, vars[x].Current} \subseteq Known

\* The checker d goes on from c, and has nothing to report but what c had.
Continues(c, d) == d \in Checkers /\ d.returns = c.returns /\ c.codes \subseteq d.codes

\* The types of one environment are those of another that has them.
SameTypes(a, b) == \A x \in Vars : a[x].Type # "invalid" => b[x].Type = a[x].Type

-----------------------------------------------------------------------------
(* Induction on natural numbers, for sets.                                   *)

LEMMA Least ==
    ASSUME NEW T \in SUBSET Nat, T # {}
    PROVE  \E n \in T : \A m \in T : n <= m
<1>1. PICK n \in T : \A m \in T : ~ (<<m, n>> \in OpToRel(<, Nat))
  BY NatLessThanWellFounded, WFMin
<1>2. \A m \in T : ~ (m < n)
  BY <1>1 DEF OpToRel
<1> QED
  BY <1>2

LEMMA Induction ==
    ASSUME NEW T, 0 \in T, \A n \in Nat : n \in T => n + 1 \in T
    PROVE  Nat \subseteq T
<1> SUFFICES ASSUME Nat \ T # {} PROVE FALSE
  OBVIOUS
<1>1. PICK n \in Nat \ T : \A m \in Nat \ T : n <= m
  BY Least
<1>2. n # 0 /\ n - 1 \in Nat /\ n - 1 \in T
  BY <1>1
<1> QED
  BY <1>2

-----------------------------------------------------------------------------
(* The steps of the checker.                                                 *)

LEMMA ErrorFacts ==
    ASSUME NEW c \in Checkers, NEW code \in Codes
    PROVE  /\ Continues(c, Error(c, code)) /\ Error(c, code).codes # {}
           /\ Error(c, code).vars = c.vars /\ Error(c, code).alive = c.alive
  BY DEF Error, Checkers, Continues

LEMMA ExpectFacts ==
    ASSUME NEW c \in Checkers, NEW want \in Types, NEW got \in Types
    PROVE  LET d == Expect(c, want, got) IN
           /\ Continues(c, d) /\ d.vars = c.vars /\ d.alive = c.alive
           /\ d.codes = {} /\ want \in Known /\ got \in Known => Accepts(want, got)
<1>1. CASE "invalid" \in {want, got} \/ Accepts(want, got)
  BY <1>1 DEF Expect, Continues, Known
<1>2. CASE ~ ("invalid" \in {want, got} \/ Accepts(want, got))
  BY <1>2, ErrorFacts DEF Expect, Codes
<1> QED
  BY <1>1, <1>2

LEMMA ReadFacts ==
    ASSUME NEW c \in Checkers, NEW x \in Vars, NEW want \in Known
    PROVE  LET d == Read(c, x, want) IN
           /\ Continues(c, d) /\ d.vars = c.vars /\ d.alive = c.alive
           /\ d.codes = {} => c.vars[x].Assigned /\ (c.vars[x].Current \in Known => Accepts(want, c.vars[x].Current))
<1>1. CASE c.vars[x].Assigned
  <2>1. c.vars[x].Current \in Types /\ want \in Types
    BY DEF Checkers, Environment, Types
  <2> QED
    BY <1>1, <2>1, ExpectFacts DEF Read
<1>2. CASE ~ c.vars[x].Assigned
  BY <1>2, ErrorFacts DEF Read, Codes
<1> QED
  BY <1>1, <1>2

LEMMA NarrowFacts ==
    ASSUME NEW vars \in Environment, NEW test \in Tests, NEW truth \in BOOLEAN
    PROVE  LET narrowed == Narrow(vars, test, truth) IN
           /\ narrowed \in Environment
           /\ \A x \in Vars : /\ narrowed[x].Type = vars[x].Type
                              /\ narrowed[x].Assigned = vars[x].Assigned
           /\ Typed(vars) => Typed(narrowed)
<1>1. CASE test.kind = "Is" /\ vars[test.var].Assigned /\ vars[test.var].Type = "optional"
  <2>1. test.var \in Vars
    BY <1>1 DEF Tests, Plain, Is, And, Or, Opaque, True
  <2> DEFINE k == IF truth # test.negated THEN "None" ELSE "int"
  <2>2. k \in Known /\ k \in Types
    BY DEF Known, Types
  <2>3. Narrow(vars, test, truth) = [vars EXCEPT ![test.var].Current = k]
    BY <1>1 DEF Narrow
  <2> HIDE DEF k
  <2>4. [vars EXCEPT ![test.var].Current = k] = [vars EXCEPT ![test.var] = [vars[test.var] EXCEPT !.Current = k]]
    BY <2>1 DEF Environment
  <2>5. [vars[test.var] EXCEPT !.Current = k] \in [Type : Types, Current : Types, Assigned : BOOLEAN]
    BY <2>1, <2>2 DEF Environment
  <2> QED
    BY <2>1, <2>2, <2>3, <2>4, <2>5 DEF Environment, Typed
<1>2. CASE ~ (test.kind = "Is" /\ vars[test.var].Assigned /\ vars[test.var].Type = "optional")
  BY <1>2 DEF Narrow
<1> QED
  BY <1>1, <1>2

LEMMA PlainTestFacts ==
    ASSUME NEW c \in Checkers, NEW test \in Plain
    PROVE  LET d == PlainTest(c, test) IN
           /\ Continues(c, d) /\ d.vars = c.vars /\ d.alive = c.alive
           /\ d.codes = {} /\ test.kind = "Is" => c.vars[test.var].Assigned
<1>1. CASE test.kind = "Is" /\ ~ c.vars[test.var].Assigned
  BY <1>1, ErrorFacts DEF PlainTest, Codes
<1>2. CASE ~ (test.kind = "Is" /\ ~ c.vars[test.var].Assigned)
  BY <1>2 DEF PlainTest, Continues
<1> QED
  BY <1>1, <1>2

\* The checker that stands before the right side of "and" and "or".
Rightward(c, test) == [PlainTest(c, test.left) EXCEPT !.vars = Narrow(@, test.left, test.kind = "And")]

LEMMA TestKinds ==
    ASSUME NEW test \in Tests
    PROVE  \/ test \in Plain /\ test.kind \notin {"And", "Or"}
           \/ test.kind \in {"And", "Or"} /\ test.left \in Plain /\ test.left \in Tests /\ test.var \in Vars /\ test.want \in Known
  BY DEF Tests, Plain, And, Or, Opaque, True, Is

LEMMA TestFacts ==
    ASSUME NEW c \in Checkers, NEW test \in Tests
    PROVE  LET d == Test(c, test) IN
           /\ Continues(c, d) /\ d.vars = c.vars /\ d.alive = c.alive
           /\ d.codes = {} /\ test.kind = "Is" => c.vars[test.var].Assigned
           /\ d.codes = {} /\ test.kind \in {"And", "Or"} =>
                 /\ test.left.kind = "Is" => c.vars[test.left.var].Assigned
                 /\ LET vars == Narrow(c.vars, test.left, test.kind = "And") IN
                    /\ vars[test.var].Assigned
                    /\ vars[test.var].Current \in Known => Accepts(test.want, vars[test.var].Current)
<1>1. CASE test \in Plain /\ test.kind \notin {"And", "Or"}
  BY <1>1, PlainTestFacts DEF Test
<1>2. CASE test.kind \in {"And", "Or"} /\ test.left \in Plain /\ test.left \in Tests /\ test.var \in Vars /\ test.want \in Known
  <2> DEFINE left == PlainTest(c, test.left)
             vars == Narrow(left.vars, test.left, test.kind = "And")
             before == [left EXCEPT !.vars = vars]
             right == Read(before, test.var, test.want)
  <2>1. /\ Continues(c, left) /\ left.vars = c.vars /\ left.alive = c.alive
        /\ left.codes = {} /\ test.left.kind = "Is" => c.vars[test.left.var].Assigned
    BY <1>2, PlainTestFacts
  <2> HIDE DEF left
  <2>2. left \in Checkers /\ vars \in Environment
    <3>1. left \in Checkers /\ left.vars \in Environment
      BY <2>1 DEF Continues, Checkers
    <3>2. (test.kind = "And") \in BOOLEAN
      OBVIOUS
    <3> QED
      BY <1>2, <3>1, <3>2, NarrowFacts
  <2> HIDE DEF vars
  <2>3. before \in Checkers /\ before.vars = vars /\ before.codes = left.codes /\ before.returns = left.returns
    BY <2>2 DEF Checkers
  <2> HIDE DEF before
  <2>4. /\ Continues(before, right) /\ right.vars = vars
        /\ right.codes = {} => vars[test.var].Assigned /\ (vars[test.var].Current \in Known => Accepts(test.want, vars[test.var].Current))
    BY <1>2, <2>3, ReadFacts
  <2> HIDE DEF right
  <2>5. Test(c, test) = [right EXCEPT !.vars = c.vars]
    BY <1>2 DEF Test, left, vars, before, right
  <2>6. right.alive = c.alive
    BY <1>2, <2>1, <2>2, <2>3, ReadFacts DEF right, before, Checkers
  <2>7. [right EXCEPT !.vars = c.vars] \in Checkers
    BY <2>4 DEF Continues, Checkers
  <2> QED
    BY <1>2, <2>1, <2>2, <2>3, <2>4, <2>5, <2>6, <2>7 DEF Continues, vars, Checkers
<1> QED
  BY <1>1, <1>2, TestKinds

LEMMA ResetFacts ==
    ASSUME NEW vars \in Environment, NEW names
    PROVE  LET reset == ResetRefinements(vars, names) IN
           /\ reset \in Environment
           /\ \A x \in Vars : /\ reset[x].Type = vars[x].Type /\ reset[x].Assigned = vars[x].Assigned
                              /\ x \in names => reset[x].Current = vars[x].Type
                              /\ x \notin names => reset[x] = vars[x]
           /\ Typed(vars) => Typed(reset)
<1> DEFINE reset == ResetRefinements(vars, names)
<1>1. reset = [x \in Vars |-> IF x \in names THEN [vars[x] EXCEPT !.Current = vars[x].Type] ELSE vars[x]]
  BY DEF ResetRefinements
<1>2. \A x \in Vars : vars[x] \in [Type : Types, Current : Types, Assigned : BOOLEAN]
  BY DEF Environment
<1>3. \A x \in Vars : /\ reset[x] \in [Type : Types, Current : Types, Assigned : BOOLEAN]
                      /\ reset[x].Type = vars[x].Type /\ reset[x].Assigned = vars[x].Assigned
                      /\ x \in names => reset[x].Current = vars[x].Type
                      /\ x \notin names => reset[x] = vars[x]
  BY <1>1, <1>2
<1> HIDE DEF reset
<1>4. reset \in Environment
  BY <1>1, <1>3 DEF Environment
<1> QED
  BY <1>3, <1>4 DEF reset, Typed

\* What a binding does to the environment.
LEMMA BindFacts ==
    ASSUME NEW c \in Checkers, NEW x \in Vars, NEW t \in Known, NEW annotation \in Types, NEW assigned \in BOOLEAN
    PROVE  LET d == Bind(c, x, t, annotation, assigned) IN
           /\ Continues(c, d) /\ d.alive = c.alive
           /\ \A y \in Vars \ {x} : d.vars[y] = c.vars[y]
           /\ d.vars[x].Type \in Known /\ d.vars[x].Current = d.vars[x].Type
           /\ d.vars[x].Assigned = (c.vars[x].Assigned \/ assigned)
           /\ Typed(c.vars) => Typed(d.vars)
           /\ d.codes = {} => SameTypes(c.vars, d.vars) /\ (assigned => Accepts(d.vars[x].Type, t))
<1> DEFINE v == c.vars[x]
           clash == annotation # "invalid" /\ v.Type # "invalid" /\ v.Type # annotation
           type == CASE annotation # "invalid" /\ ~ clash -> annotation
                     [] v.Type # "invalid" -> v.Type
                     [] OTHER -> t
           new == [Type |-> type, Current |-> type, Assigned |-> v.Assigned \/ assigned]
           bound == [c EXCEPT !.vars[x] = new]
           told == IF clash THEN Error(bound, "PP205") ELSE bound
           d == IF assigned THEN Expect(told, type, t) ELSE told
<1>1. v \in [Type : Types, Current : Types, Assigned : BOOLEAN] /\ c.vars \in Environment
  BY DEF Checkers, Environment
<1>2. type \in Known /\ type \in Types
  BY <1>1 DEF Known, Types
<1>3. ~ clash => (v.Type # "invalid" => type = v.Type)
  OBVIOUS
<1> HIDE DEF type
<1>4. new \in [Type : Types, Current : Types, Assigned : BOOLEAN]
  BY <1>1, <1>2
<1> HIDE DEF new
<1>5. bound = [c EXCEPT !.vars = [c.vars EXCEPT ![x] = new]]
  BY DEF Checkers
<1>6. [c.vars EXCEPT ![x] = new] \in Environment
  BY <1>1, <1>4 DEF Environment
<1>7. /\ bound \in Checkers /\ bound.vars = [c.vars EXCEPT ![x] = new]
      /\ bound.codes = c.codes /\ bound.returns = c.returns /\ bound.alive = c.alive
  BY <1>5, <1>6 DEF Checkers
<1> HIDE DEF bound
<1>8. /\ Continues(c, told) /\ told.vars = bound.vars /\ told.alive = c.alive
      /\ told.codes = {} => ~ clash
  <2>1. CASE clash
    BY <1>7, <2>1, ErrorFacts DEF Codes, Continues
  <2>2. CASE ~ clash
    BY <1>7, <2>2 DEF Continues
  <2> QED
    BY <2>1, <2>2
<1> HIDE DEF told
<1>9. /\ Continues(c, d) /\ d.vars = bound.vars /\ d.alive = c.alive
      /\ d.codes = {} => ~ clash /\ (assigned => Accepts(type, t))
  <2>1. told \in Checkers /\ t \in Types
    BY <1>8 DEF Continues, Types
  <2>2. CASE assigned
    BY <1>2, <1>8, <2>1, <2>2, ExpectFacts DEF Continues
  <2>3. CASE ~ assigned
    BY <1>8, <2>3
  <2> QED
    BY <2>2, <2>3
<1>10. d = Bind(c, x, t, annotation, assigned)
  BY DEF Bind, d, told, bound, new, type
<1> HIDE DEF d
<1>11. /\ \A y \in Vars \ {x} : d.vars[y] = c.vars[y]
       /\ d.vars[x] = new
  BY <1>1, <1>7, <1>9 DEF Environment
<1>12. new.Type = type /\ new.Current = type /\ new.Assigned = (v.Assigned \/ assigned)
  BY DEF new
<1>13. Typed(c.vars) => Typed(d.vars)
  BY <1>2, <1>11, <1>12 DEF Typed
<1>14. ~ clash => SameTypes(c.vars, d.vars)
  BY <1>3, <1>11, <1>12 DEF SameTypes
<1> QED
  BY <1>2, <1>9, <1>10, <1>11, <1>12, <1>13, <1>14

\* The environment after two branches, of which one at least is alive when
\* something comes after them.
LEMMA JoinFacts ==
    ASSUME NEW a \in Environment, NEW b \in Environment, NEW aliveA \in BOOLEAN, NEW aliveB \in BOOLEAN
    PROVE  LET joined == Join(a, b, aliveA, aliveB) IN
           /\ joined \in Environment
           /\ Typed(a) /\ Typed(b) => Typed(joined)
           /\ ~ Disagree(a, b) => SameTypes(a, joined) /\ SameTypes(b, joined)
           /\ \A x \in Vars :
                 /\ aliveA /\ joined[x].Assigned => a[x].Assigned /\ joined[x].Current \in {a[x].Current, joined[x].Type}
                 /\ aliveB /\ joined[x].Assigned => b[x].Assigned /\ joined[x].Current \in {b[x].Current, joined[x].Type}
<1> DEFINE joined == Join(a, b, aliveA, aliveB)
           type(x) == IF a[x].Type = "invalid" THEN b[x].Type ELSE a[x].Type
<1>1. \A x \in Vars : /\ a[x] \in [Type : Types, Current : Types, Assigned : BOOLEAN]
                      /\ b[x] \in [Type : Types, Current : Types, Assigned : BOOLEAN]
  BY DEF Environment
<1>2. \A x \in Vars : joined[x] =
         CASE aliveA /\ ~ aliveB -> [a[x] EXCEPT !.Type = type(x)]
           [] ~ aliveA /\ aliveB -> [b[x] EXCEPT !.Type = IF b[x].Type = "invalid" THEN type(x) ELSE b[x].Type]
           [] OTHER -> [Type |-> type(x), Current |-> IF a[x].Current = b[x].Current THEN a[x].Current ELSE type(x),
                        Assigned |-> a[x].Assigned /\ b[x].Assigned]
  BY <1>1 DEF Join
<1>3. DOMAIN joined = Vars /\ joined = [x \in Vars |-> joined[x]]
  BY DEF Join
<1> HIDE DEF joined
<1>4. ASSUME NEW x \in Vars
      PROVE  /\ joined[x] \in [Type : Types, Current : Types, Assigned : BOOLEAN]
             /\ aliveA /\ joined[x].Assigned => a[x].Assigned /\ joined[x].Current \in {a[x].Current, joined[x].Type}
             /\ aliveB /\ joined[x].Assigned => b[x].Assigned /\ joined[x].Current \in {b[x].Current, joined[x].Type}
             /\ joined[x].Assigned => a[x].Assigned \/ b[x].Assigned
             /\ joined[x].Assigned => \/ a[x].Assigned /\ joined[x].Current \in {a[x].Current, joined[x].Type}
                                      \/ b[x].Assigned /\ joined[x].Current \in {b[x].Current, joined[x].Type}
             /\ joined[x].Type \in {a[x].Type, b[x].Type}
             /\ a[x].Type # "invalid" \/ b[x].Type # "invalid" => joined[x].Type # "invalid"
             /\ a[x].Type # "invalid" /\ (b[x].Type = "invalid" \/ b[x].Type = a[x].Type) => joined[x].Type = a[x].Type
             /\ b[x].Type # "invalid" /\ (a[x].Type = "invalid" \/ b[x].Type = a[x].Type) => joined[x].Type = b[x].Type
  <2>1. type(x) \in Types /\ type(x) \in {a[x].Type, b[x].Type}
    BY <1>1
  <2>2. CASE aliveA /\ ~ aliveB
    <3>1. joined[x] = [a[x] EXCEPT !.Type = type(x)]
      BY <1>2, <2>2
    <3> QED
      BY <1>1, <2>1, <2>2, <3>1
  <2>3. CASE ~ aliveA /\ aliveB
    <3>1. joined[x] = [b[x] EXCEPT !.Type = IF b[x].Type = "invalid" THEN type(x) ELSE b[x].Type]
      BY <1>2, <2>3
    <3> QED
      BY <1>1, <2>1, <2>3, <3>1
  <2>4. CASE aliveA = aliveB
    <3>1. joined[x] = [Type |-> type(x), Current |-> IF a[x].Current = b[x].Current THEN a[x].Current ELSE type(x),
                       Assigned |-> a[x].Assigned /\ b[x].Assigned]
      BY <1>2, <2>4
    <3> QED
      BY <1>1, <2>1, <2>4, <3>1
  <2> QED
    BY <2>2, <2>3, <2>4
<1>5. joined \in Environment
  BY <1>3, <1>4 DEF Environment
<1>6. Typed(a) /\ Typed(b) => Typed(joined)
  <2> SUFFICES ASSUME Typed(a), Typed(b), NEW x \in Vars, joined[x].Assigned
               PROVE  joined[x].Type \in Known /\ joined[x].Current \in Known
    BY DEF Typed
  <2>1. a[x].Type # "invalid" \/ b[x].Type # "invalid"
    BY <1>4 DEF Typed, Known
  <2>2. joined[x].Type \in Known
    BY <1>4, <2>1 DEF Types
  <2> QED
    BY <1>4, <2>2 DEF Typed
<1>7. ~ Disagree(a, b) => SameTypes(a, joined) /\ SameTypes(b, joined)
  BY <1>4 DEF Disagree, SameTypes
<1> QED
  BY <1>4, <1>5, <1>6, <1>7 DEF joined

\* Where a loop ends, the environment before it meets that of its body.
Meet(a, b) == Join(a, b, TRUE, TRUE)

LEMMA MeetFacts ==
    ASSUME NEW a \in Environment, NEW b \in Environment
    PROVE  /\ Meet(a, b) \in Environment
           /\ Typed(a) /\ Typed(b) => Typed(Meet(a, b))
           /\ ~ Disagree(a, b) => SameTypes(a, Meet(a, b)) /\ SameTypes(b, Meet(a, b))
           /\ \A x \in Vars : Meet(a, b)[x].Assigned =>
                 /\ a[x].Assigned /\ Meet(a, b)[x].Current \in {a[x].Current, Meet(a, b)[x].Type}
                 /\ b[x].Assigned /\ Meet(a, b)[x].Current \in {b[x].Current, Meet(a, b)[x].Type}
<1> DEFINE yes == TRUE
<1>1. yes \in BOOLEAN /\ yes
  OBVIOUS
<1>2. Meet(a, b) = Join(a, b, yes, yes)
  BY DEF Meet
<1> HIDE DEF yes
<1> DEFINE m == Join(a, b, yes, yes)
<1>3. /\ m \in Environment
      /\ Typed(a) /\ Typed(b) => Typed(m)
      /\ ~ Disagree(a, b) => SameTypes(a, m) /\ SameTypes(b, m)
  BY <1>1, JoinFacts
<1>4. \A x \in Vars : m[x].Assigned =>
         /\ a[x].Assigned /\ m[x].Current \in {a[x].Current, m[x].Type}
         /\ b[x].Assigned /\ m[x].Current \in {b[x].Current, m[x].Type}
  BY <1>1, JoinFacts
<1> HIDE DEF m
<1>5. Meet(a, b) = m
  BY <1>2 DEF m
<1> QED
  BY <1>3, <1>4, <1>5

-----------------------------------------------------------------------------
(* The lines of a body.                                                      *)

LEMMA LineFacts ==
    ASSUME NEW b, Body(b), NEW i \in DOMAIN b
    PROVE  /\ i \in 1 .. Len(b) /\ Len(b) \in Nat /\ DOMAIN b = 1 .. Len(b)
           /\ b[i].kind \in {"Assign", "Call", "Return", "Break", "Continue", "If", "While", "For", "Else", "EndIf", "EndLoop"}
           /\ b[i].kind = "Assign" =>
                 b[i].var \in Vars /\ b[i].annotation \in Types
                 /\ (b[i].value \in Known \/ (b[i].annotation \in Known /\ b[i].value = "absent"))
           /\ b[i].kind = "Call" => b[i].var \in Vars /\ b[i].want \in Known
           /\ b[i].kind = "Return" => b[i].value \in Known
           /\ b[i].kind = "If" =>
                 /\ b[i].test \in Tests /\ b[i].other \in DOMAIN b /\ b[i].end \in DOMAIN b
                 /\ i < b[i].other /\ b[i].other < b[i].end
                 /\ b[b[i].other].kind = "Else" /\ b[b[i].other].head = i
                 /\ b[b[i].end].kind = "EndIf" /\ b[b[i].end].head = i
           /\ b[i].kind \in {"While", "For"} =>
                 b[i].end \in DOMAIN b /\ i < b[i].end /\ b[b[i].end].kind = "EndLoop" /\ b[b[i].end].head = i
           /\ b[i].kind = "While" => b[i].test \in Tests
           /\ b[i].kind = "For" => b[i].var \in Vars
<1>1. Len(b) \in Nat /\ DOMAIN b = 1 .. Len(b)
  BY DEF Body
<1>2. LET n == b[i] IN
      \/ n.kind = "Assign" /\ n.var \in Vars /\ n.annotation \in Types /\ n.value \in Known
      \/ n.kind = "Assign" /\ n.var \in Vars /\ n.annotation \in Known /\ n.value = "absent"
      \/ n.kind = "Call" /\ n.var \in Vars /\ n.want \in Known
      \/ n.kind = "Return" /\ n.value \in Known
      \/ n.kind \in {"Break", "Continue"}
      \/ /\ n.kind = "If" /\ n.test \in Tests /\ {n.other, n.end} \subseteq DOMAIN b
         /\ i < n.other /\ n.other < n.end /\ b[n.other] = Else(i) /\ b[n.end] = EndIf(i)
      \/ n.kind = "While" /\ n.test \in Tests /\ n.end \in DOMAIN b /\ i < n.end /\ b[n.end] = EndLoop(i)
      \/ n.kind = "For" /\ n.var \in Vars /\ n.end \in DOMAIN b /\ i < n.end /\ b[n.end] = EndLoop(i)
      \/ n.kind \in {"Else", "EndIf", "EndLoop"}
  BY DEF Body
<1>3. b[i].kind = "Assign" =>
        b[i].var \in Vars /\ b[i].annotation \in Types
        /\ (b[i].value \in Known \/ (b[i].annotation \in Known /\ b[i].value = "absent"))
  BY <1>2 DEF Types
<1>4. /\ b[i].kind = "Call" => b[i].var \in Vars /\ b[i].want \in Known
      /\ b[i].kind = "Return" => b[i].value \in Known
      /\ b[i].kind = "While" => b[i].test \in Tests
      /\ b[i].kind = "For" => b[i].var \in Vars
      /\ b[i].kind \in {"Assign", "Call", "Return", "Break", "Continue", "If", "While", "For", "Else", "EndIf", "EndLoop"}
  BY <1>2
<1>5. b[i].kind = "If" =>
        /\ b[i].test \in Tests /\ b[i].other \in DOMAIN b /\ b[i].end \in DOMAIN b
        /\ i < b[i].other /\ b[i].other < b[i].end
        /\ b[b[i].other].kind = "Else" /\ b[b[i].other].head = i
        /\ b[b[i].end].kind = "EndIf" /\ b[b[i].end].head = i
  BY <1>2 DEF Else, EndIf
<1>6. b[i].kind \in {"While", "For"} =>
        b[i].end \in DOMAIN b /\ i < b[i].end /\ b[b[i].end].kind = "EndLoop" /\ b[b[i].end].head = i
  BY <1>2 DEF EndLoop
<1> QED
  BY <1>1, <1>3, <1>4, <1>5, <1>6

LEMMA EndFacts ==
    ASSUME NEW b, Body(b), NEW i \in DOMAIN b, b[i].kind \in {"Else", "EndIf", "EndLoop"}
    PROVE  LET h == b[i].head IN
           /\ h \in Heads(b) /\ h \in DOMAIN b /\ h < i
           /\ b[i].kind = "Else" => b[h].kind = "If" /\ b[h].other = i
           /\ b[i].kind = "EndIf" => b[h].kind = "If" /\ b[h].end = i /\ b[h].other \in DOMAIN b /\ b[h].other < i
           /\ b[i].kind = "EndLoop" => h \in Loops(b) /\ b[h].end = i
<1>1. b[i].head \in Heads(b) /\ b[i].head \in DOMAIN b
  BY DEF Body, Heads, Loops
<1>2. /\ b[i].kind = "Else" => b[b[i].head].kind = "If" /\ b[b[i].head].other = i
      /\ b[i].kind = "EndIf" => b[b[i].head].kind = "If" /\ b[b[i].head].end = i
      /\ b[i].kind = "EndLoop" => b[i].head \in Loops(b) /\ b[b[i].head].end = i
  BY DEF Body
<1>3. b[i].head < i
  BY <1>1, <1>2, LineFacts DEF Loops
<1> QED
  BY <1>1, <1>2, <1>3, LineFacts

\* Compound statements end in the reverse order in which they begin.
LEMMA Nesting ==
    ASSUME NEW b, Body(b), NEW h \in Heads(b), NEW g \in Heads(b), h < g, g < b[h].end
    PROVE  b[g].end < b[h].end /\ (b[h].kind = "If" /\ g < b[h].other => b[g].end < b[h].other)
  BY DEF Body

\* A checker goes back to nothing but the lines it has passed.
LEMMA AfterIsLocal ==
    ASSUME NEW b, Body(b), NEW i \in DOMAIN b, NEW f, NEW g, \A j \in 1 .. i : f[j] = g[j]
    PROVE  After(f, b, i) = After(g, b, i)
<1>1. i \in 1 .. i
  BY LineFacts
<1>2. CASE b[i].kind \in {"Else", "EndIf", "EndLoop"}
  <2>1. b[i].head \in 1 .. i /\ (b[i].kind = "EndIf" => b[b[i].head].other \in 1 .. i)
    BY <1>2, EndFacts, LineFacts
  <2>2. f[i] = g[i] /\ f[b[i].head] = g[b[i].head] /\ (b[i].kind = "EndIf" => f[b[b[i].head].other] = g[b[b[i].head].other])
    BY <1>1, <2>1
  <2> QED
    BY <1>2, <2>2 DEF After
<1>3. CASE b[i].kind \notin {"Else", "EndIf", "EndLoop"}
  <2>1. f[i] = g[i]
    BY <1>1
  <2>2. b[i].kind \in {"Assign", "Call", "Return", "Break", "Continue", "If", "While", "For"}
    BY <1>3, LineFacts
  <2> QED
    BY <2>1, <2>2 DEF After
<1> QED
  BY <1>2, <1>3

\* The checker that begins.
Start(parameters, returned) ==
    Checker([x \in Vars |-> IF x \in parameters THEN Parameter ELSE Unknown], returned)

\* The walk over the first n lines.
IsWalk(w, n, parameters, b, returned) ==
    w = [i \in 1 .. n |-> IF i = 1 THEN Start(parameters, returned) ELSE After(w, b, i - 1)]

LEMMA WalkExists ==
    ASSUME NEW b, Body(b), NEW parameters, NEW returned
    PROVE  \E w : IsWalk(w, Len(b) + 1, parameters, b, returned)
<1> DEFINE T == {n \in Nat : n <= Len(b) => \E w : IsWalk(w, n + 1, parameters, b, returned)}
<1>1. Len(b) \in Nat /\ DOMAIN b = 1 .. Len(b)
  BY DEF Body
<1>2. 0 \in T
  <2> DEFINE w == [i \in 1 .. 0 + 1 |-> Start(parameters, returned)]
  <2>1. \A i \in 1 .. 0 + 1 : i = 1
    OBVIOUS
  <2>2. w = [i \in 1 .. 0 + 1 |-> IF i = 1 THEN Start(parameters, returned) ELSE After(w, b, i - 1)]
    BY <2>1
  <2> QED
    BY <2>2 DEF IsWalk
<1>3. ASSUME NEW n \in Nat, n \in T PROVE n + 1 \in T
  <2> SUFFICES ASSUME n + 1 <= Len(b)
               PROVE  \E w : IsWalk(w, n + 1 + 1, parameters, b, returned)
    OBVIOUS
  <2>1. PICK w : IsWalk(w, n + 1, parameters, b, returned)
    BY <1>1, <1>3
  <2> DEFINE longer == [i \in 1 .. n + 1 + 1 |-> IF i <= n + 1 THEN w[i] ELSE After(w, b, n + 1)]
  <2>2. \A i \in 1 .. n + 1 : longer[i] = w[i]
    OBVIOUS
  <2>3. ASSUME NEW i \in 1 .. n + 1 + 1, i # 1
        PROVE  longer[i] = After(longer, b, i - 1)
    <3>1. i - 1 \in DOMAIN b /\ i - 1 \in 1 .. n + 1
      BY <1>1, <2>3
    <3>2. \A j \in 1 .. i - 1 : w[j] = longer[j]
      BY <2>2, <3>1
    <3> HIDE DEF longer
    <3>3. After(w, b, i - 1) = After(longer, b, i - 1)
      BY <3>1, <3>2, AfterIsLocal
    <3>4. CASE i <= n + 1
      BY <2>1, <2>2, <2>3, <3>3, <3>4 DEF IsWalk
    <3>5. CASE ~ (i <= n + 1)
      BY <2>3, <3>3, <3>5 DEF longer
    <3> QED
      BY <3>4, <3>5
  <2>4. longer[1] = Start(parameters, returned)
    BY <2>1, <2>2 DEF IsWalk
  <2>5. DOMAIN longer = 1 .. n + 1 + 1 /\ longer = [i \in 1 .. n + 1 + 1 |-> longer[i]]
    OBVIOUS
  <2> HIDE DEF longer
  <2>6. IsWalk(longer, n + 1 + 1, parameters, b, returned)
    BY <2>3, <2>4, <2>5 DEF IsWalk
  <2> QED
    BY <2>6
<1> HIDE DEF T
<1>4. Nat \subseteq T
  BY <1>2, <1>3, Induction
<1> QED
  BY <1>1, <1>4 DEF T

LEMMA WalkFacts ==
    ASSUME NEW b, Body(b), NEW parameters, NEW returned
    PROVE  LET w == Walk(parameters, b, returned) IN
           w[1] = Start(parameters, returned) /\ \A i \in DOMAIN b : w[i + 1] = After(w, b, i)
<1> DEFINE w == Walk(parameters, b, returned)
<1>1. w = CHOOSE f : IsWalk(f, Len(b) + 1, parameters, b, returned)
  BY DEF Walk, IsWalk, Start
<1> HIDE DEF w
<1>2. IsWalk(w, Len(b) + 1, parameters, b, returned)
  BY <1>1, WalkExists
<1>3. Len(b) \in Nat /\ DOMAIN b = 1 .. Len(b)
  BY DEF Body
<1>4. w[1] = Start(parameters, returned)
  BY <1>2, <1>3 DEF IsWalk
<1>5. ASSUME NEW i \in DOMAIN b PROVE w[i + 1] = After(w, b, i)
  <2>1. i + 1 \in 1 .. Len(b) + 1 /\ i + 1 # 1 /\ i + 1 - 1 = i
    BY <1>3
  <2> QED
    BY <1>2, <2>1 DEF IsWalk
<1> QED
  BY <1>4, <1>5 DEF w

-----------------------------------------------------------------------------
(* What the checker makes of each line.                                      *)

LEMMA BranchFacts ==
    ASSUME NEW c \in Checkers, NEW left \in Checkers, left.returns = c.returns,
           NEW n, n.test \in Tests
    PROVE  /\ Continues(c, CheckIf(c, n))
           /\ CheckIf(c, n).vars = Narrow(c.vars, n.test, TRUE) /\ CheckIf(c, n).alive = TRUE
           /\ Continues(left, CheckElse(c, left, n))
           /\ CheckElse(c, left, n).vars = Narrow(c.vars, n.test, FALSE) /\ CheckElse(c, left, n).alive = TRUE
           /\ Typed(c.vars) => Typed(CheckIf(c, n).vars) /\ Typed(CheckElse(c, left, n).vars)
<1> DEFINE d == Test(c, n.test)
<1>1. d \in Checkers /\ d.returns = c.returns /\ c.codes \subseteq d.codes /\ d.vars = c.vars
  BY TestFacts DEF Continues
<1> HIDE DEF d
<1>2. c.vars \in Environment
  BY DEF Checkers
<1>3. /\ Narrow(c.vars, n.test, TRUE) \in Environment /\ Narrow(c.vars, n.test, FALSE) \in Environment
      /\ Typed(c.vars) => Typed(Narrow(c.vars, n.test, TRUE)) /\ Typed(Narrow(c.vars, n.test, FALSE))
  BY <1>2, NarrowFacts
<1>4. /\ CheckIf(c, n) = [d EXCEPT !.vars = Narrow(c.vars, n.test, TRUE), !.alive = TRUE]
      /\ CheckElse(c, left, n) = [left EXCEPT !.vars = Narrow(c.vars, n.test, FALSE), !.alive = TRUE]
  BY <1>1 DEF CheckIf, CheckElse, d, Checkers
<1>5. Continues(c, CheckIf(c, n)) /\ CheckIf(c, n).vars = Narrow(c.vars, n.test, TRUE) /\ CheckIf(c, n).alive = TRUE
  BY <1>1, <1>3, <1>4 DEF Checkers, Continues
<1>6. /\ Continues(left, CheckElse(c, left, n))
      /\ CheckElse(c, left, n).vars = Narrow(c.vars, n.test, FALSE) /\ CheckElse(c, left, n).alive = TRUE
  BY <1>3, <1>4 DEF Checkers, Continues
<1> QED
  BY <1>3, <1>5, <1>6

LEMMA EndIfFacts ==
    ASSUME NEW c \in Checkers, NEW left \in Checkers, NEW right \in Checkers
    PROVE  LET d == CheckEndIf(c, left, right) IN
           /\ Continues(right, d)
           /\ d.vars = Join(left.vars, right.vars, left.alive, right.alive)
           /\ d.alive = (c.alive /\ (left.alive \/ right.alive))
           /\ d.codes = {} => ~ Disagree(left.vars, right.vars)
           /\ Typed(left.vars) /\ Typed(right.vars) => Typed(d.vars)
<1> DEFINE vars == Join(left.vars, right.vars, left.alive, right.alive)
           joined == [right EXCEPT !.vars = vars, !.alive = c.alive /\ (left.alive \/ right.alive)]
           d == CheckEndIf(c, left, right)
<1>1. left.vars \in Environment /\ right.vars \in Environment /\ left.alive \in BOOLEAN /\ right.alive \in BOOLEAN /\ c.alive \in BOOLEAN
  BY DEF Checkers
<1>2. vars \in Environment /\ (Typed(left.vars) /\ Typed(right.vars) => Typed(vars))
  BY <1>1, JoinFacts
<1> HIDE DEF vars
<1>3. joined \in Checkers /\ joined.vars = vars /\ joined.codes = right.codes /\ joined.returns = right.returns
      /\ joined.alive = (c.alive /\ (left.alive \/ right.alive))
  BY <1>1, <1>2 DEF Checkers
<1>4. d = IF Disagree(left.vars, right.vars) THEN Error(joined, "PP205") ELSE joined
  BY DEF CheckEndIf, d, joined, vars
<1> HIDE DEF joined, d
<1>5. "PP205" \in Codes
  BY DEF Codes
<1>6. /\ Continues(right, d) /\ d.vars = vars /\ d.alive = joined.alive
      /\ d.codes = {} => ~ Disagree(left.vars, right.vars)
  BY <1>3, <1>4, <1>5, ErrorFacts DEF Continues
<1> QED
  BY <1>2, <1>3, <1>6 DEF vars, d

LEMMA LoopFacts ==
    ASSUME NEW c \in Checkers, NEW n, NEW writes,
           \/ n.kind = "While" /\ n.test \in Tests
           \/ n.kind = "For" /\ n.var \in Vars
    PROVE  LET d == CheckLoop(c, n, writes)
               reset == ResetRefinements(c.vars, writes) IN
           /\ Continues(c, d) /\ d.alive = TRUE
           /\ n.kind = "While" => d.vars = Narrow(reset, n.test, TRUE)
           /\ n.kind = "For" =>
                 /\ \A y \in Vars \ {n.var} : d.vars[y] = reset[y]
                 /\ d.vars[n.var].Type \in Known /\ d.vars[n.var].Current = d.vars[n.var].Type
                 /\ d.vars[n.var].Assigned = TRUE
                 /\ d.codes = {} => SameTypes(reset, d.vars) /\ Accepts(d.vars[n.var].Type, "int")
           /\ Typed(c.vars) => Typed(d.vars)
<1> DEFINE vars == ResetRefinements(c.vars, writes)
           reset == [c EXCEPT !.vars = vars]
           d == CheckLoop(c, n, writes)
<1>1. c.vars \in Environment
  BY DEF Checkers
<1>2. vars \in Environment /\ (Typed(c.vars) => Typed(vars))
  BY <1>1, ResetFacts
<1> HIDE DEF vars
<1>3. reset \in Checkers /\ reset.vars = vars /\ reset.codes = c.codes /\ reset.returns = c.returns
  BY <1>2 DEF Checkers
<1>4. reset = [c EXCEPT !.vars = ResetRefinements(@, writes)]
  BY DEF vars, Checkers
<1> HIDE DEF reset
<1>5. CASE n.kind = "For" /\ n.var \in Vars
  <2> DEFINE bound == Bind(reset, n.var, "int", "invalid", TRUE)
  <2>1. d = [bound EXCEPT !.alive = TRUE]
    BY <1>4, <1>5 DEF CheckLoop
  <2>2. "int" \in Known /\ "invalid" \in Types /\ TRUE \in BOOLEAN
    BY DEF Known, Types
  <2>3. /\ Continues(reset, bound)
        /\ \A y \in Vars \ {n.var} : bound.vars[y] = reset.vars[y]
        /\ bound.vars[n.var].Type \in Known /\ bound.vars[n.var].Current = bound.vars[n.var].Type
        /\ bound.vars[n.var].Assigned = (reset.vars[n.var].Assigned \/ TRUE)
        /\ Typed(reset.vars) => Typed(bound.vars)
        /\ bound.codes = {} => SameTypes(reset.vars, bound.vars) /\ (TRUE => Accepts(bound.vars[n.var].Type, "int"))
    <3> DEFINE x == n.var
               yes == TRUE
    <3>1. x \in Vars /\ yes \in BOOLEAN
      BY <1>5
    <3> HIDE DEF x, yes
    <3>2. LET b == Bind(reset, x, "int", "invalid", yes) IN
          /\ Continues(reset, b)
          /\ \A y \in Vars \ {x} : b.vars[y] = reset.vars[y]
          /\ b.vars[x].Type \in Known /\ b.vars[x].Current = b.vars[x].Type
          /\ b.vars[x].Assigned = (reset.vars[x].Assigned \/ yes)
          /\ Typed(reset.vars) => Typed(b.vars)
          /\ b.codes = {} => SameTypes(reset.vars, b.vars) /\ (yes => Accepts(b.vars[x].Type, "int"))
      BY <1>3, <2>2, <3>1, BindFacts
    <3> QED
      BY <3>2 DEF x, yes
  <2> HIDE DEF bound, d
  <2>4. /\ d \in Checkers /\ d.vars = bound.vars /\ d.codes = bound.codes /\ d.returns = bound.returns /\ d.alive = TRUE
    BY <2>1, <2>3 DEF Continues, Checkers
  <2> QED
    BY <1>2, <1>3, <1>5, <2>3, <2>4 DEF Continues, vars, d
<1>6. CASE n.kind = "While" /\ n.test \in Tests
  <2> DEFINE tested == Test(reset, n.test)
  <2>1. Continues(reset, tested) /\ tested.vars = vars
    BY <1>3, <1>6, TestFacts
  <2>2. d = [[tested EXCEPT !.vars = Narrow(@, n.test, TRUE)] EXCEPT !.alive = TRUE]
    BY <1>4, <1>6 DEF CheckLoop
  <2> HIDE DEF tested, d
  <2>3. Narrow(vars, n.test, TRUE) \in Environment /\ (Typed(vars) => Typed(Narrow(vars, n.test, TRUE)))
    BY <1>2, <1>6, NarrowFacts
  <2>4. d = [tested EXCEPT !.vars = Narrow(vars, n.test, TRUE), !.alive = TRUE]
    BY <2>1, <2>2 DEF Continues, Checkers
  <2>5. /\ d \in Checkers /\ d.vars = Narrow(vars, n.test, TRUE) /\ d.codes = tested.codes /\ d.returns = tested.returns /\ d.alive = TRUE
    BY <2>1, <2>3, <2>4 DEF Continues, Checkers
  <2> QED
    BY <1>2, <1>3, <1>6, <2>1, <2>3, <2>5 DEF Continues, vars, d
<1> QED
  BY <1>5, <1>6

Endless(n) == n.kind = "While" /\ n.test = True(FALSE)

LEMMA EndLoopFacts ==
    ASSUME NEW c \in Checkers, NEW after \in Checkers, NEW n, NEW writes, NEW breaks
    PROVE  LET d == CheckEndLoop(c, after, n, writes, breaks)
               joined == Meet(c.vars, after.vars) IN
           /\ Continues(after, d)
           /\ joined \in Environment /\ d.vars = ResetRefinements(joined, writes)
           /\ d.alive = (c.alive /\ ~ (Endless(n) /\ ~ breaks))
           /\ d.codes = {} => ~ Disagree(c.vars, after.vars)
           /\ Typed(c.vars) /\ Typed(after.vars) => Typed(joined) /\ Typed(d.vars)
<1> DEFINE joined == Meet(c.vars, after.vars)
           vars == ResetRefinements(joined, writes)
           goesOn == (c.alive /\ ~ (Endless(n) /\ ~ breaks))
           met == [after EXCEPT !.vars = vars, !.alive = goesOn]
           d == CheckEndLoop(c, after, n, writes, breaks)
<1>1. c.vars \in Environment /\ after.vars \in Environment /\ TRUE \in BOOLEAN
  BY DEF Checkers
<1>2. joined \in Environment /\ (Typed(c.vars) /\ Typed(after.vars) => Typed(joined))
  BY <1>1, MeetFacts
<1> HIDE DEF joined
<1>3. vars \in Environment /\ (Typed(joined) => Typed(vars))
  BY <1>2, ResetFacts
<1> HIDE DEF vars
<1>4. goesOn \in BOOLEAN
  OBVIOUS
<1>5. d = IF Disagree(c.vars, after.vars) THEN Error(met, "PP205") ELSE met
  BY DEF CheckEndLoop, Meet, Endless, joined, vars
<1> HIDE DEF goesOn
<1>6. met \in Checkers /\ met.vars = vars /\ met.codes = after.codes /\ met.returns = after.returns /\ met.alive = goesOn
  BY <1>3, <1>4 DEF Checkers
<1> HIDE DEF met, d
<1>7. "PP205" \in Codes
  BY DEF Codes
<1>8. /\ Continues(after, d) /\ d.vars = vars /\ d.alive = goesOn
      /\ d.codes = {} => ~ Disagree(c.vars, after.vars)
  BY <1>5, <1>6, <1>7, ErrorFacts DEF Continues
<1> QED
  BY <1>2, <1>3, <1>8 DEF vars, joined, goesOn, d

LEMMA DeadFacts ==
    ASSUME NEW c \in Checkers, NEW d, Continues(c, d)
    PROVE  Continues(c, Dead(d)) /\ Dead(d).vars = d.vars /\ Dead(d).codes = d.codes /\ Dead(d).alive = FALSE
  BY DEF Dead, Continues, Checkers

\* A checker of a walk, which knows the result its function declares.
Sound(c, returned) == c \in Checkers /\ c.returns = returned /\ Typed(c.vars)

LEMMA StepFacts ==
    ASSUME NEW b, Body(b), NEW i \in DOMAIN b, NEW returned \in Known,
           NEW w, \A j \in 1 .. i : Sound(w[j], returned)
    PROVE  Continues(w[i], After(w, b, i)) /\ Sound(After(w, b, i), returned)
<1> DEFINE n == b[i]
           c == w[i]
           d == After(w, b, i)
<1>1. c \in Checkers /\ c.returns = returned /\ Typed(c.vars)
  BY LineFacts DEF Sound
<1>2. CASE n.kind = "Assign"
  <2> DEFINE t == IF n.value = "absent" THEN n.annotation ELSE n.value
             assigned == n.value # "absent"
  <2>1. d = Bind(c, n.var, t, n.annotation, assigned)
    BY <1>2 DEF After, CheckAssign
  <2>2. n.var \in Vars /\ t \in Known /\ n.annotation \in Types /\ assigned \in BOOLEAN
    BY <1>2, LineFacts DEF Known
  <2> HIDE DEF t, assigned, d, c
  <2>3. Continues(c, d) /\ Typed(d.vars)
    BY <1>1, <2>1, <2>2, BindFacts
  <2> QED
    BY <1>1, <2>3 DEF Continues, Sound, d, c
<1>3. CASE n.kind = "Call"
  <2>1. d = Read(c, n.var, n.want) /\ n.var \in Vars /\ n.want \in Known
    BY <1>3, LineFacts DEF After
  <2> HIDE DEF d, c
  <2>2. Continues(c, d) /\ d.vars = c.vars
    BY <1>1, <2>1, ReadFacts
  <2> QED
    BY <1>1, <2>2 DEF Continues, Sound, d, c
<1>4. CASE n.kind = "Return"
  <2> DEFINE e == Expect(c, c.returns, n.value)
  <2>1. d = Dead(e) /\ n.value \in Types /\ c.returns \in Types
    BY <1>1, <1>4, LineFacts DEF After, Types
  <2> HIDE DEF c
  <2>2. Continues(c, e) /\ e.vars = c.vars
    BY <1>1, <2>1, ExpectFacts
  <2> HIDE DEF d, e
  <2>3. Continues(c, d) /\ d.vars = c.vars
    BY <1>1, <2>1, <2>2, DeadFacts
  <2> QED
    BY <1>1, <2>3 DEF Continues, Sound, d, c
<1>5. CASE n.kind \in {"Break", "Continue"}
  <2> DEFINE e == IF LoopsAround(b, i) = {} THEN Error(c, "PP215") ELSE c
  <2>1. d = Dead(e) /\ "PP215" \in Codes
    BY <1>5 DEF After, Codes
  <2> HIDE DEF c
  <2>2. Continues(c, e) /\ e.vars = c.vars
    BY <1>1, <2>1, ErrorFacts DEF Continues
  <2> HIDE DEF d, e
  <2>3. Continues(c, d) /\ d.vars = c.vars
    BY <1>1, <2>1, <2>2, DeadFacts
  <2> QED
    BY <1>1, <2>3 DEF Continues, Sound, d, c
<1>6. CASE n.kind = "If"
  <2>1. d = CheckIf(c, n) /\ n.test \in Tests
    BY <1>6, LineFacts DEF After
  <2> HIDE DEF d, c, n
  <2>2. Continues(c, d) /\ Typed(d.vars)
    BY <1>1, <2>1, BranchFacts
  <2> QED
    BY <1>1, <2>2 DEF Continues, Sound, d, c
<1>7. CASE n.kind \in {"While", "For"}
  <2> DEFINE writes == Writes(b, i)
  <2>1. d = CheckLoop(c, n, writes) /\ (\/ n.kind = "While" /\ n.test \in Tests
                                        \/ n.kind = "For" /\ n.var \in Vars)
    BY <1>7, LineFacts DEF After
  <2> HIDE DEF d, c, n, writes
  <2>2. Continues(c, d) /\ Typed(d.vars)
    BY <1>1, <2>1, LoopFacts
  <2> QED
    BY <1>1, <2>2 DEF Continues, Sound, d, c
<1>8. CASE n.kind \in {"Else", "EndIf", "EndLoop"}
  <2> DEFINE h == n.head
             before == w[h]
  <2>1. h \in 1 .. i /\ h \in DOMAIN b
    BY <1>8, EndFacts, LineFacts
  <2>2. before \in Checkers /\ before.returns = returned /\ Typed(before.vars)
    BY <2>1 DEF Sound
  <2>3. CASE n.kind = "Else"
    <3>1. d = CheckElse(before, c, b[h]) /\ b[h].test \in Tests
      BY <2>1, <2>3, EndFacts, LineFacts DEF After
    <3> HIDE DEF d, c, n, before
    <3>2. Continues(c, d) /\ Typed(d.vars)
      BY <1>1, <2>2, <3>1, BranchFacts
    <3> QED
      BY <1>1, <3>2 DEF Continues, Sound, d, c
  <2>4. CASE n.kind = "EndIf"
    <3> DEFINE left == w[b[h].other]
    <3>1. b[h].other \in 1 .. i
      BY <2>4, EndFacts, LineFacts
    <3>2. left \in Checkers /\ Typed(left.vars)
      BY <3>1 DEF Sound
    <3>3. d = CheckEndIf(before, left, c)
      BY <2>4 DEF After
    <3> HIDE DEF d, c, n, before, left
    <3>4. Continues(c, d) /\ Typed(d.vars)
      BY <1>1, <2>2, <3>2, <3>3, EndIfFacts
    <3> QED
      BY <1>1, <3>4 DEF Continues, Sound, d, c
  <2>5. CASE n.kind = "EndLoop"
    <3> DEFINE writes == Writes(b, h)
               breaks == ContainsBreak(b, h)
               m == b[h]
    <3>1. d = CheckEndLoop(before, c, m, writes, breaks)
      BY <2>5 DEF After
    <3> HIDE DEF d, c, n, before, writes, breaks, m
    <3>2. Continues(c, d) /\ Typed(d.vars)
      BY <1>1, <2>2, <3>1, EndLoopFacts
    <3> QED
      BY <1>1, <3>2 DEF Continues, Sound, d, c
  <2> QED
    BY <1>8, <2>3, <2>4, <2>5
<1> QED
  BY <1>2, <1>3, <1>4, <1>5, <1>6, <1>7, <1>8, LineFacts

\* The walk over a body that the checker has nothing to report about.
Passes(w, b, returned) ==
    /\ \A i \in 1 .. Len(b) + 1 : Sound(w[i], returned) /\ w[i].codes = {}
    /\ \A i \in DOMAIN b : w[i + 1] = After(w, b, i)

LEMMA SoundWalk ==
    ASSUME NEW b, Body(b), NEW parameters, NEW returned \in Known
    PROVE  LET w == Walk(parameters, b, returned) IN
           \A i \in 1 .. Len(b) + 1 : Sound(w[i], returned)
<1> DEFINE w == Walk(parameters, b, returned)
           T == {n \in Nat : n <= Len(b) => \A i \in 1 .. n + 1 : Sound(w[i], returned)}
<1>1. Len(b) \in Nat /\ DOMAIN b = 1 .. Len(b)
  BY DEF Body
<1>2. w[1] = Start(parameters, returned) /\ \A i \in DOMAIN b : w[i + 1] = After(w, b, i)
  BY WalkFacts
<1> HIDE DEF w
<1>3. 0 \in T
  <2>1. /\ Parameter \in [Type : Types, Current : Types, Assigned : BOOLEAN]
        /\ Unknown \in [Type : Types, Current : Types, Assigned : BOOLEAN]
        /\ {Parameter.Type, Parameter.Current} \subseteq Known /\ Unknown.Assigned = FALSE
    BY DEF Parameter, Unknown, Types, Known
  <2> DEFINE vars == [x \in Vars |-> IF x \in parameters THEN Parameter ELSE Unknown]
  <2>2. vars \in Environment /\ Typed(vars)
    BY <2>1 DEF Environment, Typed
  <2> HIDE DEF vars
  <2>3. Checker(vars, returned) \in Checkers /\ Checker(vars, returned).returns = returned /\ Checker(vars, returned).vars = vars
    BY <2>2 DEF Checker, Checkers
  <2>4. Sound(w[1], returned)
    BY <1>2, <2>2, <2>3 DEF Sound, Start, vars
  <2>5. \A i \in 1 .. 0 + 1 : i = 1
    OBVIOUS
  <2> QED
    BY <2>4, <2>5
<1>4. ASSUME NEW n \in Nat, n \in T PROVE n + 1 \in T
  <2> SUFFICES ASSUME n + 1 <= Len(b), NEW i \in 1 .. n + 1 + 1
               PROVE  Sound(w[i], returned)
    OBVIOUS
  <2>1. \A j \in 1 .. n + 1 : Sound(w[j], returned)
    BY <1>1, <1>4
  <2>2. n + 1 \in DOMAIN b
    BY <1>1
  <2>3. Sound(w[n + 1 + 1], returned)
    BY <1>2, <2>1, <2>2, StepFacts
  <2> QED
    BY <2>1, <2>3
<1> HIDE DEF T
<1>5. Nat \subseteq T
  BY <1>3, <1>4, Induction
<1>6. Len(b) \in T
  BY <1>1, <1>5
<1> QED
  BY <1>1, <1>6 DEF T, w

\* What is reported stays reported.
LEMMA SilentWalk ==
    ASSUME NEW b, Body(b), NEW parameters, NEW returned \in Known,
           Walk(parameters, b, returned)[Len(b) + 1].codes = {}
    PROVE  Passes(Walk(parameters, b, returned), b, returned)
<1> DEFINE w == Walk(parameters, b, returned)
           T == {n \in Nat : n <= Len(b) => w[Len(b) + 1 - n].codes = {}}
<1>1. Len(b) \in Nat /\ DOMAIN b = 1 .. Len(b)
  BY DEF Body
<1>2. /\ \A i \in DOMAIN b : w[i + 1] = After(w, b, i)
      /\ \A i \in 1 .. Len(b) + 1 : Sound(w[i], returned)
      /\ w[Len(b) + 1].codes = {}
  BY WalkFacts, SoundWalk
<1> HIDE DEF w
<1>3. 0 \in T
  <2>1. Len(b) + 1 - 0 = Len(b) + 1
    BY <1>1
  <2> QED
    BY <1>2, <2>1
<1>4. ASSUME NEW n \in Nat, n \in T PROVE n + 1 \in T
  <2> SUFFICES ASSUME n + 1 <= Len(b)
               PROVE  w[Len(b) + 1 - (n + 1)].codes = {}
    OBVIOUS
  <2> DEFINE i == Len(b) + 1 - (n + 1)
  <2>1. i \in DOMAIN b /\ i + 1 = Len(b) + 1 - n
    BY <1>1
  <2>2. w[i + 1].codes = {}
    BY <1>4, <1>1, <2>1
  <2> HIDE DEF i
  <2>3. \A j \in 1 .. i : Sound(w[j], returned)
    BY <1>1, <1>2, <2>1
  <2>4. w[i].codes \subseteq w[i + 1].codes
    BY <1>2, <2>1, <2>3, StepFacts DEF Continues
  <2> QED
    BY <2>2, <2>4 DEF i
<1> HIDE DEF T
<1>5. Nat \subseteq T
  BY <1>3, <1>4, Induction
<1>6. ASSUME NEW i \in 1 .. Len(b) + 1 PROVE w[i].codes = {}
  <2>1. Len(b) + 1 - i \in T /\ Len(b) + 1 - i <= Len(b) /\ Len(b) + 1 - (Len(b) + 1 - i) = i
    BY <1>1, <1>5
  <2> QED
    BY <2>1 DEF T
<1> QED
  BY <1>2, <1>6 DEF Passes, w

LEMMA Accepted ==
    ASSUME NEW b, Body(b), NEW parameters, NEW returned \in {"int", "None"},
           Function(parameters, b, returned).codes = {}
    PROVE  LET w == Walk(parameters, b, returned) IN
           /\ Passes(w, b, returned)
           /\ w[Len(b) + 1].alive => returned = "None"
           /\ Function(parameters, b, returned).vars = w[Len(b) + 1].vars
<1> DEFINE w == Walk(parameters, b, returned)
           c == w[Len(b) + 1]
<1>1. Len(b) \in Nat /\ returned \in Known /\ "PP213" \in Codes
  BY DEF Body, Known, Codes
<1>2. c \in Checkers
  BY <1>1, SoundWalk DEF Sound
<1>3. Function(parameters, b, returned) = IF c.alive /\ returned # "None" THEN Error(c, "PP213") ELSE c
  BY DEF Function
<1> HIDE DEF c
<1>4. ~ (c.alive /\ returned # "None")
  BY <1>1, <1>2, <1>3, ErrorFacts
<1>5. c.codes = {} /\ Function(parameters, b, returned).vars = c.vars
  BY <1>3, <1>4
<1>6. Passes(w, b, returned)
  BY <1>1, <1>5, SilentWalk DEF c
<1> QED
  BY <1>4, <1>5, <1>6 DEF c

-----------------------------------------------------------------------------
(* The type of a local is the same on the whole walk.                        *)

LEMMA NarrowKeeps ==
    ASSUME NEW vars \in Environment, NEW test \in Tests
    PROVE  SameTypes(vars, Narrow(vars, test, TRUE)) /\ SameTypes(vars, Narrow(vars, test, FALSE))
<1>1. \A truth \in BOOLEAN : SameTypes(vars, Narrow(vars, test, truth))
  BY NarrowFacts DEF SameTypes
<1> QED
  BY <1>1

LEMMA JoinKeeps ==
    ASSUME NEW a \in Environment, NEW b \in Environment, NEW aliveA \in BOOLEAN, NEW aliveB \in BOOLEAN, ~ Disagree(a, b)
    PROVE  SameTypes(a, Join(a, b, aliveA, aliveB)) /\ SameTypes(b, Join(a, b, aliveA, aliveB))
  BY JoinFacts

LEMMA TypeFacts ==
    ASSUME NEW b, Body(b), NEW returned \in Known, NEW w, Passes(w, b, returned), NEW i \in DOMAIN b
    PROVE  /\ b[i].kind # "Else" => SameTypes(w[i].vars, w[i + 1].vars)
           /\ b[i].kind = "Else" => SameTypes(w[b[i].head].vars, w[i + 1].vars)
           /\ b[i].kind = "EndIf" => SameTypes(w[b[b[i].head].other].vars, w[i + 1].vars)
<1> DEFINE n == b[i]
           c == w[i]
           d == w[i + 1]
<1>1. i \in 1 .. Len(b) + 1 /\ i + 1 \in 1 .. Len(b) + 1
  BY LineFacts
<1>2. c \in Checkers /\ c.returns = returned
  BY <1>1 DEF Passes, Sound
<1>9. d.codes = {}
  BY <1>1 DEF Passes
<1>10. d = After(w, b, i)
  BY DEF Passes
<1>11. c.vars \in Environment /\ c.alive \in BOOLEAN
  BY <1>2 DEF Checkers
<1>3. CASE n.kind = "Assign"
  <2> DEFINE t == IF n.value = "absent" THEN n.annotation ELSE n.value
             assigned == n.value # "absent"
  <2>1. d = Bind(c, n.var, t, n.annotation, assigned)
    BY <1>10, <1>2, <1>3 DEF After, CheckAssign
  <2>2. n.var \in Vars /\ t \in Known /\ n.annotation \in Types /\ assigned \in BOOLEAN
    BY <1>3, LineFacts DEF Known
  <2> HIDE DEF t, assigned, d, c
  <2>3. SameTypes(c.vars, d.vars)
    BY <1>2, <1>9, <2>1, <2>2, BindFacts
  <2> QED
    BY <1>3, <2>3 DEF c, d
<1>4. CASE n.kind = "Call"
  <2>1. d = Read(c, n.var, n.want) /\ n.var \in Vars /\ n.want \in Known
    BY <1>10, <1>2, <1>4, LineFacts DEF After
  <2> HIDE DEF d, c
  <2>2. d.vars = c.vars
    BY <1>2, <2>1, ReadFacts
  <2> QED
    BY <1>4, <2>2 DEF SameTypes, c, d
<1>5. CASE n.kind \in {"Return", "Break", "Continue"}
  <2> DEFINE e == IF n.kind = "Return" THEN Expect(c, c.returns, n.value)
                  ELSE IF LoopsAround(b, i) = {} THEN Error(c, "PP215") ELSE c
  <2>1. d = Dead(e) /\ "PP215" \in Codes /\ (n.kind = "Return" => n.value \in Types /\ c.returns \in Types)
    BY <1>10, <1>2, <1>5, LineFacts DEF After, Codes, Types
  <2> HIDE DEF c
  <2>2. Continues(c, e) /\ e.vars = c.vars
    BY <1>2, <2>1, ErrorFacts, ExpectFacts DEF Continues
  <2> HIDE DEF d, e
  <2>3. d.vars = c.vars
    BY <1>2, <2>1, <2>2, DeadFacts
  <2> QED
    BY <1>5, <2>3 DEF SameTypes, c, d
<1>6. CASE n.kind = "If"
  <2>1. d = CheckIf(c, n) /\ n.test \in Tests
    BY <1>10, <1>2, <1>6, LineFacts DEF After
  <2> HIDE DEF d, c, n
  <2>2. d.vars = Narrow(c.vars, n.test, TRUE)
    BY <1>2, <2>1, BranchFacts
  <2>3. SameTypes(c.vars, d.vars)
    BY <1>11, <2>1, <2>2, NarrowKeeps
  <2> QED
    BY <1>6, <2>3 DEF c, d, n
<1>7. CASE n.kind \in {"While", "For"}
  <2> DEFINE writes == Writes(b, i)
             reset == ResetRefinements(c.vars, writes)
  <2>1. d = CheckLoop(c, n, writes) /\ (\/ n.kind = "While" /\ n.test \in Tests
                                        \/ n.kind = "For" /\ n.var \in Vars)
    BY <1>10, <1>2, <1>7, LineFacts DEF After
  <2> HIDE DEF d, c, writes
  <2>2. reset \in Environment /\ SameTypes(c.vars, reset)
    BY <1>11, ResetFacts DEF SameTypes
  <2> HIDE DEF n
  <2>3. /\ n.kind = "While" => d.vars = Narrow(reset, n.test, TRUE)
        /\ n.kind = "For" => SameTypes(reset, d.vars)
    BY <1>2, <1>9, <2>1, LoopFacts
  <2>4. n.kind = "While" => SameTypes(reset, d.vars)
    BY <2>1, <2>2, <2>3, NarrowKeeps
  <2>5. SameTypes(c.vars, d.vars)
    BY <2>1, <2>2, <2>3, <2>4 DEF SameTypes
  <2> QED
    BY <1>7, <2>5 DEF c, d, n
<1>8. CASE n.kind \in {"Else", "EndIf", "EndLoop"}
  <2> DEFINE h == n.head
             before == w[h]
  <2>1. h \in DOMAIN b /\ h \in 1 .. Len(b) + 1
    BY <1>8, EndFacts, LineFacts
  <2>2. before \in Checkers /\ before.returns = returned
    BY <2>1 DEF Passes, Sound
  <2>6. before.vars \in Environment
    BY <2>2 DEF Checkers
  <2>3. CASE n.kind = "Else"
    <3> DEFINE m == b[h]
    <3>1. d = CheckElse(before, c, m) /\ m.test \in Tests
      BY <1>10, <1>2, <2>1, <2>3, EndFacts, LineFacts DEF After
    <3> HIDE DEF d, c, n, before, m
    <3>2. d.vars = Narrow(before.vars, m.test, FALSE)
      BY <1>2, <2>2, <3>1, BranchFacts
    <3>3. SameTypes(before.vars, d.vars)
      BY <2>6, <3>1, <3>2, NarrowKeeps
    <3> QED
      BY <2>3, <3>3 DEF before, d, n
  <2>4. CASE n.kind = "EndIf"
    <3> DEFINE left == w[b[h].other]
    <3>1. b[h].other \in 1 .. Len(b) + 1
      BY <2>4, EndFacts, LineFacts
    <3>2. left \in Checkers
      BY <3>1 DEF Passes, Sound
    <3>6. left.vars \in Environment /\ left.alive \in BOOLEAN
      BY <3>2 DEF Checkers
    <3>3. d = CheckEndIf(before, left, c)
      BY <1>10, <1>2, <2>4 DEF After
    <3> HIDE DEF d, c, before, left
    <3>4. d.vars = Join(left.vars, c.vars, left.alive, c.alive) /\ ~ Disagree(left.vars, c.vars)
      BY <1>2, <1>9, <2>2, <3>2, <3>3, EndIfFacts
    <3>5. SameTypes(left.vars, d.vars) /\ SameTypes(c.vars, d.vars)
      BY <1>11, <3>4, <3>6, JoinKeeps
    <3> QED
      BY <2>4, <3>5 DEF left, c, d
  <2>5. CASE n.kind = "EndLoop"
    <3> DEFINE writes == Writes(b, h)
               breaks == ContainsBreak(b, h)
               m == b[h]
               joined == Meet(before.vars, c.vars)
    <3>1. d = CheckEndLoop(before, c, m, writes, breaks)
      BY <1>10, <1>2, <2>5 DEF After
    <3> HIDE DEF d, c, before, writes, breaks, m
    <3>2. joined \in Environment /\ d.vars = ResetRefinements(joined, writes) /\ ~ Disagree(before.vars, c.vars)
      BY <1>2, <1>9, <2>2, <3>1, EndLoopFacts
    <3>3. SameTypes(c.vars, joined)
      BY <1>11, <2>6, <3>2, MeetFacts
    <3> HIDE DEF joined
    <3>4. SameTypes(c.vars, d.vars)
      BY <3>2, <3>3, ResetFacts DEF SameTypes
    <3> QED
      BY <2>5, <3>4 DEF c, d
  <2> QED
    BY <1>8, <2>3, <2>4, <2>5
<1> QED
  BY <1>3, <1>4, <1>5, <1>6, <1>7, <1>8, LineFacts

\* The type before line i is that before line j, or waits at the end of a
\* first branch, while j is in the second one.
Keeps(w, b, i, j, x) ==
    LET type == w[i].vars[x].Type IN
    \/ w[j].vars[x].Type = type
    \/ \E h \in Heads(b) : /\ b[h].kind = "If" /\ h < i /\ i <= b[h].other
                           /\ b[h].other < j /\ j <= b[h].end
                           /\ w[b[h].other].vars[x].Type = type

LEMMA KeepsType ==
    ASSUME NEW b, Body(b), NEW returned \in Known, NEW w, Passes(w, b, returned),
           NEW j \in DOMAIN b, NEW i \in 1 .. j, NEW x \in Vars, w[i].vars[x].Type # "invalid",
           \A k \in i .. j : Keeps(w, b, i, k, x)
    PROVE  Keeps(w, b, i, j + 1, x)
<1> DEFINE type == w[i].vars[x].Type
<1>1. Len(b) \in Nat /\ DOMAIN b = 1 .. Len(b) /\ j \in Nat
  BY DEF Body
<1>2. \A h \in Heads(b) : b[h].end \in Nat /\ b[h].end \in DOMAIN b /\ (b[h].kind = "If" => b[h].other \in Nat /\ b[b[h].end].kind = "EndIf" /\ b[b[h].end].head = h)
  BY <1>1, LineFacts DEF Heads
<1>3. type # "invalid"
  OBVIOUS
<1>4. Keeps(w, b, i, j, x)
  BY <1>1
<1> HIDE DEF type
<1>5. CASE b[j].kind \notin {"Else", "EndIf"}
  <2>1. CASE w[j].vars[x].Type = type
    <3>1. SameTypes(w[j].vars, w[j + 1].vars)
      BY <1>5, TypeFacts
    <3>2. w[j + 1].vars[x].Type = type
      BY <1>3, <2>1, <3>1 DEF SameTypes
    <3> QED
      BY <3>2 DEF Keeps, type
  <2>2. CASE w[j].vars[x].Type # type
    <3>1. PICK h \in Heads(b) : /\ b[h].kind = "If" /\ h < i /\ i <= b[h].other
                                /\ b[h].other < j /\ j <= b[h].end
                                /\ w[b[h].other].vars[x].Type = type
      BY <1>4, <2>2 DEF Keeps, type
    <3>2. j # b[h].end
      BY <1>2, <1>5, <3>1
    <3>3. j + 1 <= b[h].end /\ b[h].other < j + 1
      BY <1>1, <1>2, <3>1, <3>2
    <3> QED
      BY <3>1, <3>3 DEF Keeps, type
  <2> QED
    BY <2>1, <2>2
<1>6. CASE b[j].kind = "EndIf"
  <2> DEFINE g == b[j].head
  <2>1. CASE w[j].vars[x].Type = type \/ w[b[g].other].vars[x].Type = type
    <3>1. SameTypes(w[j].vars, w[j + 1].vars) /\ SameTypes(w[b[g].other].vars, w[j + 1].vars)
      BY <1>6, TypeFacts
    <3> DEFINE left == w[b[g].other].vars
               right == w[j].vars
               joined == w[j + 1].vars
    <3> HIDE DEF g, left, right, joined
    <3>2. joined[x].Type = type
      BY <1>3, <2>1, <3>1 DEF SameTypes, left, right, joined
    <3> QED
      BY <3>2 DEF Keeps, type, joined
  <2>2. CASE ~ (w[j].vars[x].Type = type \/ w[b[g].other].vars[x].Type = type)
    <3>1. PICK h \in Heads(b) : /\ b[h].kind = "If" /\ h < i /\ i <= b[h].other
                                /\ b[h].other < j /\ j <= b[h].end
                                /\ w[b[h].other].vars[x].Type = type
      BY <1>4, <2>2 DEF Keeps, type
    <3>2. j # b[h].end
      BY <1>2, <1>6, <2>2, <3>1
    <3>3. j + 1 <= b[h].end /\ b[h].other < j + 1
      BY <1>1, <1>2, <3>1, <3>2
    <3> QED
      BY <3>1, <3>3 DEF Keeps, type
  <2> QED
    BY <2>1, <2>2
<1>7. CASE b[j].kind = "Else"
  <2> DEFINE g == b[j].head
  <2>1. g \in Heads(b) /\ g \in DOMAIN b /\ g < j /\ b[g].kind = "If" /\ b[g].other = j /\ b[g].end \in DOMAIN b /\ j < b[g].end
    BY <1>7, EndFacts, LineFacts
  <2>2. CASE i <= g
    <3>1. Keeps(w, b, i, g, x)
      BY <1>1, <2>1, <2>2
    <3>2. CASE w[g].vars[x].Type = type
      <4>1. SameTypes(w[g].vars, w[j + 1].vars)
        BY <1>7, TypeFacts
      <4>2. w[j + 1].vars[x].Type = type
        BY <1>3, <3>2, <4>1 DEF SameTypes
      <4> QED
        BY <4>2 DEF Keeps, type
    <3>3. CASE w[g].vars[x].Type # type
      <4>1. PICK h \in Heads(b) : /\ b[h].kind = "If" /\ h < i /\ i <= b[h].other
                                  /\ b[h].other < g /\ g <= b[h].end
                                  /\ w[b[h].other].vars[x].Type = type
        BY <3>1, <3>3 DEF Keeps, type
      <4>2. g # b[h].end
        BY <1>2, <2>1, <4>1
      <4>5. h \in Nat /\ g \in Nat /\ b[h].end \in Nat
        BY <1>1, <1>2, <2>1 DEF Heads
      <4>6. h < g
        BY <1>1, <2>2, <4>1, <4>5
      <4>7. g < b[h].end
        BY <4>1, <4>2, <4>5
      <4>3. b[g].end < b[h].end
        BY <2>1, <4>6, <4>7, Nesting
      <4>4. b[h].other < j + 1 /\ j + 1 <= b[h].end
        BY <1>1, <1>2, <2>1, <4>1, <4>3
      <4> QED
        BY <4>1, <4>4 DEF Keeps, type
    <3> QED
      BY <3>2, <3>3
  <2>3. CASE g < i
    <3>1. CASE w[j].vars[x].Type = type
      <4>1. b[g].other < j + 1 /\ j + 1 <= b[g].end /\ i <= b[g].other
        BY <1>1, <2>1
      <4> QED
        BY <2>1, <2>3, <3>1, <4>1 DEF Keeps, type
    <3>2. CASE w[j].vars[x].Type # type
      <4>1. PICK h \in Heads(b) : /\ b[h].kind = "If" /\ h < i /\ i <= b[h].other
                                  /\ b[h].other < j /\ j <= b[h].end
                                  /\ w[b[h].other].vars[x].Type = type
        BY <1>4, <3>2 DEF Keeps, type
      <4>2. j # b[h].end
        BY <1>2, <1>7, <4>1
      <4>3. j + 1 <= b[h].end /\ b[h].other < j + 1
        BY <1>1, <1>2, <4>1, <4>2
      <4> QED
        BY <4>1, <4>3 DEF Keeps, type
    <3> QED
      BY <3>1, <3>2
  <2> QED
    BY <1>1, <2>1, <2>2, <2>3
<1> QED
  BY <1>5, <1>6, <1>7

\* What a local is found to be anywhere, it is at the end.
LEMMA Settled ==
    ASSUME NEW b, Body(b), NEW returned \in Known, NEW w, Passes(w, b, returned),
           NEW i \in 1 .. Len(b) + 1, NEW x \in Vars, w[i].vars[x].Type # "invalid"
    PROVE  w[Len(b) + 1].vars[x].Type = w[i].vars[x].Type
<1> DEFINE T == {n \in Nat : i + n <= Len(b) + 1 => \A k \in i .. i + n : Keeps(w, b, i, k, x)}
<1>1. Len(b) \in Nat /\ DOMAIN b = 1 .. Len(b) /\ i \in Nat
  BY DEF Body
<1>2. 0 \in T
  <2>1. \A k \in i .. i + 0 : k = i
    BY <1>1
  <2> QED
    BY <2>1 DEF Keeps
<1>3. ASSUME NEW n \in Nat, n \in T PROVE n + 1 \in T
  <2> SUFFICES ASSUME i + (n + 1) <= Len(b) + 1, NEW k \in i .. i + (n + 1)
               PROVE  Keeps(w, b, i, k, x)
    OBVIOUS
  <2>1. \A m \in i .. i + n : Keeps(w, b, i, m, x)
    BY <1>1, <1>3
  <2>2. i + n \in DOMAIN b /\ i \in 1 .. i + n
    BY <1>1
  <2>3. Keeps(w, b, i, i + n + 1, x)
    BY <2>1, <2>2, KeepsType
  <2>4. k \in i .. i + n \/ k = i + n + 1
    BY <1>1
  <2> QED
    BY <2>1, <2>3, <2>4
<1> HIDE DEF T
<1>4. Nat \subseteq T
  BY <1>2, <1>3, Induction
<1>5. Len(b) + 1 - i \in T /\ i + (Len(b) + 1 - i) = Len(b) + 1
  BY <1>1, <1>4
<1>6. Keeps(w, b, i, Len(b) + 1, x)
  <2>1. Len(b) + 1 \in i .. i + (Len(b) + 1 - i)
    BY <1>1
  <2> QED
    BY <1>5, <2>1 DEF T
<1>7. \A h \in Heads(b) : ~ (Len(b) + 1 <= b[h].end)
  BY <1>1, LineFacts DEF Heads
<1> QED
  BY <1>6, <1>7 DEF Keeps

-----------------------------------------------------------------------------
(* What the checker allows for is what Python does.                          *)

Values == {"int", "None", "unbound"}

\* What is assigned holds a value of its current type.
Fits(vals, vars) == \A x \in Vars : vars[x].Assigned => vals[x] \in ValuesOf(vars[x].Current)

LEMMA ValuesFacts ==
    /\ \A t \in Known : ValuesOf(t) \subseteq {"int", "None"}
    /\ \A want, got \in Known : Accepts(want, got) => ValuesOf(got) \subseteq ValuesOf(want)
  BY DEF Known, ValuesOf, Accepts

LEMMA PlainOutcomesFacts ==
    ASSUME NEW vars \in Environment, Typed(vars), local \in [Vars -> Values], Fits(local, vars),
           NEW test \in Plain, test.kind = "Is" => vars[test.var].Assigned
    PROVE  /\ PlainOutcomes(test) \subseteq {"true", "false"}
           /\ "true" \in PlainOutcomes(test) => Fits(local, Narrow(vars, test, TRUE))
           /\ "false" \in PlainOutcomes(test) => Fits(local, Narrow(vars, test, FALSE))
<1>1. CASE test.kind = "Is"
  <2> DEFINE x == test.var
  <2>1. x \in Vars /\ test.negated \in BOOLEAN
    BY <1>1 DEF Plain, Opaque, True, Is
  <2>2. local[x] \in ValuesOf(vars[x].Current) /\ vars[x].Current \in Known
    BY <1>1, <2>1 DEF Fits, Typed
  <2>3. local[x] \in {"int", "None"} /\ local[x] # "unbound"
    BY <2>2, ValuesFacts
  <2>4. PlainOutcomes(test) = {Truth((local[x] = "None") # test.negated)}
    BY <1>1, <2>3 DEF PlainOutcomes
  <2>5. /\ "true" \in PlainOutcomes(test) => local[x] = (IF TRUE # test.negated THEN "None" ELSE "int")
        /\ "false" \in PlainOutcomes(test) => local[x] = (IF FALSE # test.negated THEN "None" ELSE "int")
        /\ PlainOutcomes(test) \subseteq {"true", "false"}
    BY <2>1, <2>3, <2>4 DEF Truth
  <2>6. ASSUME NEW k \in {"int", "None"}, local[x] = k
        PROVE  Fits(local, [vars EXCEPT ![x].Current = k])
    <3>1. \A y \in Vars : /\ vars[y] \in [Type : Types, Current : Types, Assigned : BOOLEAN]
                          /\ y # x => [vars EXCEPT ![x].Current = k][y] = vars[y]
      BY <2>1 DEF Environment
    <3>2. [vars EXCEPT ![x].Current = k][x] = [vars[x] EXCEPT !.Current = k]
      BY <2>1 DEF Environment
    <3>3. [vars EXCEPT ![x].Current = k][x].Current = k
      BY <2>1, <3>1, <3>2
    <3>4. k \in ValuesOf(k)
      BY DEF ValuesOf
    <3> DEFINE new == [vars EXCEPT ![x].Current = k]
    <3> HIDE DEF new
    <3> QED
      BY <2>6, <3>1, <3>3, <3>4 DEF Fits, new
  <2>7. /\ Narrow(vars, test, TRUE) \in {vars, [vars EXCEPT ![x].Current = IF TRUE # test.negated THEN "None" ELSE "int"]}
        /\ Narrow(vars, test, FALSE) \in {vars, [vars EXCEPT ![x].Current = IF FALSE # test.negated THEN "None" ELSE "int"]}
    BY DEF Narrow
  <2> QED
    BY <2>5, <2>6, <2>7
<1>2. CASE test.kind # "Is"
  <2>1. Narrow(vars, test, TRUE) = vars /\ Narrow(vars, test, FALSE) = vars
    BY <1>2 DEF Narrow
  <2>2. PlainOutcomes(test) \subseteq {"true", "false"}
    BY <1>2 DEF Plain, Opaque, True, Is, PlainOutcomes, Truth
  <2> QED
    BY <2>1, <2>2
<1> QED
  BY <1>1, <1>2

\* Nothing goes wrong in a test the checker has let through, and a branch
\* begins with the values its refinements promise.
LEMMA OutcomesFacts ==
    ASSUME NEW c \in Checkers, Typed(c.vars), NEW test \in Tests, Test(c, test).codes = {},
           local \in [Vars -> Values], Fits(local, c.vars)
    PROVE  /\ Outcomes(test) \subseteq {"true", "false"}
           /\ "true" \in Outcomes(test) => Fits(local, Narrow(c.vars, test, TRUE))
           /\ "false" \in Outcomes(test) => Fits(local, Narrow(c.vars, test, FALSE))
<1>1. c.vars \in Environment
  BY DEF Checkers
<1>2. CASE test \in Plain /\ test.kind \notin {"And", "Or"}
  <2>1. test.kind = "Is" => c.vars[test.var].Assigned
    BY TestFacts
  <2>2. Outcomes(test) = PlainOutcomes(test)
    BY <1>2 DEF Outcomes
  <2> QED
    BY <1>1, <1>2, <2>1, <2>2, PlainOutcomesFacts
<1>3. CASE test.kind \in {"And", "Or"} /\ test.left \in Plain /\ test.left \in Tests /\ test.var \in Vars /\ test.want \in Known
  <2> DEFINE goesOn == Truth(test.kind = "And")
             left == PlainOutcomes(test.left)
             vars == Narrow(c.vars, test.left, test.kind = "And")
             fault == Fault(test.var, test.want)
  <2>1. /\ test.left.kind = "Is" => c.vars[test.left.var].Assigned
        /\ vars[test.var].Assigned
        /\ vars[test.var].Current \in Known => Accepts(test.want, vars[test.var].Current)
    BY <1>3, TestFacts
  <2>2. /\ left \subseteq {"true", "false"}
        /\ "true" \in left => Fits(local, Narrow(c.vars, test.left, TRUE))
        /\ "false" \in left => Fits(local, Narrow(c.vars, test.left, FALSE))
    BY <1>1, <1>3, <2>1, PlainOutcomesFacts
  <2>3. goesOn \in left => Fits(local, vars)
    <3>1. CASE test.kind = "And"
      <4>1. goesOn = "true" /\ vars = Narrow(c.vars, test.left, TRUE)
        BY <3>1 DEF Truth
      <4> QED
        BY <2>2, <4>1
    <3>2. CASE test.kind = "Or"
      <4>1. goesOn = "false" /\ vars = Narrow(c.vars, test.left, FALSE)
        BY <3>2 DEF Truth
      <4> QED
        BY <2>2, <4>1
    <3> QED
      BY <1>3, <3>1, <3>2
  <2>4. Typed(vars)
    <3>1. (test.kind = "And") \in BOOLEAN
      OBVIOUS
    <3> QED
      BY <1>1, <1>3, <3>1, NarrowFacts
  <2> HIDE DEF vars
  <2>5. goesOn \in left => fault = "none"
    <3>1. goesOn \in left => local[test.var] \in ValuesOf(vars[test.var].Current)
      BY <1>3, <2>1, <2>3 DEF Fits
    <3>2. vars[test.var].Current \in Known
      BY <1>3, <2>1, <2>4 DEF Typed
    <3>3. goesOn \in left => local[test.var] \in ValuesOf(test.want) /\ local[test.var] # "unbound"
      BY <1>3, <2>1, <3>1, <3>2, ValuesFacts
    <3> QED
      BY <3>3 DEF Fault
  <2>6. Outcomes(test) = (left \ {goesOn}) \cup
             (IF goesOn \notin left THEN {} ELSE IF fault = "none" THEN {"true", "false"} ELSE {fault})
    BY <1>3 DEF Outcomes
  <2> HIDE DEF goesOn, left, fault
  <2>7. Outcomes(test) \subseteq {"true", "false"}
    BY <2>2, <2>5, <2>6
  <2>8. Narrow(c.vars, test, TRUE) = c.vars /\ Narrow(c.vars, test, FALSE) = c.vars
    BY <1>3 DEF Narrow
  <2> QED
    BY <2>7, <2>8
<1> QED
  BY <1>2, <1>3, TestKinds

\* What falls to a value that the checker lets go where a type is wanted.
LEMMA ReadSucceeds ==
    ASSUME NEW c \in Checkers, Typed(c.vars), NEW x \in Vars, NEW want \in Known, Read(c, x, want).codes = {},
           Fits(local, c.vars)
    PROVE  Fault(x, want) = "none"
<1>1. c.vars[x].Assigned /\ (c.vars[x].Current \in Known => Accepts(want, c.vars[x].Current))
  BY ReadFacts
<1>2. c.vars[x].Current \in Known /\ local[x] \in ValuesOf(c.vars[x].Current)
  BY <1>1 DEF Typed, Fits
<1>3. local[x] \in ValuesOf(want) /\ local[x] # "unbound"
  BY <1>1, <1>2, ValuesFacts
<1> QED
  BY <1>3 DEF Fault

LEMMA ForeverIsTrue == Outcomes(True(FALSE)) = {"true"}
  BY DEF True, Outcomes, PlainOutcomes, Truth

-----------------------------------------------------------------------------
(* Where a step goes, and what is around it.                                 *)

LEMMA HeadFacts ==
    ASSUME NEW b, Body(b), NEW h \in Heads(b)
    PROVE  /\ h \in DOMAIN b /\ h \in 1 .. Len(b) /\ b[h].end \in DOMAIN b /\ h < b[h].end
           /\ Len(b) \in Nat /\ DOMAIN b = 1 .. Len(b)
           /\ b[h].end \notin Heads(b)
           /\ b[h].kind = "If" => b[h].other \in DOMAIN b /\ h < b[h].other /\ b[h].other < b[h].end /\ b[h].other \notin Heads(b)
           /\ h \in Loops(b) <=> b[h].kind # "If"
<1>1. h \in DOMAIN b /\ b[h].kind \in {"If", "While", "For"}
  BY DEF Heads
<1>2. b[h].kind = "If" => /\ b[h].other \in DOMAIN b /\ b[h].end \in DOMAIN b
                          /\ h < b[h].other /\ b[h].other < b[h].end
                          /\ b[b[h].other].kind = "Else" /\ b[b[h].end].kind = "EndIf"
  BY <1>1, LineFacts
<1>3. b[h].kind # "If" => b[h].end \in DOMAIN b /\ h < b[h].end /\ b[b[h].end].kind = "EndLoop"
  BY <1>1, LineFacts
<1>4. h \in 1 .. Len(b) /\ Len(b) \in Nat /\ DOMAIN b = 1 .. Len(b)
  BY <1>1, LineFacts
<1>5. b[h].kind = "If" => h < b[h].end
  BY <1>2, <1>4
<1> QED
  BY <1>1, <1>2, <1>3, <1>4, <1>5 DEF Heads, Loops

LEMMA BeyondEnd ==
    ASSUME NEW b, Body(b), NEW h \in Heads(b)
    PROVE  Around(b, b[h].end + 1) \subseteq Around(b, h) /\ \A g \in Around(b, b[h].end + 1) : b[h].end < b[g].end
<1> SUFFICES ASSUME NEW g \in Around(b, b[h].end + 1)
             PROVE  g \in Around(b, h) /\ b[h].end < b[g].end
  OBVIOUS
<1>1. g \in Heads(b) /\ g < b[h].end + 1 /\ b[h].end + 1 <= b[g].end
  BY DEF Around
<1>2. g \in Nat /\ b[g].end \in Nat /\ h \in Nat /\ b[h].end \in Nat /\ h < b[h].end
  BY <1>1, HeadFacts
<1>3. g # b[h].end
  BY <1>1, HeadFacts
<1>4. ~ (h < g)
  BY <1>1, <1>2, <1>3, Nesting
<1>5. g # h
  BY <1>1, <1>2
<1> QED
  BY <1>1, <1>2, <1>4, <1>5 DEF Around

LEMMA AroundHead ==
    ASSUME NEW b, Body(b), NEW h \in Heads(b), NEW g \in Around(b, h)
    PROVE  b[h].end < b[g].end
<1>1. g \in Heads(b) /\ g < h /\ h <= b[g].end
  BY DEF Around
<1>2. h # b[g].end /\ h \in Nat /\ b[g].end \in Nat
  BY <1>1, HeadFacts
<1>3. h < b[g].end
  BY <1>1, <1>2
<1> QED
  BY <1>1, <1>3, Nesting

\* What is around a statement is around everything in it.
LEMMA AroundInside ==
    ASSUME NEW b, Body(b), NEW i \in DOMAIN b, NEW h \in Around(b, i)
    PROVE  Around(b, h) \subseteq Around(b, i)
<1> SUFFICES ASSUME NEW g \in Around(b, h) PROVE g \in Around(b, i)
  OBVIOUS
<1>1. h \in Heads(b) /\ h < i /\ i <= b[h].end /\ g \in Heads(b) /\ g < h
  BY DEF Around
<1>2. b[h].end < b[g].end
  BY <1>1, AroundHead
<1>3. i \in Nat /\ h \in Nat /\ g \in Nat /\ b[h].end \in Nat /\ b[g].end \in Nat
  BY <1>1, HeadFacts, LineFacts
<1> QED
  BY <1>1, <1>2, <1>3 DEF Around

LEMMA AroundNext ==
    ASSUME NEW b, Body(b), NEW i \in DOMAIN b
    PROVE  /\ Around(b, i + 1) \subseteq Around(b, i) \cup {i}
           /\ i \notin Heads(b) => Around(b, i + 1) \subseteq Around(b, i)
<1>1. \A h \in Heads(b) : h \in Nat /\ b[h].end \in Nat
  BY HeadFacts
<1>2. i \in Nat
  BY LineFacts
<1> QED
  BY <1>1, <1>2 DEF Around

LEMMA AroundOther ==
    ASSUME NEW b, Body(b), NEW h \in Heads(b), b[h].kind = "If"
    PROVE  Around(b, b[h].other + 1) \subseteq Around(b, h) \cup {h}
<1> SUFFICES ASSUME NEW g \in Around(b, b[h].other + 1), g # h PROVE g \in Around(b, h)
  OBVIOUS
<1>1. g \in Heads(b) /\ g < b[h].other + 1 /\ b[h].other + 1 <= b[g].end
  BY DEF Around
<1>2. g \in Nat /\ b[g].end \in Nat /\ h \in Nat /\ b[h].other \in Nat /\ b[h].end \in Nat /\ h < b[h].other /\ b[h].other < b[h].end
  BY <1>1, HeadFacts
<1>3. g # b[h].other
  BY <1>1, HeadFacts
<1>4. ~ (h < g)
  BY <1>1, <1>2, <1>3, Nesting
<1> QED
  BY <1>1, <1>2, <1>4 DEF Around

\* There is an innermost loop where there is one at all.
LEMMA InnermostFacts ==
    ASSUME NEW b, Body(b), NEW i \in DOMAIN b, LoopsAround(b, i) # {}
    PROVE  Innermost(b, i) \in LoopsAround(b, i)
<1> DEFINE T == {i - h : h \in LoopsAround(b, i)}
<1>1. \A h \in LoopsAround(b, i) : h \in Nat /\ h < i /\ i \in Nat
  BY HeadFacts, LineFacts DEF LoopsAround, Around
<1>2. T \in SUBSET Nat /\ T # {}
  BY <1>1
<1>3. PICK n \in T : \A m \in T : n <= m
  BY <1>2, Least
<1>4. PICK h \in LoopsAround(b, i) : n = i - h
  BY <1>3
<1>5. \A g \in LoopsAround(b, i) : g <= h
  <2> SUFFICES ASSUME NEW g \in LoopsAround(b, i) PROVE g <= h
    OBVIOUS
  <2>1. i - g \in T
    OBVIOUS
  <2>2. n <= i - g
    BY <1>3, <2>1
  <2> HIDE DEF T
  <2> QED
    BY <1>1, <1>4, <2>2
<1> QED
  BY <1>5 DEF Innermost

-----------------------------------------------------------------------------
(* The state, as the walk over its body describes it.                        *)

\* The environment a line is left with, whatever way execution comes to it:
\* a loop is also entered from its end.
At(w, b, i) == IF i \in Loops(b) THEN ResetRefinements(w[i].vars, Writes(b, i)) ELSE w[i].vars

Standing(w, b, vals, i) ==
    /\ w[i].alive /\ \A h \in Around(b, i) : w[h].alive
    /\ Fits(vals, At(w, b, i))
    /\ \A h \in LoopsAround(b, i) : Fits(vals, At(w, b, h))

\* Values have the types that the walk ends with.
Fitting(w, b, vals) ==
    /\ vals \in [Vars -> Values]
    /\ \A x \in Vars : vals[x] # "unbound" => vals[x] \in ValuesOf(w[Len(b) + 1].vars[x].Type)

\* The type of a local that the checker knows anywhere is one its value has.
LEMMA FinalType ==
    ASSUME NEW b, Body(b), NEW returned \in Known, NEW w, Passes(w, b, returned),
           NEW i \in 1 .. Len(b) + 1, NEW x \in Vars, w[i].vars[x].Type \in Known,
           NEW vals, Fitting(w, b, vals), vals[x] # "unbound"
    PROVE  vals[x] \in ValuesOf(w[i].vars[x].Type)
<1>1. w[i].vars[x].Type # "invalid"
  BY DEF Known
<1>2. w[Len(b) + 1].vars[x].Type = w[i].vars[x].Type
  BY <1>1, Settled
<1> QED
  BY <1>2 DEF Fitting

LEMMA Arrives ==
    ASSUME NEW b, Body(b), NEW returned \in Known, NEW w, Passes(w, b, returned),
           NEW vals, Fitting(w, b, vals), NEW i \in 1 .. Len(b) + 1, Fits(vals, w[i].vars)
    PROVE  Fits(vals, At(w, b, i))
<1> DEFINE vars == w[i].vars
           reset == ResetRefinements(vars, Writes(b, i))
<1>1. vars \in Environment /\ Typed(vars)
  BY DEF Passes, Sound, Checkers
<1>2. CASE i \in Loops(b)
  <2> SUFFICES ASSUME NEW x \in Vars, reset[x].Assigned
               PROVE  vals[x] \in ValuesOf(reset[x].Current)
    BY <1>2 DEF At, Fits
  <2> HIDE DEF vars
  <2>1. /\ vars[x].Assigned
        /\ x \in Writes(b, i) => reset[x].Current = vars[x].Type
        /\ x \notin Writes(b, i) => reset[x] = vars[x]
    BY <1>1, ResetFacts
  <2>2. vals[x] \in ValuesOf(vars[x].Current) /\ vars[x].Current \in Known /\ vars[x].Type \in Known
    BY <1>1, <2>1 DEF Fits, Typed, vars
  <2>3. vals[x] # "unbound"
    BY <2>2, ValuesFacts
  <2>4. vals[x] \in ValuesOf(vars[x].Type)
    BY <2>2, <2>3, FinalType DEF vars
  <2> QED
    BY <2>1, <2>2, <2>4
<1>3. CASE i \notin Loops(b)
  BY <1>3 DEF At
<1> QED
  BY <1>2, <1>3

\* A step to another line, which stays inside what is around this one.
LEMMA Moves ==
    ASSUME NEW b, Body(b), NEW w, NEW i, NEW t, NEW vals, NEW next, Standing(w, b, vals, i),
           Around(b, t) \subseteq Around(b, i) \cup {i}, w[t].alive, Fits(next, At(w, b, t)),
           \A h \in LoopsAround(b, i) \cup ({i} \cap Loops(b)) : Fits(vals, At(w, b, h)) => Fits(next, At(w, b, h))
    PROVE  Standing(w, b, next, t)
  BY DEF Standing, LoopsAround

\* What a loop assigns is as it was reset, before the loop and in it.
LEMMA Updates ==
    ASSUME NEW b, Body(b), NEW returned \in Known, NEW w, Passes(w, b, returned),
           NEW i \in DOMAIN b, b[i].kind \in {"Assign", "For"}, NEW v \in {"int", "None"},
           NEW vals, Fitting(w, b, [vals EXCEPT ![b[i].var] = v]), vals \in [Vars -> Values],
           NEW h \in LoopsAround(b, i) \cup ({i} \cap Loops(b)), Fits(vals, At(w, b, h))
    PROVE  Fits([vals EXCEPT ![b[i].var] = v], At(w, b, h))
<1> DEFINE x == b[i].var
           next == [vals EXCEPT ![x] = v]
           vars == w[h].vars
           reset == ResetRefinements(vars, Writes(b, h))
<1>1. h \in Heads(b) /\ h \in Loops(b) /\ h <= i /\ i <= b[h].end /\ h \in 1 .. Len(b) + 1 /\ x \in Vars
  BY HeadFacts, LineFacts DEF LoopsAround, Around, Loops, Heads
<1>2. x \in Writes(b, h)
  <2>1. i \in h .. b[h].end
    BY <1>1, HeadFacts, LineFacts
  <2> QED
    BY <2>1 DEF Writes
<1>3. vars \in Environment /\ Typed(vars)
  BY <1>1 DEF Passes, Sound, Checkers
<1>4. reset = At(w, b, h)
  BY <1>1 DEF At
<1> HIDE DEF vars, x
<1> SUFFICES ASSUME NEW y \in Vars, reset[y].Assigned
             PROVE  next[y] \in ValuesOf(reset[y].Current)
  BY <1>4 DEF Fits, x
<1>5. CASE y # x
  <2>1. next[y] = vals[y]
    BY <1>5
  <2> QED
    BY <1>4, <2>1 DEF Fits
<1>6. CASE y = x
  <2>1. vars[x].Assigned /\ reset[x].Current = vars[x].Type
    BY <1>1, <1>2, <1>3, <1>6, ResetFacts
  <2>2. vars[x].Type \in Known
    BY <1>1, <1>3, <2>1 DEF Typed
  <2>3. next[x] = v /\ next[x] # "unbound"
    BY <1>1
  <2>4. next[x] \in ValuesOf(vars[x].Type)
    BY <1>1, <2>2, <2>3, FinalType DEF vars, x
  <2> QED
    BY <1>6, <2>1, <2>4
<1> QED
  BY <1>5, <1>6

-----------------------------------------------------------------------------
(* The steps of an execution.                                                *)

Runs(w) ==
    /\ Body(body) /\ returns \in {"int", "None"} /\ Passes(w, body, returns)
    /\ w[Len(body) + 1].alive => returns = "None"
    /\ declared = [x \in Vars |-> w[Len(body) + 1].vars[x].Type]
    /\ pc \in 1 .. Len(body) + 1
    /\ Fitting(w, body, local)
    /\ status \in {"running", "returned", "fell"} /\ (status = "fell" => returns = "None")
    /\ status = "running" => Standing(w, body, local, pc)

LEMMA RunsFacts ==
    ASSUME NEW w, Runs(w)
    PROVE  /\ Body(body) /\ Len(body) \in Nat /\ DOMAIN body = 1 .. Len(body)
           /\ returns \in Known /\ Passes(w, body, returns) /\ pc \in 1 .. Len(body) + 1
           /\ Fitting(w, body, local) /\ local \in [Vars -> Values]
           /\ \A i \in 1 .. Len(body) + 1 :
                 /\ w[i] \in Checkers /\ w[i].returns = returns /\ Typed(w[i].vars)
                 /\ w[i].codes = {} /\ w[i].vars \in Environment
           /\ \A i \in DOMAIN body : w[i + 1] = After(w, body, i) /\ i \in 1 .. Len(body) + 1 /\ i + 1 \in 1 .. Len(body) + 1
<1>1. Body(body) /\ Len(body) \in Nat /\ DOMAIN body = 1 .. Len(body)
  BY DEF Runs, Body
<1>2. returns \in Known
  BY DEF Runs, Known
<1> QED
  BY <1>1, <1>2 DEF Runs, Passes, Sound, Checkers, Fitting

LEMMA Onward ==
    ASSUME NEW w, Runs(w), status = "running", status' = status, UNCHANGED <<body, declared, returns>>,
           pc' \in 1 .. Len(body) + 1, Fitting(w, body, local'), Standing(w, body, local', pc')
    PROVE  Runs(w)'
  BY DEF Runs

LEMMA Halts ==
    ASSUME NEW w, Runs(w), status' \in {"returned", "fell"}, status' = "fell" => returns = "None",
           UNCHANGED <<body, declared, returns, pc, local>>
    PROVE  Runs(w)'
  BY DEF Runs

\* A step that changes no local.
LEMMA Proceeds ==
    ASSUME NEW w, Runs(w), status = "running", status' = status, UNCHANGED <<body, declared, returns, local>>,
           pc' \in 1 .. Len(body) + 1, Around(body, pc') \subseteq Around(body, pc) \cup {pc},
           w[pc'].alive, Fits(local, At(w, body, pc'))
    PROVE  Runs(w)'
<1>1. Body(body) /\ Fitting(w, body, local) /\ Standing(w, body, local, pc)
  BY DEF Runs
<1>2. Standing(w, body, local, pc')
  BY <1>1, Moves
<1> QED
  BY <1>1, <1>2, Onward

LEMMA AssignStep == ASSUME NEW w, Runs(w), DoAssign PROVE Runs(w)'
<1> DEFINE n == body[pc]
           c == w[pc]
           d == w[pc + 1]
           x == n.var
           t == IF n.value = "absent" THEN n.annotation ELSE n.value
           assigned == n.value # "absent"
<1>1. /\ status = "running" /\ pc \in DOMAIN body /\ n.kind = "Assign" /\ status' = status /\ pc' = pc + 1
      /\ UNCHANGED <<body, declared, returns>>
  BY DEF DoAssign, Now, Continuing
<1>2. x \in Vars /\ t \in Known /\ n.annotation \in Types /\ assigned \in BOOLEAN /\ (assigned => n.value \in Known)
  BY <1>1, RunsFacts, LineFacts DEF Known
<1>3. c \in Checkers /\ d \in Checkers /\ d.codes = {} /\ Typed(c.vars) /\ pc' \in 1 .. Len(body) + 1
  BY <1>1, RunsFacts
<1>4. d = Bind(c, x, t, n.annotation, assigned)
  BY <1>1, RunsFacts DEF After, CheckAssign
<1>5. /\ d.alive = c.alive
      /\ \A y \in Vars \ {x} : d.vars[y] = c.vars[y]
      /\ d.vars[x].Type \in Known /\ d.vars[x].Current = d.vars[x].Type
      /\ d.vars[x].Assigned = (c.vars[x].Assigned \/ assigned)
      /\ assigned => Accepts(d.vars[x].Type, t)
  <2> HIDE DEF c, d, x, t, assigned
  <2> QED
    BY <1>2, <1>3, <1>4, BindFacts
<1>6. pc \notin Loops(body) /\ pc \notin Heads(body)
  BY <1>1 DEF Loops, Heads
<1>7. c.alive /\ Standing(w, body, local, pc) /\ Fits(local, c.vars)
  BY <1>1, <1>6 DEF Runs, Standing, At
<1>8. Around(body, pc + 1) \subseteq Around(body, pc) \cup {pc}
  BY <1>1, RunsFacts, AroundNext
<1>9. CASE ~ assigned
  <2>1. local' = local
    BY <1>9 DEF DoAssign
  <2>2. Fits(local, d.vars)
    <3> SUFFICES ASSUME NEW y \in Vars, d.vars[y].Assigned
                 PROVE  local[y] \in ValuesOf(d.vars[y].Current)
      BY DEF Fits
    <3>1. CASE y # x
      BY <1>5, <1>7, <3>1 DEF Fits
    <3>2. CASE y = x
      <4>1. c.vars[x].Assigned
        BY <1>5, <1>9, <3>2
      <4>2. local[x] \in ValuesOf(c.vars[x].Current) /\ c.vars[x].Current \in Known
        BY <1>2, <1>3, <1>7, <4>1 DEF Fits, Typed
      <4>3. local[x] # "unbound"
        BY <4>2, ValuesFacts
      <4>4. local[x] \in ValuesOf(d.vars[x].Type)
        BY <1>1, <1>2, <1>3, <1>5, <4>3, RunsFacts, FinalType
      <4> QED
        BY <1>5, <3>2, <4>4
    <3> QED
      BY <3>1, <3>2
  <2>3. Fits(local, At(w, body, pc'))
    BY <1>1, <1>3, <2>2, RunsFacts, Arrives
  <2> QED
    BY <1>1, <1>3, <1>5, <1>7, <1>8, <2>1, <2>3, Proceeds
<1>10. CASE assigned
  <2>1. PICK v \in ValuesOf(n.value) : local' = [local EXCEPT ![x] = v]
    BY <1>10 DEF DoAssign
  <2>2. v \in {"int", "None"} /\ v \in ValuesOf(d.vars[x].Type)
    BY <1>2, <1>5, <1>10, <2>1, ValuesFacts
  <2>3. d.vars[x].Type # "invalid"
    BY <1>5 DEF Known
  <2>4. w[Len(body) + 1].vars[x].Type = d.vars[x].Type
    BY <1>1, <1>2, <1>3, <2>3, RunsFacts, Settled
  <2>5. Fitting(w, body, local')
    BY <1>2, <2>1, <2>2, <2>4, RunsFacts DEF Fitting, Values
  <2>6. local'[x] = v /\ \A y \in Vars : y # x => local'[y] = local[y]
    BY <1>2, <2>1, RunsFacts
  <2>7. Fits(local', d.vars)
    <3> SUFFICES ASSUME NEW y \in Vars, d.vars[y].Assigned
                 PROVE  local'[y] \in ValuesOf(d.vars[y].Current)
      BY DEF Fits
    <3>1. CASE y # x
      BY <1>5, <1>7, <2>6, <3>1 DEF Fits
    <3>2. CASE y = x
      BY <1>5, <2>2, <2>6, <3>2
    <3> QED
      BY <3>1, <3>2
  <2>8. Fits(local', At(w, body, pc'))
    BY <1>1, <1>3, <2>5, <2>7, RunsFacts, Arrives
  <2>9. \A h \in LoopsAround(body, pc) \cup ({pc} \cap Loops(body)) :
           Fits(local, At(w, body, h)) => Fits(local', At(w, body, h))
    BY <1>1, <2>1, <2>2, <2>5, RunsFacts, Updates
  <2>10. Standing(w, body, local', pc')
    BY <1>1, <1>5, <1>7, <1>8, <2>8, <2>9, RunsFacts, Moves
  <2> QED
    BY <1>1, <1>3, <2>5, <2>10, Onward
<1> QED
  BY <1>9, <1>10

LEMMA CallStep == ASSUME NEW w, Runs(w), DoCall PROVE Runs(w)'
<1> DEFINE n == body[pc]
           c == w[pc]
           d == w[pc + 1]
<1>1. /\ status = "running" /\ pc \in DOMAIN body /\ n.kind = "Call"
      /\ UNCHANGED <<body, declared, returns>>
  BY DEF DoCall, Now
<1>2. n.var \in Vars /\ n.want \in Known
  BY <1>1, RunsFacts, LineFacts
<1>3. c \in Checkers /\ d.codes = {} /\ Typed(c.vars) /\ pc + 1 \in 1 .. Len(body) + 1
  BY <1>1, RunsFacts
<1>4. d = Read(c, n.var, n.want)
  BY <1>1, RunsFacts DEF After
<1>5. pc \notin Loops(body)
  BY <1>1 DEF Loops
<1>6. c.alive /\ Fits(local, c.vars)
  BY <1>1, <1>5 DEF Runs, Standing, At
<1>7. Fault(n.var, n.want) = "none"
  BY <1>2, <1>3, <1>4, <1>6, ReadSucceeds
<1>8. pc' = pc + 1 /\ status' = status /\ local' = local
  BY <1>7 DEF DoCall, Continuing
<1>9. d.vars = c.vars /\ d.alive = c.alive
  BY <1>2, <1>3, <1>4, ReadFacts
<1>10. Fits(local, At(w, body, pc'))
  BY <1>3, <1>6, <1>8, <1>9, RunsFacts, Arrives
<1>11. Around(body, pc') \subseteq Around(body, pc) \cup {pc}
  BY <1>1, <1>8, RunsFacts, AroundNext
<1> QED
  BY <1>1, <1>3, <1>6, <1>8, <1>9, <1>10, <1>11, Proceeds

LEMMA ReturnStep == ASSUME NEW w, Runs(w), DoReturn PROVE Runs(w)'
  BY Halts DEF DoReturn, Stop

LEMMA FallStep == ASSUME NEW w, Runs(w), FallOff PROVE Runs(w)'
<1>1. status = "running" /\ pc \notin DOMAIN body /\ status' = "fell" /\ UNCHANGED <<body, declared, returns, pc, local>>
  BY DEF FallOff, Stop
<1>2. pc = Len(body) + 1
  BY <1>1, RunsFacts
<1>3. returns = "None"
  BY <1>1, <1>2 DEF Runs, Standing
<1> QED
  BY <1>1, <1>3, Halts

\* Behind a loop, whether its test has failed or a break has left it.
LEMMA LoopIsOver ==
    ASSUME NEW w, Runs(w), NEW h \in Loops(body), w[h].alive, Fits(local, At(w, body, h)),
           ~ Endless(body[h]) \/ ContainsBreak(body, h)
    PROVE  LET t == body[h].end + 1 IN
           t \in 1 .. Len(body) + 1 /\ w[t].alive /\ Fits(local, At(w, body, t))
<1> DEFINE e == body[h].end
           m == body[h]
           c == w[h]
           after == w[e]
           d == w[e + 1]
           writes == Writes(body, h)
           breaks == ContainsBreak(body, h)
           joined == Meet(c.vars, after.vars)
           reset == ResetRefinements(c.vars, writes)
<1>1. h \in Heads(body) /\ body[h].kind \in {"While", "For"}
  BY DEF Loops, Heads
<1>2. h \in DOMAIN body /\ e \in DOMAIN body /\ body[e].kind = "EndLoop" /\ body[e].head = h
  BY <1>1, RunsFacts, HeadFacts, LineFacts
<1>3. c \in Checkers /\ after \in Checkers /\ d \in Checkers /\ d.codes = {} /\ e + 1 \in 1 .. Len(body) + 1
  BY <1>2, RunsFacts
<1>4. Typed(c.vars) /\ Typed(after.vars) /\ Typed(d.vars) /\ c.vars \in Environment
  BY <1>2, RunsFacts
<1>5. d = CheckEndLoop(c, after, m, writes, breaks)
  BY <1>2, RunsFacts DEF After
<1>6. Fits(local, reset)
  BY DEF At
<1> HIDE DEF c, after, d, m, writes, breaks
<1>7. /\ joined \in Environment /\ d.vars = ResetRefinements(joined, writes)
      /\ d.alive = (c.alive /\ ~ (Endless(m) /\ ~ breaks))
      /\ after.vars \in Environment
  BY <1>3, <1>5, EndLoopFacts DEF Checkers
<1>8. d.alive
  BY <1>7 DEF c, m, breaks
<1>9. \A x \in Vars : joined[x].Assigned => c.vars[x].Assigned /\ joined[x].Current \in {c.vars[x].Current, joined[x].Type}
  BY <1>4, <1>7, MeetFacts
<1> HIDE DEF joined
<1>10. \A x \in Vars : /\ d.vars[x].Type = joined[x].Type /\ d.vars[x].Assigned = joined[x].Assigned
                       /\ x \in writes => d.vars[x].Current = joined[x].Type
                       /\ x \notin writes => d.vars[x] = joined[x]
  BY <1>7, ResetFacts
<1>11. /\ Typed(reset)
       /\ \A x \in Vars : reset[x].Assigned = c.vars[x].Assigned /\ (x \notin writes => reset[x] = c.vars[x])
  BY <1>4, ResetFacts
<1> HIDE DEF reset
<1>12. Fits(local, d.vars)
  <2> SUFFICES ASSUME NEW x \in Vars, d.vars[x].Assigned
               PROVE  local[x] \in ValuesOf(d.vars[x].Current)
    BY DEF Fits
  <2>1. c.vars[x].Assigned /\ joined[x].Current \in {c.vars[x].Current, d.vars[x].Type} /\ reset[x].Assigned
    BY <1>9, <1>10, <1>11
  <2>2. local[x] \in ValuesOf(reset[x].Current) /\ reset[x].Current \in Known
    BY <1>6, <1>11, <2>1 DEF Fits, Typed
  <2>3. local[x] # "unbound" /\ d.vars[x].Type \in Known
    BY <1>4, <2>2, ValuesFacts DEF Typed
  <2>4. local[x] \in ValuesOf(d.vars[x].Type)
    BY <1>3, <2>3, RunsFacts, FinalType DEF d
  <2>5. d.vars[x].Current \in {d.vars[x].Type, reset[x].Current}
    BY <1>10, <1>11, <2>1
  <2> QED
    BY <2>2, <2>4, <2>5
<1>13. Fits(local, At(w, body, e + 1))
  BY <1>3, <1>12, RunsFacts, Arrives DEF d
<1> QED
  BY <1>3, <1>8, <1>13 DEF d

LEMMA LeavesLoop ==
    ASSUME NEW w, Runs(w), status = "running", NEW h \in Loops(body), h = pc \/ h \in LoopsAround(body, pc),
           ~ Endless(body[h]) \/ ContainsBreak(body, h),
           pc' = body[h].end + 1, status' = status, UNCHANGED <<body, declared, returns, local>>, pc \in DOMAIN body
    PROVE  Runs(w)'
<1>1. h \in Heads(body)
  BY DEF Loops, Heads
<1>2. w[h].alive /\ Fits(local, At(w, body, h))
  BY DEF Runs, Standing, LoopsAround
<1>3. pc' \in 1 .. Len(body) + 1 /\ w[pc'].alive /\ Fits(local, At(w, body, pc'))
  BY <1>2, LoopIsOver
<1>4. Around(body, pc') \subseteq Around(body, h)
  BY <1>1, RunsFacts, BeyondEnd
<1>5. Around(body, h) \subseteq Around(body, pc)
  BY RunsFacts, AroundInside DEF LoopsAround
<1>6. Around(body, pc') \subseteq Around(body, pc) \cup {pc}
  BY <1>4, <1>5
<1> QED
  BY <1>3, <1>6, Proceeds

LEMMA StartsAgain ==
    ASSUME NEW w, Runs(w), status = "running", pc \in DOMAIN body, NEW h \in LoopsAround(body, pc),
           pc' = h, status' = status, UNCHANGED <<body, declared, returns, local>>
    PROVE  Runs(w)'
<1>1. h \in Around(body, pc) /\ h \in Heads(body) /\ h \in 1 .. Len(body) + 1
  BY RunsFacts, HeadFacts DEF LoopsAround, Around
<1>2. w[h].alive /\ Fits(local, At(w, body, h))
  BY <1>1 DEF Runs, Standing
<1>3. Around(body, h) \subseteq Around(body, pc)
  BY <1>1, RunsFacts, AroundInside
<1> QED
  BY <1>1, <1>2, <1>3, Proceeds

LEMMA BranchStep == ASSUME NEW w, Runs(w), DoTest, body[pc].kind = "If" PROVE Runs(w)'
<1> DEFINE n == body[pc]
           c == w[pc]
           d == w[pc + 1]
           g == n.other
           left == w[g]
           e == w[g + 1]
<1>1. /\ status = "running" /\ pc \in DOMAIN body
      /\ UNCHANGED <<body, declared, returns>>
  BY DEF DoTest, Now
<1>2. n.test \in Tests /\ g \in DOMAIN body /\ body[g].kind = "Else" /\ body[g].head = pc
  BY <1>1, RunsFacts, LineFacts
<1>3. /\ c \in Checkers /\ d \in Checkers /\ d.codes = {} /\ Typed(c.vars) /\ left \in Checkers /\ left.returns = c.returns
      /\ pc + 1 \in 1 .. Len(body) + 1 /\ g + 1 \in 1 .. Len(body) + 1
  BY <1>1, <1>2, RunsFacts
<1>4. d = CheckIf(c, n) /\ e = CheckElse(c, left, n)
  BY <1>1, <1>2, RunsFacts DEF After
<1>5. pc \notin Loops(body) /\ pc \in Heads(body)
  BY <1>1 DEF Loops, Heads
<1>6. c.alive /\ Fits(local, c.vars)
  BY <1>1, <1>5 DEF Runs, Standing, At
<1>7. Test(c, n.test).codes = {}
  <2> DEFINE tested == Test(c, n.test)
  <2>1. tested \in Checkers
    BY <1>2, <1>3, TestFacts DEF Continues
  <2> HIDE DEF tested
  <2>2. CheckIf(c, n) = [tested EXCEPT !.vars = Narrow(tested.vars, n.test, TRUE), !.alive = TRUE]
    BY <2>1 DEF CheckIf, tested, Checkers
  <2>3. CheckIf(c, n).codes = tested.codes
    BY <2>1, <2>2 DEF Checkers
  <2> QED
    BY <1>3, <1>4, <2>3 DEF tested
<1>8. /\ Outcomes(n.test) \subseteq {"true", "false"}
      /\ "true" \in Outcomes(n.test) => Fits(local, Narrow(c.vars, n.test, TRUE))
      /\ "false" \in Outcomes(n.test) => Fits(local, Narrow(c.vars, n.test, FALSE))
  <2> HIDE DEF c, n
  <2> QED
    BY <1>2, <1>3, <1>6, <1>7, RunsFacts, OutcomesFacts
<1>9. d.vars = Narrow(c.vars, n.test, TRUE) /\ d.alive = TRUE /\ e.vars = Narrow(c.vars, n.test, FALSE) /\ e.alive = TRUE
  <2>1. c \in Checkers /\ left \in Checkers /\ left.returns = c.returns /\ n.test \in Tests
    BY <1>2, <1>3
  <2> HIDE DEF c, n, d, e, left
  <2>2. d.vars = Narrow(c.vars, n.test, TRUE) /\ d.alive = TRUE
    BY <1>4, <2>1, BranchFacts
  <2>3. e.vars = Narrow(c.vars, n.test, FALSE) /\ e.alive = TRUE
    BY <1>4, <2>1, BranchFacts
  <2> QED
    BY <2>2, <2>3
<1>10. PICK outcome \in Outcomes(n.test) :
          IF outcome \in {"true", "false"}
          THEN /\ Continuing(IF outcome = "true" THEN pc + 1
                             ELSE IF body[pc].kind = "If" THEN body[pc].other + 1 ELSE body[pc].end + 1)
               /\ UNCHANGED local
          ELSE Stop(outcome)
  BY DEF DoTest
<1>11. CASE outcome = "true"
  <2>1. pc' = pc + 1 /\ status' = status /\ local' = local
    BY <1>10, <1>11 DEF Continuing
  <2>2. Fits(local, At(w, body, pc'))
    BY <1>3, <1>8, <1>9, <1>10, <1>11, <2>1, RunsFacts, Arrives
  <2>3. Around(body, pc') \subseteq Around(body, pc) \cup {pc}
    BY <1>1, <2>1, RunsFacts, AroundNext
  <2> QED
    BY <1>1, <1>3, <1>9, <2>1, <2>2, <2>3, Proceeds
<1>12. CASE outcome = "false"
  <2>1. pc' = g + 1 /\ status' = status /\ local' = local
    BY <1>10, <1>12 DEF Continuing
  <2>2. Fits(local, At(w, body, pc'))
    BY <1>3, <1>8, <1>9, <1>10, <1>12, <2>1, RunsFacts, Arrives
  <2>3. Around(body, pc') \subseteq Around(body, pc) \cup {pc}
    BY <1>5, <2>1, RunsFacts, AroundOther
  <2> QED
    BY <1>1, <1>3, <1>9, <2>1, <2>2, <2>3, Proceeds
<1> QED
  BY <1>8, <1>10, <1>11, <1>12

LEMMA WhileStep == ASSUME NEW w, Runs(w), DoTest, body[pc].kind = "While" PROVE Runs(w)'
<1> DEFINE n == body[pc]
           c == w[pc]
           d == w[pc + 1]
           reset == ResetRefinements(c.vars, Writes(body, pc))
           begun == [c EXCEPT !.vars = reset]
<1>1. /\ status = "running" /\ pc \in DOMAIN body
      /\ UNCHANGED <<body, declared, returns>>
  BY DEF DoTest, Now
<1>2. n.test \in Tests /\ pc \in Loops(body)
  BY <1>1, RunsFacts, LineFacts DEF Loops
<1>3. c \in Checkers /\ d \in Checkers /\ d.codes = {} /\ Typed(c.vars) /\ c.vars \in Environment /\ pc + 1 \in 1 .. Len(body) + 1
  BY <1>1, RunsFacts
<1>4. d = CheckLoop(c, n, Writes(body, pc))
  BY <1>1, RunsFacts DEF After
<1>5. c.alive /\ Fits(local, reset)
  BY <1>1, <1>2 DEF Runs, Standing, At
<1>6. reset \in Environment /\ Typed(reset)
  BY <1>3, ResetFacts
<1> HIDE DEF reset
<1>7. begun \in Checkers /\ begun.vars = reset
  BY <1>3, <1>6 DEF Checkers
<1>8. Test(begun, n.test).codes = {}
  <2> DEFINE tested == Test(begun, n.test)
  <2>1. tested \in Checkers
    BY <1>2, <1>7, TestFacts DEF Continues
  <2>2. begun = [c EXCEPT !.vars = ResetRefinements(@, Writes(body, pc))]
    BY <1>3 DEF reset, Checkers
  <2> HIDE DEF begun
  <2>3. CheckLoop(c, n, Writes(body, pc)) = [[tested EXCEPT !.vars = Narrow(@, n.test, TRUE)] EXCEPT !.alive = TRUE]
    BY <2>2 DEF CheckLoop
  <2> HIDE DEF tested
  <2>4. CheckLoop(c, n, Writes(body, pc)).codes = tested.codes
    BY <2>1, <2>3 DEF Checkers
  <2> QED
    BY <1>3, <1>4, <2>4 DEF tested
<1> HIDE DEF begun
<1>9. /\ Outcomes(n.test) \subseteq {"true", "false"}
      /\ "true" \in Outcomes(n.test) => Fits(local, Narrow(reset, n.test, TRUE))
  <2> HIDE DEF n
  <2> QED
    BY <1>2, <1>5, <1>6, <1>7, <1>8, RunsFacts, OutcomesFacts
<1>10. d.vars = Narrow(reset, n.test, TRUE) /\ d.alive = TRUE
  <2> DEFINE writes == Writes(body, pc)
  <2>1. d = CheckLoop(c, n, writes) /\ reset = ResetRefinements(c.vars, writes) /\ n.kind = "While"
    BY <1>4 DEF reset
  <2>2. c \in Checkers /\ n.test \in Tests
    BY <1>2, <1>3
  <2> HIDE DEF c, n, d, writes
  <2>3. d.alive = TRUE
    BY <2>1, <2>2, LoopFacts
  <2>4. d.vars = Narrow(reset, n.test, TRUE)
    BY <2>1, <2>2, LoopFacts
  <2> QED
    BY <2>3, <2>4
<1>11. PICK outcome \in Outcomes(n.test) :
          IF outcome \in {"true", "false"}
          THEN /\ Continuing(IF outcome = "true" THEN pc + 1
                             ELSE IF body[pc].kind = "If" THEN body[pc].other + 1 ELSE body[pc].end + 1)
               /\ UNCHANGED local
          ELSE Stop(outcome)
  BY DEF DoTest
<1>12. CASE outcome = "true"
  <2>1. pc' = pc + 1 /\ status' = status /\ local' = local
    BY <1>11, <1>12 DEF Continuing
  <2>2. Fits(local, At(w, body, pc'))
    BY <1>3, <1>9, <1>10, <1>11, <1>12, <2>1, RunsFacts, Arrives
  <2>3. Around(body, pc') \subseteq Around(body, pc) \cup {pc}
    BY <1>1, <2>1, RunsFacts, AroundNext
  <2> QED
    BY <1>1, <1>3, <1>10, <2>1, <2>2, <2>3, Proceeds
<1>13. CASE outcome = "false"
  <2>1. pc' = body[pc].end + 1 /\ status' = status /\ local' = local
    BY <1>11, <1>13 DEF Continuing
  <2>2. ~ Endless(n)
    BY <1>11, <1>13, ForeverIsTrue DEF Endless
  <2> QED
    BY <1>1, <1>2, <2>1, <2>2, LeavesLoop
<1> QED
  BY <1>9, <1>11, <1>12, <1>13

LEMMA LoopOthers ==
    ASSUME NEW c \in Checkers, NEW n, NEW writes, n.kind = "For", n.var \in Vars, NEW y \in Vars, y # n.var
    PROVE  CheckLoop(c, n, writes).vars[y] = ResetRefinements(c.vars, writes)[y]
<1> DEFINE d == CheckLoop(c, n, writes)
           r == ResetRefinements(c.vars, writes)
<1>1. \A z \in Vars \ {n.var} : d.vars[z] = r[z]
  BY LoopFacts
<1> QED
  BY <1>1

LEMMA ForStep == ASSUME NEW w, Runs(w), DoFor PROVE Runs(w)'
<1> DEFINE n == body[pc]
           c == w[pc]
           d == w[pc + 1]
           x == n.var
           reset == ResetRefinements(c.vars, Writes(body, pc))
<1>1. /\ status = "running" /\ pc \in DOMAIN body /\ n.kind = "For" /\ status' = status
      /\ UNCHANGED <<body, declared, returns>>
  BY DEF DoFor, Now, Continuing
<1>2. x \in Vars /\ pc \in Loops(body)
  BY <1>1, RunsFacts, LineFacts DEF Loops
<1>3. c \in Checkers /\ d \in Checkers /\ d.codes = {} /\ Typed(c.vars) /\ pc + 1 \in 1 .. Len(body) + 1
  BY <1>1, RunsFacts
<1>4. d = CheckLoop(c, n, Writes(body, pc))
  BY <1>1, RunsFacts DEF After
<1>5. Fits(local, reset) /\ Standing(w, body, local, pc)
  BY <1>1, <1>2 DEF Runs, Standing, At
<1>6. /\ d.alive = TRUE
      /\ \A y \in Vars \ {x} : d.vars[y] = reset[y]
      /\ d.vars[x].Type \in Known /\ d.vars[x].Current = d.vars[x].Type
      /\ Accepts(d.vars[x].Type, "int")
  <2> DEFINE writes == Writes(body, pc)
  <2>1. d = CheckLoop(c, n, writes) /\ reset = ResetRefinements(c.vars, writes) /\ n.kind = "For" /\ n.var \in Vars
    BY <1>1, <1>2, <1>4
  <2>2. c \in Checkers /\ d.codes = {}
    BY <1>3
  <2> HIDE DEF c, n, d, writes, reset
  <2>3. d.alive = TRUE
    BY <2>1, <2>2, LoopFacts
  <2>4. \A y \in Vars \ {x} : d.vars[y] = reset[y]
    BY <2>1, <2>2, LoopOthers
  <2>5. d.vars[x].Type \in Known /\ d.vars[x].Current = d.vars[x].Type
    BY <2>1, <2>2, LoopFacts
  <2>6. Accepts(d.vars[x].Type, "int")
    BY <2>1, <2>2, LoopFacts
  <2> QED
    BY <2>3, <2>4, <2>5, <2>6
<1>7. CASE pc' = pc + 1 /\ local' = [local EXCEPT ![x] = "int"]
  <2>1. "int" \in ValuesOf(d.vars[x].Type)
    <3>1. "int" \in Known /\ "int" \in ValuesOf("int")
      BY DEF Known, ValuesOf
    <3> QED
      BY <1>6, <3>1, ValuesFacts
  <2>2. d.vars[x].Type # "invalid"
    BY <1>6 DEF Known
  <2>3. w[Len(body) + 1].vars[x].Type = d.vars[x].Type
    BY <1>2, <1>3, <2>2, RunsFacts, Settled
  <2>4. Fitting(w, body, local')
    BY <1>2, <1>7, <2>1, <2>3, RunsFacts DEF Fitting, Values
  <2>5. local'[x] = "int" /\ \A y \in Vars : y # x => local'[y] = local[y]
    BY <1>2, <1>7, RunsFacts
  <2>6. Fits(local', d.vars)
    <3> SUFFICES ASSUME NEW y \in Vars, d.vars[y].Assigned
                 PROVE  local'[y] \in ValuesOf(d.vars[y].Current)
      BY DEF Fits
    <3>1. CASE y # x
      BY <1>5, <1>6, <2>5, <3>1 DEF Fits
    <3>2. CASE y = x
      BY <1>6, <2>1, <2>5, <3>2
    <3> QED
      BY <3>1, <3>2
  <2>7. Fits(local', At(w, body, pc'))
    BY <1>3, <1>7, <2>4, <2>6, RunsFacts, Arrives
  <2>8. \A h \in LoopsAround(body, pc) \cup ({pc} \cap Loops(body)) :
           Fits(local, At(w, body, h)) => Fits(local', At(w, body, h))
    BY <1>1, <1>7, <2>4, RunsFacts, Updates
  <2>9. Around(body, pc') \subseteq Around(body, pc) \cup {pc}
    BY <1>1, <1>7, RunsFacts, AroundNext
  <2>11. w[pc'].alive
    BY <1>6, <1>7
  <2>10. Standing(w, body, local', pc')
    BY <1>5, <2>7, <2>8, <2>9, <2>11, RunsFacts, Moves
  <2> QED
    BY <1>1, <1>3, <1>7, <2>4, <2>10, Onward
<1>8. CASE pc' = n.end + 1 /\ local' = local
  <2>1. ~ Endless(n)
    BY <1>1 DEF Endless
  <2> QED
    BY <1>1, <1>2, <1>8, <2>1, LeavesLoop
<1> QED
  BY <1>7, <1>8 DEF DoFor, Continuing

LEMMA JumpStep == ASSUME NEW w, Runs(w), DoJump PROVE Runs(w)'
<1> DEFINE n == body[pc]
           h == n.head
<1>1. /\ status = "running" /\ pc \in DOMAIN body /\ n.kind \in {"Else", "EndIf", "EndLoop", "Break", "Continue"}
      /\ UNCHANGED <<body, declared, returns>>
  BY DEF DoJump, Now
<1>2. w[pc] \in Checkers /\ w[pc + 1] \in Checkers /\ w[pc + 1].codes = {} /\ w[pc].alive /\ Fits(local, w[pc].vars)
  <2>1. pc \notin Loops(body)
    BY <1>1 DEF Loops
  <2> QED
    BY <1>1, <2>1, RunsFacts DEF Runs, Standing, At
<1>3. CASE n.kind \in {"Break", "Continue"}
  <2>1. LoopsAround(body, pc) # {}
    <3>1. w[pc + 1] = Dead(IF LoopsAround(body, pc) = {} THEN Error(w[pc], "PP215") ELSE w[pc])
      BY <1>1, <1>3, RunsFacts DEF After
    <3> DEFINE e == Error(w[pc], "PP215")
    <3>2. Continues(w[pc], e) /\ e.codes # {}
      BY <1>2, ErrorFacts DEF Codes
    <3> HIDE DEF e
    <3>3. Dead(e).codes # {}
      BY <1>2, <3>2, DeadFacts
    <3> QED
      BY <1>2, <3>1, <3>3 DEF e
  <2> DEFINE g == Innermost(body, pc)
  <2>2. g \in LoopsAround(body, pc) /\ g \in Loops(body)
    BY <1>1, <2>1, RunsFacts, InnermostFacts DEF LoopsAround
  <2>3. status' = status /\ local' = local
    BY <1>3, <2>1 DEF DoJump, Continuing
  <2>4. CASE n.kind = "Break"
    <3>1. pc' = body[g].end + 1
      BY <2>1, <2>4 DEF DoJump, Continuing
    <3>2. ContainsBreak(body, g)
      BY <1>1, <2>1, <2>4 DEF ContainsBreak
    <3> HIDE DEF g
    <3> QED
      BY <1>1, <2>2, <2>3, <3>1, <3>2, LeavesLoop
  <2>5. CASE n.kind = "Continue"
    <3>1. pc' = g
      BY <2>1, <2>5 DEF DoJump, Continuing
    <3> HIDE DEF g
    <3> QED
      BY <1>1, <2>2, <2>3, <3>1, StartsAgain
  <2> QED
    BY <1>3, <2>4, <2>5
<1>4. CASE n.kind \in {"Else", "EndIf", "EndLoop"}
  <2>1. status' = status /\ local' = local
    BY <1>4 DEF DoJump, Continuing
  <2>2. h \in Heads(body) /\ h \in DOMAIN body /\ h < pc /\ h \in 1 .. Len(body) + 1 /\ pc \in Nat
    BY <1>1, <1>4, RunsFacts, EndFacts, LineFacts
  <2>3. CASE n.kind = "EndLoop"
    <3>1. pc' = h
      BY <2>3 DEF DoJump, Continuing
    <3>2. h \in LoopsAround(body, pc)
      BY <1>1, <2>2, <2>3, RunsFacts, EndFacts DEF LoopsAround, Around
    <3> QED
      BY <1>1, <2>1, <3>1, <3>2, StartsAgain
  <2>4. CASE n.kind \in {"Else", "EndIf"}
    <3> DEFINE e == body[h].end
               g == body[h].other
               before == w[h]
               left == w[g]
               right == w[e]
               d == w[e + 1]
    <3>1. body[h].kind = "If" /\ (n.kind = "Else" => g = pc) /\ (n.kind = "EndIf" => e = pc)
      BY <1>1, <2>4, RunsFacts, EndFacts
    <3>2. /\ e \in DOMAIN body /\ g \in DOMAIN body /\ g < e /\ h < g
          /\ body[e].kind = "EndIf" /\ body[e].head = h
          /\ e \in Nat /\ g \in Nat /\ h \in Nat
      <4> HIDE DEF h, n
      <4>1. Body(body) /\ \A i \in DOMAIN body : i \in Nat
        BY RunsFacts
      <4> QED
        BY <2>2, <3>1, <4>1, LineFacts
    <3>3. pc' = e + 1
      BY <1>1, <2>4, <3>1 DEF DoJump, Continuing
    <3>4. h \in Around(body, pc)
      BY <2>2, <2>4, <3>1, <3>2 DEF Around
    <3>5. before.alive
      BY <1>1, <3>4 DEF Runs, Standing
    <3>16. left.vars \in Environment /\ right.vars \in Environment
      BY <2>2, <3>2, RunsFacts
    <3>6. /\ before \in Checkers /\ left \in Checkers /\ right \in Checkers /\ d \in Checkers
          /\ Typed(left.vars) /\ Typed(right.vars) /\ Typed(d.vars)
          /\ e + 1 \in 1 .. Len(body) + 1
      BY <2>2, <3>2, RunsFacts
    <3>8. d = CheckEndIf(before, left, right)
      <4> HIDE DEF h
      <4>1. d = After(w, body, e)
        BY <3>2, RunsFacts
      <4> QED
        BY <3>2, <4>1 DEF After
    <3> HIDE DEF before, left, right, d
    <3>7. left.alive \in BOOLEAN /\ right.alive \in BOOLEAN
      BY <3>6 DEF Checkers
    <3>9. /\ d.vars = Join(left.vars, right.vars, left.alive, right.alive)
          /\ d.alive = (before.alive /\ (left.alive \/ right.alive))
      BY <3>6, <3>8, EndIfFacts
    <3>10. \A x \in Vars :
              /\ left.alive /\ d.vars[x].Assigned => left.vars[x].Assigned /\ d.vars[x].Current \in {left.vars[x].Current, d.vars[x].Type}
              /\ right.alive /\ d.vars[x].Assigned => right.vars[x].Assigned /\ d.vars[x].Current \in {right.vars[x].Current, d.vars[x].Type}
      <4> DEFINE joined == Join(left.vars, right.vars, left.alive, right.alive)
      <4>1. d.vars = joined
        BY <3>9
      <4>2. \A x \in Vars :
               /\ left.alive /\ joined[x].Assigned => left.vars[x].Assigned /\ joined[x].Current \in {left.vars[x].Current, joined[x].Type}
               /\ right.alive /\ joined[x].Assigned => right.vars[x].Assigned /\ joined[x].Current \in {right.vars[x].Current, joined[x].Type}
        BY <3>7, <3>16, JoinFacts
      <4> HIDE DEF joined
      <4> QED
        BY <4>1, <4>2
    <3>11. \/ left.alive /\ Fits(local, left.vars)
           \/ right.alive /\ Fits(local, right.vars)
      BY <1>2, <2>4, <3>1 DEF left, right
    <3>12. Fits(local, d.vars)
      <4> SUFFICES ASSUME NEW x \in Vars, d.vars[x].Assigned
                   PROVE  local[x] \in ValuesOf(d.vars[x].Current)
        BY DEF Fits
      <4>1. PICK t \in Known : local[x] \in ValuesOf(t) /\ d.vars[x].Current \in {t, d.vars[x].Type}
        BY <3>6, <3>10, <3>11 DEF Fits, Typed
      <4>2. local[x] # "unbound" /\ d.vars[x].Type \in Known
        BY <3>6, <4>1, ValuesFacts DEF Typed
      <4>3. local[x] \in ValuesOf(d.vars[x].Type)
        <5>1. w[e + 1].vars[x].Type \in Known
          BY <4>2 DEF d
        <5>2. local[x] \in ValuesOf(w[e + 1].vars[x].Type)
          BY <3>6, <4>2, <5>1, RunsFacts, FinalType
        <5> QED
          BY <5>2 DEF d
      <4> QED
        BY <4>1, <4>3
    <3>13. d.alive
      BY <3>5, <3>9, <3>11
    <3>14. Fits(local, At(w, body, pc'))
      <4>1. Fits(local, w[e + 1].vars)
        BY <3>12 DEF d
      <4> QED
        BY <3>3, <3>6, <4>1, RunsFacts, Arrives
    <3>15. Around(body, pc') \subseteq Around(body, pc) \cup {pc}
      BY <1>1, <2>2, <3>3, <3>4, RunsFacts, BeyondEnd, AroundInside
    <3> QED
      BY <1>1, <2>1, <3>3, <3>6, <3>13, <3>14, <3>15, Proceeds DEF d
  <2> QED
    BY <1>4, <2>3, <2>4
<1> QED
  BY <1>1, <1>3, <1>4

LEMMA ExecStep == ASSUME NEW w, Runs(w), [ExecNext]_evars PROVE Runs(w)'
<1>1. CASE UNCHANGED evars
  BY <1>1 DEF evars, Runs
<1>2. CASE DoTest
  <2>1. body[pc].kind \in {"If", "While"}
    BY <1>2 DEF DoTest, Now
  <2> QED
    BY <1>2, <2>1, BranchStep, WhileStep
<1>3. CASE Halted
  BY <1>1, <1>3 DEF Halted
<1> QED
  BY <1>1, <1>2, <1>3, AssignStep, CallStep, ReturnStep, ForStep, JumpStep, FallStep DEF ExecNext

\* There is a walk of the checker, from some parameters and without a report,
\* that describes the state.
FlowInv == \E parameters \in SUBSET Vars : Runs(Walk(parameters, body, returns))

LEMMA FlowInit == ExecInit => FlowInv
<1> SUFFICES ASSUME ExecInit PROVE FlowInv
  OBVIOUS
<1>1. Body(body) /\ returns \in {"int", "None"} /\ returns \in Known /\ pc = 1 /\ status = "running"
  BY FlowAssumption DEF ExecInit, Known
<1>2. PICK parameters \in SUBSET Vars :
        /\ Function(parameters, body, returns).codes = {}
        /\ local \in [Vars -> {"int", "None", "unbound"}]
        /\ \A x \in Vars : x \in parameters <=> local[x] # "unbound"
        /\ declared = [x \in Vars |-> Function(parameters, body, returns).vars[x].Type]
  BY DEF ExecInit
<1> DEFINE w == Walk(parameters, body, returns)
<1>3. /\ Passes(w, body, returns)
      /\ w[Len(body) + 1].alive => returns = "None"
      /\ Function(parameters, body, returns).vars = w[Len(body) + 1].vars
  BY <1>1, <1>2, Accepted
<1>4. w[1] = Start(parameters, returns)
  BY <1>1, WalkFacts
<1> HIDE DEF w
<1>5. /\ Len(body) \in Nat /\ 1 \in 1 .. Len(body) + 1
  BY <1>1 DEF Body
<1>6. /\ w[1].alive = TRUE
      /\ \A x \in Vars : w[1].vars[x] = IF x \in parameters THEN Parameter ELSE Unknown
  BY <1>4 DEF Start, Checker
<1>7. Fits(local, w[1].vars)
  BY <1>2, <1>6 DEF Fits, Parameter, Unknown, ValuesOf
<1>8. Fitting(w, body, local)
  <2> SUFFICES ASSUME NEW x \in Vars, local[x] # "unbound"
               PROVE  local[x] \in ValuesOf(w[Len(body) + 1].vars[x].Type)
    BY <1>2 DEF Fitting, Values
  <2>1. w[1].vars[x].Type = "optional"
    BY <1>2, <1>6 DEF Parameter
  <2>2. w[Len(body) + 1].vars[x].Type = "optional"
    BY <1>1, <1>3, <1>5, <2>1, Settled
  <2> QED
    BY <1>2, <2>2 DEF ValuesOf
<1>9. Fits(local, At(w, body, 1))
  BY <1>1, <1>3, <1>5, <1>7, <1>8, Arrives
<1>10. Around(body, 1) = {}
  BY <1>1, HeadFacts DEF Around
<1>11. Standing(w, body, local, pc)
  BY <1>1, <1>6, <1>9, <1>10 DEF Standing, LoopsAround
<1>12. declared = [x \in Vars |-> w[Len(body) + 1].vars[x].Type]
  BY <1>2, <1>3
<1>13. Runs(w)
  BY <1>1, <1>3, <1>5, <1>8, <1>11, <1>12 DEF Runs
<1> QED
  BY <1>13 DEF FlowInv, w

LEMMA FlowNext == FlowInv /\ [ExecNext]_evars => FlowInv'
<1> SUFFICES ASSUME FlowInv, [ExecNext]_evars PROVE FlowInv'
  OBVIOUS
<1>1. PICK parameters \in SUBSET Vars : Runs(Walk(parameters, body, returns))
  BY DEF FlowInv
<1>2. PICK w : w = Walk(parameters, body, returns)
  OBVIOUS
<1>3. body' = body /\ returns' = returns
  BY DEF ExecNext, evars, DoAssign, DoCall, DoReturn, DoTest, DoFor, DoJump, FallOff, Halted
<1>4. Runs(w)
  BY <1>1, <1>2
<1>5. Runs(w)'
  BY <1>4, ExecStep
<1>6. w = Walk(parameters, body', returns')
  BY <1>2, <1>3
<1>7. Runs(Walk(parameters, body, returns))'
  BY <1>5, <1>6 DEF Runs
<1> QED
  BY <1>7 DEF FlowInv

LEMMA FlowInvariant == ExecSpec => []FlowInv
  BY FlowInit, FlowNext, PTL DEF ExecSpec

LEMMA FlowInvSafe ==
    FlowInv => /\ status \in {"running", "returned", "fell"} /\ (status = "fell" => returns = "None")
               /\ TypeIsFunctionWide
<1> SUFFICES ASSUME FlowInv
             PROVE  /\ status \in {"running", "returned", "fell"} /\ (status = "fell" => returns = "None")
                    /\ TypeIsFunctionWide
  OBVIOUS
<1>1. PICK parameters \in SUBSET Vars : Runs(Walk(parameters, body, returns))
  BY DEF FlowInv
<1> QED
  BY <1>1 DEF Runs, Fitting, TypeIsFunctionWide

\* Definite assignment (checker.block, join and loop in flow.go) is right about
\* every body: no execution of an accepted one, whatever it nests, reads a
\* local that nothing has assigned on the way there.
THEOREM AcceptedReadsAssigned == ExecSpec => []NoUnboundRead
<1>1. FlowInv => NoUnboundRead
  BY FlowInvSafe DEF NoUnboundRead
<1> QED
  BY <1>1, FlowInvariant, PTL

\* Narrowing (narrow and resetRefinements in flow.go) is right about every
\* body: None never goes where the checker let a local through as an int.
THEOREM AcceptedKeepsNoneOut == ExecSpec => []NoneNeverEscapes
<1>1. FlowInv => NoneNeverEscapes
  BY FlowInvSafe DEF NoneNeverEscapes
<1> QED
  BY <1>1, FlowInvariant, PTL

\* Termination analysis (the result of checker.block, containsBreak) is right
\* about every body: a function that declares a result returns one.
THEOREM AcceptedReturns == ExecSpec => []NoFallThrough
<1>1. FlowInv => NoFallThrough
  BY FlowInvSafe DEF NoFallThrough
<1> QED
  BY <1>1, FlowInvariant, PTL

\* The types that join keeps, also those of branches that do not survive, are
\* those of the whole function: every value a local ever holds has its type.
THEOREM TypesAreFunctionWide == ExecSpec => []TypeIsFunctionWide
<1>1. FlowInv => TypeIsFunctionWide
  BY FlowInvSafe
<1> QED
  BY <1>1, FlowInvariant, PTL
=============================================================================
