------------------------- MODULE ImportGraphProofs -------------------------
(* The linker's walks on import graphs of any size.  The two walks differ    *)
(* in what they do when they meet a module that is being visited, so the     *)
(* invariant is stated once, for the sequence that the walk in progress      *)
(* fills (Seen), with an excuse for the imports that it passed over.         *)
EXTENDS ImportGraph, SequenceTheorems, FiniteSetTheorems, TLAPS

Frames == [name : Modules, at : Nat \ {0}]

\* The modules the walk in progress is done with, in order.
Seen == IF phase = "cycles" THEN finished ELSE checked

\* A cycle was reported that starts from d.
StartsCycle(d) == \E c \in cycles : c[1] = d

\* Why an import of m may be passed over before it is done: it was reported as
\* the end of a cycle, or the imported module d needs m.
Excused(m, d) == IF phase = "cycles" THEN StartsCycle(d) ELSE m \in Needs(d)

\* Each call in progress was made for the import its caller looked at last.
Path ==
    \A i \in 1 .. Len(stack) - 1 :
        /\ stack[i].at >= 2
        /\ stack[i + 1].name = imports[stack[i].name][stack[i].at - 1]

Simple == \A i, j \in DOMAIN stack : stack[i].name = stack[j].name => i = j

Reach == \A i, j \in DOMAIN stack : i < j => stack[j].name \in Needs(stack[i].name)

Fresh == \A i \in DOMAIN stack : ~ In(stack[i].name, Seen)

SeenOnce == \A i, j \in DOMAIN Seen : Seen[i] = Seen[j] => i = j

\* Where the walk has started so far.
Roots ==
    /\ \A r \in 1 .. root - 1 :
          In(Order[r], Seen) \/ (stack # <<>> /\ stack[1].name = Order[r])
    /\ phase = "linked" => stack = <<>> /\ root > Len(Order)

\* The imports a call has followed are done, or excused, or in progress.
Followed ==
    \A i \in DOMAIN stack : \A n \in 1 .. stack[i].at - 1 :
        LET d == imports[stack[i].name][n] IN
        \/ In(d, Seen) \/ Excused(stack[i].name, d)
        \/ i < Len(stack) /\ n = stack[i].at - 1

Ordered ==
    \A k \in DOMAIN Seen : \A d \in Targets(Seen[k]) :
        (\E j \in 1 .. k - 1 : Seen[j] = d) \/ Excused(Seen[k], d)

\* What the first walk leaves to the second.
Phases ==
    /\ phase = "cycles" => checked = <<>>
    /\ phase # "cycles" =>
          /\ \A i, j \in DOMAIN finished : finished[i] = finished[j] => i = j
          /\ \A m \in Modules : In(m, finished)
          /\ \A k \in DOMAIN finished : \A d \in Targets(finished[k]) :
                (\E j \in 1 .. k - 1 : finished[j] = d) \/ StartsCycle(d)

IInv ==
    /\ TypeOK /\ Path /\ Simple /\ Reach /\ Fresh /\ SeenOnce /\ Roots /\ Followed
    /\ Ordered /\ Phases /\ CycleIsReal

----------------------------------------------------------------------------
(* What the operators of the walk give                                       *)

LEMMA ImportsAreModules ==
    ASSUME TypeOK, NEW m \in Modules
    PROVE  /\ imports[m] \in Seq(Modules) /\ Len(imports[m]) \in Nat
           /\ Targets(m) = {imports[m][i] : i \in 1 .. Len(imports[m])}
           /\ Targets(m) \subseteq Modules
BY GraphAssumption DEF TypeOK, Targets

LEMMA StackFacts ==
    ASSUME TypeOK
    PROVE  /\ Len(stack) \in Nat /\ DOMAIN stack = 1 .. Len(stack)
           /\ \A i \in DOMAIN stack :
                 /\ stack[i] \in Frames
                 /\ stack[i].name \in Modules /\ stack[i].at \in Nat \ {0}
                 /\ stack[i].at <= Len(imports[stack[i].name]) + 1
           /\ stack # <<>> => Len(stack) >= 1 /\ Top = stack[Len(stack)] /\ Len(stack) \in DOMAIN stack
<1>1. stack \in Seq(Frames)
  BY DEF TypeOK, Frames
<1>2. Len(stack) \in Nat /\ DOMAIN stack = 1 .. Len(stack)
  BY <1>1, LenProperties
<1>3. \A i \in DOMAIN stack : stack[i] \in Frames
  BY <1>1, <1>2, ElementOfSeq
<1>4. stack # <<>> => Len(stack) \in Nat \ {0}
  BY <1>1, EmptySeq
<1>5. \A i \in DOMAIN stack : stack[i].at <= Len(imports[stack[i].name]) + 1
  BY DEF TypeOK
<1>6. \A f \in Frames : f.name \in Modules /\ f.at \in Nat \ {0}
  BY DEF Frames
<1> QED
  BY <1>2, <1>3, <1>4, <1>5, <1>6 DEF Top

LEMMA ImportFacts ==
    ASSUME TypeOK, Following
    PROVE  /\ stack # <<>> /\ Top.name \in Modules /\ Top.at \in Nat \ {0}
           /\ Top.at \in 1 .. Len(imports[Top.name])
           /\ Import = imports[Top.name][Top.at]
           /\ Import \in Modules /\ Import \in Targets(Top.name)
<1>1. stack # <<>> /\ Top.at <= Len(imports[Top.name])
  BY DEF Following
<1>2. Top.name \in Modules /\ Top.at \in Nat \ {0}
  BY <1>1, StackFacts
<1>3. Top.at \in 1 .. Len(imports[Top.name])
  BY <1>1, <1>2, ImportsAreModules
<1> QED
  BY <1>1, <1>2, <1>3, ImportsAreModules DEF Import

LEMMA AdvancedFacts ==
    ASSUME TypeOK, Following
    PROVE  /\ Advanced \in Seq(Frames) /\ Len(Advanced) = Len(stack)
           /\ DOMAIN Advanced = 1 .. Len(stack)
           /\ \A i \in 1 .. Len(stack) :
                 /\ Advanced[i].name = stack[i].name
                 /\ Advanced[i].at = IF i = Len(stack) THEN stack[i].at + 1 ELSE stack[i].at
<1>1. stack \in Seq(Frames) /\ stack # <<>> /\ Len(stack) \in 1 .. Len(stack)
  BY StackFacts, ImportFacts DEF TypeOK, Frames
<1>2. stack[Len(stack)] \in Frames
  BY <1>1
<1>3. \A i \in 1 .. Len(stack) : stack[i] \in Frames
  BY <1>1
<1> DEFINE f == [stack[Len(stack)] EXCEPT !.at = @ + 1]
<1>4. f \in Frames /\ f.name = stack[Len(stack)].name /\ f.at = stack[Len(stack)].at + 1
  BY <1>2 DEF Frames
<1>5. Advanced = [stack EXCEPT ![Len(stack)] = f]
  BY DEF Advanced
<1> HIDE DEF f
<1>6. /\ Advanced \in Seq(Frames) /\ Len(Advanced) = Len(stack)
      /\ \A j \in 1 .. Len(stack) : Advanced[j] = IF j = Len(stack) THEN f ELSE stack[j]
  BY <1>1, <1>4, <1>5, ExceptSeq
<1>7. DOMAIN Advanced = 1 .. Len(stack)
  BY <1>6, LenProperties
<1> QED
  BY <1>4, <1>6, <1>7

LEMMA PoppedFacts ==
    ASSUME TypeOK, stack # <<>>
    PROVE  /\ Popped \in Seq(Frames) /\ Len(Popped) = Len(stack) - 1
           /\ DOMAIN Popped = 1 .. Len(stack) - 1
           /\ \A i \in 1 .. Len(stack) - 1 : Popped[i] = stack[i]
<1>1. stack \in Seq(Frames) /\ Len(stack) \in Nat \ {0}
  BY StackFacts DEF TypeOK, Frames
<1>2. \A i \in 1 .. Len(stack) - 1 : stack[i] \in Frames
  BY <1>1, ElementOfSeq
<1>3. /\ SubSeq(stack, 1, Len(stack) - 1) \in Seq(Frames)
      /\ Len(SubSeq(stack, 1, Len(stack) - 1)) =
            IF 1 <= Len(stack) - 1 THEN (Len(stack) - 1) - 1 + 1 ELSE 0
      /\ \A i \in 1 .. (Len(stack) - 1) - 1 + 1 :
            SubSeq(stack, 1, Len(stack) - 1)[i] = stack[1 + i - 1]
  BY <1>1, <1>2, SubSeqProperties, Z3
<1> DEFINE P == SubSeq(stack, 1, Len(stack) - 1)
<1>p. Popped = P
  BY DEF Popped
<1>l. /\ P \in Seq(Frames)
      /\ Len(P) = IF 1 <= Len(stack) - 1 THEN (Len(stack) - 1) - 1 + 1 ELSE 0
  BY <1>3
<1> HIDE DEF P
<1>4. Len(Popped) = Len(stack) - 1 /\ Popped \in Seq(Frames)
  BY <1>1, <1>l, <1>p
<1>5. DOMAIN Popped = 1 .. Len(stack) - 1
  BY <1>4, LenProperties
<1>6. \A i \in 1 .. Len(stack) - 1 : Popped[i] = stack[i]
  BY <1>1, <1>3, <1>p DEF P
<1> QED
  BY <1>4, <1>5, <1>6

\* A call of its own for the import.
Pushed == Append(Advanced, Frame(Import))

LEMMA PushedFacts ==
    ASSUME TypeOK, Following
    PROVE  /\ Pushed \in Seq(Frames) /\ Len(Pushed) = Len(stack) + 1
           /\ DOMAIN Pushed = 1 .. Len(stack) + 1
           /\ \A i \in 1 .. Len(stack) :
                 /\ Pushed[i].name = stack[i].name
                 /\ Pushed[i].at = IF i = Len(stack) THEN stack[i].at + 1 ELSE stack[i].at
           /\ Pushed[Len(stack) + 1].name = Import /\ Pushed[Len(stack) + 1].at = 1
<1>1. Len(stack) \in Nat
  BY StackFacts
<1>2. Frame(Import) \in Frames /\ Frame(Import).name = Import /\ Frame(Import).at = 1
  BY ImportFacts DEF Frame, Frames
<1>3. Advanced \in Seq(Frames) /\ Len(Advanced) = Len(stack)
  BY AdvancedFacts
<1>4. /\ Pushed \in Seq(Frames) /\ Len(Pushed) = Len(stack) + 1
      /\ \A i \in 1 .. Len(stack) : Pushed[i] = Advanced[i]
      /\ Pushed[Len(stack) + 1] = Frame(Import)
  <2> HIDE DEF Advanced
  <2> QED
    BY <1>2, <1>3, AppendProperties DEF Pushed
<1>5. DOMAIN Pushed = 1 .. Len(stack) + 1
  BY <1>4, LenProperties
<1> QED
  BY <1>2, <1>4, <1>5, AdvancedFacts

----------------------------------------------------------------------------
(* Needs is the closure of the import relation                               *)

LEMMA NeedsImports ==
    ASSUME TypeOK, NEW m \in Modules, NEW d \in Targets(m)
    PROVE  d \in Needs(m)
BY ImportsAreModules DEF Needs

LEMMA NeedsOfNeeds ==
    ASSUME TypeOK, NEW m \in Modules, NEW n \in Needs(m), NEW d \in Targets(n)
    PROVE  d \in Needs(m)
<1>1. n \in Modules /\ d \in Modules
  BY ImportsAreModules DEF Needs
<1>2. ASSUME NEW S \in SUBSET Modules, Targets(m) \subseteq S, Closed(S) PROVE d \in S
  <2>1. n \in S
    BY <1>2 DEF Needs
  <2> QED
    BY <2>1, <1>2 DEF Closed
<1> QED
  BY <1>1, <1>2 DEF Needs

LEMMA NeedsIsTransitive ==
    ASSUME TypeOK, NEW m \in Modules, NEW n \in Needs(m), NEW d \in Needs(n)
    PROVE  d \in Needs(m)
<1>1. n \in Modules /\ Needs(m) \in SUBSET Modules
  BY DEF Needs
<1>2. Targets(n) \subseteq Needs(m)
  BY NeedsOfNeeds
<1>3. Closed(Needs(m))
  BY NeedsOfNeeds DEF Closed
<1> QED
  BY <1>1, <1>2, <1>3 DEF Needs

\* A module that needs itself is in the knot of one that a cycle was reported
\* from: were there no such cycle, the modules of its knot would come after
\* those of the knot that they import, and what m needs would leave m out.
LEMMA KnotHasCycle ==
    ASSUME TypeOK, NEW s \in Seq(Modules), NEW k \in DOMAIN s, NEW m, m = s[k],
           \A i, j \in DOMAIN s : s[i] = s[j] => i = j,
           \A x \in Modules : In(x, s),
           \A i \in DOMAIN s : \A d \in Targets(s[i]) :
              (\E j \in 1 .. i - 1 : s[j] = d) \/ StartsCycle(d),
           m \in Needs(m)
    PROVE  \E c \in cycles : c[1] \in Needs(m) /\ m \in Needs(c[1])
<1> SUFFICES ASSUME \A d : StartsCycle(d) => ~ (d \in Needs(m) /\ m \in Needs(d))
             PROVE  FALSE
  BY DEF StartsCycle
<1>1. k \in Nat /\ DOMAIN s = 1 .. Len(s) /\ Len(s) \in Nat /\ m \in Modules
  OBVIOUS
<1> DEFINE Outside == {x \in Needs(m) : m \notin Needs(x)}
<1> DEFINE Before == {x \in Needs(m) : m \in Needs(x) /\ \E j \in 1 .. k - 1 : s[j] = x}
<1>2. \A x \in Needs(m) : x \in Modules
  BY DEF Needs
\* What a module of the knot, no later than m, imports.
<1>3. ASSUME NEW i \in 1 .. k, NEW x, x = s[i], x = m \/ x \in Needs(m), NEW d \in Targets(x)
      PROVE  d \in Outside \cup Before
  <2>1. x \in Modules /\ i \in DOMAIN s
    BY <1>1, <1>3, <1>2
  <2>2. d \in Needs(m)
    <3>1. CASE x = m
      BY <3>1, <1>1, NeedsImports
    <3>2. CASE x \in Needs(m)
      BY <3>2, <1>1, NeedsOfNeeds
    <3> QED
      BY <3>1, <3>2, <1>3
  <2>3. CASE m \notin Needs(d)
    BY <2>2, <2>3
  <2>4. CASE m \in Needs(d)
    <3>1. PICK j \in 1 .. i - 1 : s[j] = d
      BY <2>1, <2>2, <2>4, <1>3
    <3>2. j \in 1 .. k - 1
      BY <1>1
    <3> QED
      BY <2>2, <2>4, <3>1, <3>2
  <2> QED
    BY <2>3, <2>4
<1>4. Targets(m) \subseteq Outside \cup Before
  <2>1. k \in 1 .. k
    BY <1>1
  <2> QED
    BY <1>3, <2>1
<1>5. Closed(Outside \cup Before)
  <2> SUFFICES ASSUME NEW x \in Outside \cup Before, NEW d \in Targets(x)
               PROVE  d \in Outside \cup Before
    BY DEF Closed
  <2>1. x \in Needs(m) /\ x \in Modules
    BY <1>2
  <2>2. CASE x \in Outside
    <3>1. d \in Needs(m) /\ d \in Needs(x)
      BY <2>1, <1>1, NeedsOfNeeds, NeedsImports
    <3>2. m \notin Needs(d)
      BY <2>1, <2>2, <3>1, NeedsIsTransitive
    <3> QED
      BY <3>1, <3>2
  <2>3. CASE x \in Before
    <3>1. PICK j \in 1 .. k - 1 : s[j] = x
      BY <2>3
    <3>2. j \in 1 .. k
      BY <1>1
    <3> QED
      BY <3>1, <3>2, <2>1, <1>3
  <2> QED
    BY <2>2, <2>3
<1>6. Outside \cup Before \in SUBSET Modules
  BY <1>2
<1>7. m \notin Before
  BY <1>1
<1>8. m \notin Outside
  OBVIOUS
<1> HIDE DEF Outside, Before
<1>9. m \in Outside \cup Before
  BY <1>4, <1>5, <1>6 DEF Needs
<1> QED
  BY <1>7, <1>8, <1>9

\* With the imports of every module before it, no module of an order needs
\* itself: the modules before it are closed.
LEMMA OrderedIsAcyclic ==
    ASSUME TypeOK, NEW s \in Seq(Modules), NEW k \in DOMAIN s,
           \A i, j \in DOMAIN s : s[i] = s[j] => i = j,
           \A i \in DOMAIN s : \A d \in Targets(s[i]) : \E j \in 1 .. i - 1 : s[j] = d
    PROVE  s[k] \notin Needs(s[k])
<1> DEFINE S == {s[j] : j \in 1 .. k - 1}
<1>1. k \in Nat /\ DOMAIN s = 1 .. Len(s) /\ Len(s) \in Nat
  OBVIOUS
<1>2. S \in SUBSET Modules
  BY <1>1
<1>3. Targets(s[k]) \subseteq S
  OBVIOUS
<1>4. Closed(S)
  BY <1>1 DEF Closed
<1>5. s[k] \notin S
  BY <1>1
<1> HIDE DEF S
<1> QED
  BY <1>2, <1>3, <1>4, <1>5 DEF Needs

----------------------------------------------------------------------------
(* The steps that the two walks share                                        *)

\* What a step does not change while it stays in the same walk.
Same == UNCHANGED <<imports, phase, finished, cycles, checked>>

LEMMA SameMeans ==
    ASSUME Same
    PROVE  /\ Seen' = Seen /\ CycleIsReal = CycleIsReal' /\ SeenOnce = SeenOnce'
           /\ \A m : Needs(m)' = Needs(m) /\ Targets(m)' = Targets(m)
           /\ \A m, d : Excused(m, d)' = Excused(m, d)
           /\ Ordered' = Ordered /\ Phases' = Phases
BY DEF Same, Seen, CycleIsReal, SeenOnce, Needs, Targets, Closed, Excused, StartsCycle, Ordered,
       Phases, In

LEMMA SameCycles ==
    ASSUME UNCHANGED <<imports, cycles>>
    PROVE  CycleIsReal' = CycleIsReal
<1>1. imports' = imports /\ cycles' = cycles /\ \A m : Targets(m)' = Targets(m)
  BY DEF Targets
<1> QED
  BY <1>1 DEF CycleIsReal

LEMMA SamePhases ==
    ASSUME UNCHANGED <<imports, finished, cycles>>, phase # "cycles", phase' # "cycles"
    PROVE  Phases' = Phases
<1>1. /\ finished' = finished /\ cycles' = cycles
      /\ \A m : /\ Targets(m)' = Targets(m) /\ In(m, finished)' = In(m, finished)
                 /\ StartsCycle(m)' = StartsCycle(m)
  BY DEF Targets, In, StartsCycle
<1> QED
  BY <1>1 DEF Phases

\* A start from the next module of Order.
LEMMA StartPreserves ==
    ASSUME IInv, phase # "linked", Start(Seen)
    PROVE  IInv'
<1>t. TypeOK /\ TypeOK!1 /\ root \in Nat \ {0}
  BY DEF IInv, TypeOK
<1>1. /\ stack = <<>> /\ root <= Len(Order) /\ root' = root + 1 /\ Same
      /\ stack' = IF In(Order[root], Seen) THEN stack ELSE <<Frame(Order[root])>>
  BY DEF Start, Same
<1>2. Order[root] \in Modules /\ Len(Order) \in Nat
  BY <1>t, <1>1, GraphAssumption, ElementOfSeq
<1>3. CASE In(Order[root], Seen)
  <2>1. stack' = stack
    BY <1>1, <1>3
  <2>2. TypeOK'
    BY <2>1, <1>1, <1>t, <1>2 DEF TypeOK, Same
  <2>3. Len(stack') = 0 /\ DOMAIN stack' = {}
    BY <2>1, <1>1
  <2>4. Path' /\ Simple' /\ Reach' /\ Followed' /\ Fresh'
    BY <2>3 DEF Path, Simple, Reach, Followed, Fresh
  <2>5. Roots'
    <3>1. \A r \in 1 .. root - 1 : In(Order[r], Seen)
      BY <1>1 DEF IInv, Roots
    <3>2. \A r \in 1 .. root' - 1 : In(Order[r], Seen)
      BY <3>1, <1>1, <1>3, <1>t
    <3> QED
      BY <3>2, <1>1, SameMeans DEF Roots, Same
  <2> QED
    BY <2>2, <2>4, <2>5, <1>1, SameMeans DEF IInv
<1>4. CASE ~ In(Order[root], Seen)
  <2>1. stack' = <<[name |-> Order[root], at |-> 1]>>
    BY <1>1, <1>4 DEF Frame
  <2>2. /\ stack' \in Seq(Frames) /\ Len(stack') = 1 /\ DOMAIN stack' = {1}
        /\ stack'[1].name = Order[root] /\ stack'[1].at = 1
    BY <2>1, <1>2 DEF Frames
  <2>3. TypeOK'
    BY <2>2, <1>1, <1>2, <1>t, ImportsAreModules DEF TypeOK, Same, Frames
  <2>4. Path' /\ Simple' /\ Reach' /\ Followed' /\ Fresh'
    BY <2>2, <1>4, <1>1, SameMeans DEF Path, Simple, Reach, Followed, Fresh
  <2>5. Roots'
    BY <2>2, <1>1, <1>t, SameMeans DEF IInv, Roots, Same
  <2> QED
    BY <2>3, <2>4, <2>5, <1>1, SameMeans DEF IInv
<1> QED
  BY <1>3, <1>4

\* A call that has looked at its next import.
LEMMA AdvancePreserves ==
    ASSUME IInv, Following, stack' = Advanced, UNCHANGED <<imports, phase, root>>,
           Seen' = Seen,
           \A m, d \in Modules : Excused(m, d) => Excused(m, d)',
           NEW from, NEW to, from = Top.name, to = Import,
           In(to, Seen) \/ Excused(from, to)'
    PROVE  /\ stack' \in Seq(Frames)
           /\ \A i \in DOMAIN stack' : stack'[i].at <= Len(imports'[stack'[i].name]) + 1
           /\ Path' /\ Simple' /\ Fresh' /\ Reach' /\ Followed' /\ Roots'
<1>t. TypeOK
  BY DEF IInv
<1>1. /\ Len(stack) \in Nat \ {0} /\ DOMAIN stack = 1 .. Len(stack) /\ stack # <<>>
      /\ Top = stack[Len(stack)] /\ Import = imports[Top.name][Top.at]
      /\ \A i \in 1 .. Len(stack) : /\ stack[i].name \in Modules /\ stack[i].at \in Nat \ {0}
                                    /\ stack[i].at <= Len(imports[stack[i].name]) + 1
      /\ Top.at \in 1 .. Len(imports[Top.name])
  BY <1>t, StackFacts, ImportFacts
<1>2. /\ stack' \in Seq(Frames) /\ Len(stack') = Len(stack)
      /\ DOMAIN stack' = 1 .. Len(stack)
      /\ \A i \in 1 .. Len(stack) :
            /\ stack'[i].name = stack[i].name
            /\ stack'[i].at = IF i = Len(stack) THEN stack[i].at + 1 ELSE stack[i].at
  BY <1>t, AdvancedFacts
<1>s. /\ imports' = imports /\ phase' = phase /\ root' = root
      /\ \A m : Needs(m)' = Needs(m) /\ In(m, Seen)' = In(m, Seen)
  BY DEF Needs, Targets, Closed, In
<1>l. Len(stack) \in Nat \ {0}
  BY <1>1
<1>m. \A m \in Modules : Len(imports[m]) \in Nat
  BY <1>t, ImportsAreModules
<1>3. \A i \in DOMAIN stack' : stack'[i].at <= Len(imports'[stack'[i].name]) + 1
  <2> SUFFICES ASSUME NEW i \in 1 .. Len(stack)
               PROVE  stack'[i].at <= Len(imports[stack[i].name]) + 1
    BY <1>2, <1>s
  <2> DEFINE bound == Len(imports[stack[i].name])
  <2>1. bound \in Nat /\ stack[i].at \in Nat /\ stack[i].at <= bound + 1
    BY <1>1, <1>m
  <2>2. i = Len(stack) => stack[i].at <= bound
    BY <1>1
  <2>3. stack'[i].at = IF i = Len(stack) THEN stack[i].at + 1 ELSE stack[i].at
    BY <1>2
  <2> HIDE DEF bound
  <2>4. stack'[i].at <= bound + 1
    BY <2>1, <2>2, <2>3
  <2> QED
    BY <2>4 DEF bound
<1>4. Path'
  <2>1. \A i \in 1 .. Len(stack) - 1 : stack[i].at >= 2
              /\ stack[i + 1].name = imports[stack[i].name][stack[i].at - 1]
    BY DEF IInv, Path
  <2> SUFFICES ASSUME NEW i \in 1 .. Len(stack) - 1
               PROVE  /\ stack'[i].at >= 2
                      /\ stack'[i + 1].name = imports[stack'[i].name][stack'[i].at - 1]
    BY <1>2, <1>s DEF Path
  <2>a. i \in 1 .. Len(stack) /\ i + 1 \in 1 .. Len(stack) /\ i # Len(stack)
    BY <1>l
  <2>2. stack'[i].at = stack[i].at /\ stack'[i].name = stack[i].name
        /\ stack'[i + 1].name = stack[i + 1].name
    BY <2>a, <1>2
  <2> QED
    BY <2>1, <2>2
<1>5. Simple'
  BY <1>1, <1>2 DEF IInv, Simple
<1>6. Fresh'
  BY <1>1, <1>2, <1>s DEF IInv, Fresh
<1>7. Reach'
  BY <1>1, <1>2, <1>s DEF IInv, Reach
<1>8. Roots'
  <2>1. /\ \A r \in 1 .. root - 1 : In(Order[r], Seen) \/ stack[1].name = Order[r]
        /\ phase # "linked"
    BY <1>1 DEF IInv, Roots
  <2>a. 1 \in 1 .. Len(stack)
    BY <1>l
  <2>b. Len(stack') = Len(stack) /\ Len(<<>>) = 0
    BY <1>2
  <2>2. stack' # <<>> /\ stack'[1].name = stack[1].name
    BY <1>2, <1>l, <2>a, <2>b
  <2>3. \A m : In(m, Seen)' <=> In(m, Seen)
    BY <1>s
  <2>4. phase' = phase /\ root' = root
    BY <1>s
  <2>5. \A r \in 1 .. root' - 1 : In(Order[r], Seen)' \/ stack'[1].name = Order[r]
    BY <2>1, <2>2, <2>3, <2>4
  <2> QED
    BY <2>1, <2>2, <2>4, <2>5 DEF Roots
<1>9. Followed'
  <2>1. \A i \in 1 .. Len(stack) : \A n \in 1 .. stack[i].at - 1 :
           \/ In(imports[stack[i].name][n], Seen)
           \/ Excused(stack[i].name, imports[stack[i].name][n])
           \/ i < Len(stack) /\ n = stack[i].at - 1
    BY <1>1 DEF IInv, Followed
  <2> SUFFICES ASSUME NEW i \in 1 .. Len(stack), NEW n \in 1 .. stack'[i].at - 1,
                      NEW m, NEW d, m = stack[i].name, d = imports[m][n]
               PROVE  \/ In(d, Seen) \/ Excused(m, d)'
                      \/ i < Len(stack) /\ n = stack'[i].at - 1
    <3>1. \A i \in 1 .. Len(stack) : \A n \in 1 .. stack'[i].at - 1 : \A m, d :
             m = stack[i].name /\ d = imports[m][n] =>
                \/ In(d, Seen) \/ Excused(m, d)'
                \/ i < Len(stack) /\ n = stack'[i].at - 1
      OBVIOUS
    <3> SUFFICES ASSUME NEW i \in DOMAIN stack', NEW n \in 1 .. stack'[i].at - 1,
                        NEW m, NEW d, m = stack'[i].name, d = imports'[m][n]
                 PROVE  \/ In(d, Seen)' \/ Excused(m, d)'
                        \/ i < Len(stack') /\ n = stack'[i].at - 1
      BY DEF Followed
    <3>2. i \in 1 .. Len(stack) /\ Len(stack') = Len(stack) /\ m = stack[i].name
          /\ d = imports[m][n] /\ (In(d, Seen)' <=> In(d, Seen))
      BY <1>2, <1>s
    <3> QED
      BY <3>1, <3>2
  <2>2. /\ stack'[i].at = IF i = Len(stack) THEN stack[i].at + 1 ELSE stack[i].at
        /\ stack[i].at \in Nat \ {0}
    BY <1>1, <1>2
  <2>3. CASE n \in 1 .. stack[i].at - 1
    <3>1. In(d, Seen) \/ Excused(m, d) \/ (i < Len(stack) /\ n = stack[i].at - 1)
      BY <2>1, <2>3
    <3>2. m \in Modules /\ d \in Modules
      <4>1. m \in Modules /\ stack[i].at <= Len(imports[m]) + 1
        BY <1>1
      <4>2. imports[m] \in Seq(Modules) /\ Len(imports[m]) \in Nat
        BY <4>1, <1>t, ImportsAreModules
      <4>3. n \in 1 .. Len(imports[m])
        BY <4>1, <4>2, <2>2, <2>3
      <4> QED
        BY <4>1, <4>2, <4>3, ElementOfSeq
    <3>3. i < Len(stack) => stack'[i].at = stack[i].at
      BY <2>2, <1>l
    <3> QED
      BY <3>1, <3>2, <3>3
  <2>4. CASE ~ (n \in 1 .. stack[i].at - 1)
    <3>1. i = Len(stack) /\ n = stack[i].at
      BY <2>2, <2>4, <1>l
    <3>2. d = to /\ m = from
      BY <3>1, <1>1
    <3> QED
      BY <3>2
  <2> QED
    BY <2>3, <2>4
<1> QED
  BY <1>2, <1>3, <1>4, <1>5, <1>6, <1>7, <1>8, <1>9

\* A call that starts another for its next import.
LEMMA PushPreserves ==
    ASSUME IInv, Following, ~ Active(Import), ~ In(Import, Seen), stack' = Pushed,
           UNCHANGED root, Same
    PROVE  /\ stack' \in Seq(Frames)
           /\ \A i \in DOMAIN stack' : stack'[i].at <= Len(imports'[stack'[i].name]) + 1
           /\ Path' /\ Simple' /\ Fresh' /\ Reach' /\ Followed' /\ Roots'
<1>t. TypeOK
  BY DEF IInv
<1>1. /\ DOMAIN stack = 1 .. Len(stack) /\ stack # <<>>
      /\ Top = stack[Len(stack)] /\ Import = imports[Top.name][Top.at]
      /\ \A i \in 1 .. Len(stack) : /\ stack[i].name \in Modules /\ stack[i].at \in Nat \ {0}
                                    /\ stack[i].at <= Len(imports[stack[i].name]) + 1
  BY <1>t, StackFacts, ImportFacts
<1>l. Len(stack) \in Nat \ {0}
  BY <1>t, StackFacts, ImportFacts
<1> PICK import : import = Import
  OBVIOUS
<1>2. /\ stack' \in Seq(Frames) /\ Len(stack') = Len(stack) + 1
      /\ DOMAIN stack' = 1 .. Len(stack) + 1
      /\ \A i \in 1 .. Len(stack) :
            /\ stack'[i].name = stack[i].name
            /\ stack'[i].at = IF i = Len(stack) THEN stack[i].at + 1 ELSE stack[i].at
      /\ stack'[Len(stack) + 1].name = import /\ stack'[Len(stack) + 1].at = 1
  BY <1>t, PushedFacts
<1>i. import \in Modules /\ import \in Targets(Top.name) /\ Top.at <= Len(imports[Top.name])
  BY <1>t, ImportFacts
<1>s. /\ imports' = imports /\ phase' = phase /\ root' = root
      /\ \A m : Needs(m)' = Needs(m) /\ In(m, Seen)' = In(m, Seen)
      /\ \A m, d : Excused(m, d)' = Excused(m, d)
  BY DEF Same, Seen, Needs, Targets, Closed, In, Excused, StartsCycle
<1>m. \A m \in Modules : Len(imports[m]) \in Nat
  BY <1>t, ImportsAreModules
<1>c. \A i \in 1 .. Len(stack) + 1 : i \in 1 .. Len(stack) \/ i = Len(stack) + 1
  BY <1>l
<1>3. \A i \in DOMAIN stack' : stack'[i].at <= Len(imports'[stack'[i].name]) + 1
  <2> SUFFICES ASSUME NEW i \in 1 .. Len(stack) + 1, NEW m, m = stack'[i].name
               PROVE  stack'[i].at <= Len(imports[m]) + 1
    BY <1>2, <1>s
  <2>1. CASE i = Len(stack) + 1
    <3>1. m = import /\ stack'[i].at = 1 /\ Len(imports[m]) \in Nat
      BY <2>1, <1>2, <1>i, <1>m
    <3> QED
      BY <3>1
  <2>2. CASE i \in 1 .. Len(stack)
    <3>1. /\ m = stack[i].name /\ Len(imports[m]) \in Nat
          /\ stack[i].at \in Nat /\ stack[i].at <= Len(imports[m]) + 1
      BY <2>2, <1>1, <1>2, <1>m
    <3>2. i = Len(stack) => stack[i].at <= Len(imports[m])
      BY <3>1, <1>1, <1>i
    <3>3. stack'[i].at = IF i = Len(stack) THEN stack[i].at + 1 ELSE stack[i].at
      BY <2>2, <1>2
    <3> QED
      BY <3>1, <3>2, <3>3
  <2> QED
    BY <2>1, <2>2, <1>c
<1>4. Path'
  <2>1. \A i \in 1 .. Len(stack) - 1 : stack[i].at >= 2
              /\ stack[i + 1].name = imports[stack[i].name][stack[i].at - 1]
    BY DEF IInv, Path
  <2> SUFFICES ASSUME NEW i \in 1 .. Len(stack)
               PROVE  /\ stack'[i].at >= 2
                      /\ stack'[i + 1].name = imports[stack'[i].name][stack'[i].at - 1]
    <3>1. Len(stack') - 1 = Len(stack)
      BY <1>2, <1>l
    <3> QED
      BY <3>1, <1>s DEF Path
  <2>2. CASE i = Len(stack)
    <3>1. /\ stack'[i].name = stack[i].name /\ stack'[i].at = stack[i].at + 1
          /\ stack'[i + 1].name = import /\ stack[i].at \in Nat \ {0}
          /\ import = imports[stack[i].name][stack[i].at]
      BY <2>2, <1>1, <1>2
    <3>2. stack'[i].at - 1 = stack[i].at /\ stack'[i].at >= 2
      BY <3>1
    <3> QED
      BY <3>1, <3>2
  <2>3. CASE i # Len(stack)
    <3>1. i + 1 \in 1 .. Len(stack) /\ i \in 1 .. Len(stack) - 1
      BY <2>3, <1>l
    <3>2. /\ stack'[i].at = stack[i].at /\ stack'[i].name = stack[i].name
          /\ stack'[i + 1].name = stack[i + 1].name
      BY <3>1, <2>3, <1>2
    <3> QED
      BY <2>1, <3>1, <3>2
  <2> QED
    BY <2>2, <2>3
<1>5. Simple'
  <2>1. \A i, j \in 1 .. Len(stack) : stack[i].name = stack[j].name => i = j
    BY <1>1 DEF IInv, Simple
  <2>2. \A i \in 1 .. Len(stack) : stack[i].name # import
    BY <1>1 DEF Active
  <2> SUFFICES ASSUME NEW i \in 1 .. Len(stack) + 1, NEW j \in 1 .. Len(stack) + 1,
                      stack'[i].name = stack'[j].name
               PROVE  i = j
    BY <1>2 DEF Simple
  <2> QED
    BY <1>c, <1>2, <2>1, <2>2
<1>6. Fresh'
  <2>1. \A i \in 1 .. Len(stack) : ~ In(stack[i].name, Seen)
    BY <1>1 DEF IInv, Fresh
  <2>2. \A i \in 1 .. Len(stack) + 1 : ~ In(stack'[i].name, Seen)
    BY <1>c, <1>2, <2>1
  <2> SUFFICES ASSUME NEW i \in 1 .. Len(stack) + 1, NEW m, m = stack'[i].name
               PROVE  ~ In(m, Seen)'
    BY <1>2 DEF Fresh
  <2> QED
    BY <2>2, <1>s
<1>7. Reach'
  <2>1. \A i, j \in 1 .. Len(stack) : i < j => stack[j].name \in Needs(stack[i].name)
    BY <1>1 DEF IInv, Reach
  <2> SUFFICES ASSUME NEW i \in 1 .. Len(stack) + 1, NEW j \in 1 .. Len(stack) + 1, i < j,
                      NEW m, m = stack'[i].name
               PROVE  stack'[j].name \in Needs(m)
    BY <1>2, <1>s DEF Reach
  <2>a. i \in 1 .. Len(stack)
    BY <1>l
  <2>2. i \in 1 .. Len(stack) /\ m = stack[i].name /\ m \in Modules
    BY <1>1, <1>2, <2>a
  <2>3. CASE j \in 1 .. Len(stack)
    BY <2>1, <2>2, <2>3, <1>2
  <2>4. CASE j = Len(stack) + 1
    <3>1. stack'[j].name = import
      BY <2>4, <1>2
    <3>2. i = Len(stack) => import \in Needs(m)
      BY <2>2, <1>1, <1>i, <1>t, NeedsImports
    <3>3. i # Len(stack) => Top.name \in Needs(m)
      <4>1. i # Len(stack) => i < Len(stack) /\ Len(stack) \in 1 .. Len(stack)
        BY <2>2, <1>l
      <4> QED
        BY <4>1, <2>1, <2>2, <1>1
    <3> QED
      BY <3>1, <3>2, <3>3, <2>2, <1>i, <1>t, NeedsOfNeeds
  <2> QED
    BY <2>3, <2>4, <1>c
<1>8. Roots'
  <2>1. /\ \A r \in 1 .. root - 1 : In(Order[r], Seen) \/ stack[1].name = Order[r]
        /\ phase # "linked"
    BY <1>1 DEF IInv, Roots
  <2>a. 1 \in 1 .. Len(stack) /\ Len(stack) + 1 # 0
    BY <1>l
  <2>2. Len(stack') = Len(stack) + 1 /\ Len(<<>>) = 0
    BY <1>2
  <2>3. stack' # <<>> /\ stack'[1].name = stack[1].name
    BY <1>2, <2>a, <2>2
  <2>4. \A m : In(m, Seen)' <=> In(m, Seen)
    BY <1>s
  <2>5. phase' = phase /\ root' = root
    BY <1>s
  <2>6. \A r \in 1 .. root' - 1 : In(Order[r], Seen)' \/ stack'[1].name = Order[r]
    BY <2>1, <2>3, <2>4, <2>5
  <2> QED
    BY <2>1, <2>3, <2>5, <2>6 DEF Roots
<1>9. Followed'
  <2>1. \A i \in 1 .. Len(stack) : \A n \in 1 .. stack[i].at - 1 :
           \/ In(imports[stack[i].name][n], Seen)
           \/ Excused(stack[i].name, imports[stack[i].name][n])
           \/ i < Len(stack) /\ n = stack[i].at - 1
    BY <1>1 DEF IInv, Followed
  <2> SUFFICES ASSUME NEW i \in DOMAIN stack', NEW n \in 1 .. stack'[i].at - 1,
                      NEW m, NEW d, m = stack'[i].name, d = imports'[m][n]
               PROVE  \/ In(d, Seen)' \/ Excused(m, d)'
                      \/ i < Len(stack') /\ n = stack'[i].at - 1
    BY DEF Followed
  <2>2. /\ In(d, Seen)' <=> In(d, Seen)
        /\ Excused(m, d)' <=> Excused(m, d)
        /\ d = imports[m][n] /\ Len(stack') = Len(stack) + 1
    BY <1>s, <1>2
  <2>3. CASE i = Len(stack) + 1
    BY <2>3, <1>2
  <2>4. CASE i \in 1 .. Len(stack)
    <3>a. i < Len(stack) + 1
      BY <2>4, <1>l
    <3>1. /\ m = stack[i].name /\ stack[i].at \in Nat \ {0} /\ i < Len(stack')
          /\ stack'[i].at = IF i = Len(stack) THEN stack[i].at + 1 ELSE stack[i].at
      BY <2>2, <2>4, <3>a, <1>1, <1>2
    <3>2. CASE n \in 1 .. stack[i].at - 1
      <4>1. In(d, Seen) \/ Excused(m, d) \/ (i < Len(stack) /\ n = stack[i].at - 1)
        BY <2>1, <2>2, <2>4, <3>1, <3>2
      <4>2. i < Len(stack) => stack'[i].at = stack[i].at
        BY <3>1, <1>l
      <4> QED
        BY <4>1, <4>2, <2>2, <3>1
    <3>3. CASE ~ (n \in 1 .. stack[i].at - 1)
      BY <3>1, <3>3
    <3> QED
      BY <3>2, <3>3
  <2> QED
    BY <2>3, <2>4, <1>c, <1>2
<1> QED
  BY <1>2, <1>3, <1>4, <1>5, <1>6, <1>7, <1>8, <1>9

LEMMA FollowPreserves ==
    ASSUME IInv, phase # "linked", Follow(Seen)
    PROVE  IInv'
<1>1. /\ Following /\ ~ Active(Import) /\ Same /\ UNCHANGED root
      /\ stack' = IF In(Import, Seen) THEN Advanced ELSE Pushed
  BY DEF Follow, Same, Pushed
<1>2. UNCHANGED <<imports, phase, root>> /\ Seen' = Seen
      /\ \A m, d \in Modules : Excused(m, d) => Excused(m, d)'
  BY <1>1, SameMeans DEF Same
<1>3. /\ stack' \in Seq(Frames)
      /\ \A i \in DOMAIN stack' : stack'[i].at <= Len(imports'[stack'[i].name]) + 1
      /\ Path' /\ Simple' /\ Fresh' /\ Reach' /\ Followed' /\ Roots'
  <2>1. CASE In(Import, Seen)
    <3> PICK from : from = Top.name
      OBVIOUS
    <3> PICK to : to = Import
      OBVIOUS
    <3>1. In(to, Seen) \/ Excused(from, to)'
      BY <2>1
    <3>2. stack' = Advanced
      BY <1>1, <2>1
    <3> QED
      BY <1>1, <1>2, <3>1, <3>2, AdvancePreserves
  <2>2. CASE ~ In(Import, Seen)
    BY <1>1, <2>2, PushPreserves
  <2> QED
    BY <2>1, <2>2
<1>4. TypeOK'
  BY <1>1, <1>3 DEF IInv, TypeOK, Same, Frames
<1> QED
  BY <1>1, <1>3, <1>4, SameMeans DEF IInv

\* The calls in progress are a path of the import graph.
LEMMA PathImports ==
    ASSUME TypeOK, Path, NEW i \in 1 .. Len(stack) - 1
    PROVE  stack[i + 1].name \in Targets(stack[i].name)
<1>l. Len(stack) \in Nat /\ DOMAIN stack = 1 .. Len(stack)
  BY StackFacts
<1>i. i \in DOMAIN stack
  BY <1>l
<1>1. PICK m \in Modules : m = stack[i].name
  BY <1>i, StackFacts
<1>2. stack[i].at >= 2 /\ stack[i + 1].name = imports[m][stack[i].at - 1]
  BY <1>1 DEF Path
<1>3. stack[i].at \in Nat /\ stack[i].at <= Len(imports[m]) + 1
  BY <1>1, <1>i, StackFacts
<1>4. Len(imports[m]) \in Nat /\ Targets(m) = {imports[m][n] : n \in 1 .. Len(imports[m])}
  BY ImportsAreModules
<1>5. stack[i].at - 1 \in 1 .. Len(imports[m])
  BY <1>2, <1>3, <1>4
<1> QED
  BY <1>1, <1>2, <1>4, <1>5

LEMMA ClosingIsReal ==
    ASSUME TypeOK, Path, Simple, Following, Active(Import), NEW c, c = Closing(Import)
    PROVE  /\ c \in Seq(Modules)
           /\ Len(c) >= 2 /\ c[1] = c[Len(c)] /\ c[1] = Import
           /\ \A i \in 1 .. Len(c) - 1 : c[i + 1] \in Targets(c[i])
           /\ \A i, j \in 1 .. Len(c) - 1 : c[i] = c[j] => i = j
<1> DEFINE L == Len(stack)
           first == CHOOSE i \in DOMAIN stack : stack[i].name = Import
<1>1. L \in Nat /\ DOMAIN stack = 1 .. L /\ Top.name = stack[L].name
  BY StackFacts, ImportFacts
<1>2. first \in 1 .. L /\ stack[first].name = Import
  BY <1>1 DEF Active
<1>3. c = [i \in 1 .. L - first + 2 |->
              IF i = L - first + 2 THEN Import ELSE stack[first + i - 1].name]
  BY DEF Closing
<1>4. PICK f : f = first
  OBVIOUS
<1>5. PICK n : n = L - f + 2
  OBVIOUS
<1>6. PICK k : k = Import
  OBVIOUS
<1>7. /\ f \in 1 .. L /\ stack[f].name = k /\ k \in Modules /\ k \in Targets(stack[L].name)
      /\ c = [i \in 1 .. n |-> IF i = n THEN k ELSE stack[f + i - 1].name]
  BY <1>1, <1>2, <1>3, <1>4, <1>5, <1>6, ImportFacts
<1>p. \A i \in 1 .. L - 1 : stack[i + 1].name \in Targets(stack[i].name)
  BY PathImports
<1>s. /\ \A i, j \in 1 .. L : stack[i].name = stack[j].name => i = j
      /\ \A i \in 1 .. L : stack[i].name \in Modules
  BY <1>1, StackFacts DEF Simple
<1> HIDE DEF L, first
<1>n. n \in Nat /\ n >= 2
  BY <1>1, <1>5, <1>7
<1>8. /\ c[n] = k
      /\ \A i \in 1 .. n - 1 : f + i - 1 \in 1 .. L /\ c[i] = stack[f + i - 1].name
  BY <1>1, <1>5, <1>7, <1>n
<1>9. c \in Seq(Modules) /\ Len(c) = n
  <2>1. \A i \in 1 .. n : (IF i = n THEN k ELSE stack[f + i - 1].name) \in Modules
    BY <1>1, <1>5, <1>7, <1>s
  <2>2. c \in [1 .. n -> Modules]
    BY <2>1, <1>7
  <2> QED
    BY <2>2, <1>n
<1>10. c[1] = k
  <2>1. 1 \in 1 .. n - 1 /\ f + 1 - 1 = f
    BY <1>n, <1>7, <1>1
  <2>2. c[1] = stack[f + 1 - 1].name
    BY <2>1, <1>8
  <2> QED
    BY <2>1, <2>2, <1>7
<1>11. \A i \in 1 .. n - 1 : c[i + 1] \in Targets(c[i])
  <2> SUFFICES ASSUME NEW i \in 1 .. n - 1
               PROVE  c[i + 1] \in Targets(c[i])
    OBVIOUS
  <2>1. c[i] = stack[f + i - 1].name
    BY <1>8
  <2>2. CASE i = n - 1
    <3>1. i + 1 = n /\ f + i - 1 = L
      BY <2>2, <1>1, <1>5, <1>7
    <3> QED
      BY <3>1, <2>1, <1>7, <1>8
  <2>3. CASE i # n - 1
    <3>1. i + 1 \in 1 .. n - 1 /\ f + i - 1 \in 1 .. L - 1 /\ f + (i + 1) - 1 = (f + i - 1) + 1
      BY <2>3, <1>1, <1>5, <1>7, <1>n
    <3>2. c[i + 1] = stack[(f + i - 1) + 1].name
      BY <3>1, <1>8
    <3> QED
      BY <3>1, <3>2, <2>1, <1>p
  <2> QED
    BY <2>2, <2>3
<1>12. \A i, j \in 1 .. n - 1 : c[i] = c[j] => i = j
  <2> SUFFICES ASSUME NEW i \in 1 .. n - 1, NEW j \in 1 .. n - 1, c[i] = c[j]
               PROVE  i = j
    OBVIOUS
  <2>1. f + i - 1 = f + j - 1
    BY <1>8, <1>s
  <2> QED
    BY <2>1, <1>1, <1>7, <1>n
<1> QED
  BY <1>6, <1>8, <1>9, <1>10, <1>11, <1>12, <1>n

LEMMA ReportPreserves ==
    ASSUME IInv, ReportCycle
    PROVE  IInv'
<1>t. TypeOK /\ Path /\ Simple
  BY DEF IInv
<1>1. /\ phase = "cycles" /\ Following /\ Active(Import) /\ stack' = Advanced
      /\ UNCHANGED <<imports, phase, root>> /\ finished' = finished /\ checked' = checked
      /\ cycles' = cycles \cup {Closing(Import)}
  BY DEF ReportCycle
<1>2. /\ Seen' = Seen
      /\ \A d : StartsCycle(d) => StartsCycle(d)'
      /\ \A m, d : Excused(m, d) => Excused(m, d)'
  BY <1>1 DEF Seen, Excused, StartsCycle
<1>3. PICK c : c = Closing(Import)
  OBVIOUS
<1>4. PICK from : from = Top.name
  OBVIOUS
<1>5. PICK to : to = Import
  OBVIOUS
<1>x. Excused(from, to)'
  <2>1. c[1] = to
    BY <1>t, <1>1, <1>3, <1>5, ClosingIsReal
  <2> QED
    BY <2>1, <1>1, <1>3 DEF Excused, StartsCycle
<1>6. /\ stack' \in Seq(Frames)
      /\ \A i \in DOMAIN stack' : stack'[i].at <= Len(imports'[stack'[i].name]) + 1
      /\ Path' /\ Simple' /\ Fresh' /\ Reach' /\ Followed' /\ Roots'
  BY <1>1, <1>2, <1>4, <1>5, <1>x, AdvancePreserves
<1>7. /\ c \in Seq(Modules) /\ Len(c) >= 2 /\ c[1] = c[Len(c)]
      /\ \A i \in 1 .. Len(c) - 1 : c[i + 1] \in Targets(c[i])
      /\ \A i, j \in 1 .. Len(c) - 1 : c[i] = c[j] => i = j
  BY <1>t, <1>1, <1>3, ClosingIsReal
<1>8. cycles' = cycles \cup {c} /\ \A m : Targets(m)' = Targets(m)
  BY <1>1, <1>3 DEF Targets
<1>9. CycleIsReal'
  <2>1. \A d \in cycles :
           /\ Len(d) >= 2 /\ d[1] = d[Len(d)]
           /\ \A i \in 1 .. Len(d) - 1 : d[i + 1] \in Targets(d[i])
           /\ \A i, j \in 1 .. Len(d) - 1 : d[i] = d[j] => i = j
    BY DEF IInv, CycleIsReal
  <2> QED
    BY <2>1, <1>7, <1>8 DEF CycleIsReal
<1>10. TypeOK'
  BY <1>t, <1>1, <1>6, <1>7, <1>8 DEF TypeOK, Frames
<1>11. SeenOnce' /\ Phases'
  BY <1>1, <1>2 DEF IInv, SeenOnce, Phases
<1>12. Ordered'
  <2>1. \A k \in DOMAIN Seen : \A d \in Targets(Seen[k]) :
           (\E j \in 1 .. k - 1 : Seen[j] = d) \/ Excused(Seen[k], d)
    BY DEF IInv, Ordered
  <2> QED
    BY <2>1, <1>2, <1>8 DEF Ordered
<1> QED
  BY <1>6, <1>9, <1>10, <1>11, <1>12 DEF IInv

LEMMA SkipPreserves ==
    ASSUME IInv, ConstantsSkip
    PROVE  IInv'
<1>t. TypeOK /\ Reach
  BY DEF IInv
<1>1. /\ phase = "constants" /\ Following /\ Active(Import) /\ stack' = Advanced
      /\ Same /\ UNCHANGED <<imports, phase, root>>
  BY DEF ConstantsSkip, Same
<1>2. /\ Seen' = Seen
      /\ \A m, d \in Modules : Excused(m, d) => Excused(m, d)'
  BY <1>1, SameMeans
<1>4. PICK from : from = Top.name
  OBVIOUS
<1>5. PICK to : to = Import
  OBVIOUS
<1>6. from \in Needs(to)
  <2>1. PICK i \in DOMAIN stack : stack[i].name = to
    BY <1>1, <1>5 DEF Active
  <2>2. /\ Len(stack) \in Nat /\ DOMAIN stack = 1 .. Len(stack) /\ from = stack[Len(stack)].name
        /\ from \in Modules /\ to \in Targets(from) /\ Len(stack) \in DOMAIN stack
    BY <1>t, <1>1, <1>4, <1>5, StackFacts, ImportFacts
  <2>3. CASE i = Len(stack)
    BY <2>1, <2>2, <2>3, <1>t, NeedsImports
  <2>4. CASE i # Len(stack)
    <3>1. i < Len(stack)
      BY <2>2, <2>4
    <3> QED
      BY <3>1, <2>1, <2>2, <1>t DEF Reach
  <2> QED
    BY <2>3, <2>4
<1>7. Excused(from, to)'
  BY <1>1, <1>6, SameMeans DEF Excused
<1>8. /\ stack' \in Seq(Frames)
      /\ \A i \in DOMAIN stack' : stack'[i].at <= Len(imports'[stack'[i].name]) + 1
      /\ Path' /\ Simple' /\ Fresh' /\ Reach' /\ Followed' /\ Roots'
  BY <1>1, <1>2, <1>4, <1>5, <1>7, AdvancePreserves
<1>9. TypeOK'
  BY <1>1, <1>8 DEF IInv, TypeOK, Same, Frames
<1> QED
  BY <1>1, <1>8, <1>9, SameMeans DEF IInv

\* A call that returns: its module is done.
LEMMA LeavePreserves ==
    ASSUME IInv, Exhausted, stack' = Popped, UNCHANGED <<imports, phase, root, cycles>>,
           NEW m, m = Top.name, Seen' = Append(Seen, m)
    PROVE  /\ m \in Modules /\ stack' \in Seq(Frames)
           /\ \A i \in DOMAIN stack' : stack'[i].at <= Len(imports'[stack'[i].name]) + 1
           /\ Path' /\ Simple' /\ Fresh' /\ Reach' /\ Followed' /\ Roots'
           /\ SeenOnce' /\ Ordered'
<1>t. TypeOK
  BY DEF IInv
<1>1. /\ DOMAIN stack = 1 .. Len(stack) /\ stack # <<>> /\ m = stack[Len(stack)].name
      /\ stack[Len(stack)].at > Len(imports[m])
      /\ \A i \in 1 .. Len(stack) : /\ stack[i].name \in Modules /\ stack[i].at \in Nat \ {0}
                                    /\ stack[i].at <= Len(imports[stack[i].name]) + 1
  BY <1>t, StackFacts DEF Exhausted
<1>l. Len(stack) \in Nat \ {0}
  BY <1>t, StackFacts DEF Exhausted
<1>d. \A i \in 1 .. Len(stack) - 1 : i \in 1 .. Len(stack) /\ i # Len(stack)
  BY <1>l
<1>2. /\ stack' \in Seq(Frames) /\ Len(stack') = Len(stack) - 1
      /\ DOMAIN stack' = 1 .. Len(stack) - 1
      /\ \A i \in 1 .. Len(stack) - 1 : stack'[i] = stack[i]
  BY <1>t, <1>1, PoppedFacts
<1>m. m \in Modules
  BY <1>1, <1>l
<1>q. PICK old \in Seq(Modules) : old = Seen
  BY <1>t DEF TypeOK, Seen
<1>a. /\ Seen' \in Seq(Modules) /\ Len(Seen') = Len(old) + 1 /\ Len(old) \in Nat
      /\ DOMAIN old = 1 .. Len(old) /\ DOMAIN Seen' = 1 .. Len(old) + 1
      /\ \A i \in 1 .. Len(old) : Seen'[i] = old[i]
      /\ Seen'[Len(old) + 1] = m
  <2> HIDE DEF Seen
  <2> QED
    BY <1>q, <1>m, AppendProperties
<1>c. \A i \in 1 .. Len(old) + 1 : i \in 1 .. Len(old) \/ i = Len(old) + 1
  BY <1>a
<1>b. \A x : In(x, Seen)' <=> In(x, old) \/ x = m
  <2> SUFFICES ASSUME NEW x
               PROVE  In(x, Seen)' <=> In(x, old) \/ x = m
    OBVIOUS
  <2>1. In(x, Seen)' <=> \E i \in 1 .. Len(old) + 1 : Seen'[i] = x
    BY <1>a DEF In
  <2>2. In(x, old) <=> \E i \in 1 .. Len(old) : old[i] = x
    BY <1>a DEF In
  <2>3. \A i \in 1 .. Len(old) : i \in 1 .. Len(old) + 1
    BY <1>a
  <2>4. Len(old) + 1 \in 1 .. Len(old) + 1
    BY <1>a
  <2> QED
    BY <2>1, <2>2, <2>3, <2>4, <1>a, <1>c
<1>s. /\ imports' = imports /\ phase' = phase /\ root' = root
      /\ \A x : Needs(x)' = Needs(x) /\ Targets(x)' = Targets(x)
      /\ \A x, d : Excused(x, d)' = Excused(x, d)
  BY DEF Needs, Targets, Closed, Excused, StartsCycle
<1>3. \A i \in DOMAIN stack' : stack'[i].at <= Len(imports'[stack'[i].name]) + 1
  BY <1>1, <1>2, <1>s, <1>d
<1>4. Path'
  <2>1. \A i \in 1 .. Len(stack) - 1 : stack[i].at >= 2
              /\ stack[i + 1].name = imports[stack[i].name][stack[i].at - 1]
    BY DEF IInv, Path
  <2> SUFFICES ASSUME NEW i \in 1 .. (Len(stack) - 1) - 1
               PROVE  /\ stack'[i].at >= 2
                      /\ stack'[i + 1].name = imports[stack'[i].name][stack'[i].at - 1]
    BY <1>2, <1>s DEF Path
  <2>2. i \in 1 .. Len(stack) - 1 /\ i + 1 \in 1 .. Len(stack) - 1
    BY <1>l
  <2>3. stack'[i] = stack[i] /\ stack'[i + 1] = stack[i + 1]
    BY <2>2, <1>2
  <2> QED
    BY <2>1, <2>2, <2>3
<1>u. \A i, j \in 1 .. Len(stack) : stack[i].name = stack[j].name => i = j
  BY <1>1 DEF IInv, Simple
<1>5. Simple'
  <2> SUFFICES ASSUME NEW i \in 1 .. Len(stack) - 1, NEW j \in 1 .. Len(stack) - 1,
                      stack'[i].name = stack'[j].name
               PROVE  i = j
    BY <1>2 DEF Simple
  <2> QED
    BY <1>2, <1>d, <1>u
<1>6. Fresh'
  <2>a. \A i \in 1 .. Len(stack) : ~ In(stack[i].name, Seen)
    BY <1>1 DEF IInv, Fresh
  <2>1. \A i \in 1 .. Len(stack) : ~ In(stack[i].name, old)
    BY <2>a, <1>q
  <2>2. \A i \in 1 .. Len(stack) - 1 : stack[i].name # m
    <3>1. Len(stack) \in 1 .. Len(stack) /\ m = stack[Len(stack)].name
      BY <1>1, <1>l
    <3> QED
      BY <3>1, <1>d, <1>u
  <2> SUFFICES ASSUME NEW i \in 1 .. Len(stack) - 1, NEW x, x = stack'[i].name
               PROVE  ~ In(x, Seen)'
    BY <1>2 DEF Fresh
  <2>3. x = stack[i].name
    BY <1>2
  <2> QED
    BY <2>1, <2>2, <2>3, <1>b, <1>d
<1>7. Reach'
  <2>1. \A i, j \in 1 .. Len(stack) : i < j => stack[j].name \in Needs(stack[i].name)
    BY <1>1 DEF IInv, Reach
  <2> SUFFICES ASSUME NEW i \in 1 .. Len(stack) - 1, NEW j \in 1 .. Len(stack) - 1, i < j,
                      NEW x, x = stack'[i].name
               PROVE  stack'[j].name \in Needs(x)
    BY <1>2, <1>s DEF Reach
  <2> QED
    BY <2>1, <1>2, <1>d
<1>8. Roots'
  <2>1. /\ \A r \in 1 .. root - 1 : In(Order[r], old) \/ stack[1].name = Order[r]
        /\ phase # "linked"
    BY <1>1, <1>q DEF IInv, Roots
  <2>2. phase' = phase /\ root' = root
    BY <1>s
  <2>3. CASE Len(stack) = 1
    <3>1. stack[1].name = m
      BY <2>3, <1>1
    <3>2. phase' # "linked"
      BY <2>1, <2>2
    <3> SUFFICES ASSUME NEW r \in 1 .. root' - 1, NEW x, x = Order[r]
                 PROVE  In(x, Seen)'
      BY <3>2 DEF Roots
    <3> QED
      BY <3>1, <2>1, <2>2, <1>b
  <2>4. CASE Len(stack) # 1
    <3>1. 1 \in 1 .. Len(stack) - 1 /\ Len(stack) - 1 # 0
      <4>1. \A n \in Nat \ {0} : n # 1 => 1 \in 1 .. n - 1 /\ n - 1 # 0
        OBVIOUS
      <4> QED
        BY <4>1, <2>4, <1>l
    <3>2. Len(stack') = Len(stack) - 1 /\ Len(<<>>) = 0
      BY <1>2
    <3>3. stack' # <<>> /\ stack'[1] = stack[1]
      BY <3>1, <3>2, <1>2
    <3> QED
      BY <3>3, <2>1, <2>2, <1>b DEF Roots
  <2> QED
    BY <2>3, <2>4
<1>f. \A i \in 1 .. Len(stack) : \A n \in 1 .. stack[i].at - 1 :
         \/ In(imports[stack[i].name][n], old)
         \/ Excused(stack[i].name, imports[stack[i].name][n])
         \/ i < Len(stack) /\ n = stack[i].at - 1
  <2>1. \A i \in 1 .. Len(stack) : \A n \in 1 .. stack[i].at - 1 :
           \/ In(imports[stack[i].name][n], Seen)
           \/ Excused(stack[i].name, imports[stack[i].name][n])
           \/ i < Len(stack) /\ n = stack[i].at - 1
    BY <1>1 DEF IInv, Followed
  <2> QED
    BY <2>1, <1>q
<1>9. Followed'
  <2> SUFFICES ASSUME NEW i \in DOMAIN stack', NEW n \in 1 .. stack'[i].at - 1,
                      NEW x, NEW d, x = stack'[i].name, d = imports'[x][n]
               PROVE  \/ In(d, Seen)' \/ Excused(x, d)'
                      \/ i < Len(stack') /\ n = stack'[i].at - 1
    BY DEF Followed
  <2>1. /\ i \in 1 .. Len(stack) - 1 /\ stack'[i] = stack[i] /\ d = imports[x][n]
        /\ Excused(x, d)' <=> Excused(x, d)
        /\ In(d, Seen)' <=> In(d, old) \/ d = m
    BY <1>2, <1>b, <1>s
  <2>2. In(d, old) \/ Excused(x, d) \/ n = stack[i].at - 1
    BY <2>1, <1>d, <1>f
  <2>3. i = Len(stack) - 1 /\ n = stack[i].at - 1 => d = m
    <3>1. stack[i + 1].name = imports[stack[i].name][stack[i].at - 1]
      BY <2>1 DEF IInv, Path
    <3>2. i = Len(stack) - 1 => i + 1 = Len(stack)
      BY <1>l
    <3> QED
      BY <3>1, <3>2, <2>1, <1>1
  <2>4. i # Len(stack) - 1 => i < Len(stack) - 1
    BY <2>1, <1>l
  <2> QED
    BY <2>1, <2>2, <2>3, <2>4, <1>2
<1>10. SeenOnce'
  <2>1. \A i, j \in 1 .. Len(old) : old[i] = old[j] => i = j
    BY <1>q, <1>a DEF IInv, SeenOnce
  <2>2. \A i \in 1 .. Len(old) : old[i] # m
    <3>1. ~ In(m, old)
      BY <1>1, <1>l, <1>q DEF IInv, Fresh
    <3> QED
      BY <3>1, <1>a DEF In
  <2> SUFFICES ASSUME NEW i \in 1 .. Len(old) + 1, NEW j \in 1 .. Len(old) + 1,
                      Seen'[i] = Seen'[j]
               PROVE  i = j
    BY <1>a DEF SeenOnce
  <2> QED
    BY <2>1, <2>2, <1>a, <1>c
<1>11. Ordered'
  <2>1. \A k \in 1 .. Len(old) : \A d \in Targets(old[k]) :
           (\E j \in 1 .. k - 1 : old[j] = d) \/ Excused(old[k], d)
    BY <1>q, <1>a DEF IInv, Ordered
  <2> SUFFICES ASSUME NEW k \in 1 .. Len(old) + 1, NEW x, x = Seen'[k], NEW d \in Targets(x)
               PROVE  (\E j \in 1 .. k - 1 : Seen'[j] = d) \/ Excused(x, d)'
    <3>1. \A k \in 1 .. Len(old) + 1 : \A x, d : x = Seen'[k] /\ d \in Targets(x) =>
             (\E j \in 1 .. k - 1 : Seen'[j] = d) \/ Excused(x, d)'
      OBVIOUS
    <3> SUFFICES ASSUME NEW k \in DOMAIN Seen', NEW x, x = Seen'[k], NEW d \in Targets(x)'
                 PROVE  (\E j \in 1 .. k - 1 : Seen'[j] = d) \/ Excused(x, d)'
      BY DEF Ordered
    <3> QED
      BY <3>1, <1>a, <1>s
  <2>2. CASE k \in 1 .. Len(old)
    <3>1. x = old[k] /\ (Excused(x, d)' <=> Excused(x, d))
      BY <2>2, <1>a, <1>s
    <3>2. \A j \in 1 .. k - 1 : j \in 1 .. Len(old)
      BY <2>2, <1>a
    <3> QED
      BY <2>1, <2>2, <3>1, <3>2, <1>a
  <2>3. CASE k = Len(old) + 1
    <3>1. x = m /\ (Excused(x, d)' <=> Excused(x, d)) /\ k - 1 = Len(old)
      BY <2>3, <1>a, <1>s
    <3>2. PICK n \in 1 .. Len(imports[m]) : d = imports[m][n]
      BY <3>1, <1>m, <1>t, ImportsAreModules
    <3>3. Len(imports[m]) \in Nat
      BY <1>m, <1>t, ImportsAreModules
    <3>4. Len(stack) \in 1 .. Len(stack) /\ ~ (Len(stack) < Len(stack))
      BY <1>l
    <3>5. stack[Len(stack)].at \in Nat
      BY <3>4, <1>1
    <3>6. n \in 1 .. stack[Len(stack)].at - 1
      BY <3>3, <3>5, <1>1
    <3>7. In(d, old) \/ Excused(m, d)
      BY <3>2, <3>4, <3>6, <1>1, <1>f
    <3>8. In(d, old) => \E j \in 1 .. Len(old) : Seen'[j] = d
      BY <1>a DEF In
    <3> QED
      BY <3>1, <3>7, <3>8
  <2> QED
    BY <2>2, <2>3, <1>c
<1> QED
  BY <1>m, <1>2, <1>3, <1>4, <1>5, <1>6, <1>7, <1>8, <1>9, <1>10, <1>11

LEMMA FinishPreserves ==
    ASSUME IInv, Finish
    PROVE  IInv'
<1>1. /\ phase = "cycles" /\ Exhausted /\ stack' = Popped
      /\ UNCHANGED <<imports, phase, root, cycles>> /\ checked' = checked
      /\ finished' = Append(finished, Top.name)
  BY DEF Finish
<1>2. PICK m : m = Top.name
  OBVIOUS
<1>3. Seen' = Append(Seen, m)
  BY <1>1, <1>2 DEF Seen
<1>4. /\ m \in Modules /\ stack' \in Seq(Frames)
      /\ \A i \in DOMAIN stack' : stack'[i].at <= Len(imports'[stack'[i].name]) + 1
      /\ Path' /\ Simple' /\ Fresh' /\ Reach' /\ Followed' /\ Roots'
      /\ SeenOnce' /\ Ordered'
  BY <1>1, <1>2, <1>3, LeavePreserves
<1>5. finished' \in Seq(Modules)
  BY <1>1, <1>2, <1>4 DEF IInv, TypeOK
<1>6. TypeOK'
  BY <1>1, <1>4, <1>5 DEF IInv, TypeOK, Frames
<1>7. Phases' /\ CycleIsReal'
  BY <1>1, SameCycles DEF IInv, Phases
<1> QED
  BY <1>4, <1>6, <1>7 DEF IInv

LEMMA CheckPreserves ==
    ASSUME IInv, CheckConstants
    PROVE  IInv'
<1>1. /\ phase = "constants" /\ Exhausted /\ stack' = Popped
      /\ UNCHANGED <<imports, phase, root, cycles>> /\ finished' = finished
      /\ checked' = Append(checked, Top.name)
  BY DEF CheckConstants
<1>2. PICK m : m = Top.name
  OBVIOUS
<1>3. Seen' = Append(Seen, m)
  BY <1>1, <1>2 DEF Seen
<1>4. /\ m \in Modules /\ stack' \in Seq(Frames)
      /\ \A i \in DOMAIN stack' : stack'[i].at <= Len(imports'[stack'[i].name]) + 1
      /\ Path' /\ Simple' /\ Fresh' /\ Reach' /\ Followed' /\ Roots'
      /\ SeenOnce' /\ Ordered'
  BY <1>1, <1>2, <1>3, LeavePreserves
<1>5. checked' \in Seq(Modules)
  BY <1>1, <1>2, <1>4 DEF IInv, TypeOK
<1>6. TypeOK'
  BY <1>1, <1>4, <1>5 DEF IInv, TypeOK, Frames
<1>7. Phases' /\ CycleIsReal'
  BY <1>1, SameCycles, SamePhases DEF IInv
<1> QED
  BY <1>4, <1>6, <1>7 DEF IInv

\* The first walk ends: every module is finished, and without a cycle the
\* order in which they did is one of the import relation.
LEMMA EndCyclesPreserves ==
    ASSUME IInv, EndCycles
    PROVE  IInv'
<1>1. /\ phase = "cycles" /\ stack = <<>> /\ root > Len(Order)
      /\ phase' = "constants" /\ root' = 1
      /\ UNCHANGED <<imports, stack, finished, cycles, checked>>
  BY DEF EndCycles
<1>t. TypeOK /\ checked = <<>> /\ Len(Order) \in Nat /\ DOMAIN Order = 1 .. Len(Order)
  BY <1>1, GraphAssumption DEF IInv, Phases
<1>2. Seen = finished /\ Seen' = <<>>
  BY <1>1, <1>t DEF Seen
<1>3. TypeOK'
  BY <1>1, <1>t DEF TypeOK
<1>4. Path' /\ Simple' /\ Reach' /\ Followed' /\ Fresh' /\ SeenOnce' /\ Ordered'
  BY <1>1, <1>2 DEF Path, Simple, Reach, Followed, Fresh, SeenOnce, Ordered
<1>5. Roots'
  BY <1>1 DEF Roots
<1>6. CycleIsReal'
  BY <1>1, SameCycles DEF IInv
<1>7. Phases'
  <2>1. \A m \in Modules : In(m, finished)
    <3> SUFFICES ASSUME NEW m \in Modules
                 PROVE  In(m, finished)
      OBVIOUS
    <3>1. PICK r \in 1 .. Len(Order) : Order[r] = m
      BY <1>t, GraphAssumption
    <3>2. r \in 1 .. root - 1
      BY <1>1, <1>t DEF TypeOK
    <3> QED
      BY <3>1, <3>2, <1>1, <1>2 DEF IInv, Roots
  <2>2. \A k \in DOMAIN finished : \A d \in Targets(finished[k]) :
           (\E j \in 1 .. k - 1 : finished[j] = d) \/ StartsCycle(d)
    <3>1. \A m, d : Excused(m, d) => StartsCycle(d)
      BY <1>1 DEF Excused
    <3> QED
      BY <3>1, <1>2 DEF IInv, Ordered
  <2>3. \A i, j \in DOMAIN finished : finished[i] = finished[j] => i = j
    BY <1>2 DEF IInv, SeenOnce
  <2> QED
    BY <2>1, <2>2, <2>3, <1>1, <1>t DEF Phases, Targets, In, StartsCycle
<1> QED
  BY <1>3, <1>4, <1>5, <1>6, <1>7 DEF IInv

LEMMA EndConstantsPreserves ==
    ASSUME IInv, EndConstants
    PROVE  IInv'
<1>1. /\ phase = "constants" /\ stack = <<>> /\ root > Len(Order) /\ phase' = "linked"
      /\ UNCHANGED <<imports, root, stack, finished, cycles, checked>>
  BY DEF EndConstants
<1>2. Seen' = Seen /\ \A m, d : Excused(m, d)' = Excused(m, d)
  BY <1>1 DEF Seen, Excused, StartsCycle, Needs, Targets, Closed
<1>3. TypeOK' /\ CycleIsReal'
  BY <1>1, SameCycles DEF IInv, TypeOK
<1>4. Path' /\ Simple' /\ Reach' /\ Followed' /\ Fresh'
  BY <1>1 DEF Path, Simple, Reach, Followed, Fresh
<1>5. SeenOnce' /\ Ordered'
  BY <1>1, <1>2 DEF IInv, SeenOnce, Ordered, Targets
<1>6. Roots' /\ Phases'
  BY <1>1, <1>2, SamePhases DEF IInv, Roots, In
<1> QED
  BY <1>3, <1>4, <1>5, <1>6 DEF IInv

LEMMA InitInvariant == Init => IInv
<1> SUFFICES ASSUME Init PROVE IInv
  OBVIOUS
<1>1. /\ imports \in Graphs /\ phase = "cycles" /\ root = 1 /\ stack = <<>>
      /\ finished = <<>> /\ cycles = {} /\ checked = <<>> /\ Seen = <<>>
  BY DEF Init, Seen
<1>2. TypeOK
  BY <1>1, GraphAssumption DEF TypeOK
<1>3. Path /\ Simple /\ Reach /\ Followed /\ Fresh /\ SeenOnce /\ Ordered
  BY <1>1 DEF Path, Simple, Reach, Followed, Fresh, SeenOnce, Ordered
<1>4. Roots /\ Phases /\ CycleIsReal
  BY <1>1 DEF Roots, Phases, CycleIsReal
<1> QED
  BY <1>2, <1>3, <1>4 DEF IInv

LEMMA StepInvariant == IInv /\ [Next]_vars => IInv'
<1> SUFFICES ASSUME IInv, [Next]_vars PROVE IInv'
  OBVIOUS
<1>1. CASE VisitRoot
  BY <1>1, StartPreserves DEF VisitRoot, Seen
<1>2. CASE VisitImport
  BY <1>2, FollowPreserves DEF VisitImport, Seen
<1>3. CASE ReportCycle
  BY <1>3, ReportPreserves
<1>4. CASE Finish
  BY <1>4, FinishPreserves
<1>5. CASE EndCycles
  BY <1>5, EndCyclesPreserves
<1>6. CASE ConstantsRoot
  BY <1>6, StartPreserves DEF ConstantsRoot, Seen
<1>7. CASE ConstantsImport
  BY <1>7, FollowPreserves DEF ConstantsImport, Seen
<1>8. CASE ConstantsSkip
  BY <1>8, SkipPreserves
<1>9. CASE CheckConstants
  BY <1>9, CheckPreserves
<1>10. CASE EndConstants
  BY <1>10, EndConstantsPreserves
<1>11. CASE UNCHANGED vars
  <2>1. UNCHANGED root /\ UNCHANGED stack /\ Same
    BY <1>11 DEF vars, Same
  <2>2. /\ imports' = imports /\ phase' = phase /\ Seen' = Seen
        /\ \A m, d : Excused(m, d)' = Excused(m, d)
        /\ \A m : Needs(m)' = Needs(m)
    BY <2>1, SameMeans DEF Same
  <2>3. TypeOK'
    BY <2>1 DEF IInv, TypeOK, Same
  <2>4. Path' /\ Simple' /\ Reach' /\ Fresh' /\ Roots'
    BY <2>1, <2>2 DEF IInv, Path, Simple, Reach, Fresh, Roots, In
  <2>5. Followed'
    BY <2>1, <2>2 DEF IInv, Followed, In
  <2> QED
    BY <2>1, <2>3, <2>4, <2>5, SameMeans DEF IInv
<1> QED
  BY <1>1, <1>2, <1>3, <1>4, <1>5, <1>6, <1>7, <1>8, <1>9, <1>10, <1>11 DEF Next, Linked

----------------------------------------------------------------------------
(* The theorems                                                              *)

\* The invariant of the two walks, of which the theorems below are consequences.
THEOREM Invariant == Spec => []IInv
<1>1. Init => IInv
  BY InitInvariant
<1>2. IInv /\ [Next]_vars => IInv'
  BY StepInvariant
<1> QED
  BY <1>1, <1>2, PTL DEF Spec

\* Every variable of the walks has its type, and no call looks further than
\* the end of its import list.
THEOREM WalkTypeCorrect == Spec => []TypeOK
<1>1. IInv => TypeOK
  BY DEF IInv
<1> QED
  BY <1>1, Invariant, PTL

\* Only real cycles are reported as PP105, on import graphs of any size.
THEOREM ReportsRealCycles == Spec => []CycleIsReal
<1>1. IInv => CycleIsReal
  BY DEF IInv
<1> QED
  BY <1>1, Invariant, PTL

\* A program that passes the cycle search has no import cycle: no module needs
\* itself, in whatever order the modules and their imports are listed.
THEOREM AcceptsOnlyAcyclic == Spec => []AcceptedIsAcyclic
<1>1. IInv => AcceptedIsAcyclic
  <2> SUFFICES ASSUME IInv, phase # "cycles", cycles = {}, NEW m \in Modules
               PROVE  m \notin Needs(m)
    BY DEF AcceptedIsAcyclic
  <2>1. PICK k \in DOMAIN finished : finished[k] = m
    BY DEF IInv, Phases, In
  <2>2. \A i \in DOMAIN finished : \A d \in Targets(finished[i]) :
           \E j \in 1 .. i - 1 : finished[j] = d
    BY DEF IInv, Phases, StartsCycle
  <2>3. TypeOK /\ finished \in Seq(Modules)
    BY DEF IInv, TypeOK
  <2>4. \A i, j \in DOMAIN finished : finished[i] = finished[j] => i = j
    BY DEF IInv, Phases
  <2> QED
    BY <2>1, <2>2, <2>3, <2>4, OrderedIsAcyclic
<1> QED
  BY <1>1, Invariant, PTL

\* A rejected program is rejected for each of its knots: of every set of modules
\* that import one another, directly or not, some cycle is reported.
THEOREM ReportsEveryKnot == Spec => []EveryKnotReported
<1>1. IInv => EveryKnotReported
  <2> SUFFICES ASSUME IInv, phase = "linked", NEW m \in Modules, m \in Needs(m)
               PROVE  \E c \in cycles : c[1] \in Needs(m) /\ m \in Needs(c[1])
    BY DEF EveryKnotReported
  <2>1. /\ \A i, j \in DOMAIN finished : finished[i] = finished[j] => i = j
        /\ \A x \in Modules : In(x, finished)
        /\ \A k \in DOMAIN finished : \A d \in Targets(finished[k]) :
              (\E j \in 1 .. k - 1 : finished[j] = d) \/ StartsCycle(d)
    BY DEF IInv, Phases
  <2>2. PICK k \in DOMAIN finished : finished[k] = m
    BY <2>1 DEF In
  <2>3. TypeOK /\ finished \in Seq(Modules)
    BY DEF IInv, TypeOK
  <2> QED
    BY <2>1, <2>2, <2>3, KnotHasCycle
<1> QED
  BY <1>1, Invariant, PTL

\* No order is lost to the search: the constants of a module come after those
\* of its imports, except of the modules that need it in turn.
THEOREM ChecksConstantsInOrder == Spec => []ConstantsAfterImports
<1>1. IInv => ConstantsAfterImports
  <2> SUFFICES ASSUME IInv, NEW k \in DOMAIN checked, NEW d \in Targets(checked[k])
               PROVE  (\E j \in 1 .. k - 1 : checked[j] = d) \/ checked[k] \in Needs(d)
    BY DEF ConstantsAfterImports
  <2>1. phase # "cycles"
    BY DEF IInv, Phases
  <2>2. Seen = checked /\ (Excused(checked[k], d) <=> checked[k] \in Needs(d))
    BY <2>1 DEF Seen, Excused
  <2> QED
    BY <2>2 DEF IInv, Ordered
<1> QED
  BY <1>1, Invariant, PTL

\* Every module's constants are checked, once, whatever the graph.
THEOREM ChecksConstantsOnce == Spec => []ConstantsOnce
<1>1. IInv => ConstantsOnce
  <2> SUFFICES ASSUME IInv PROVE ConstantsOnce
    OBVIOUS
  <2>1. \A i, j \in DOMAIN checked : checked[i] = checked[j] => i = j
    <3>1. CASE phase = "cycles"
      BY <3>1 DEF IInv, Phases
    <3>2. CASE phase # "cycles"
      BY <3>2 DEF IInv, SeenOnce, Seen
    <3> QED
      BY <3>1, <3>2
  <2>2. ASSUME phase = "linked", NEW m \in Modules PROVE In(m, checked)
    <3>1. PICK r \in 1 .. Len(Order) : Order[r] = m
      BY GraphAssumption
    <3>2. stack = <<>> /\ root > Len(Order) /\ Seen = checked
      BY <2>2 DEF IInv, Roots, Seen
    <3>3. r \in 1 .. root - 1
      BY <3>1, <3>2, GraphAssumption DEF IInv, TypeOK
    <3> QED
      BY <3>1, <3>2, <3>3 DEF IInv, Roots
  <2> QED
    BY <2>1, <2>2 DEF ConstantsOnce
<1> QED
  BY <1>1, Invariant, PTL

\* The recursion is no deeper than there are modules: the calls in progress
\* are an injection into the modules.
THEOREM RecursionIsBounded ==
    ASSUME IsFiniteSet(Modules)
    PROVE  Spec => []RecursionBounded
<1>1. IInv => RecursionBounded
  <2> SUFFICES ASSUME IInv PROVE Len(stack) <= Cardinality(Modules)
    BY DEF RecursionBounded
  <2>1. /\ Len(stack) \in Nat /\ DOMAIN stack = 1 .. Len(stack)
        /\ \A i \in DOMAIN stack : stack[i].name \in Modules
    BY StackFacts DEF IInv
  <2> DEFINE f == [i \in 1 .. Len(stack) |-> stack[i].name]
  <2>2. f \in Injection(1 .. Len(stack), Modules)
    BY <2>1 DEF IInv, Simple, Injection, IsInjective
  <2>3. IsFiniteSet(1 .. Len(stack)) /\ Cardinality(1 .. Len(stack)) = Len(stack)
    BY <2>1, FS_Interval
  <2>4. Cardinality(1 .. Len(stack)) <= Cardinality(Modules)
    BY <2>2, FS_Injection
  <2> QED
    BY <2>3, <2>4
<1> QED
  BY <1>1, Invariant, PTL

============================================================================
