---------------------------- MODULE ImportGraph ----------------------------
(* The two walks of the linker over the import graph (Link and cycles in     *)
(* internal/check/program.go): the first reports import cycles, the second   *)
(* checks the constants of a module after those of the modules it imports.   *)
(* Both are depth-first searches that start from every module in the order   *)
(* of the names; here a call of the recursive function is a frame.           *)
EXTENDS Integers, Sequences, FiniteSets

CONSTANTS Modules,  \* names of the project's modules
          Order,    \* the same, sorted: Program.Order
          Graphs    \* the import lists considered

ASSUME GraphAssumption ==
    /\ Order \in Seq(Modules)
    /\ \A m \in Modules : \E i \in DOMAIN Order : Order[i] = m
    /\ Graphs \subseteq [Modules -> Seq(Modules)]

VARIABLES
    imports,   \* Module.Imports: the project modules a module imports, as listed
    phase,     \* cycles, constants, linked
    root,      \* the index in Order of the module to start from next
    stack,     \* the calls in progress: a module and its import to follow next
    finished,  \* the modules with state 2, in the order they got there
    cycles,    \* the cycles reported (PP105), each a path that ends where it began
    checked    \* the modules whose constants were checked, in that order

vars == <<imports, phase, root, stack, finished, cycles, checked>>

Init ==
    /\ imports \in Graphs
    /\ phase = "cycles"
    /\ root = 1
    /\ stack = <<>>
    /\ finished = <<>>
    /\ cycles = {}
    /\ checked = <<>>

In(m, s) == \E i \in DOMAIN s : s[i] = m

\* state[m] is 1, or visiting[m] holds and done[m] does not yet.
Active(m) == \E i \in DOMAIN stack : stack[i].name = m

Frame(m) == [name |-> m, at |-> 1]
Top == stack[Len(stack)]
Advanced == [stack EXCEPT ![Len(stack)].at = @ + 1]
Popped == SubSeq(stack, 1, Len(stack) - 1)

\* The import the innermost call looks at.
Following == stack # <<>> /\ Top.at <= Len(imports[Top.name])
Import == imports[Top.name][Top.at]
Exhausted == stack # <<>> /\ Top.at > Len(imports[Top.name])

\* Slip: the whole path is reported, with the modules that lead to the cycle.
ClosingFromRoot(m) ==
    [i \in 1 .. Len(stack) + 1 |-> IF i = Len(stack) + 1 THEN m ELSE stack[i].name]

\* The path of the calls in progress from m on, and m once more.
Closing(m) ==
    LET first == CHOOSE i \in DOMAIN stack : stack[i].name = m
    IN  [i \in 1 .. Len(stack) - first + 2 |->
            IF i = Len(stack) - first + 2 THEN m ELSE stack[first + i - 1].name]

\* Slip: a start visits its module whether it was visited before or not.
StartAlways(seen) ==
    /\ stack = <<>> /\ root <= Len(Order)
    /\ root' = root + 1
    /\ stack' = <<Frame(Order[root])>>
    /\ UNCHANGED <<imports, phase, finished, cycles, checked>>

\* for _, n := range p.Order { visit(n, nil) }, and the same for constants.
Start(seen) ==
    /\ stack = <<>> /\ root <= Len(Order)
    /\ root' = root + 1
    /\ stack' = IF In(Order[root], seen) THEN stack ELSE <<Frame(Order[root])>>
    /\ UNCHANGED <<imports, phase, finished, cycles, checked>>

\* The import was visited before, or it starts a call of its own.
Follow(seen) ==
    /\ Following /\ ~ Active(Import)
    /\ stack' = IF In(Import, seen) THEN Advanced ELSE Append(Advanced, Frame(Import))
    /\ UNCHANGED <<imports, phase, root, finished, cycles, checked>>

VisitRoot == phase = "cycles" /\ Start(finished)
VisitImport == phase = "cycles" /\ Follow(finished)

\* Slip: an import of the module itself is not taken for a cycle.
ReportLongerCycle ==
    /\ phase = "cycles"
    /\ Following /\ Active(Import)
    /\ stack' = Advanced
    /\ cycles' = IF Import = Top.name THEN cycles ELSE cycles \cup {Closing(Import)}
    /\ UNCHANGED <<imports, phase, root, finished, checked>>

\* Slip: the search goes on after a cycle, but only the first is reported.
ReportFirstCycle ==
    /\ phase = "cycles"
    /\ Following /\ Active(Import)
    /\ stack' = Advanced
    /\ cycles' = IF cycles = {} THEN {Closing(Import)} ELSE cycles
    /\ UNCHANGED <<imports, phase, root, finished, checked>>

\* state[name] == 1: the path from there on is a cycle.
ReportCycle ==
    /\ phase = "cycles"
    /\ Following /\ Active(Import)
    /\ stack' = Advanced
    /\ cycles' = cycles \cup {Closing(Import)}
    /\ UNCHANGED <<imports, phase, root, finished, checked>>

Finish ==
    /\ phase = "cycles"
    /\ Exhausted
    /\ finished' = Append(finished, Top.name)
    /\ stack' = Popped
    /\ UNCHANGED <<imports, phase, root, cycles, checked>>

EndCycles ==
    /\ phase = "cycles" /\ stack = <<>> /\ root > Len(Order)
    /\ phase' = "constants"
    /\ root' = 1
    /\ UNCHANGED <<imports, stack, finished, cycles, checked>>

ConstantsRoot == phase = "constants" /\ Start(checked)
ConstantsImport == phase = "constants" /\ Follow(checked)

\* Slip: only done is looked at, a module being visited is visited again.
ConstantsAgain ==
    /\ phase = "constants"
    /\ Following /\ Active(Import)
    /\ stack' = Append(Advanced, Frame(Import))
    /\ UNCHANGED <<imports, phase, root, finished, cycles, checked>>

\* visiting[name]: on a rejected cycle the import is passed over.
ConstantsSkip ==
    /\ phase = "constants"
    /\ Following /\ Active(Import)
    /\ stack' = Advanced
    /\ UNCHANGED <<imports, phase, root, finished, cycles, checked>>

\* Slip: the constants of a module are checked before its imports are visited.
CheckConstantsEarly ==
    /\ phase = "constants" /\ stack # <<>>
    /\ checked' = Append(checked, Top.name)
    /\ stack' = Popped
    /\ UNCHANGED <<imports, phase, root, finished, cycles>>

\* p.constants(m); done[name] = true
CheckConstants ==
    /\ phase = "constants"
    /\ Exhausted
    /\ checked' = Append(checked, Top.name)
    /\ stack' = Popped
    /\ UNCHANGED <<imports, phase, root, finished, cycles>>

EndConstants ==
    /\ phase = "constants" /\ stack = <<>> /\ root > Len(Order)
    /\ phase' = "linked"
    /\ UNCHANGED <<imports, root, stack, finished, cycles, checked>>

Linked == phase = "linked" /\ UNCHANGED vars

Next ==
    \/ VisitRoot \/ VisitImport \/ ReportCycle \/ Finish \/ EndCycles
    \/ ConstantsRoot \/ ConstantsImport \/ ConstantsSkip \/ CheckConstants \/ EndConstants
    \/ Linked

Spec == Init /\ [][Next]_vars /\ WF_vars(Next)

----------------------------------------------------------------------------

Targets(m) == {imports[m][i] : i \in DOMAIN imports[m]}
Closed(S) == \A y \in S : Targets(y) \subseteq S

\* Everything m imports, directly or by way of others: what belongs to every
\* set of modules that has the imports of m and of its own members.
Needs(m) == {x \in Modules : \A S \in SUBSET Modules :
                                Targets(m) \subseteq S /\ Closed(S) => x \in S}

TypeOK ==
    /\ imports \in Graphs
    /\ phase \in {"cycles", "constants", "linked"}
    /\ root \in 1 .. Len(Order) + 1
    /\ stack \in Seq([name : Modules, at : Nat \ {0}])
    /\ \A i \in DOMAIN stack : stack[i].at <= Len(imports[stack[i].name]) + 1
    /\ finished \in Seq(Modules)
    /\ checked \in Seq(Modules)
    /\ \A c \in cycles : c \in Seq(Modules)

\* A module is never visited while it is being visited: the recursion ends,
\* on cyclic graphs too, and is never deeper than there are modules.
RecursionBounded == Len(stack) <= Cardinality(Modules)

\* What is reported as an import cycle is one: each module imports the next,
\* the last is the first again, and no other occurs twice.
CycleIsReal ==
    \A c \in cycles :
        /\ Len(c) >= 2 /\ c[1] = c[Len(c)]
        /\ \A i \in 1 .. Len(c) - 1 : c[i + 1] \in Targets(c[i])
        /\ \A i, j \in 1 .. Len(c) - 1 : c[i] = c[j] => i = j

\* A program that is accepted has no import cycle, whatever order the search
\* took through it.
AcceptedIsAcyclic ==
    phase = "linked" /\ cycles = {} => \A m \in Modules : m \notin Needs(m)

\* Of every set of modules that import one another some cycle is reported.
EveryKnotReported ==
    phase = "linked" => \A m \in Modules : m \in Needs(m) =>
        \E c \in cycles : c[1] \in Needs(m) /\ m \in Needs(c[1])

\* The constants of an imported module are checked before those of the module
\* that imports it, unless the two import one another.
ConstantsAfterImports ==
    \A k \in DOMAIN checked : \A d \in Targets(checked[k]) :
        (\E j \in 1 .. k - 1 : checked[j] = d) \/ checked[k] \in Needs(d)

\* The constants of every module are checked, and only once: their
\* diagnostics are neither lost nor doubled.
ConstantsOnce ==
    /\ \A i, j \in DOMAIN checked : checked[i] = checked[j] => i = j
    /\ phase = "linked" => \A m \in Modules : In(m, checked)

============================================================================
