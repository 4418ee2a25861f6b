--------------------------- MODULE ResolutionProofs ---------------------------
(* The two analyses that the checkers make of the calls they have collected: *)
(* the resolution of callbacks, and the search for cycles of generic calls.  *)
EXTENDS CallbackProvenance, GenericCycles, FunctionTheorems, FiniteSetTheorems, TLAPS

----------------------------------------------------------------------------
(* What resolveCallbacks guarantees for every program, budget and number of   *)
(* checks: when it resolves, it has computed the least closed assignment, and *)
(* the capability report hides nothing the program calls.                     *)
(* ResolvedIsLeast is not inductive.  Least says that the assignment is below *)
(* every closed one at any time; Progress, what is closed already in a pass   *)
(* that has found nothing new so far.  A pass that ends so has closed all.    *)

Assignments == [Slots -> SUBSET Functions]
Below(v, w) == \A s \in Slots : v[s] \subseteq w[s]

Binding == [slot : Slots, source : Sources]
Argument == [position : Nat, source : Sources]
Invocation == [target : Sources, arguments : Seq(Argument)]
Call == [caller : Functions \ External, callee : Functions \cup Slots]
Program == [bindings : Seq(Binding), invocations : Seq(Invocation), calls : SUBSET Call]

\* Types of the state, and where the analysis is in its loops.
ProvenanceTyped ==
    /\ program \in Program /\ entry \in Functions \ External
    /\ values \in Assignments /\ held \in Assignments
    /\ changed \in BOOLEAN
    /\ stage \in {"bindings", "invocations", "targets", "verdict"}
    /\ verdict \in {"none", "resolved", "PP203"}
    /\ stage # "verdict" => verdict = "none"
    /\ at \in Nat \ {0} /\ argument \in Nat \ {0}
    /\ pending \subseteq Functions /\ visiting \subseteq Functions
    /\ \A f, g \in visiting : f = g
    /\ stage = "targets" => at \in DOMAIN Invocations
    /\ stage \in {"bindings", "invocations"} => visiting = {}
    /\ active \subseteq Functions

\* Everything found so far is in every closed assignment.
Least ==
    \A w \in Assignments : IsFixpoint(w) =>
        /\ Below(values, w)
        /\ stage = "targets" => pending \cup visiting \subseteq Origins(w, Invocations[at].target)

BindingsHold(n) == \A i \in DOMAIN Bindings : i < n => BindingHolds(values, Bindings[i])
TargetsHold(i) ==
    \A f \in Origins(values, Invocations[i].target) : InvocationHolds(values, Invocations[i], f)
InvocationsHold(n) == \A i \in DOMAIN Invocations : i < n => TargetsHold(i)
\* A target of the current invocation is still to come, or is being visited, or
\* was visited.
TargetMet(f) ==
    \/ f \in pending
    \/ f \in visiting /\ \A j \in DOMAIN Arguments : j < argument => ArgumentHolds(values, f, Arguments[j])
    \/ InvocationHolds(values, Invocations[at], f)

\* What a pass that has found nothing new leaves closed.
Progress ==
    /\ stage = "bindings" /\ ~ changed => BindingsHold(at)
    /\ stage \in {"invocations", "targets"} /\ ~ changed =>
          (\A i \in DOMAIN Bindings : BindingHolds(values, Bindings[i])) /\ InvocationsHold(at)
    /\ stage = "targets" /\ ~ changed => \A f \in Origins(values, Invocations[at].target) : TargetMet(f)
    /\ verdict = "resolved" => IsFixpoint(values)

\* The program only runs when the last check has resolved it, within what was
\* resolved.
Running ==
    \/ held = Nothing /\ active = {entry}
    \/ /\ verdict = "resolved" /\ Len(verdicts) + 1 = Checks
       /\ Below(held, values) /\ active \subseteq Reached(entry)

ProvenanceInv == ProvenanceTyped /\ Least /\ Progress /\ Running
----------------------------------------------------------------------------

\* A source may only be functions.
LEMMA OriginsTyped ==
    ASSUME NEW v \in Assignments, NEW source \in Sources
    PROVE  Base(v, source.name) \subseteq Functions /\ Origins(v, source) \subseteq Functions
BY ProvenanceAssumption DEF Base, Origins, Assignments, Sources

\* More in the slots, more at the sources.
LEMMA OriginsMonotone ==
    ASSUME NEW v \in Assignments, NEW w \in Assignments, Below(v, w), NEW source \in Sources
    PROVE  Origins(v, source) \subseteq Origins(w, source)
<1>1. Base(v, source.name) \subseteq Base(w, source.name)
  BY ProvenanceAssumption DEF Base, Below, Sources
<1>2. \A f \in Functions : v[ReturnOf[f]] \subseteq w[ReturnOf[f]]
  BY ProvenanceAssumption DEF Below
<1>3. Base(v, source.name) \subseteq Functions
  BY OriginsTyped
<1> QED
  BY <1>1, <1>2, <1>3 DEF Origins

\* A step of the analysis that adds and does not note a change adds nothing.
LEMMA AddKeeps ==
    ASSUME ProvenanceTyped, NEW slot \in Slots, NEW found \in SUBSET Functions, Add(slot, found)
    PROVE  /\ values' \in Assignments /\ changed' \in BOOLEAN
           /\ Below(values, values')
           /\ \A w \in Assignments : Below(values, w) /\ found \subseteq w[slot] => Below(values', w)
           /\ ~ changed' => ~ changed /\ found \subseteq values[slot] /\ values' = values
<1>1. values \in [Slots -> SUBSET Functions] /\ changed \in BOOLEAN
  BY DEF ProvenanceTyped, Assignments
<1>2. values' = [values EXCEPT ![slot] = @ \cup found]
  BY DEF Add
<1>3. changed' = (changed \/ ~ found \subseteq values[slot])
  BY DEF Add
<1>4. values' \in Assignments /\ Below(values, values')
  BY <1>1, <1>2 DEF Assignments, Below
<1>5. \A w \in Assignments : Below(values, w) /\ found \subseteq w[slot] => Below(values', w)
  BY <1>1, <1>2 DEF Below
<1>6. ASSUME ~ changed' PROVE ~ changed /\ found \subseteq values[slot] /\ values' = values
  BY <1>1, <1>2, <1>3, <1>6
<1>7. changed' \in BOOLEAN
  BY <1>1, <1>3
<1> QED
  BY <1>4, <1>5, <1>6, <1>7

\* What the program consists of.
LEMMA ProgramParts ==
    ASSUME ProvenanceTyped
    PROVE  /\ Bindings \in Seq(Binding) /\ Invocations \in Seq(Invocation) /\ program.calls \subseteq Call
           /\ \A i \in DOMAIN Bindings : Bindings[i].slot \in Slots /\ Bindings[i].source \in Sources
           /\ \A i \in DOMAIN Invocations :
                 /\ Invocations[i].target \in Sources
                 /\ Invocations[i].arguments \in Seq(Argument)
                 /\ \A j \in DOMAIN Invocations[i].arguments :
                       /\ Invocations[i].arguments[j].source \in Sources
                       /\ \A f \in Functions :
                             Invocations[i].arguments[j].position \in DOMAIN ParameterOf[f] =>
                                 ParameterOf[f][Invocations[i].arguments[j].position] \in Slots
<1>1. Bindings \in Seq(Binding) /\ Invocations \in Seq(Invocation) /\ program.calls \subseteq Call
  BY DEF ProvenanceTyped, Program, Bindings, Invocations
<1>2. \A i \in DOMAIN Bindings : Bindings[i] \in Binding
  BY <1>1
<1>3. \A i \in DOMAIN Invocations : Invocations[i] \in Invocation
  BY <1>1
<1>4. ASSUME NEW i \in DOMAIN Invocations, NEW j \in DOMAIN Invocations[i].arguments
      PROVE  Invocations[i].arguments[j] \in Argument
  <2>1. Invocations[i].arguments \in Seq(Argument)
    BY <1>3 DEF Invocation
  <2> QED
    BY <2>1
<1>5. ASSUME NEW f \in Functions, NEW k \in DOMAIN ParameterOf[f]
      PROVE  ParameterOf[f][k] \in Slots
  <2>1. ParameterOf[f] \in Seq(Slots)
    BY ProvenanceAssumption
  <2> QED
    BY <2>1
<1> QED
  BY <1>1, <1>2, <1>3, <1>4, <1>5 DEF Binding, Invocation, Argument

\* A closed assignment stays closed: the program does not change.
LEMMA FixpointStays ==
    ASSUME program' = program
    PROVE  /\ Bindings' = Bindings /\ Invocations' = Invocations
           /\ \A w \in Assignments : IsFixpoint(w)' = IsFixpoint(w)
<1>1. Bindings' = Bindings /\ Invocations' = Invocations
  BY DEF Bindings, Invocations
<1> QED
  BY <1>1 DEF IsFixpoint, BindingHolds, InvocationHolds, ArgumentHolds, Origins, Base

\* A closed assignment has, in the slot of a binding, what its source may be,
\* and, in a parameter, what is passed to it.
LEMMA FixpointBinds ==
    ASSUME ProvenanceTyped, Least, NEW w \in Assignments, IsFixpoint(w), NEW i \in DOMAIN Bindings
    PROVE  Origins(values, Bindings[i].source) \subseteq w[Bindings[i].slot]
<1>1. Origins(w, Bindings[i].source) \subseteq w[Bindings[i].slot]
  BY DEF IsFixpoint, BindingHolds
<1>2. Origins(values, Bindings[i].source) \subseteq Origins(w, Bindings[i].source)
  BY ProgramParts, OriginsMonotone DEF Least, ProvenanceTyped
<1> QED
  BY <1>1, <1>2

LEMMA FixpointPasses ==
    ASSUME ProvenanceTyped, Least, NEW w \in Assignments, IsFixpoint(w),
           stage = "targets", NEW f \in visiting, NEW j \in DOMAIN Arguments,
           Arguments[j].position \in DOMAIN ParameterOf[f]
    PROVE  Origins(values, Arguments[j].source) \subseteq w[ParameterOf[f][Arguments[j].position]]
<1>1. at \in DOMAIN Invocations /\ Arguments = Invocations[at].arguments
  BY DEF ProvenanceTyped, Arguments
<1>2. f \in Origins(w, Invocations[at].target)
  BY DEF Least
<1>3. Origins(w, Arguments[j].source) \subseteq w[ParameterOf[f][Arguments[j].position]]
  BY <1>1, <1>2 DEF IsFixpoint, InvocationHolds, ArgumentHolds
<1>4. Arguments[j].source \in Sources
  BY <1>1, ProgramParts
<1>5. Origins(values, Arguments[j].source) \subseteq Origins(w, Arguments[j].source)
  BY <1>4, OriginsMonotone DEF Least, ProvenanceTyped
<1> QED
  BY <1>3, <1>5

----------------------------------------------------------------------------
(* Every action of the analysis.                                             *)

Analysis == ProvenanceTyped /\ Least /\ Progress

LEMMA FollowBindingKeeps ==
    ASSUME Analysis, FollowBinding, UNCHANGED <<program, entry, verdict, verdicts, runVars>>
    PROVE  Analysis'
<1> USE DEF Analysis, runVars
<1> DEFINE slot == Bindings[at].slot
           found == Origins(values, Bindings[at].source)
<1>1. /\ stage = "bindings" /\ at \in DOMAIN Bindings /\ at' = at + 1
      /\ stage' = stage /\ pending' = pending /\ visiting' = visiting /\ argument' = argument
      /\ Add(slot, found)
  BY DEF FollowBinding
<1>2. slot \in Slots /\ Bindings[at].source \in Sources /\ found \in SUBSET Functions
  BY <1>1, ProgramParts, OriginsTyped DEF ProvenanceTyped
<1>3. /\ values' \in Assignments /\ changed' \in BOOLEAN
      /\ \A w \in Assignments : Below(values, w) /\ found \subseteq w[slot] => Below(values', w)
      /\ ~ changed' => ~ changed /\ found \subseteq values[slot] /\ values' = values
  <2> HIDE DEF slot, found
  <2> QED
    BY <1>1, <1>2, AddKeeps
<1>4. Bindings' = Bindings /\ Invocations' = Invocations /\ \A w \in Assignments : IsFixpoint(w)' = IsFixpoint(w)
  BY FixpointStays
<1>5. ProvenanceTyped'
  BY <1>1, <1>3, <1>4 DEF ProvenanceTyped
<1>6. Least'
  <2> SUFFICES ASSUME NEW w \in Assignments, IsFixpoint(w)
               PROVE  Below(values', w)
    BY <1>1, <1>4 DEF Least
  <2>1. found \subseteq w[slot]
    BY <1>1, FixpointBinds
  <2> QED
    BY <1>3, <2>1 DEF Least
<1>7. Progress'
  <2>1. ASSUME ~ changed' PROVE BindingsHold(at)'
    <3>1. at' = at + 1 /\ at \in Nat /\ values' = values /\ BindingsHold(at) /\ BindingHolds(values, Bindings[at])
      BY <1>1, <1>3, <2>1 DEF Progress, ProvenanceTyped, BindingHolds
    <3>2. ASSUME NEW i \in DOMAIN Bindings, i < at + 1 PROVE BindingHolds(values, Bindings[i])
      <4>1. i \in Nat
        BY ProgramParts
      <4> QED
        BY <3>1, <3>2, <4>1 DEF BindingsHold
    <3> QED
      BY <3>1, <3>2, <1>4 DEF BindingsHold
  <2>2. verdict' # "resolved"
    BY <1>1 DEF ProvenanceTyped
  <2> QED
    BY <1>1, <2>1, <2>2 DEF Progress
<1> QED
  BY <1>5, <1>6, <1>7

LEMMA BindingsDoneKeeps ==
    ASSUME Analysis, BindingsDone, UNCHANGED <<program, entry, verdict, verdicts, runVars>>
    PROVE  Analysis'
<1> USE DEF Analysis, runVars
<1>1. /\ stage = "bindings" /\ at \notin DOMAIN Bindings /\ stage' = "invocations" /\ at' = 1
      /\ values' = values /\ changed' = changed /\ pending' = pending /\ visiting' = visiting
      /\ argument' = argument
  BY DEF BindingsDone
<1>2. Bindings' = Bindings /\ Invocations' = Invocations /\ \A w \in Assignments : IsFixpoint(w)' = IsFixpoint(w)
  BY FixpointStays
<1>3. ProvenanceTyped'
  BY <1>1, <1>2 DEF ProvenanceTyped
<1>4. Least'
  BY <1>1, <1>2 DEF Least
<1>5. Progress'
  <2>1. ASSUME ~ changed PROVE \A i \in DOMAIN Bindings : BindingHolds(values, Bindings[i])
    <3>1. \A i \in DOMAIN Bindings : i < at
      BY <1>1, ProgramParts DEF ProvenanceTyped
    <3> QED
      BY <1>1, <2>1, <3>1 DEF Progress, BindingsHold
  <2>2. \A i \in DOMAIN Bindings : BindingHolds(values, Bindings[i])' = BindingHolds(values, Bindings[i])
    BY <1>1, <1>2 DEF BindingHolds
  <2>3. InvocationsHold(at)'
    BY <1>1, <1>2, ProgramParts DEF InvocationsHold
  <2>4. verdict' # "resolved"
    BY <1>1 DEF ProvenanceTyped
  <2> QED
    BY <1>1, <1>2, <2>1, <2>2, <2>3, <2>4 DEF Progress
<1> QED
  BY <1>3, <1>4, <1>5

\* What holds of the bindings and invocations does not depend on where the
\* analysis is.
LEMMA HoldsStay ==
    ASSUME program' = program, values' = values
    PROVE  /\ (\A i \in DOMAIN Bindings : BindingHolds(values, Bindings[i]))'
                 = (\A i \in DOMAIN Bindings : BindingHolds(values, Bindings[i]))
           /\ \A i \in Nat : InvocationsHold(i)' = InvocationsHold(i)
           /\ \A i \in Nat : BindingsHold(i)' = BindingsHold(i)
           /\ \A i \in Nat : (Origins(values, Invocations[i].target))' = Origins(values, Invocations[i].target)
           /\ \A i \in Nat, f \in Functions :
                 InvocationHolds(values, Invocations[i], f)' = InvocationHolds(values, Invocations[i], f)
           /\ IsFixpoint(values)' = IsFixpoint(values)
<1>1. Bindings' = Bindings /\ Invocations' = Invocations
  BY FixpointStays
<1>2. (\A i \in DOMAIN Bindings : BindingHolds(values, Bindings[i]))'
          = (\A i \in DOMAIN Bindings : BindingHolds(values, Bindings[i]))
  BY <1>1 DEF BindingHolds, Origins, Base
<1>3. \A i \in Nat : InvocationsHold(i)' = InvocationsHold(i)
  BY <1>1 DEF InvocationsHold, TargetsHold, InvocationHolds, ArgumentHolds, Origins, Base
<1>4. \A i \in Nat : BindingsHold(i)' = BindingsHold(i)
  BY <1>1 DEF BindingsHold, BindingHolds, Origins, Base
<1>5. \A i \in Nat : (Origins(values, Invocations[i].target))' = Origins(values, Invocations[i].target)
  BY <1>1 DEF Origins, Base
<1>6. \A i \in Nat, f \in Functions :
          InvocationHolds(values, Invocations[i], f)' = InvocationHolds(values, Invocations[i], f)
  BY <1>1 DEF InvocationHolds, ArgumentHolds, Origins, Base
<1>7. IsFixpoint(values)' = IsFixpoint(values)
  BY <1>1 DEF IsFixpoint, BindingHolds, InvocationHolds, ArgumentHolds, Origins, Base
<1> QED
  BY <1>2, <1>3, <1>4, <1>5, <1>6, <1>7

LEMMA EnterKeeps ==
    ASSUME Analysis, Enter, UNCHANGED <<program, entry, verdict, verdicts, runVars>>
    PROVE  Analysis'
<1> USE DEF Analysis, runVars
<1>1. /\ stage = "invocations" /\ at \in DOMAIN Invocations /\ stage' = "targets"
      /\ pending' = Origins(values, Invocations[at].target)
      /\ values' = values /\ changed' = changed /\ at' = at /\ visiting' = visiting /\ argument' = argument
  BY DEF Enter
<1>2. Bindings' = Bindings /\ Invocations' = Invocations /\ \A w \in Assignments : IsFixpoint(w)' = IsFixpoint(w)
  BY FixpointStays
<1>3. Invocations[at].target \in Sources /\ pending' \subseteq Functions
  BY <1>1, ProgramParts, OriginsTyped DEF ProvenanceTyped
<1>4. ProvenanceTyped'
  BY <1>1, <1>2, <1>3 DEF ProvenanceTyped
<1>5. Least'
  <2> SUFFICES ASSUME NEW w \in Assignments, IsFixpoint(w)
               PROVE  Below(values, w) /\ pending' \cup visiting \subseteq Origins(w, Invocations[at].target)
    BY <1>1, <1>2 DEF Least
  <2>1. Below(values, w)
    BY DEF Least
  <2>2. pending' \subseteq Origins(w, Invocations[at].target)
    BY <1>1, <1>3, <2>1, OriginsMonotone DEF ProvenanceTyped
  <2>3. visiting = {}
    BY <1>1 DEF ProvenanceTyped
  <2> QED
    BY <2>1, <2>2, <2>3
<1>6. Progress'
  <2>1. at \in Nat /\ verdict' # "resolved"
    BY <1>1 DEF ProvenanceTyped
  <2>2. \A f \in Origins(values, Invocations[at].target) : TargetMet(f)'
    BY <1>1, <1>2 DEF TargetMet
  <2> QED
    BY <1>1, <1>2, <2>1, <2>2, HoldsStay DEF Progress
<1> QED
  BY <1>4, <1>5, <1>6

LEMMA VisitKeeps ==
    ASSUME Analysis, Visit, UNCHANGED <<program, entry, verdict, verdicts, runVars>>
    PROVE  Analysis'
<1> USE DEF Analysis, runVars
<1>1. PICK f \in pending :
         /\ stage = "targets" /\ visiting = {}
         /\ pending' = pending \ {f} /\ visiting' = {f} /\ argument' = 1
         /\ values' = values /\ changed' = changed /\ stage' = stage /\ at' = at
  BY DEF Visit
<1>2. Bindings' = Bindings /\ Invocations' = Invocations /\ \A w \in Assignments : IsFixpoint(w)' = IsFixpoint(w)
  BY FixpointStays
<1>3. f \in Functions
  BY DEF ProvenanceTyped
<1>4. ProvenanceTyped'
  BY <1>1, <1>2, <1>3 DEF ProvenanceTyped
<1>5. Least'
  BY <1>1, <1>2 DEF Least
<1>6. Progress'
  <2>1. at \in Nat /\ at \in DOMAIN Invocations /\ verdict' # "resolved"
    BY <1>1 DEF ProvenanceTyped
  <2>2. \A j \in DOMAIN Arguments : ~ (j < 1)
    BY <2>1, ProgramParts DEF Arguments
  <2>3. Arguments' = Arguments
    BY <1>1, <1>2 DEF Arguments
  <2>4. ASSUME NEW g \in Functions, TargetMet(g) PROVE TargetMet(g)'
    <3>1. g = f \/ g \in pending' \/ InvocationHolds(values, Invocations[at], g)
      BY <1>1, <2>4 DEF TargetMet
    <3>2. InvocationHolds(values, Invocations[at], g)' = InvocationHolds(values, Invocations[at], g)
      BY <1>1, <2>1, HoldsStay
    <3> QED
      BY <1>1, <2>2, <2>3, <3>1, <3>2 DEF TargetMet
  <2>5. Origins(values, Invocations[at].target) \subseteq Functions
    BY <2>1, ProgramParts, OriginsTyped DEF ProvenanceTyped
  <2>6. (Origins(values, Invocations[at].target))' = Origins(values, Invocations[at].target)
    BY <1>1, <2>1, HoldsStay
  <2> QED
    BY <1>1, <2>1, <2>4, <2>5, <2>6, HoldsStay DEF Progress
<1> QED
  BY <1>4, <1>5, <1>6

LEMMA VisitedKeeps ==
    ASSUME Analysis, Visited, UNCHANGED <<program, entry, verdict, verdicts, runVars>>
    PROVE  Analysis'
<1> USE DEF Analysis, runVars
<1>1. /\ stage = "targets" /\ argument \notin DOMAIN Arguments /\ visiting' = {} /\ argument' = 1
      /\ values' = values /\ changed' = changed /\ stage' = stage /\ at' = at /\ pending' = pending
  BY DEF Visited
<1>2. Bindings' = Bindings /\ Invocations' = Invocations /\ \A w \in Assignments : IsFixpoint(w)' = IsFixpoint(w)
  BY FixpointStays
<1>3. ProvenanceTyped'
  BY <1>1, <1>2 DEF ProvenanceTyped
<1>4. Least'
  BY <1>1, <1>2 DEF Least
<1>5. Progress'
  <2>1. at \in Nat /\ at \in DOMAIN Invocations /\ verdict' # "resolved"
    BY <1>1 DEF ProvenanceTyped
  <2>2. Arguments = Invocations[at].arguments /\ \A j \in DOMAIN Arguments : j < argument
    BY <1>1, <2>1, ProgramParts DEF Arguments, ProvenanceTyped
  <2>3. ASSUME NEW g \in Functions, TargetMet(g) PROVE TargetMet(g)'
    <3>1. g \in pending \/ InvocationHolds(values, Invocations[at], g)
      BY <2>2, <2>3 DEF TargetMet, InvocationHolds
    <3>2. InvocationHolds(values, Invocations[at], g)' = InvocationHolds(values, Invocations[at], g)
      BY <1>1, <2>1, HoldsStay
    <3> QED
      BY <1>1, <3>1, <3>2 DEF TargetMet
  <2>4. Origins(values, Invocations[at].target) \subseteq Functions
    BY <2>1, ProgramParts, OriginsTyped DEF ProvenanceTyped
  <2>5. (Origins(values, Invocations[at].target))' = Origins(values, Invocations[at].target)
    BY <1>1, <2>1, HoldsStay
  <2> QED
    BY <1>1, <2>1, <2>3, <2>4, <2>5, HoldsStay DEF Progress
<1> QED
  BY <1>3, <1>4, <1>5

LEMMA LeaveKeeps ==
    ASSUME Analysis, Leave, UNCHANGED <<program, entry, verdict, verdicts, runVars>>
    PROVE  Analysis'
<1> USE DEF Analysis, runVars
<1>1. /\ stage = "targets" /\ visiting = {} /\ pending = {} /\ stage' = "invocations" /\ at' = at + 1
      /\ values' = values /\ changed' = changed /\ pending' = pending /\ visiting' = visiting
      /\ argument' = argument
  BY DEF Leave
<1>2. Bindings' = Bindings /\ Invocations' = Invocations /\ \A w \in Assignments : IsFixpoint(w)' = IsFixpoint(w)
  BY FixpointStays
<1>3. ProvenanceTyped'
  BY <1>1, <1>2 DEF ProvenanceTyped
<1>4. Least'
  BY <1>1, <1>2 DEF Least
<1>5. Progress'
  <2>1. at \in Nat /\ verdict' # "resolved"
    BY <1>1 DEF ProvenanceTyped
  <2>2. ASSUME ~ changed PROVE InvocationsHold(at + 1)
    <3>1. TargetsHold(at)
      BY <1>1, <2>2 DEF Progress, TargetMet, TargetsHold
    <3>2. InvocationsHold(at)
      BY <1>1, <2>2 DEF Progress
    <3>3. ASSUME NEW i \in DOMAIN Invocations, i < at + 1 PROVE i < at \/ i = at
      <4>1. i \in Nat
        BY ProgramParts
      <4> QED
        BY <2>1, <3>3, <4>1
    <3> QED
      BY <3>1, <3>2, <3>3 DEF InvocationsHold
  <2>3. InvocationsHold(at)' = InvocationsHold(at + 1)
    <3>1. PICK n \in Nat : n = at + 1
      BY <2>1
    <3>2. InvocationsHold(n)' = InvocationsHold(n)
      BY <1>1, HoldsStay
    <3>3. InvocationsHold(at)' = InvocationsHold(n)'
      BY <1>1, <3>1 DEF InvocationsHold
    <3> QED
      BY <3>1, <3>2, <3>3
  <2> QED
    BY <1>1, <2>1, <2>2, <2>3, HoldsStay DEF Progress
<1> QED
  BY <1>3, <1>4, <1>5

LEMMA PassAgainKeeps ==
    ASSUME Analysis, PassAgain, UNCHANGED <<program, entry, verdict, verdicts, runVars>>
    PROVE  Analysis'
<1> USE DEF Analysis, runVars
<1>1. /\ stage = "invocations" /\ stage' = "bindings" /\ at' = 1 /\ changed' = FALSE
      /\ values' = values /\ pending' = pending /\ visiting' = visiting /\ argument' = argument
  BY DEF PassAgain
<1>2. Bindings' = Bindings /\ Invocations' = Invocations /\ \A w \in Assignments : IsFixpoint(w)' = IsFixpoint(w)
  BY FixpointStays
<1>3. ProvenanceTyped'
  <2>1. at' \in Nat \ {0}
    BY <1>1
  <2>2. changed' \in BOOLEAN
    BY <1>1
  <2>3. stage' = "bindings" /\ stage = "invocations" /\ visiting' = visiting
    BY <1>1
  <2>4. values' \in Assignments /\ pending' \subseteq Functions /\ argument' \in Nat \ {0}
    BY <1>1 DEF ProvenanceTyped
  <2>5. held' \in Assignments /\ active' \subseteq Functions /\ program' \in Program /\ entry' \in Functions \ External
    BY DEF ProvenanceTyped
  <2>6. visiting' = {}
    BY <2>3 DEF ProvenanceTyped
  <2> QED
    BY <2>1, <2>2, <2>3, <2>4, <2>5, <2>6 DEF ProvenanceTyped
<1>4. Least'
  BY <1>1, <1>2 DEF Least
<1>5. Progress'
  <2>1. verdict' # "resolved"
    BY <1>1 DEF ProvenanceTyped
  <2>2. BindingsHold(at)'
    BY <1>1, <1>2, ProgramParts DEF BindingsHold
  <2> QED
    BY <1>1, <2>1, <2>2 DEF Progress
<1> QED
  BY <1>3, <1>4, <1>5

\* Whatever ends the analysis, a verdict "resolved" is of a closed assignment.
LEMMA ResolveKeeps ==
    ASSUME Analysis, Resolve \/ Exceeded, UNCHANGED <<program, entry, verdicts, runVars>>
    PROVE  Analysis'
<1> USE DEF Analysis, runVars
<1>1. /\ stage' = "verdict" /\ verdict' \in {"PP203", "resolved"}
      /\ values' = values /\ changed' = changed /\ at' = at /\ pending' = pending /\ visiting' = visiting
      /\ argument' = argument
      /\ verdict' = "resolved" => stage = "invocations" /\ at \notin DOMAIN Invocations /\ ~ changed
  BY DEF Resolve, Exceeded
<1>2. Bindings' = Bindings /\ Invocations' = Invocations /\ \A w \in Assignments : IsFixpoint(w)' = IsFixpoint(w)
  BY FixpointStays
<1>3. ProvenanceTyped'
  BY <1>1, <1>2 DEF ProvenanceTyped
<1>4. Least'
  BY <1>1, <1>2 DEF Least
<1>5. Progress'
  <2>1. ASSUME verdict' = "resolved" PROVE IsFixpoint(values)
    <3>1. \A i \in DOMAIN Invocations : i < at
      BY <1>1, <2>1, ProgramParts DEF ProvenanceTyped
    <3> QED
      BY <1>1, <2>1, <3>1 DEF Progress, InvocationsHold, TargetsHold, IsFixpoint
  <2> QED
    BY <1>1, <2>1, HoldsStay DEF Progress
<1> QED
  BY <1>3, <1>4, <1>5

LEMMA CheckAgainKeeps ==
    ASSUME Analysis, CheckAgain, UNCHANGED <<program, entry, runVars>>
    PROVE  Analysis'
<1> USE DEF Analysis, runVars
<1>1. /\ stage' = "bindings" /\ verdict' = "none" /\ values' = Nothing /\ changed' = FALSE /\ at' = 1
      /\ pending' = {} /\ visiting' = {} /\ argument' = 1
  BY DEF CheckAgain
<1>2. Bindings' = Bindings /\ Invocations' = Invocations
  BY FixpointStays
<1>3. ProvenanceTyped'
  <2>1. at' \in Nat \ {0} /\ argument' \in Nat \ {0}
    BY <1>1
  <2>2. changed' \in BOOLEAN
    BY <1>1
  <2>3. values' \in Assignments
    BY <1>1 DEF Nothing, Assignments
  <2>4. stage' = "bindings" /\ verdict' = "none" /\ visiting' = {} /\ pending' = {}
    BY <1>1
  <2>5. held' \in Assignments /\ active' \subseteq Functions /\ program' \in Program /\ entry' \in Functions \ External
    BY DEF ProvenanceTyped
  <2> QED
    BY <2>1, <2>2, <2>3, <2>4, <2>5 DEF ProvenanceTyped
<1>4. Least'
  BY <1>1 DEF Least, Below, Nothing
<1>5. Progress'
  <2>1. BindingsHold(at)'
    BY <1>1, <1>2, ProgramParts DEF BindingsHold
  <2> QED
    BY <1>1, <2>1 DEF Progress
<1> QED
  BY <1>3, <1>4, <1>5

LEMMA PassKeeps ==
    ASSUME Analysis, Pass, UNCHANGED <<program, entry, verdict, verdicts, runVars>>
    PROVE  Analysis'
<1> USE DEF Analysis, runVars
<1>1. /\ stage = "targets" /\ argument \in DOMAIN Arguments /\ argument' = argument + 1
      /\ stage' = stage /\ at' = at /\ visiting' = visiting
  BY DEF Pass
<1>2. PICK f \in visiting :
         \/ /\ Arguments[argument].position \notin DOMAIN ParameterOf[f]
            /\ values' = values /\ changed' = changed /\ pending' = pending
         \/ LET slot == ParameterOf[f][Arguments[argument].position]
                found == Origins(values, Arguments[argument].source)
            IN  /\ Arguments[argument].position \in DOMAIN ParameterOf[f]
                /\ Add(slot, found)
                /\ \E met \in SUBSET (found \ values[slot]) :
                      /\ met # {} => ~ Invocations[at].target.result /\ Invocations[at].target.name = slot
                      /\ pending' = pending \cup met
  BY DEF Pass
<1>3. /\ Bindings' = Bindings /\ Invocations' = Invocations /\ Arguments' = Arguments
      /\ \A w \in Assignments : IsFixpoint(w)' = IsFixpoint(w)
  BY <1>1, FixpointStays DEF Arguments
<1>4. /\ at \in Nat /\ at \in DOMAIN Invocations /\ Arguments = Invocations[at].arguments
      /\ f \in Functions /\ Arguments[argument].source \in Sources /\ Invocations[at].target \in Sources
      /\ argument \in Nat /\ verdict' # "resolved"
  BY <1>1, ProgramParts DEF ProvenanceTyped, Arguments
\* Nothing new was found: nothing but the argument has changed.
<1>5. ASSUME values' = values, changed' = changed, pending' = pending,
             ~ changed => ArgumentHolds(values, f, Arguments[argument])
      PROVE  Analysis'
  <2>1. ProvenanceTyped'
    <3>1. argument' \in Nat \ {0}
      BY <1>1, <1>4
    <3> QED
      BY <1>1, <1>3, <1>5, <3>1 DEF ProvenanceTyped
  <2>2. Least'
    BY <1>1, <1>3, <1>5 DEF Least
  <2>3. ASSUME ~ changed, NEW g \in Functions, TargetMet(g) PROVE TargetMet(g)'
    <3>1. CASE g \in visiting /\ \A j \in DOMAIN Arguments : j < argument => ArgumentHolds(values, g, Arguments[j])
      <4>1. g = f
        BY <3>1 DEF ProvenanceTyped
      <4>2. ASSUME NEW j \in DOMAIN Arguments, j < argument + 1 PROVE ArgumentHolds(values, g, Arguments[j])
        <5>1. j < argument \/ j = argument
          <6>1. j \in Nat
            BY <1>4, ProgramParts
          <6> QED
            BY <1>4, <4>2, <6>1
        <5> QED
          BY <1>5, <2>3, <3>1, <4>1, <5>1
      <4> QED
        BY <1>1, <1>3, <1>5, <3>1, <4>2 DEF TargetMet, ArgumentHolds, Origins, Base
    <3>2. CASE g \in pending
      BY <1>5, <3>2 DEF TargetMet
    <3>3. CASE InvocationHolds(values, Invocations[at], g)
      <4>1. InvocationHolds(values, Invocations[at], g)'
        BY <1>1, <1>4, <1>5, <3>3, HoldsStay
      <4> QED
        BY <4>1 DEF TargetMet
    <3> QED
      BY <2>3, <3>1, <3>2, <3>3 DEF TargetMet
  <2>4. Progress'
    <3>1. Origins(values, Invocations[at].target) \subseteq Functions
      BY <1>4, OriginsTyped DEF ProvenanceTyped
    <3>2. (Origins(values, Invocations[at].target))' = Origins(values, Invocations[at].target)
      BY <1>1, <1>4, <1>5, HoldsStay
    <3> QED
      BY <1>1, <1>4, <1>5, <2>3, <3>1, <3>2, HoldsStay DEF Progress
  <2> QED
    BY <2>1, <2>2, <2>4
<1>6. CASE Arguments[argument].position \notin DOMAIN ParameterOf[f] /\ values' = values /\ changed' = changed /\ pending' = pending
  BY <1>5, <1>6 DEF ArgumentHolds
<1>7. ASSUME Arguments[argument].position \in DOMAIN ParameterOf[f],
             NEW slot, slot = ParameterOf[f][Arguments[argument].position],
             NEW found, found = Origins(values, Arguments[argument].source),
             Add(slot, found),
             NEW met \in SUBSET (found \ values[slot]),
             met # {} => ~ Invocations[at].target.result /\ Invocations[at].target.name = slot,
             pending' = pending \cup met
      PROVE  Analysis'
  <2>1. slot \in Slots /\ found \in SUBSET Functions
    BY <1>1, <1>4, <1>7, ProgramParts, OriginsTyped DEF ProvenanceTyped
  <2>2. /\ values' \in Assignments /\ changed' \in BOOLEAN
        /\ \A w \in Assignments : Below(values, w) /\ found \subseteq w[slot] => Below(values', w)
        /\ ~ changed' => ~ changed /\ found \subseteq values[slot] /\ values' = values
    BY <1>7, <2>1, AddKeeps
  <2>3. CASE ~ changed'
    <3>1. values' = values /\ changed' = changed /\ pending' = pending /\ found \subseteq values[slot]
      BY <1>7, <2>2, <2>3 DEF ProvenanceTyped
    <3>2. ArgumentHolds(values, f, Arguments[argument])
      BY <1>7, <3>1 DEF ArgumentHolds
    <3> QED
      BY <1>5, <3>1, <3>2
  <2>4. CASE changed'
    <3>1. ProvenanceTyped'
      <4>1. argument' \in Nat \ {0}
        BY <1>1, <1>4
      <4>2. pending' \subseteq Functions
        BY <1>7, <2>1 DEF ProvenanceTyped
      <4> QED
        BY <1>1, <1>3, <2>2, <4>1, <4>2 DEF ProvenanceTyped
    <3>2. Least'
      <4> SUFFICES ASSUME NEW w \in Assignments, IsFixpoint(w)
                   PROVE  Below(values', w) /\ pending' \cup visiting \subseteq Origins(w, Invocations[at].target)
        BY <1>1, <1>3 DEF Least
      <4>1. found \subseteq w[slot]
        BY <1>1, <1>7, FixpointPasses
      <4>2. Below(values', w)
        BY <2>2, <4>1 DEF Least
      <4>3. met \subseteq Origins(w, Invocations[at].target)
        BY <1>7, <2>1, <4>1, ProvenanceAssumption DEF Origins, Base
      <4> QED
        BY <1>1, <1>7, <4>2, <4>3 DEF Least
    <3>3. Progress'
      BY <1>1, <1>4, <2>4 DEF Progress
    <3> QED
      BY <3>1, <3>2, <3>3
  <2> QED
    BY <2>3, <2>4
<1> QED
  BY <1>2, <1>6, <1>7

----------------------------------------------------------------------------
(* The verified program running.                                             *)

\* The walk begins at the function itself.
LEMMA EntryReached == ASSUME ProvenanceTyped PROVE entry \in Reached(entry)
BY DEF ProvenanceTyped, Reached, Walks

\* What is reached calls only what is reached.
LEMMA CallsReached ==
    ASSUME ProvenanceTyped, NEW c \in program.calls, c.caller \in Reached(entry), NEW f \in Base(values, c.callee)
    PROVE  f \in Reached(entry)
<1>1. c.caller \in Functions \ External /\ c.callee \in Functions \cup Slots
  BY ProgramParts DEF Call
<1>2. f \in Functions
  BY <1>1 DEF Base, ProvenanceTyped, Assignments
<1>3. [from |-> c.caller, to |-> f] \in Edges
  BY <1>1, <1>2 DEF Edges
<1>4. ASSUME NEW S \in SUBSET Functions, Walks(entry, S) PROVE f \in S
  <2>1. c.caller \in S
    BY <1>4 DEF Reached
  <2> QED
    BY <1>1, <1>3, <1>4, <2>1 DEF Walks
<1> QED
  BY <1>2, <1>4 DEF Reached

\* While the program runs, the slots hold no more than was resolved and only
\* what was reached is called.
LEMMA RunsKeeps ==
    ASSUME ProvenanceInv, Runs, UNCHANGED <<program, entry, resolveVars, verdict, verdicts>>
    PROVE  ProvenanceTyped' /\ Running'
<1>1. /\ ProvenanceTyped /\ verdict = "resolved" /\ Len(verdicts) + 1 = Checks /\ IsFixpoint(values)
      /\ values' = values /\ program' = program /\ entry' = entry
  BY DEF ProvenanceInv, Progress, Runs, resolveVars
<1>2. Below(held, values) /\ active \subseteq Reached(entry)
  BY <1>1, EntryReached DEF ProvenanceInv, Running, Below, Nothing
<1>3. values \in Assignments /\ held \in Assignments /\ active \subseteq Functions
  BY <1>1 DEF ProvenanceTyped
<1>4. Reached(entry)' = Reached(entry)
  BY <1>1 DEF Reached, Walks, Edges, Base
\* One slot gains what it has after the resolution.
<1>5. ASSUME NEW slot \in Slots, NEW g \in values[slot], held' = [held EXCEPT ![slot] = @ \cup {g}]
      PROVE  held' \in Assignments /\ Below(held', values)
  BY <1>2, <1>3, <1>5 DEF Assignments, Below
<1>6. ASSUME Flow PROVE held' \in Assignments /\ Below(held', values) /\ active' = active
  <2> PICK i \in DOMAIN Bindings :
         \E f \in Origins(held, Bindings[i].source) : held' = [held EXCEPT ![Bindings[i].slot] = @ \cup {f}]
    BY <1>6 DEF Flow
  <2>1. PICK f \in Origins(held, Bindings[i].source) : held' = [held EXCEPT ![Bindings[i].slot] = @ \cup {f}]
    OBVIOUS
  <2>2. Bindings[i].slot \in Slots /\ Bindings[i].source \in Sources
    BY <1>1, ProgramParts
  <2>3. f \in Origins(values, Bindings[i].source)
    BY <1>2, <1>3, <2>2, OriginsMonotone
  <2>4. f \in values[Bindings[i].slot]
    BY <1>1, <2>3 DEF IsFixpoint, BindingHolds
  <2>5. active' = active
    BY <1>6 DEF Flow
  <2> QED
    BY <1>5, <2>1, <2>2, <2>4, <2>5
<1>7. ASSUME CallBack PROVE held' \in Assignments /\ Below(held', values) /\ active' = active
  <2> DEFINE Passes(i, f, j) ==
                /\ Invocations[i].arguments[j].position \in DOMAIN ParameterOf[f]
                /\ \E g \in Origins(held, Invocations[i].arguments[j].source) :
                      held' = [held EXCEPT ![ParameterOf[f][Invocations[i].arguments[j].position]] = @ \cup {g}]
  <2>1. PICK i \in DOMAIN Invocations : \E f \in Origins(held, Invocations[i].target) :
           \E j \in DOMAIN Invocations[i].arguments : Passes(i, f, j)
    BY <1>7 DEF CallBack
  <2>2. PICK f \in Origins(held, Invocations[i].target) :
           \E j \in DOMAIN Invocations[i].arguments : Passes(i, f, j)
    BY <2>1
  <2>3. PICK j \in DOMAIN Invocations[i].arguments : Passes(i, f, j)
    BY <2>2
  <2> DEFINE source == Invocations[i].arguments[j].source
             slot == ParameterOf[f][Invocations[i].arguments[j].position]
  <2>4. PICK g \in Origins(held, source) : held' = [held EXCEPT ![slot] = @ \cup {g}]
    BY <2>3
  <2>5. Invocations[i].target \in Sources /\ source \in Sources
    BY <1>1, ProgramParts
  <2>6. f \in Origins(values, Invocations[i].target) /\ g \in Origins(values, source)
    BY <1>2, <1>3, <2>5, OriginsMonotone
  <2>7. f \in Functions
    BY <1>3, <2>5, <2>6, OriginsTyped
  <2>8. slot \in Slots
    BY <1>1, <2>3, <2>7, ProgramParts
  <2>9. g \in values[slot]
    BY <1>1, <2>3, <2>6 DEF IsFixpoint, InvocationHolds, ArgumentHolds
  <2>10. active' = active
    BY <1>7 DEF CallBack
  <2> QED
    BY <1>5, <2>4, <2>8, <2>9, <2>10
<1>8. ASSUME CallOf PROVE held' = held /\ active' \subseteq Reached(entry)
  <2>1. PICK c \in program.calls : c.caller \in active /\ \E f \in Base(held, c.callee) : active' = active \cup {f}
    BY <1>8 DEF CallOf
  <2>2. PICK f \in Base(held, c.callee) : active' = active \cup {f}
    BY <2>1
  <2>3. c.callee \in Functions \cup Slots
    BY <1>1, ProgramParts DEF Call
  <2>4. f \in Base(values, c.callee)
    BY <1>2, <2>3 DEF Base, Below
  <2>5. f \in Reached(entry)
    BY <1>1, <1>2, <2>1, <2>4, CallsReached
  <2> QED
    BY <1>2, <1>8, <2>2, <2>5 DEF CallOf
<1>9. /\ held' \in Assignments /\ Below(held', values) /\ active' \subseteq Reached(entry)
  BY <1>2, <1>3, <1>6, <1>7, <1>8 DEF Runs
<1>10. active' \subseteq Functions
  BY <1>9 DEF Reached
<1>11. ProvenanceTyped'
  BY <1>1, <1>9, <1>10 DEF ProvenanceTyped, resolveVars, Bindings, Invocations
<1>12. Running'
  BY <1>1, <1>4, <1>9 DEF Running, Below
<1> QED
  BY <1>11, <1>12

----------------------------------------------------------------------------

\* At the beginning nothing is found, and nothing ran.
LEMMA ProvenanceInitHolds == ASSUME ProvenanceInit PROVE ProvenanceInv
<1> USE DEF ProvenanceInit
<1>1. ProvenanceTyped
  <2>1. program \in Program
    BY ProvenanceAssumption DEF Program, Binding, Invocation, Argument, Call
  <2>2. Nothing \in Assignments /\ {entry} \subseteq Functions
    BY DEF Nothing, Assignments
  <2>3. changed \in BOOLEAN
    BY Zenon
  <2> QED
    BY <2>1, <2>2, <2>3 DEF ProvenanceTyped
<1>2. Least
  BY DEF Least, Below, Nothing
<1>3. Progress
  BY <1>1, ProgramParts DEF Progress, BindingsHold
<1> QED
  BY <1>1, <1>2, <1>3 DEF ProvenanceInv, Running

\* Every step keeps the invariant.
LEMMA ProvenanceStepKeeps == ASSUME ProvenanceInv, [ProvenanceNext]_provenanceVars PROVE ProvenanceInv'
<1>1. Analysis
  BY DEF ProvenanceInv, Analysis
<1>2. ASSUME UNCHANGED provenanceVars PROVE ProvenanceInv'
  <2> USE <1>2 DEF provenanceVars, resolveVars, runVars
  <2>1. Bindings' = Bindings /\ Invocations' = Invocations /\ \A w \in Assignments : IsFixpoint(w)' = IsFixpoint(w)
    BY FixpointStays
  <2>2. ProvenanceTyped'
    BY <2>1 DEF ProvenanceInv, ProvenanceTyped
  <2>3. Least'
    BY <2>1 DEF ProvenanceInv, Least
  <2>4. at \in Nat /\ at \in Nat \ {0}
    BY DEF ProvenanceInv, ProvenanceTyped
  <2>5. ASSUME stage = "targets", NEW f \in Origins(values, Invocations[at].target), TargetMet(f)
        PROVE  TargetMet(f)'
    <3>1. at' = at /\ argument' = argument /\ pending' = pending /\ visiting' = visiting
      OBVIOUS
    <3>2. Arguments' = Arguments
      BY <2>1, <3>1 DEF Arguments
    <3>3. \A j \in DOMAIN Arguments : ArgumentHolds(values, f, Arguments[j])' = ArgumentHolds(values, f, Arguments[j])
      BY <3>2 DEF ArgumentHolds, Origins, Base
    <3>4. InvocationHolds(values, Invocations[at], f)' = InvocationHolds(values, Invocations[at], f)
      BY <2>1, <3>1 DEF InvocationHolds, ArgumentHolds, Origins, Base
    <3> QED
      BY <2>5, <3>1, <3>2, <3>3, <3>4 DEF TargetMet
  <2>6. Progress'
    BY <2>4, <2>5, HoldsStay DEF ProvenanceInv, Progress
  <2>7. Running'
    BY DEF ProvenanceInv, Running, Below, Reached, Walks, Edges, Base
  <2> QED
    BY <2>2, <2>3, <2>6, <2>7 DEF ProvenanceInv
\* As long as nothing is resolved, nothing runs.
<1>3. ASSUME Analyse, UNCHANGED <<program, entry, verdict, verdicts, runVars>> PROVE ProvenanceInv'
  <2>1. Analysis'
    BY <1>1, <1>3, FollowBindingKeeps, BindingsDoneKeeps, EnterKeeps, VisitKeeps, PassKeeps, VisitedKeeps,
       LeaveKeeps, PassAgainKeeps DEF Analyse
  <2>2. stage # "verdict"
    BY <1>3 DEF Analyse, FollowBinding, BindingsDone, Enter, Visit, Pass, Visited, Leave, PassAgain
  <2>3. held = Nothing /\ active = {entry}
    BY <2>2 DEF ProvenanceInv, ProvenanceTyped, Running
  <2>4. Running'
    BY <1>3, <2>3 DEF Running, runVars
  <2> QED
    BY <2>1, <2>4 DEF Analysis, ProvenanceInv
<1>4. ASSUME Resolve \/ Exceeded, UNCHANGED <<program, entry, verdicts, runVars>> PROVE ProvenanceInv'
  <2>1. Analysis'
    BY <1>1, <1>4, ResolveKeeps
  <2>2. stage # "verdict"
    BY <1>4 DEF Resolve, Exceeded
  <2>3. held = Nothing /\ active = {entry}
    BY <2>2 DEF ProvenanceInv, ProvenanceTyped, Running
  <2>4. Running'
    BY <1>4, <2>3 DEF Running, runVars
  <2> QED
    BY <2>1, <2>4 DEF Analysis, ProvenanceInv
<1>5. ASSUME CheckAgain, UNCHANGED <<program, entry, runVars>> PROVE ProvenanceInv'
  <2>1. Analysis'
    BY <1>1, <1>5, CheckAgainKeeps
  <2>2. ~ (Len(verdicts) + 1 = Checks)
    BY <1>5 DEF CheckAgain
  <2>3. held = Nothing /\ active = {entry}
    BY <2>2 DEF ProvenanceInv, Running
  <2>4. Running'
    BY <1>5, <2>3 DEF Running, runVars
  <2> QED
    BY <2>1, <2>4 DEF Analysis, ProvenanceInv
<1>6. ASSUME Runs, UNCHANGED <<program, entry, resolveVars, verdict, verdicts>> PROVE ProvenanceInv'
  <2>1. ProvenanceTyped' /\ Running'
    BY <1>6, RunsKeeps
  <2>2. Bindings' = Bindings /\ Invocations' = Invocations /\ \A w \in Assignments : IsFixpoint(w)' = IsFixpoint(w)
    BY <1>6, FixpointStays
  <2>3. Least'
    BY <1>1, <1>6, <2>2 DEF Analysis, Least, resolveVars
  <2>4. Progress'
    BY <1>1, <1>6, HoldsStay DEF Analysis, ProvenanceTyped, Progress, Runs, resolveVars
  <2> QED
    BY <2>1, <2>3, <2>4 DEF ProvenanceInv
<1>7. ASSUME Rests, UNCHANGED <<program, entry>> PROVE ProvenanceInv'
  <2>1. UNCHANGED provenanceVars
    BY <1>7 DEF Rests, provenanceVars
  <2> QED
    BY <1>2, <2>1
<1> QED
  BY <1>2, <1>3, <1>4, <1>5, <1>6, <1>7 DEF ProvenanceNext

\* The inductive invariant holds of every behaviour of resolveCallbacks and of
\* the program that runs afterwards.
THEOREM ProvenanceInvariant == ProvenanceSpec => []ProvenanceInv
<1>1. ProvenanceInit => ProvenanceInv
  BY ProvenanceInitHolds
<1>2. ProvenanceInv /\ [ProvenanceNext]_provenanceVars => ProvenanceInv'
  BY ProvenanceStepKeeps
<1> QED
  BY <1>1, <1>2, PTL DEF ProvenanceSpec

\* A resolved analysis has found every function a callback may be, and no
\* other, in whatever order it met the targets, for every program, budget and
\* number of checks (resolveCallbacks).
THEOREM ResolvesLeast == ProvenanceSpec => []ResolvedIsLeast
<1>1. ASSUME ProvenanceInv PROVE ResolvedIsLeast
  <2> SUFFICES ASSUME verdict = "resolved"
               PROVE  /\ IsFixpoint(values)
                      /\ \A Part \in SUBSET Held(values) :
                            IsFixpoint([s \in Slots |-> {f \in Functions : <<s, f>> \in Part}]) => Part = Held(values)
    BY DEF ResolvedIsLeast
  <2>1. IsFixpoint(values)
    BY <1>1 DEF ProvenanceInv, Progress
  <2>2. ASSUME NEW Part \in SUBSET Held(values), NEW w,
               w = [s \in Slots |-> {f \in Functions : <<s, f>> \in Part}], IsFixpoint(w)
        PROVE  Held(values) \subseteq Part
    <3>1. w \in Assignments
      BY <2>2 DEF Assignments
    <3>2. Below(values, w)
      BY <1>1, <2>2, <3>1 DEF ProvenanceInv, Least
    <3> QED
      BY <2>2, <3>2 DEF Held, Below
  <2> QED
    BY <2>1, <2>2
<1> QED
  BY <1>1, ProvenanceInvariant, PTL

\* The trusted external functions that a program calls, however it comes to
\* call them, are in its report, for every program (walk in reports.go, on the
\* calls that resolveCallbacks left).
THEOREM HidesNothing == ProvenanceSpec => []NothingHidden
<1>1. ASSUME ProvenanceInv PROVE NothingHidden
  <2>1. active \subseteq Reached(entry)
    BY <1>1, EntryReached DEF ProvenanceInv, Running
  <2> QED
    BY <2>1 DEF NothingHidden, ReachableTrustedExternal
<1> QED
  BY <1>1, ProvenanceInvariant, PTL

----------------------------------------------------------------------------
(* What checkGenericCycles guarantees for every program: the types of an     *)
(* accepted program are wrapped less often than it has outermost functions.  *)
(* InstancesAreBounded is not inductive.  Judged says of every call behind   *)
(* the current one that it was refused, preserves its type parameters, or is *)
(* on no cycle, which takes what the search has closed so far (Frontier).    *)
(* Grown then bounds the depth of an instance by the outermost functions     *)
(* that lead to it and to which it does not lead back.                       *)

Members(s) == {s[k] : k \in DOMAIN s}
Closed(S) == \A i \in DOMAIN calls : calls[i].caller \in S => calls[i].callee \in S
Reach(f) == {g \in Named : \A S \in SUBSET Named : f \in S /\ Closed(S) => g \in S}

OutermostFunctions == {f \in Named : ParentOf[f] = "none"}
Above(f) == {g \in OutermostFunctions : f \in Reach(g) /\ g \notin Reach(f)}

GenericTyped ==
    /\ calls \in Seq(Calls)
    /\ edge \in Nat \ {0} /\ queue \in Seq(Named) /\ seen \in SUBSET Named
    /\ refused \in SUBSET Nat
    /\ judging = "search" => edge \in DOMAIN calls
    /\ judging = "done" => edge > Len(calls)

\* What the search from the callee has met is seen or in the queue, and the
\* caller is not seen.
Frontier ==
    judging = "search" =>
        /\ calls[edge].callee \in seen \cup Members(queue)
        /\ \A i \in DOMAIN calls :
              calls[i].caller \in seen => calls[i].callee \in seen \cup Members(queue)
        /\ calls[edge].caller \notin seen

Harmless(call) ==
    \/ call.instantiation = <<>>
    \/ Preserves(call)
    \/ call.caller \notin Reach(call.callee)
Judged == \A i \in DOMAIN calls : i < edge => i \in refused \/ Harmless(calls[i])

\* Instances are those of accepted programs, and only as deep as the way to them.
Grown ==
    instance # Nobody =>
        /\ judging = "done" /\ refused = {}
        /\ instance.function \in Named
        /\ instance.function \in Reach(Outermost[instance.function])
        /\ instance.depth \in [1 .. Arity[Outermost[instance.function]] -> Nat]
        /\ \A k \in DOMAIN instance.depth :
              instance.depth[k] <= Cardinality(Above(Outermost[instance.function]))

GenericInv == GenericTyped /\ Frontier /\ Judged /\ Grown

----------------------------------------------------------------------------
LEMMA OutermostIs ==
    ASSUME NEW f \in Named
    PROVE  /\ Outermost[f] \in OutermostFunctions
           /\ ParentOf[f] = "none" => Outermost[f] = f
           /\ ParentOf[f] # "none" => Outermost[f] = Outermost[ParentOf[f]]
<1>1. Outermost \in [Named -> Named] /\ Nests(Outermost)
  BY GenericAssumption DEF Outermost
<1> QED BY <1>1 DEF Nests, OutermostFunctions

LEMMA ReachSelf == ASSUME NEW f \in Named PROVE f \in Reach(f)
BY DEF Reach

LEMMA ReachInNamed == ASSUME NEW f PROVE Reach(f) \subseteq Named
BY DEF Reach

\* What a reachable function calls is reachable.
LEMMA ReachCall ==
    ASSUME GenericTyped, NEW f, NEW i \in DOMAIN calls, calls[i].caller \in Reach(f)
    PROVE  calls[i].callee \in Reach(f)
<1>1. calls[i].callee \in Named BY DEF GenericTyped, Calls
<1>2. ASSUME NEW S \in SUBSET Named, f \in S, Closed(S) PROVE calls[i].callee \in S
  <2>1. calls[i].caller \in S BY <1>2 DEF Reach
  <2> QED BY <1>2, <2>1 DEF Closed
<1> QED BY <1>1, <1>2 DEF Reach

LEMMA ReachTransitive ==
    ASSUME NEW f, NEW g \in Reach(f), NEW h \in Reach(g)
    PROVE  h \in Reach(f)
BY DEF Reach

\* A set of functions that is closed under calls holds all they reach.
LEMMA ReachWithin ==
    ASSUME NEW S \in SUBSET Named, Closed(S), NEW f \in S
    PROVE  Reach(f) \subseteq S
BY DEF Reach

\* Reach depends on the calls alone.
LEMMA ReachStays ==
    ASSUME UNCHANGED calls
    PROVE  /\ \A f : Reach(f)' = Reach(f)
           /\ \A f : Above(f)' = Above(f)
           /\ \A call : Harmless(call)' = Harmless(call)
<1>1. \A S : Closed(S)' = Closed(S) BY DEF Closed
<1>2. ASSUME NEW f PROVE Reach(f)' = Reach(f) BY <1>1 DEF Reach
<1> QED BY <1>2 DEF Above, Harmless, Preserves

LEMMA AboveIsFinite ==
    ASSUME NEW f
    PROVE  IsFiniteSet(Above(f)) /\ Cardinality(Above(f)) \in Nat
<1>1. Above(f) \in SUBSET Named BY DEF Above, OutermostFunctions
<1>2. IsFiniteSet(Above(f)) BY <1>1, FS_Subset, GenericAssumption
<1> QED BY <1>2, FS_CardinalityType

----------------------------------------------------------------------------
(* The search.                                                               *)

\* Adjacent lists what a function calls, and nothing else.
LEMMA AdjacentLists ==
    ASSUME GenericTyped, NEW f
    PROVE  /\ Adjacent(f) \in Seq(Named)
           /\ \A i \in DOMAIN calls : calls[i].caller = f => calls[i].callee \in Members(Adjacent(f))
<1> DEFINE from == {i \in DOMAIN calls : calls[i].caller = f}
           before(i) == {j \in from : j <= i}
           place(i) == Cardinality(before(i))
           n == Cardinality(from)
<1>1. DOMAIN calls = 1 .. Len(calls) /\ Len(calls) \in Nat
      /\ \A i \in DOMAIN calls : calls[i].callee \in Named
  BY DEF GenericTyped, Calls
<1>2. IsFiniteSet(from) /\ n \in Nat
  <2>1. IsFiniteSet(1 .. Len(calls)) BY <1>1, FS_Interval
  <2>2. from \in SUBSET (1 .. Len(calls)) BY <1>1
  <2>3. IsFiniteSet(from) BY <2>1, <2>2, FS_Subset
  <2> QED BY <2>3, FS_CardinalityType
<1>3. ASSUME NEW i \in from
      PROVE  IsFiniteSet(before(i)) /\ place(i) \in 1 .. n
  <2>1. before(i) \in SUBSET from OBVIOUS
  <2>2. IsFiniteSet(before(i)) /\ place(i) <= n BY <1>2, <2>1, FS_Subset
  <2>3. i \in before(i) BY <1>1
  <2>4. place(i) \in Nat BY <2>2, FS_CardinalityType
  <2>5. place(i) # 0 BY <2>2, <2>3, FS_EmptySet
  <2> QED BY <2>2, <2>4, <2>5, <1>2
<1>4. ASSUME NEW i \in from, NEW j \in from, i < j PROVE place(i) # place(j)
  <2>1. before(i) \in SUBSET before(j) BY <1>1, <1>4
  <2>2. j \in before(j) /\ j \notin before(i) BY <1>1, <1>4
  <2>3. IsFiniteSet(before(j)) BY <1>3
  <2> QED BY <2>1, <2>2, <2>3, FS_Subset
<1>5. ASSUME NEW i \in from, NEW j \in from, place(i) = place(j) PROVE i = j
  <2>1. i \in Nat /\ j \in Nat BY <1>1
  <2>2. i < j \/ j < i \/ i = j BY <2>1
  <2> HIDE DEF place
  <2> QED BY <1>4, <1>5, <2>2
<1> DEFINE places == [i \in from |-> place(i)]
<1>6. places \in Surjection(from, 1 .. n)
  <2>1. places \in Injection(from, 1 .. n)
    <3> HIDE DEF place
    <3>1. places \in [from -> 1 .. n] BY <1>3
    <3> QED BY <3>1, <1>5 DEF Injection, IsInjective
  <2>2. IsFiniteSet(1 .. n) /\ Cardinality(1 .. n) = n BY <1>2, FS_Interval
  <2> QED BY <1>2, <2>1, <2>2, FS_Injection
<1>7. \A k \in 1 .. n : \E i \in from : place(i) = k
  <2> HIDE DEF place
  <2> QED BY <1>6 DEF Surjection
<1> DEFINE chosen(k) == CHOOSE i \in from : place(i) = k
<1>8. ASSUME NEW k \in 1 .. n PROVE chosen(k) \in from /\ place(chosen(k)) = k
  <2> HIDE DEF place
  <2> QED BY <1>7
<1>9. Adjacent(f) = [k \in 1 .. n |-> calls[chosen(k)].callee]
  BY DEF Adjacent
<1> HIDE DEF place, chosen
<1>10. Adjacent(f) \in [1 .. n -> Named] BY <1>1, <1>8, <1>9
<1>11. Adjacent(f) \in Seq(Named)
  <2>1. n \in Nat BY <1>2
  <2> HIDE DEF n
  <2> QED BY <2>1, <1>10
<1>12. ASSUME NEW i \in DOMAIN calls, calls[i].caller = f
       PROVE  calls[i].callee \in Members(Adjacent(f))
  <2>1. i \in from /\ place(i) \in 1 .. n BY <1>3, <1>12
  <2>2. chosen(place(i)) = i BY <1>5, <1>8, <2>1
  <2> QED BY <1>9, <2>1, <2>2 DEF Members
<1> HIDE DEF n, from
<1> QED BY <1>11, <1>12

\* The top of the queue and what remains are all of it.
LEMMA QueueParts ==
    ASSUME NEW q \in Seq(Named), q # <<>>
    PROVE  /\ SubSeq(q, 1, Len(q) - 1) \in Seq(Named)
           /\ q[Len(q)] \in Named
           /\ Members(q) = Members(SubSeq(q, 1, Len(q) - 1)) \cup {q[Len(q)]}
<1>1. Len(q) \in Nat \ {0} /\ DOMAIN q = 1 .. Len(q) OBVIOUS
<1> DEFINE r == SubSeq(q, 1, Len(q) - 1)
<1>2. r \in Seq(Named) /\ Len(r) = Len(q) - 1 /\ \A k \in 1 .. Len(q) - 1 : r[k] = q[k]
  BY <1>1
<1>3. DOMAIN r = 1 .. Len(q) - 1 BY <1>2
<1>4. q[Len(q)] \in Named BY <1>1
<1>5. ASSUME NEW k \in 1 .. Len(q) PROVE q[k] \in Members(r) \cup {q[Len(q)]}
  <2>1. k = Len(q) \/ k \in 1 .. Len(q) - 1
    <3>1. Len(q) \in Nat OBVIOUS
    <3> QED BY <3>1
  <2> QED BY <1>2, <1>3, <2>1 DEF Members
<1>6. ASSUME NEW k \in DOMAIN r PROVE r[k] \in Members(q)
  <2>1. k \in 1 .. Len(q) /\ r[k] = q[k] BY <1>1, <1>2, <1>3
  <2> QED BY <1>1, <2>1 DEF Members
<1>7. q[Len(q)] \in Members(q) BY <1>1 DEF Members
<1> QED BY <1>1, <1>2, <1>4, <1>5, <1>6, <1>7 DEF Members

LEMMA MembersOfBoth ==
    ASSUME NEW s \in Seq(Named), NEW t \in Seq(Named)
    PROVE  s \o t \in Seq(Named) /\ Members(s \o t) = Members(s) \cup Members(t)
<1>1. s \o t \in Seq(Named) /\ Len(s \o t) = Len(s) + Len(t) OBVIOUS
<1>2. \A k \in 1 .. Len(s) : (s \o t)[k] = s[k] OBVIOUS
<1>3. \A k \in 1 .. Len(t) : (s \o t)[Len(s) + k] = t[k] OBVIOUS
<1>4. ASSUME NEW k \in 1 .. Len(s) + Len(t) PROVE (s \o t)[k] \in Members(s) \cup Members(t)
  <2>1. CASE k <= Len(s) BY <1>2, <2>1 DEF Members
  <2>2. CASE k > Len(s)
    <3>1. k - Len(s) \in 1 .. Len(t) /\ k = Len(s) + (k - Len(s)) BY <2>2
    <3>2. (s \o t)[k] = t[k - Len(s)] BY <1>3, <3>1
    <3> QED BY <3>1, <3>2 DEF Members
  <2> QED BY <2>1, <2>2
<1>5. ASSUME NEW k \in 1 .. Len(s) PROVE s[k] \in Members(s \o t)
  BY <1>1, <1>2 DEF Members
<1>6. ASSUME NEW k \in 1 .. Len(t) PROVE t[k] \in Members(s \o t)
  <2>1. Len(s) + k \in DOMAIN (s \o t) BY <1>1
  <2> QED BY <1>3, <2>1 DEF Members
<1>7. Members(s \o t) \subseteq Members(s) \cup Members(t)
  <2>1. DOMAIN (s \o t) = 1 .. Len(s) + Len(t) BY <1>1
  <2> QED BY <1>4, <2>1 DEF Members
<1>8. DOMAIN s = 1 .. Len(s) /\ DOMAIN t = 1 .. Len(t) OBVIOUS
<1>9. Members(s) \cup Members(t) \subseteq Members(s \o t)
  BY <1>5, <1>6, <1>8 DEF Members
<1> QED BY <1>1, <1>7, <1>9

\* The search has ended: what it has seen is closed, and the caller is not in it.
LEMMA EndOfSearch ==
    ASSUME GenericTyped, Frontier, judging = "search", queue = <<>>
    PROVE  calls[edge].caller \notin Reach(calls[edge].callee)
<1>1. Members(queue) = {} BY DEF Members
<1>2. Closed(seen) /\ calls[edge].callee \in seen BY <1>1 DEF Frontier, Closed
<1>3. Reach(calls[edge].callee) \subseteq seen BY <1>2, ReachWithin DEF GenericTyped
<1> QED BY <1>3 DEF Frontier

LEMMA JudgedStays ==
    ASSUME UNCHANGED calls, Judged, edge \in Nat, refused \subseteq refused',
           \/ edge' = edge
           \/ edge' = edge + 1 /\ (edge \in refused' \/ Harmless(calls[edge])),
           calls \in Seq(Calls)
    PROVE  Judged'
<1> SUFFICES ASSUME NEW i \in DOMAIN calls, i < edge', i \notin refused'
             PROVE  Harmless(calls[i])'
  BY DEF Judged
<1>1. i < edge \/ i = edge BY DOMAIN calls = 1 .. Len(calls)
<1>2. Harmless(calls[i]) BY <1>1 DEF Judged
<1>3. PICK c : c = calls[i] OBVIOUS
<1>4. Harmless(c)' BY <1>2, <1>3, ReachStays
<1>5. c = calls'[i] BY <1>3
<1> QED BY <1>4, <1>5

----------------------------------------------------------------------------
(* The steps of checkGenericCycles.                                          *)

LEMMA GenericInitHolds == ASSUME GenericInit PROVE GenericInv
<1>1. GenericTyped
  <2>1. calls \in Seq(Calls) BY GenericAssumption DEF GenericInit
  <2> QED BY <2>1 DEF GenericInit, GenericTyped
<1>2. Judged BY <1>1, DOMAIN calls = 1 .. Len(calls) DEF GenericInit, Judged, GenericTyped
<1> QED BY <1>1, <1>2 DEF GenericInit, GenericInv, Frontier, Grown

\* No instance exists before the analysis is done.
LEMMA NotYetGrown ==
    ASSUME Grown, judging # "done", UNCHANGED instance
    PROVE  Grown'
BY DEF Grown, Nobody

LEMMA NextCallKeeps == ASSUME GenericInv, NextCall PROVE GenericInv'
<1> USE DEF GenericInv
<1>1. calls' = calls /\ refused' = refused /\ instance' = instance /\ judging = "calls"
      /\ edge \in Nat \ {0} /\ edge <= Len(calls) /\ calls \in Seq(Calls)
  BY DEF NextCall, GenericTyped
<1>2. edge \in DOMAIN calls BY <1>1
<1>3. Grown' BY <1>1, NotYetGrown
<1>4. CASE calls[edge].instantiation = <<>>
  <2>1. edge' = edge + 1 /\ queue' = queue /\ seen' = seen /\ judging' = "calls"
    BY <1>1, <1>4 DEF NextCall
  <2>2. GenericTyped' BY <1>1, <2>1 DEF GenericTyped
  <2>3. Judged' BY <1>1, <1>4, <2>1, JudgedStays DEF Harmless
  <2> QED BY <1>3, <2>1, <2>2, <2>3 DEF Frontier
<1>5. CASE calls[edge].instantiation # <<>>
  <2>1. edge' = edge /\ queue' = <<calls[edge].callee>> /\ seen' = {} /\ judging' = "search"
    BY <1>1, <1>5 DEF NextCall
  <2>2. calls[edge].callee \in Named BY <1>1, <1>2 DEF Calls
  <2>3. GenericTyped' BY <1>1, <1>2, <2>1, <2>2 DEF GenericTyped
  <2>4. Judged' BY <1>1, <2>1, JudgedStays
  <2>5. calls[edge].callee \in Members(queue') BY <2>1 DEF Members
  <2>6. Frontier' BY <1>1, <2>1, <2>5 DEF Frontier, Members
  <2> QED BY <1>3, <2>3, <2>4, <2>6
<1> QED BY <1>4, <1>5

LEMMA CycleFoundKeeps == ASSUME GenericInv, CycleFound PROVE GenericInv'
<1> USE DEF GenericInv
<1>1. calls' = calls /\ instance' = instance /\ judging = "search" /\ judging' = "calls"
      /\ edge' = edge + 1 /\ queue' = <<>> /\ seen' = {}
      /\ edge \in Nat \ {0} /\ calls \in Seq(Calls)
      /\ refused \in SUBSET Nat /\ refused' = IF Preserves(calls[edge]) THEN refused ELSE refused \cup {edge}
  BY DEF CycleFound, GenericTyped
<1>2. refused \subseteq refused' /\ refused' \in SUBSET Nat BY <1>1
<1>3. edge \in refused' \/ Harmless(calls[edge]) BY <1>1 DEF Harmless
<1>4. GenericTyped' BY <1>1, <1>2 DEF GenericTyped
<1>5. Judged' BY <1>1, <1>2, <1>3, JudgedStays
<1>6. Grown' BY <1>1, NotYetGrown
<1> QED BY <1>1, <1>4, <1>5, <1>6 DEF Frontier

LEMMA NoCycleKeeps == ASSUME GenericInv, NoCycle PROVE GenericInv'
<1> USE DEF GenericInv
<1>1. calls' = calls /\ instance' = instance /\ judging = "search" /\ judging' = "calls"
      /\ edge' = edge + 1 /\ queue' = queue /\ seen' = {} /\ refused' = refused
      /\ edge \in Nat \ {0} /\ calls \in Seq(Calls)
  BY DEF NoCycle, GenericTyped
<1>2. Harmless(calls[edge]) BY <1>1, EndOfSearch DEF NoCycle, Harmless
<1>3. GenericTyped' BY <1>1 DEF GenericTyped
<1>4. Judged' BY <1>1, <1>2, JudgedStays
<1>5. Grown' BY <1>1, NotYetGrown
<1> QED BY <1>1, <1>3, <1>4, <1>5 DEF Frontier

\* The function on top is known already.
LEMMA SkipSeenKeeps == ASSUME GenericInv, SkipSeen PROVE GenericInv'
<1> USE DEF GenericInv
<1>1. UNCHANGED <<calls, edge, seen, refused, judging, instance>> /\ judging = "search"
      /\ queue' = Remaining /\ queue # <<>> /\ Newest \in seen
      /\ edge \in Nat \ {0} /\ calls \in Seq(Calls) /\ queue \in Seq(Named)
  BY DEF SkipSeen, Searching, GenericTyped
<1>2. queue' \in Seq(Named) /\ Members(queue) = Members(queue') \cup {Newest}
  BY <1>1, QueueParts DEF Remaining, Newest
<1>3. GenericTyped' BY <1>1, <1>2 DEF GenericTyped
<1>4. Frontier' BY <1>1, <1>2 DEF Frontier, Members
<1>5. Judged' BY <1>1, JudgedStays
<1>6. Grown' BY <1>1, NotYetGrown
<1> QED BY <1>3, <1>4, <1>5, <1>6

\* The function on top is seen, and what it calls joins the queue.
LEMMA SearchKeeps == ASSUME GenericInv, Search PROVE GenericInv'
<1> USE DEF GenericInv
<1>1. UNCHANGED <<calls, edge, refused, judging, instance>> /\ judging = "search"
      /\ seen' = seen \cup {Newest} /\ queue' = Remaining \o Adjacent(Newest)
      /\ queue # <<>> /\ Newest # calls[edge].caller
      /\ edge \in Nat \ {0} /\ calls \in Seq(Calls) /\ queue \in Seq(Named)
  BY DEF Search, Searching, GenericTyped
<1>2. Remaining \in Seq(Named) /\ Newest \in Named /\ Members(queue) = Members(Remaining) \cup {Newest}
  BY <1>1, QueueParts DEF Remaining, Newest
<1>3. /\ Adjacent(Newest) \in Seq(Named)
      /\ \A i \in DOMAIN calls : calls[i].caller = Newest => calls[i].callee \in Members(Adjacent(Newest))
  BY AdjacentLists
<1>4. queue' \in Seq(Named) /\ Members(queue') = Members(Remaining) \cup Members(Adjacent(Newest))
  <2>1. PICK q : q = Remaining \o Adjacent(Newest) OBVIOUS
  <2>2. q \in Seq(Named) /\ Members(q) = Members(Remaining) \cup Members(Adjacent(Newest))
    BY <1>2, <1>3, <2>1, MembersOfBoth
  <2> QED BY <1>1, <2>1, <2>2
<1>5. GenericTyped' BY <1>1, <1>2, <1>4 DEF GenericTyped
<1>6. seen \cup Members(queue) \subseteq seen' \cup Members(queue') BY <1>1, <1>2, <1>4
<1>7. \A i \in DOMAIN calls : calls[i].caller \in seen' => calls[i].callee \in seen' \cup Members(queue')
  BY <1>1, <1>3, <1>4, <1>6 DEF Frontier
<1>8. Frontier'
  <2>1. calls[edge].callee \in seen' \cup Members(queue') /\ calls[edge].caller \notin seen'
    BY <1>1, <1>6 DEF Frontier
  <2> HIDE DEF GenericInv
  <2> QED BY <1>1, <1>7, <2>1 DEF Frontier, Members
<1>9. Judged' BY <1>1, JudgedStays
<1>10. Grown' BY <1>1, NotYetGrown
<1> QED BY <1>5, <1>8, <1>9, <1>10

LEMMA SearchExceedsKeeps == ASSUME GenericInv, SearchExceeds PROVE GenericInv'
<1> USE DEF GenericInv
<1>1. UNCHANGED <<calls, edge, instance>> /\ judging = "search" /\ judging' = "exceeded"
      /\ seen' = seen \cup {Newest} /\ queue' = Remaining /\ refused' = refused \cup {edge}
      /\ queue # <<>> /\ edge \in Nat \ {0} /\ calls \in Seq(Calls) /\ queue \in Seq(Named)
  BY DEF SearchExceeds, Searching, GenericTyped
<1>2. queue' \in Seq(Named) /\ Newest \in Named
  BY <1>1, QueueParts DEF Remaining, Newest
<1>3. GenericTyped' BY <1>1, <1>2 DEF GenericTyped
<1>4. Judged' BY <1>1, JudgedStays
<1>5. Grown' BY <1>1, NotYetGrown
<1> QED BY <1>1, <1>3, <1>4, <1>5 DEF Frontier

LEMMA AllJudgedKeeps == ASSUME GenericInv, AllJudged PROVE GenericInv'
<1> USE DEF GenericInv
<1>1. UNCHANGED <<calls, edge, queue, seen, refused, instance>> /\ judging = "calls"
      /\ judging' = "done" /\ edge > Len(calls) /\ edge \in Nat \ {0} /\ calls \in Seq(Calls)
  BY DEF AllJudged, GenericTyped
<1>2. GenericTyped' BY <1>1 DEF GenericTyped
<1>3. Judged' BY <1>1, JudgedStays
<1>4. Grown' BY <1>1, NotYetGrown
<1> QED BY <1>1, <1>2, <1>3, <1>4 DEF Frontier

----------------------------------------------------------------------------
(* The steps of an accepted program.                                         *)

\* What leads to the function around a caller leads to the callee, and so does
\* that function itself, unless the callee leads back to the caller.
LEMMA AboveGrows ==
    ASSUME GenericTyped, NEW i \in DOMAIN calls, NEW root \in OutermostFunctions,
           calls[i].caller \in Reach(root), NEW callee, callee = calls[i].callee
    PROVE  /\ Cardinality(Above(root)) <= Cardinality(Above(callee))
           /\ calls[i].caller \notin Reach(callee) =>
                 Cardinality(Above(root)) + 1 <= Cardinality(Above(callee))
<1>1. callee \in Reach(root) BY ReachCall
<1>2. Above(root) \in SUBSET Above(callee)
  <2> SUFFICES ASSUME NEW g \in Above(root) PROVE g \in Above(callee)
    OBVIOUS
  <2>1. g \in OutermostFunctions /\ root \in Reach(g) /\ g \notin Reach(root) BY DEF Above
  <2>2. callee \in Reach(g) BY <1>1, <2>1, ReachTransitive
  <2>3. g \notin Reach(callee) BY <1>1, <2>1, ReachTransitive
  <2> QED BY <2>1, <2>2, <2>3 DEF Above
<1>3. /\ IsFiniteSet(Above(root)) /\ Cardinality(Above(root)) \in Nat
      /\ IsFiniteSet(Above(callee)) /\ Cardinality(Above(callee)) \in Nat
  BY AboveIsFinite
<1>4. Cardinality(Above(root)) <= Cardinality(Above(callee)) BY <1>2, <1>3, FS_Subset
<1>5. ASSUME calls[i].caller \notin Reach(callee)
      PROVE  Cardinality(Above(root)) + 1 <= Cardinality(Above(callee))
  <2>1. root \in Named /\ root \in Reach(root) BY ReachSelf DEF OutermostFunctions
  <2>2. root \notin Above(root) BY <2>1 DEF Above
  <2>3. root \notin Reach(callee) BY <1>5, ReachTransitive
  <2>4. root \in Above(callee) BY <1>1, <2>3 DEF Above
  <2>5. Cardinality(Above(root) \cup {root}) = Cardinality(Above(root)) + 1
    BY <1>3, <2>2, FS_AddElement
  <2>6. Above(root) \cup {root} \in SUBSET Above(callee) BY <1>2, <2>4
  <2> QED BY <1>3, <2>5, <2>6, FS_Subset
<1> QED BY <1>4, <1>5

LEMMA GrownAnew ==
    ASSUME UNCHANGED calls, judging' = "done", refused' = {},
           NEW f \in Named, NEW depth, instance'.function = f, instance'.depth = depth,
           NEW root, root = Outermost[f], f \in Reach(root),
           depth \in [1 .. Arity[root] -> Nat],
           \A k \in DOMAIN depth : depth[k] <= Cardinality(Above(root))
    PROVE  Grown'
<1>1. f \in Reach(root)' /\ Above(root)' = Above(root) BY ReachStays
<1>2. Outermost[instance'.function] = root OBVIOUS
<1>3. instance'.function \in Reach(root)' BY <1>1
<1>4. Cardinality(Above(root)') = Cardinality(Above(root)) BY <1>1
<1> QED BY <1>2, <1>3, <1>4 DEF Grown

LEMMA FirstInstanceKeeps == ASSUME GenericInv, FirstInstance PROVE GenericInv'
<1> USE DEF GenericInv
<1>1. UNCHANGED <<calls, edge, queue, seen, refused, judging>> /\ judging = "done" /\ refused = {}
      /\ edge \in Nat /\ calls \in Seq(Calls)
  BY DEF FirstInstance, GenericTyped
<1>2. PICK f \in Named : ParentOf[f] = "none" /\ instance' = [function |-> f, depth |-> [k \in 1 .. Arity[f] |-> 0]]
  BY DEF FirstInstance
<1>3. Outermost[f] = f /\ f \in Reach(f) BY <1>2, OutermostIs, ReachSelf
<1>4. f \in Reach(f)' /\ Above(f)' = Above(f) BY <1>1, <1>3, ReachStays
<1>5. Cardinality(Above(f)) \in Nat BY AboveIsFinite
<1>6. instance'.function = f /\ instance'.depth = [k \in 1 .. Arity[f] |-> 0] BY <1>2
<1>7. instance'.depth \in [1 .. Arity[f] -> Nat] /\ \A k \in DOMAIN instance'.depth : instance'.depth[k] <= Cardinality(Above(f))
  BY <1>5, <1>6
<1>8. Grown' BY <1>1, <1>3, <1>4, <1>6, <1>7 DEF Grown
<1>9. GenericTyped' BY <1>1 DEF GenericTyped
<1>10. Judged' BY <1>1, JudgedStays
<1> QED BY <1>1, <1>8, <1>9, <1>10 DEF Frontier

\* How deep the arguments of a call are at most.
LEMMA ArgumentsAreBounded ==
    ASSUME GenericTyped, Judged, Grown, instance # Nobody,
           NEW i \in DOMAIN calls, NEW call, call = calls[i],
           call.caller = instance.function, NEW k \in DOMAIN call.instantiation
    PROVE  /\ Depth(call.instantiation[k], instance.depth) \in Nat
           /\ Depth(call.instantiation[k], instance.depth) <= Cardinality(Above(call.callee))
<1> DEFINE root == Outermost[call.caller]
           depth == instance.depth
           n == Cardinality(Above(root))
           m == Cardinality(Above(call.callee))
<1>1. call \in Calls BY DEF GenericTyped
<1>2. PICK a : a = call.instantiation[k] OBVIOUS
<1>3. a \in TypeArguments /\ a.parameter <= Arity[root] BY <1>1, <1>2 DEF Calls
<1>4. call.caller \in Named /\ root \in OutermostFunctions BY <1>1, OutermostIs DEF Calls
<1>5. /\ judging = "done" /\ refused = {} /\ call.caller \in Reach(root)
      /\ depth \in [1 .. Arity[root] -> Nat]
      /\ \A j \in DOMAIN depth : depth[j] <= n
  BY DEF Grown
<1>6. n \in Nat /\ m \in Nat BY AboveIsFinite
<1>7. n <= m /\ (call.caller \notin Reach(call.callee) => n + 1 <= m)
  BY <1>4, <1>5, AboveGrows
<1>8. Harmless(call)
  <2>1. i < edge BY <1>5, DOMAIN calls = 1 .. Len(calls) DEF GenericTyped
  <2> QED BY <2>1, <1>5 DEF Judged
<1>9. a.parameter \in Nat /\ a.wrapped \in {0, 1} BY <1>3 DEF TypeArguments
<1>10. a.parameter # 0 => a.parameter \in DOMAIN depth /\ depth[a.parameter] \in Nat /\ depth[a.parameter] <= n
  <2>1. Arity[root] \in Nat BY <1>4, GenericAssumption DEF OutermostFunctions
  <2> QED BY <1>3, <1>5, <1>9, <2>1
<1>11. Depth(a, depth) \in Nat /\ Depth(a, depth) <= a.wrapped + n
  BY <1>6, <1>9, <1>10 DEF Depth
<1>12. call.instantiation # <<>> OBVIOUS
<1>13. CASE Preserves(call)
  <2>1. call.instantiation[k] = [parameter |-> k, wrapped |-> 0] BY <1>13 DEF Preserves
  <2>2. a.wrapped = 0 BY <1>2, <2>1
  <2> QED BY <1>2, <1>6, <1>7, <1>11, <2>2
<1>14. CASE call.caller \notin Reach(call.callee)
  BY <1>2, <1>6, <1>7, <1>9, <1>11, <1>14
<1> QED BY <1>8, <1>12, <1>13, <1>14 DEF Harmless

LEMMA InstantiateKeeps == ASSUME GenericInv, Instantiate PROVE GenericInv'
<1> USE DEF GenericInv
<1>1. UNCHANGED <<calls, edge, queue, seen, refused, judging>> /\ edge \in Nat /\ calls \in Seq(Calls)
  BY DEF Instantiate, GenericTyped
<1>2. PICK i \in DOMAIN calls :
          /\ calls[i].caller = instance.function /\ calls[i].kind # "callback"
          /\ instance' = [function |-> calls[i].callee,
                          depth |-> IF calls[i].kind = "closure" THEN instance.depth
                                    ELSE [k \in DOMAIN calls[i].instantiation |->
                                             Depth(calls[i].instantiation[k], instance.depth)]]
  BY DEF Instantiate
<1>3. PICK call : call = calls[i] OBVIOUS
<1>4. call \in Calls BY <1>1, <1>3
<1>5. call.caller \in Named /\ call.callee \in Named BY <1>4 DEF Calls
<1>6. instance # Nobody BY <1>2, <1>3, <1>5, GenericAssumption DEF Nobody
<1>7. PICK root : root = Outermost[call.caller] OBVIOUS
<1>8. /\ judging = "done" /\ refused = {}
      /\ call.caller \in Reach(root)
      /\ instance.depth \in [1 .. Arity[root] -> Nat]
      /\ \A k \in DOMAIN instance.depth : instance.depth[k] <= Cardinality(Above(root))
  BY <1>2, <1>3, <1>6, <1>7 DEF Grown
<1>9. instance'.function = call.callee BY <1>2, <1>3
<1>10. UNCHANGED calls /\ judging' = "done" /\ refused' = {} BY <1>1, <1>8
<1>11. ASSUME call.kind = "closure" PROVE Grown'
  <2>1. ParentOf[call.callee] = call.caller /\ call.caller # "none"
    BY <1>4, <1>5, <1>11, GenericAssumption DEF Calls
  <2>2. Outermost[call.callee] = root BY <1>5, <1>7, <2>1, OutermostIs
  <2>3. call.callee \in Reach(root) BY <1>3, <1>8, ReachCall
  <2>4. instance'.depth = instance.depth BY <1>2, <1>3, <1>11
  <2>5. PICK callee \in Named : callee = call.callee BY <1>5
  <2>6. PICK depth : depth = instance.depth OBVIOUS
  <2>7. instance'.function = callee /\ instance'.depth = depth BY <1>9, <2>4, <2>5, <2>6
  <2>8. root = Outermost[callee] /\ callee \in Reach(root) BY <2>2, <2>3, <2>5
  <2>9. /\ depth \in [1 .. Arity[root] -> Nat]
        /\ \A k \in DOMAIN depth : depth[k] <= Cardinality(Above(root))
    BY <1>8, <2>6
  <2> QED BY <1>10, <2>5, <2>7, <2>8, <2>9, GrownAnew
<1>12. ASSUME call.kind # "closure" PROVE Grown'
  <2>1. PICK callee \in Named : callee = call.callee BY <1>5
  <2>2. ParentOf[callee] = "none" /\ Len(call.instantiation) = Arity[callee] /\ call.instantiation \in Seq(TypeArguments)
    BY <1>2, <1>3, <1>4, <1>12, <2>1 DEF Calls
  <2>3. Outermost[callee] = callee /\ callee \in Reach(callee) BY <1>5, <2>1, <2>2, OutermostIs, ReachSelf
  <2>5. DOMAIN call.instantiation = 1 .. Arity[callee] BY <2>2
  <2>6. instance'.depth = [k \in 1 .. Arity[callee] |-> Depth(call.instantiation[k], instance.depth)]
    BY <1>2, <1>3, <1>12, <2>5
  <2>7. ASSUME NEW k \in 1 .. Arity[callee]
        PROVE  /\ Depth(call.instantiation[k], instance.depth) \in Nat
               /\ Depth(call.instantiation[k], instance.depth) <= Cardinality(Above(callee))
    BY <1>2, <1>3, <1>6, <2>1, <2>5, ArgumentsAreBounded
  <2>8. PICK depth : depth = instance'.depth OBVIOUS
  <2>9. /\ depth \in [1 .. Arity[callee] -> Nat]
        /\ \A k \in DOMAIN depth : depth[k] <= Cardinality(Above(callee))
    BY <2>6, <2>7, <2>8
  <2>10. instance'.function = callee /\ instance'.depth = depth BY <1>9, <2>1, <2>8
  <2>11. callee = Outermost[callee] BY <2>3
  <2> QED BY <1>10, <2>1, <2>3, <2>9, <2>10, <2>11, GrownAnew
<1>13. GenericTyped' BY <1>1 DEF GenericTyped
<1>14. Judged' BY <1>1, JudgedStays
<1>15. Frontier' BY <1>1, <1>8 DEF Frontier
<1> QED BY <1>11, <1>12, <1>13, <1>14, <1>15

----------------------------------------------------------------------------
LEMMA GenericStepKeeps == ASSUME GenericInv, [GenericNext]_genericVars PROVE GenericInv'
<1>1. ASSUME UNCHANGED genericVars PROVE GenericInv'
  <2>1. UNCHANGED <<calls, edge, queue, seen, refused, judging, instance>> BY <1>1 DEF genericVars
  <2>2. GenericTyped' BY <2>1 DEF GenericInv, GenericTyped
  <2>3. Frontier' BY <2>1 DEF GenericInv, Frontier, Members
  <2>4. Judged' BY <2>1, JudgedStays DEF GenericInv, GenericTyped
  <2>5. Grown'
    <3>1. CASE instance = Nobody BY <2>1, <3>1 DEF Grown
    <3>2. CASE instance # Nobody
      <4>1. PICK root : root = Outermost[instance.function] OBVIOUS
      <4>2. Reach(root)' = Reach(root) /\ Above(root)' = Above(root) BY <2>1, ReachStays
      <4> QED BY <2>1, <3>2, <4>1, <4>2 DEF GenericInv, Grown
    <3> QED BY <3>1, <3>2
  <2> QED BY <2>2, <2>3, <2>4, <2>5 DEF GenericInv
<1>2. ASSUME GenericRests PROVE GenericInv' BY <1>1, <1>2 DEF GenericRests
<1> QED BY <1>1, <1>2, NextCallKeeps, CycleFoundKeeps, SkipSeenKeeps, SearchKeeps, SearchExceedsKeeps,
           NoCycleKeeps, AllJudgedKeeps, FirstInstanceKeeps, InstantiateKeeps DEF GenericNext

LEMMA GenericInvariant == GenericSpec => []GenericInv
<1>1. GenericInit => GenericInv BY GenericInitHolds
<1>2. GenericInv /\ [GenericNext]_genericVars => GenericInv' BY GenericStepKeeps
<1> QED BY <1>1, <1>2, PTL DEF GenericSpec

\* For every program, every nesting and every budget: no instance of a function
\* of an accepted program has types as deep as there are outermost functions, so
\* that its instances are finitely many.
THEOREM AcceptedIsBounded == GenericSpec => []InstancesAreBounded
<1>1. ASSUME GenericInv PROVE InstancesAreBounded
  <2> USE <1>1 DEF GenericInv
  <2>1. CASE instance = Nobody BY <2>1 DEF InstancesAreBounded, Nobody
  <2>2. CASE instance # Nobody
    <3>1. PICK root : root = Outermost[instance.function] OBVIOUS
    <3>2. root \in OutermostFunctions /\ root \in Named
      BY <2>2, <3>1, OutermostIs DEF Grown, OutermostFunctions
    <3>3. root \notin Above(root) BY <3>2, ReachSelf DEF Above
    <3>4. Above(root) \in SUBSET OutermostFunctions BY DEF Above
    <3>5. IsFiniteSet(OutermostFunctions)
      <4>1. OutermostFunctions \in SUBSET Named BY DEF OutermostFunctions
      <4> QED BY <4>1, FS_Subset, GenericAssumption
    <3>6. Cardinality(Above(root)) < Cardinality(OutermostFunctions)
      <4>1. Cardinality(Above(root)) \in Nat /\ Cardinality(OutermostFunctions) \in Nat
        BY <3>5, AboveIsFinite, FS_CardinalityType
      <4>2. Cardinality(Above(root)) <= Cardinality(OutermostFunctions) BY <3>4, <3>5, FS_Subset
      <4>3. Cardinality(Above(root)) # Cardinality(OutermostFunctions)
        BY <3>2, <3>3, <3>4, <3>5, FS_Subset
      <4> QED BY <4>1, <4>2, <4>3
    <3>7. Cardinality(Above(root)) \in Nat /\ Cardinality(OutermostFunctions) \in Nat
      BY <3>5, AboveIsFinite, FS_CardinalityType
    <3>8. \A k \in DOMAIN instance.depth : instance.depth[k] \in Nat /\ instance.depth[k] <= Cardinality(Above(root))
      BY <2>2, <3>1 DEF Grown
    <3> QED BY <3>6, <3>7, <3>8 DEF InstancesAreBounded, OutermostFunctions
  <2> QED BY <2>1, <2>2
<1> QED BY <1>1, GenericInvariant, PTL
=============================================================================
