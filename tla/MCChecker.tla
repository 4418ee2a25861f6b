----------------------------- MODULE MCChecker -----------------------------
(* The linker and the checkers, which run one after the other on data of     *)
(* their own: the import graph, the function bodies, the callbacks, the      *)
(* generic calls.  A part that does not run stays in an initial state, a     *)
(* body in a final one.                                                      *)
EXTENDS MCImportGraph, MCFlowExec, MCCallbacks, MCGenerics

VARIABLE part

ImportsIdle == imports = [m \in Modules |-> <<>>] /\ Init
BodiesIdle ==
    /\ body = <<>> /\ pc = 1 /\ local = [y \in Vars |-> "unbound"] /\ declared = [y \in Vars |-> "int"]
    /\ returns = "None" /\ status = "fell"
SomeProgram == CHOOSE p \in Programs : TRUE
CallbacksIdle == program = SomeProgram /\ entry = f /\ ProvenanceInit
GenericsIdle == calls = <<>> /\ GenericInit

CheckerInit ==
    \/ part = "imports" /\ BodiesIdle /\ CallbacksIdle /\ GenericsIdle /\ Init
    \/ part = "bodies" /\ ImportsIdle /\ CallbacksIdle /\ GenericsIdle /\ ExecInit
    \/ part = "callbacks" /\ ImportsIdle /\ BodiesIdle /\ GenericsIdle /\ ProvenanceInit
    \/ part = "generics" /\ ImportsIdle /\ BodiesIdle /\ CallbacksIdle /\ GenericInit

CheckerNext ==
    /\ UNCHANGED part
    /\ \/ part = "imports" /\ Next /\ UNCHANGED <<evars, provenanceVars, genericVars>>
       \/ part = "bodies" /\ ExecNext /\ UNCHANGED <<vars, provenanceVars, genericVars>>
       \/ part = "callbacks" /\ ProvenanceNext /\ UNCHANGED <<vars, evars, genericVars>>
       \/ part = "generics" /\ GenericNext /\ UNCHANGED <<vars, evars, provenanceVars>>

CheckerSpec == CheckerInit /\ [][CheckerNext]_<<part, vars, evars, provenanceVars, genericVars>>
============================================================================
