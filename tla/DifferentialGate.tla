-------------------------- MODULE DifferentialGate --------------------------
(* The differential gates (tools/differential_semantics.py, _functions.py,   *)
(* _modules.py): a corpus with curated expectations, a verifier process that *)
(* judges it without running it, a CPython process that runs it, and a       *)
(* parent that believes neither and compares both with the expectations.     *)
(*                                                                           *)
(* What the verifier and CPython really did is history (verdict, did); the   *)
(* parent sees only the lists they return.                                   *)
EXTENDS Naturals, Sequences, FiniteSets

CONSTANTS
    Corpus,   \* the cases: their expected codes, and the expected end of each call
    MaxOdd    \* bound: departures from what is expected, in one run of a gate

Gates == {"expression", "function", "module"}
Codes == {"E1", "E2", "PP099"}
Exceptions == {"x", "y"}                  \* domain exceptions
Harness == {"budget", "foreign", "huge"}  \* no budget left, no domain exception, no encoding
CallEnds == {"value", "other", "alien"} \cup Exceptions \cup Harness

\* A corpus calls each of its cases, and expects neither an internal failure of
\* the verifier nor one of the harness.
ASSUME GateAssumption ==
    /\ MaxOdd \in Nat
    /\ Corpus # <<>>
    /\ Corpus \in Seq([codes : SUBSET (Codes \ {"PP099"}),
                       calls : Seq([want : {"value", "other"} \cup Exceptions, checked : BOOLEAN])])
    /\ \A c \in DOMAIN Corpus : Corpus[c].calls # <<>>

VARIABLES
    gate,     \* which gate runs
    stage,    \* of run_gate and main
    odd,      \* departures so far
    verdict,  \* what the verifier decided about each case
    did,      \* what the calls did in CPython: worker, case, call, end, host events in order
    static,   \* the verifier's results as received
    worker,   \* the CPython worker under way: case, call, results, recorded host events
    payloads, \* the results of the workers that ended
    failures, \* the cases with errors
    artifact, \* the cases whose evidence was saved
    unsaved,  \* saving failed
    status    \* exit status

gateVars == <<gate, stage, odd, verdict, did, static, worker, payloads, failures, artifact, unsaved, status>>

CaseIds == DOMAIN Corpus
CallsOf(c) == IF gate = "expression" THEN {1} ELSE DOMAIN Corpus[c].calls
Expected(c) == [ok |-> Corpus[c].codes = {}, codes |-> Corpus[c].codes]
Fresh == [case |-> 1, call |-> 1, results |-> <<>>, outcomes |-> <<>>, events |-> <<>>]

GateInit ==
    /\ gate \in Gates
    /\ stage = "probe" /\ odd = 0
    /\ verdict = <<>> /\ did = {} /\ static = <<>> /\ worker = Fresh /\ payloads = <<>>
    /\ failures = {} /\ artifact = {} /\ unsaved = FALSE /\ status = "none"

\* n departures; an expected step is none.
Depart(n) == odd + n <= MaxOdd /\ odd' = odd + n
Counted(b) == IF b THEN 1 ELSE 0

\* The orders in which results may come back, with losses and repetitions.
InOrder == [i \in CaseIds |-> i]
Orders == {InOrder} \cup [CaseIds -> CaseIds] \cup {SubSeq(InOrder, 1, Len(Corpus) - 1)}

----------------------------------------------------------------------------
(* The two sides.                                                            *)

\* A process fails, is too slow, or its envelope is malformed: ValueError or
\* TimeoutExpired in the parent.
ProcessFails ==
    /\ stage \in {"probe", "run"}
    /\ Depart(1)
    /\ stage' = "broken"
    /\ UNCHANGED <<gate, verdict, did, static, worker, payloads, failures, artifact, unsaved, status>>

\* Slip: only the number of results is checked.
ReadResultsUnnamed(order) == Len(order) = Len(Corpus)

\* read_results: one result per case, under its name and in its place.
ReadResults(order) == Len(order) = Len(Corpus) /\ \A i \in CaseIds : order[i] = i

\* The verifier judges the corpus: in one process, or (modules) one per case.
Probe ==
    /\ stage = "probe"
    /\ \E v \in [CaseIds -> [ok : BOOLEAN, codes : SUBSET Codes]],
          order \in (IF gate = "module" THEN {InOrder} ELSE Orders) :
          /\ Depart(Cardinality({c \in CaseIds : v[c] # Expected(c)}) + Counted(order # InOrder))
          /\ verdict' = v
          /\ static' = [i \in DOMAIN order |-> v[order[i]]]
          /\ stage' = IF ReadResults(order) THEN "run" ELSE "broken"
    /\ UNCHANGED <<gate, did, worker, payloads, failures, artifact, unsaved, status>>

\* A call ends and its outcome is noted; a failure of the harness ends the worker.
Note(e, tidy, recorded) ==
    LET c == worker.case
        i == worker.call
        outcomes == Append(worker.outcomes, [index |-> i, end |-> e, events |-> recorded])
    IN  /\ stage = "run" /\ c \in CaseIds
        /\ Depart(Counted(e # Corpus[c].calls[i].want) + Counted(~ tidy))
        /\ did' = did \cup {[worker |-> Len(payloads) + 1, case |-> c, call |-> i, end |-> e, tidy |-> tidy]}
        /\ stage' = IF e \in Harness THEN "broken" ELSE stage
        /\ worker' = IF i + 1 \in CallsOf(c)
                     THEN [worker EXCEPT !.call = i + 1, !.outcomes = outcomes, !.events = recorded]
                     ELSE [case |-> c + 1, call |-> 1, outcomes |-> <<>>, events |-> <<>>,
                           results |-> Append(worker.results, outcomes)]
        /\ UNCHANGED <<gate, verdict, static, payloads, failures, artifact, unsaved, status>>

\* runtime_case of the expression gate: eval, with no budget of its own.
RunExpression == gate = "expression" /\ \E e \in CallEnds \ {"budget"} : Note(e, TRUE, <<>>)

\* runtime_case of the function gate: a traced call of probe.
RunFunction == gate = "function" /\ \E e \in CallEnds : Note(e, TRUE, <<>>)

\* Slip: the host's events are not cleared between the calls.
RunModuleUncleared ==
    gate = "module" /\ \E e \in CallEnds, tidy \in BOOLEAN :
        Note(e, tidy, Append(worker.events, IF tidy THEN worker.call ELSE 0))

\* runtime_case of the module gate: the host's events are cleared, probe is
\* called and its coroutine driven to the end.
RunModule ==
    gate = "module" /\ \E e \in CallEnds, tidy \in BOOLEAN :
        Note(e, tidy, <<IF tidy THEN worker.call ELSE 0>>)

\* The worker prints its results.  The module gate runs a second worker, whose
\* results must be the same.
Received ==
    /\ stage = "run" /\ worker.case \notin CaseIds
    /\ \E order \in Orders :
          LET results == [i \in DOMAIN order |-> worker.results[order[i]]]
          IN  /\ Depart(Counted(order # InOrder))
              /\ payloads' = Append(payloads, results)
              /\ stage' = IF ~ ReadResults(order) \/ (payloads # <<>> /\ payloads[1] # results) THEN "broken"
                          ELSE IF gate = "module" /\ payloads = <<>> THEN "run" ELSE "compare"
    /\ worker' = Fresh
    /\ UNCHANGED <<gate, verdict, did, static, failures, artifact, unsaved, status>>

----------------------------------------------------------------------------
(* compare_case: whether the parent finds an error.                          *)

\* The verdict contradicts its diagnostics or the expectation, or the verifier
\* failed internally.
BadVerdict(c, s) ==
    \/ s.ok # (s.codes = {}) \/ "PP099" \in s.codes
    \/ s.ok # (Corpus[c].codes = {})

BadExpression(c, s, outcomes) ==
    LET want == Corpus[c].calls[1]
        end == outcomes[1].end
    IN  \/ BadVerdict(c, s)
        \/ /\ Corpus[c].codes = {}
           /\ IF want.want \in Exceptions THEN end # want.want
              ELSE end \in Exceptions \cup {"alien"} \/ (want.checked /\ end # want.want)

BadFunction(c, s, outcomes) ==
    \/ BadVerdict(c, s)
    \/ Corpus[c].codes # {} /\ s.codes \cap Corpus[c].codes = {}
    \/ DOMAIN outcomes # DOMAIN Corpus[c].calls
    \/ \E i \in DOMAIN Corpus[c].calls :
          LET want == Corpus[c].calls[i]
              end == outcomes[i].end
          IN  \/ outcomes[i].index # i
              \/ IF want.want \in Exceptions THEN end # want.want
                 ELSE \/ end \in Exceptions
                      \/ s.ok /\ end = "alien"
                      \/ want.checked /\ end # want.want

BadModule(c, s, outcomes) ==
    \/ BadVerdict(c, s)
    \/ s.codes # Corpus[c].codes
    \/ DOMAIN outcomes # DOMAIN Corpus[c].calls
    \/ \E i \in DOMAIN Corpus[c].calls :
          \/ outcomes[i].index # i \/ outcomes[i].events # <<i>>
          \/ s.ok /\ outcomes[i].end = "alien"
          \/ outcomes[i].end # Corpus[c].calls[i].want

Compare ==
    /\ stage = "compare"
    /\ failures' = {c \in CaseIds :
                      CASE gate = "expression" -> BadExpression(c, static[c], payloads[1][c])
                        [] gate = "function" -> BadFunction(c, static[c], payloads[1][c])
                        [] gate = "module" -> BadModule(c, static[c], payloads[1][c])}
    /\ stage' = "report"
    /\ UNCHANGED <<gate, odd, verdict, did, static, worker, payloads, artifact, unsaved, status>>

----------------------------------------------------------------------------
(* main.                                                                     *)

Exit(s) == stage' = "done" /\ status' = s

Save(cases) == Depart(0) /\ artifact' = cases /\ UNCHANGED unsaved
SaveFails == Depart(1) /\ unsaved' = TRUE /\ UNCHANGED artifact

Pass(g) ==
    /\ gate = g /\ stage = "report" /\ failures = {}
    /\ Exit("0")
    /\ UNCHANGED <<gate, odd, verdict, did, static, worker, payloads, failures, artifact, unsaved>>

\* The expression gate keeps the cases of mismatches only.
ExpressionEnds ==
    \/ Pass("expression")
    \/ /\ gate = "expression" /\ (stage = "broken" \/ failures # {}) /\ stage \in {"report", "broken"}
       /\ IF stage = "report" THEN Save(failures) \/ SaveFails ELSE UNCHANGED <<odd, artifact, unsaved>>
       /\ Exit("1")
       /\ UNCHANGED <<gate, verdict, did, static, worker, payloads, failures>>

\* The others keep all cases when the gate itself failed, which includes that
\* the mismatches could not be saved.
EvidenceEnds(g) ==
    \/ Pass(g)
    \/ /\ gate = g /\ stage = "report" /\ failures # {}
       /\ \/ Save(failures) /\ Exit("1")
          \/ SaveFails /\ stage' = "broken" /\ UNCHANGED status
       /\ UNCHANGED <<gate, verdict, did, static, worker, payloads, failures>>
    \/ /\ gate = g /\ stage = "broken"
       /\ (Save(CaseIds) \/ SaveFails) /\ Exit("1")
       /\ UNCHANGED <<gate, verdict, did, static, worker, payloads, failures>>

FunctionEnds == EvidenceEnds("function")
ModuleEnds == EvidenceEnds("module")

GateEnded == stage = "done" /\ UNCHANGED gateVars

GateNext ==
    \/ Probe \/ ProcessFails \/ RunExpression \/ RunFunction \/ RunModule \/ Received
    \/ Compare \/ ExpressionEnds \/ FunctionEnds \/ ModuleEnds \/ GateEnded

----------------------------------------------------------------------------
\* What the gate stands for, said of what really happened.
Agrees(c) ==
    LET v == verdict[c]
        right(d) ==
            LET want == Corpus[c].calls[d.call]
            IN  /\ want.want \in Exceptions <=> d.end \in Exceptions
                /\ want.want \in Exceptions \/ want.checked => d.end = want.want
                /\ v.ok => d.end # "alien"
                /\ gate = "module" => d.tidy
    IN  /\ v.ok <=> Corpus[c].codes = {}
        /\ ~ v.ok /\ gate # "expression" => v.codes \cap Corpus[c].codes # {}
        /\ v.ok \/ gate # "expression" =>
              /\ \A d \in did : d.case = c => right(d)
              /\ \A i \in CallsOf(c) : \E d \in did : d.case = c /\ d.call = i

\* A gate that passes has compared every verdict and every outcome with its own
\* expectation, whatever the processes did to their results on the way; if all
\* goes as expected it passes; and the function and module gates leave the
\* evidence of a failure unless the disk fails.
GateIsHonest ==
    /\ status = "0" => \A c \in CaseIds : Agrees(c)
    /\ status = "1" => odd > 0
    /\ status = "1" /\ gate # "expression" /\ ~ unsaved => artifact # {} /\ failures \subseteq artifact
=============================================================================
