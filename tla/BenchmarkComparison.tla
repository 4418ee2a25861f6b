------------------------- MODULE BenchmarkComparison -------------------------
(* tools/benchmark_compare.py and the verifier's part of                     *)
(* tools/performance_acceptance.py: a candidate's measurements are compared  *)
(* with a baseline's, or with the ceilings of a profile, if both reports are *)
(* complete and, to be compared, of the same inputs and machine.             *)
EXTENDS Integers, Sequences, FiniteSets

CONSTANTS
    Sizes,       \* the sizes of the generated projects, in modules
    Jobs,        \* the worker counts
    Repetitions, \* the samples of a phase
    MaxValue,    \* bound: what is measured, in units of the noise allowance
    MaxSpoiled,  \* bound: what is measured when a report is spoiled
    Ceiling      \* the profile: fixed and per_module

ASSUME CompareAssumption ==
    /\ Sizes \subseteq Nat \ {0} /\ Jobs # {}
    /\ Repetitions \in Nat \ {0} /\ MaxValue \in Nat

Phases == {"cold", "warm", "edited"}
SourceFiles == 2
Hits(phase) == CASE phase = "warm" -> SourceFiles [] phase = "edited" -> SourceFiles - 1 [] OTHER -> 0
Noise == 1

VARIABLES
    reports,    \* what the benchmark wrote: the baseline and the candidate
    damaged,    \* history: the reports that are not what a whole benchmark writes
    compared,   \* of the comparison: passed, regressed, incompatible, exploratory, invalid
    code,       \* of the comparison, -1 before
    acceptance  \* of the acceptance

compareVars == <<reports, damaged, compared, code, acceptance>>

\* A report as a whole benchmark writes it: an entry for every size and worker
\* count, with inputs, the edited inputs, and samples and their median.
Entry(input, size, jobs, value) ==
    [size |-> size, jobs |-> jobs, input |-> <<input, size>>, edited |-> <<input, size, "edited">>,
     equivalent |-> TRUE, hits |-> [p \in Phases |-> Hits(p)],
     samples |-> [p \in Phases |-> [i \in 1 .. Repetitions |-> value]], median |-> [p \in Phases |-> value]]
Whole(machine, input, value) ==
    [machine |-> machine,
     entries |-> {Entry(input, size, jobs, value[size]) : size \in Sizes, jobs \in Jobs}]

CompareInit ==
    /\ \E input, machine \in {"same", "other"}, before, after \in [Sizes -> 0 .. MaxValue] :
          reports = [baseline |-> Whole("same", "same", before), candidate |-> Whole(machine, input, after)]
    /\ damaged = {} /\ compared = "none" /\ code = -1 /\ acceptance = "none"

\* An entry of another benchmark, of an interrupted or of a wrong one.
Odd(entry) ==
    {[entry EXCEPT !.equivalent = FALSE], [entry EXCEPT !.edited = entry.input],
     [entry EXCEPT !.hits["warm"] = 0], [entry EXCEPT !.hits["edited"] = SourceFiles],
     [entry EXCEPT !.samples["cold"] = <<>>], [entry EXCEPT !.median["cold"] = @ + 1],
     [entry EXCEPT !.edited = <<"another edit", entry.size>>]}

\* An entry is missing, odd, or there beside an odd one.
Spoil ==
    /\ damaged = {} /\ compared = "none" /\ acceptance = "none"
    /\ \A e \in reports.baseline.entries \cup reports.candidate.entries : e.median["cold"] <= MaxSpoiled
    /\ \E side \in {"baseline", "candidate"} : \E entry \in reports[side].entries :
          \E there \in {{}, {entry}}, odd \in {{}} \cup {{o} : o \in Odd(entry)} :
             /\ there \cup odd # {entry}
             /\ damaged' = {side}
             /\ reports' = [reports EXCEPT ![side].entries = (@ \ {entry}) \cup there \cup odd]
    /\ UNCHANGED <<compared, code, acceptance>>

----------------------------------------------------------------------------
(* validate: complete, and consistent with itself.                           *)

Point(entry) == <<entry.size, entry.jobs>>

\* The samples of a phase agree here, so that each is their median.
Consistent(entry) ==
    /\ entry.equivalent
    /\ entry.edited # entry.input
    /\ \A p \in Phases :
          /\ Len(entry.samples[p]) = Repetitions
          /\ entry.hits[p] = Hits(p)
          /\ \A i \in DOMAIN entry.samples[p] : entry.samples[p][i] = entry.median[p]

\* Slip: the inputs are not compared across the worker counts.
ValidAlone(report) ==
    /\ \A e \in report.entries : Consistent(e) /\ \A d \in report.entries \ {e} : Point(d) # Point(e)
    /\ {Point(e) : e \in report.entries} = Sizes \X Jobs

Valid(report) ==
    /\ \A e \in report.entries : Consistent(e) /\ \A d \in report.entries \ {e} : Point(d) # Point(e)
    /\ {Point(e) : e \in report.entries} = Sizes \X Jobs
    /\ \A e, d \in report.entries : e.size = d.size => e.input = d.input /\ e.edited = d.edited

(* compare.                                                                  *)

Pairs ==
    {p \in reports.baseline.entries \X reports.candidate.entries : Point(p[1]) = Point(p[2])}
SameInputs(p) == p[1].input = p[2].input /\ p[1].edited = p[2].edited
Compatible == reports.baseline.machine = reports.candidate.machine /\ \A p \in Pairs : SameInputs(p)
Comparable == {p \in Pairs : SameInputs(p)}

\* More than half above the baseline and the noise.
Slower(p, phase) == 2 * p[2].median[phase] > 3 * p[1].median[phase] + 2 * Noise

\* large is above small times the ratio, a quarter more and the noise.
Beyond(large, small, over, under) == 4 * large * under > 5 * small * over + 4 * Noise * under

\* q is of the next larger size than p, with the same worker count.
Adjacent(p, q) ==
    /\ p[1].jobs = q[1].jobs /\ p[1].size < q[1].size
    /\ \A r \in Comparable :
          r[1].jobs = p[1].jobs => ~ (p[1].size < r[1].size /\ r[1].size < q[1].size)

\* Slip: a faster small input is held against a large one that did not regress.
SteeperAnyway(p, q, phase) ==
    LET from == p[1].median[phase]
        to == q[1].median[phase]
        small == p[2].median[phase]
        large == q[2].median[phase]
    IN  /\ Adjacent(p, q)
        /\ from > 0 /\ small > 0
        /\ Beyond(large, small, q[1].size, p[1].size) /\ Beyond(large, small, to, from)

\* From one size to the next the candidate grows by a quarter more than the
\* input and than the baseline grew, and its larger value is above the
\* baseline's and the noise.
Steeper(p, q, phase) ==
    LET from == p[1].median[phase]
        to == q[1].median[phase]
        small == p[2].median[phase]
        large == q[2].median[phase]
    IN  /\ Adjacent(p, q)
        /\ from > 0 /\ small > 0
        /\ Beyond(large, small, q[1].size, p[1].size) /\ Beyond(large, small, to, from)
        /\ large > to + Noise

Failures ==
    {f \in Comparable \X Phases : Slower(f[1], f[2])} \cup
    {f \in Comparable \X Phases : \E q \in Comparable : Steeper(q, f[1], f[2])}

Comparison(override) ==
    CASE ~ (Valid(reports.baseline) /\ Valid(reports.candidate)) -> "invalid"
      [] Valid(reports.baseline) /\ Valid(reports.candidate) /\ ~ Compatible ->
            IF override THEN "exploratory" ELSE "incompatible"
      [] OTHER -> IF Failures = {} THEN "passed" ELSE "regressed"

\* main, with and without --allow-incompatible.
CompareReports ==
    /\ compared = "none"
    /\ \E override \in BOOLEAN : compared' = Comparison(override)
    /\ code' = CASE compared' = "passed" -> 0 [] compared' = "regressed" -> 1 [] OTHER -> 2
    /\ UNCHANGED <<reports, damaged, acceptance>>

\* performance_acceptance.accept: the candidate under the profile's ceilings,
\* on the profile's machine.
Accept ==
    /\ acceptance = "none"
    /\ acceptance' =
          IF /\ Valid(reports.candidate) /\ reports.candidate.machine = "same"
             /\ \A e \in reports.candidate.entries, p \in Phases :
                   e.median[p] <= Ceiling.fixed + Ceiling.per_module * e.size
          THEN "accepted" ELSE "rejected"
    /\ UNCHANGED <<reports, damaged, compared, code>>

CompareNext == Spoil \/ CompareReports \/ Accept \/ (compared # "none" /\ acceptance # "none" /\ UNCHANGED compareVars)
----------------------------------------------------------------------------
Value(side, size) == (CHOOSE e \in reports[side].entries : e.size = size).median["cold"]

\* Nothing passes, neither the comparison nor the acceptance, that a whole
\* benchmark did not write, and reports of different inputs or machines are not
\* compared whatever options are given.  A candidate that is nowhere slower than
\* the baseline by more than the noise passes, however much faster it became on
\* a smaller input; and no median of one that passes is slower by more than half.
ComparisonIsFair ==
    /\ acceptance = "accepted" => "candidate" \notin damaged
    /\ code \in {0, 1} => damaged = {} /\ reports.candidate.machine = "same" /\ Comparable = Pairs
    /\ code = 1 => \E size \in Sizes : Value("candidate", size) > Value("baseline", size) + Noise
    /\ code = 0 => \A size \in Sizes : 2 * Value("candidate", size) <= 3 * Value("baseline", size) + 2 * Noise
=============================================================================
