-------------------------- MODULE BenchmarkMeasure --------------------------
(* tools/benchmark.py measure, invoke and main: the verifier runs on a       *)
(* generated project, without its cache, with an empty one, with a full one  *)
(* and after edits, and the benchmark reports the samples only while every   *)
(* output and every count of cache hits is as it must be.                    *)
EXTENDS Naturals, Sequences, FiniteSets

CONSTANTS
    Files,    \* the project's source files; one of them declares what is edited
    Edited,   \* that file
    Repeats,  \* --repeat
    Workers,  \* how many worker counts are measured, one after the other
    MaxMistakes    \* bound: invocations of the verifier that go wrong

ASSUME MeasureAssumption ==
    /\ IsFiniteSet(Files) /\ Edited \in Files
    /\ Repeats \in Nat \ {0} /\ Workers \in Nat \ {0} /\ MaxMistakes \in Nat

\* The edits, in their order: of a declaration (its file misses), of the
\* manifest, which every key contains (all files miss).
Mutations == <<"declaration", "manifest">>
Contents == {"original", "declaration", "manifest"}

VARIABLES
    content,  \* the project as it is on disk
    cache,    \* the keys in .purepy-cache: a file as it was under a manifest
    step,     \* the next thing measure does
    mutation, \* the index of the edit under way
    pass,     \* the repeats completed
    column,   \* the worker counts completed
    baseline, \* the output without cache everything is compared with
    cached,   \* what the edited project gave with the cache: output and hits
    hashes,   \* the output after each edit, in this measure
    before,   \* the same in the measure before
    wrong,    \* history: an invocation went wrong whose output or count is reported
    mistakes, \* invocations that went wrong
    outcome   \* "none", "report" or "raised"

measureVars == <<content, cache, step, mutation, pass, column, baseline, cached, hashes, before,
                 wrong, mistakes, outcome>>

NoHashes == [i \in DOMAIN Mutations |-> "none"]
Key(f, c) == <<f, CASE c = "declaration" /\ f = Edited -> "edited"
                    [] c = "manifest" -> "anew"
                    [] OTHER -> "plain">>
Keys(c) == {Key(f, c) : f \in Files}
\* The right output of a content, or some other one that accepts or rejects.
Outputs == Contents \cup {"accepts", "rejects"}
Accepting == {"original", "accepts"}
HitCounts == 0 .. Cardinality(Files)
None == [output |-> "none", hits |-> 0]

MeasureInit ==
    /\ content = "original" /\ cache = {} /\ step = "baseline"
    /\ mutation = 1 /\ pass = 0 /\ column = 0
    /\ baseline = "none" /\ cached = None /\ hashes = NoHashes /\ before = NoHashes
    /\ wrong = FALSE /\ mistakes = 0 /\ outcome = "none"

\* Slip: the edit is not undone.
RaisedUnrestored ==
    /\ outcome' = "raised" /\ step' = "over"
    /\ UNCHANGED <<content, cache, mutation, pass, column, baseline, cached, hashes, before>>

\* An error ends the benchmark; measure restores what it edited.
Raised ==
    /\ outcome' = "raised" /\ step' = "over" /\ content' = "original"
    /\ UNCHANGED <<cache, mutation, pass, column, baseline, cached, hashes, before>>

\* invoke: the verifier checks the project as it is and answers with an output
\* and a number of hits.  It is right, or wrong in one of them.
Invoke(noCache, output, hits) ==
    LET right == [output |-> content,
                  hits |-> IF noCache THEN 0 ELSE Cardinality(Keys(content) \cap cache)]
        odd == <<output, hits>> # <<right.output, right.hits>>
    IN  /\ odd => mistakes < MaxMistakes
        /\ output = right.output \/ hits = right.hits
        /\ mistakes' = mistakes + (IF odd THEN 1 ELSE 0)
        /\ wrong' = (wrong \/ (odd /\ step # "restored"))

\* The cache after a run that uses it.
Filled == cache' = cache \cup Keys(content)

\* The verifier cannot be run, or an interrupt.
InvocationFails ==
    /\ step \notin {"clear", "edit", "over"}
    /\ Raised /\ UNCHANGED <<wrong, mistakes>>

----------------------------------------------------------------------------
(* main and measure.                                                         *)

\* Without cache, with one worker.  The corpus must be accepted; with --no-cache
\* a hit is an error of its own, here and below.
Baseline ==
    /\ step = "baseline"
    /\ \E output \in Outputs, hits \in HitCounts :
          /\ Invoke(TRUE, output, hits)
          /\ IF hits = 0 /\ output \in Accepting
             THEN /\ baseline' = output /\ step' = "uncached"
                  /\ UNCHANGED <<content, cache, mutation, pass, column, cached, hashes, before, outcome>>
             ELSE Raised

Uncached ==
    /\ step = "uncached"
    /\ \E output \in Outputs, hits \in HitCounts :
          /\ Invoke(TRUE, output, hits)
          /\ IF hits = 0 /\ output = baseline
             THEN /\ step' = "clear"
                  /\ UNCHANGED <<content, cache, mutation, pass, column, baseline, cached, hashes, before, outcome>>
             ELSE Raised

ClearCache ==
    /\ step = "clear"
    /\ cache' = {} /\ step' = "cold"
    /\ UNCHANGED <<content, mutation, pass, column, baseline, cached, hashes, before, wrong, mistakes, outcome>>

\* The cold run fills the cache; the warm one reads all of it.
ColdAndWarm ==
    /\ step \in {"cold", "warm"}
    /\ \E output \in Outputs, hits \in HitCounts :
          /\ Invoke(FALSE, output, hits)
          /\ IF output = baseline /\ hits = IF step = "cold" THEN 0 ELSE Cardinality(Files)
             THEN /\ Filled /\ step' = IF step = "cold" THEN "warm" ELSE "edit"
                  /\ UNCHANGED <<content, mutation, pass, column, baseline, cached, hashes, before, outcome>>
             ELSE Raised

\* Before the second edit, the restored project is checked again.
Restored ==
    /\ step = "restored"
    /\ \E output \in Outputs, hits \in HitCounts :
          /\ Invoke(FALSE, output, hits)
          /\ IF output = baseline
             THEN /\ Filled /\ step' = "edit"
                  /\ UNCHANGED <<content, mutation, pass, column, baseline, cached, hashes, before, outcome>>
             ELSE Raised

Edit ==
    /\ step = "edit"
    /\ content' = Mutations[mutation] /\ step' = "changed"
    /\ UNCHANGED <<cache, mutation, pass, column, baseline, cached, hashes, before, wrong, mistakes, outcome>>

Changed ==
    /\ step = "changed"
    /\ \E output \in Outputs, hits \in HitCounts :
          /\ Invoke(FALSE, output, hits)
          /\ Filled /\ cached' = [output |-> output, hits |-> hits] /\ step' = "fresh"
    /\ UNCHANGED <<content, mutation, pass, column, baseline, hashes, before, outcome>>

ExpectedHits == IF Mutations[mutation] = "manifest" THEN 0 ELSE Cardinality(Files) - 1

\* The output after an edit: the same without cache, a rejection, with the hits
\* of the files the edit left alone, and the same as in the repeat before.
Acceptable(output) ==
    /\ output = cached.output /\ cached.output # baseline /\ cached.output \notin Accepting
    /\ cached.hits = ExpectedHits
    /\ hashes[mutation] \in {"none", cached.output}

\* After the last edit the repeat is over, after the last repeat the measure;
\* the measures of different worker counts must agree.
NextRepeat(recorded) ==
    IF pass + 1 < Repeats
    THEN pass' = pass + 1 /\ step' = "uncached" /\ hashes' = recorded /\ UNCHANGED <<column, before, outcome>>
    ELSE IF before \notin {NoHashes, recorded}
    THEN outcome' = "raised" /\ step' = "over" /\ UNCHANGED <<pass, column, hashes, before>>
    ELSE /\ pass' = 0 /\ hashes' = NoHashes /\ before' = recorded /\ column' = column + 1
         /\ IF column + 1 < Workers
            THEN step' = "uncached" /\ UNCHANGED outcome
            ELSE step' = "over" /\ outcome' = "report"

\* The edit is checked without cache and undone.
FreshRun ==
    /\ step = "fresh"
    /\ \E output \in Outputs, hits \in HitCounts :
          /\ Invoke(TRUE, output, hits)
          /\ IF hits = 0 /\ Acceptable(output)
             THEN /\ content' = "original" /\ cached' = None
                  /\ LET recorded == [hashes EXCEPT ![mutation] = cached.output]
                     IN  IF mutation < Len(Mutations)
                         THEN /\ mutation' = mutation + 1 /\ step' = "restored" /\ hashes' = recorded
                              /\ UNCHANGED <<pass, column, before, outcome>>
                         ELSE mutation' = 1 /\ NextRepeat(recorded)
                  /\ UNCHANGED <<cache, baseline>>
             ELSE Raised

BenchmarkOver == step = "over" /\ UNCHANGED measureVars

MeasureNext ==
    \/ Baseline \/ Uncached \/ ClearCache \/ ColdAndWarm \/ Restored \/ Edit \/ Changed \/ FreshRun
    \/ InvocationFails \/ BenchmarkOver
----------------------------------------------------------------------------
\* A report is only of invocations that all gave the right output and the right
\* number of hits, although one that is wrong in two places, or the same way
\* twice, passes single comparisons; and whatever ends a measure, the next one
\* and the caller find the project as it was.
MeasureIsHonest ==
    /\ outcome = "report" => ~ wrong
    /\ step \notin {"changed", "fresh"} => content = "original"
=============================================================================
