--------------------------- MODULE VerifyContract ---------------------------
(* What one verification promises (README.md, "Reports are deterministic     *)
(* across worker counts and cache states"): every discovered source file is  *)
(* read once, and the report is a function of the bytes that were read and   *)
(* of nothing else -- not of how many workers there were, of the order they  *)
(* ran in, or of what any earlier or concurrent verification left in the     *)
(* cache.                                                                    *)
EXTENDS Naturals

CONSTANTS Items,       \* indices of the discovered files
          Version,     \* the identity of this verifier and its frontend
          Texts,       \* what a source file may contain
          Malformed,   \* texts the frontend diagnoses (PP002, PP003)
          Illtyped,    \* texts that parse but that linking or checking rejects
          Gone,        \* the file cannot be read (PP101)
          Unread, NoReport

VARIABLES
    disk,      \* the contents of the source files
    observed,  \* what was read of each of them
    report

vvars == <<disk, observed, report>>

\* The summary the frontend of a version makes of a text in a file.
Summary(v, i, x) == [version |-> v, file |-> i, text |-> x]

\* The semantic rules see all the trees at once.
Checked(trees) ==
    [kind |-> "checked", trees |-> trees,
     ok |-> \A i \in Items : trees[i].text \notin Illtyped]

Rejected(ds) == [kind |-> "rejected", diagnostics |-> ds, ok |-> FALSE]
Failed(code) == [kind |-> "failed", code |-> code, ok |-> FALSE]

\* The report on the bytes obs, computed without a cache or a second worker.
Verdict(obs) ==
    LET faulty == {i \in Items : obs[i] \in Malformed \cup {Gone}}
        made == [i \in Items |-> Summary(Version, i, obs[i])]
    IN  IF faulty = {} THEN Checked(made) ELSE Rejected({made[i] : i \in faulty})

VerifyInit ==
    /\ disk \in [Items -> Texts]
    /\ observed = [i \in Items |-> Unread]
    /\ report = NoReport

\* Somebody edits or deletes a file while the verifier runs.
EditDisk(i, x) ==
    /\ disk' = [disk EXCEPT ![i] = x]
    /\ UNCHANGED <<observed, report>>

Look(i) ==
    /\ observed[i] = Unread
    /\ observed' = [observed EXCEPT ![i] = disk[i]]
    /\ UNCHANGED <<disk, report>>

Publish ==
    /\ report = NoReport
    /\ \A i \in Items : observed[i] # Unread
    /\ report' = Verdict(observed)
    /\ UNCHANGED <<disk, observed>>

\* The configuration, the discovery or a manifest failed: no source was read.
Refuse ==
    /\ report = NoReport
    /\ \A i \in Items : observed[i] = Unread
    /\ \E code \in {"PP001", "PP101", "PP601"} : report' = Failed(code)
    /\ UNCHANGED <<disk, observed>>

VerifyNext ==
    \/ \E i \in Items, x \in Texts \cup {Gone} : EditDisk(i, x)
    \/ \E i \in Items : Look(i)
    \/ Publish
    \/ Refuse

VerifySpec == VerifyInit /\ [][VerifyNext]_vvars

============================================================================
