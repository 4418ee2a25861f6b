------------------------------ MODULE MCTools ------------------------------
(* The tools, one at a time.                                                 *)
EXTENDS DifferentialGate, FuzzCampaign, BenchmarkProcess, BenchmarkMeasure, BenchmarkComparison,
        EvidenceAudit, Release, TLC

VARIABLE tool

\* A function case that is accepted, returns once and raises once, and one that
\* is rejected.
TwoCases ==
    <<[codes |-> {}, calls |-> <<[want |-> "value", checked |-> TRUE], [want |-> "x", checked |-> FALSE]>>],
      [codes |-> {"E1"}, calls |-> <<[want |-> "value", checked |-> FALSE]>>]>>

\* Lines of a specification: a mandatory line that introduces a list, a list
\* item, an item that is mandatory and introduces another list, and prose.
SomeLines ==
    {Heading("1.1"), Heading("2"), Bare("blank"), Bare("fence"),
     Text("a", FALSE, TRUE, TRUE), Text("b", TRUE, FALSE, FALSE),
     Text("d", TRUE, TRUE, TRUE), Text("c", FALSE, FALSE, FALSE)}

SomeCeiling == [fixed |-> 1, per_module |-> 1]

Symmetric == Permutations(Machines)

Tools == {"gate", "campaign", "process", "measure", "comparison", "audit", "release"}

Zero == Whole("same", "same", [size \in Sizes |-> 0])

Init ==
    /\ tool \in Tools
    /\ tool # "audit" => document = <<>>
    /\ tool # "comparison" => reports = [baseline |-> Zero, candidate |-> Zero]
    /\ GateInit /\ CampaignInit /\ ProcessInit /\ MeasureInit /\ CompareInit /\ AuditInit /\ ReleaseInit
    /\ (tool # "gate" => gate = "function") /\ (tool # "process" => direct)

Next ==
    /\ UNCHANGED tool
    /\ \/ /\ tool = "gate" /\ GateNext
          /\ UNCHANGED <<campaignVars, processVars, measureVars, compareVars, auditVars, releaseVars>>
       \/ /\ tool = "campaign" /\ CampaignNext
          /\ UNCHANGED <<gateVars, processVars, measureVars, compareVars, auditVars, releaseVars>>
       \/ /\ tool = "process" /\ ProcessNext
          /\ UNCHANGED <<gateVars, campaignVars, measureVars, compareVars, auditVars, releaseVars>>
       \/ /\ tool = "measure" /\ MeasureNext
          /\ UNCHANGED <<gateVars, campaignVars, processVars, compareVars, auditVars, releaseVars>>
       \/ /\ tool = "comparison" /\ CompareNext
          /\ UNCHANGED <<gateVars, campaignVars, processVars, measureVars, auditVars, releaseVars>>
       \/ /\ tool = "audit" /\ AuditNext
          /\ UNCHANGED <<gateVars, campaignVars, processVars, measureVars, compareVars, releaseVars>>
       \/ /\ tool = "release" /\ ReleaseNext
          /\ UNCHANGED <<gateVars, campaignVars, processVars, measureVars, compareVars, auditVars>>

Spec == Init /\ [][Next]_<<tool, gateVars, campaignVars, processVars, measureVars, compareVars, auditVars, releaseVars>>
============================================================================
