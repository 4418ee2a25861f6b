---------------------------- MODULE EvidenceAudit ----------------------------
(* tools/spec_coverage.py: every obligation of the language specification is *)
(* mapped to tests.  The audit inventories the specification, checks the map *)
(* and renders it into docs/CONFORMANCE.md, which has to be up to date.      *)
EXTENDS Integers, Sequences, FiniteSets, SequencesExt

CONSTANTS
    Lines,     \* lines of the specification
    MaxLines,  \* bound: its length
    MaxRows    \* bound: entries of the maps

\* A line: a numbered heading, a blank, a fence of an example, or text, which
\* may be a list item, contain a keyword (MUST, REQUIRED, SHALL), end in ":".
Heading(section) == [kind |-> "heading", text |-> section, item |-> FALSE, must |-> FALSE, colon |-> FALSE]
Bare(kind) == [kind |-> kind, text |-> "", item |-> FALSE, must |-> FALSE, colon |-> FALSE]
Text(text, item, must, colon) == [kind |-> "text", text |-> text, item |-> item, must |-> must, colon |-> colon]

\* A line is told by its text.
ASSUME LinesAssumption ==
    /\ MaxLines \in Nat
    /\ \A a \in Lines :
          \/ a \in {Heading(a.text), Bare("blank"), Bare("fence")}
          \/ (a = Text(a.text, a.item, a.must, a.colon) /\ {a.item, a.must, a.colon} \subseteq BOOLEAN)
    /\ \A a, b \in Lines : a.kind = "text" /\ b.kind = "text" /\ a.text = b.text => a = b

VARIABLES
    document, \* docs/PUREPY_SPEC.md, a sequence of lines
    rows,     \* docs/conformance: what a quoted line is mapped to
    present,  \* the tests that are cited exist
    report,   \* docs/CONFORMANCE.md
    auditExit \* of the audit, none after an edit

auditVars == <<document, rows, present, report, auditExit>>

Glossary == "1.1"
Stale == <<"1", "stale">>

----------------------------------------------------------------------------
(* inventory: one pass over the lines, and another over the lists that       *)
(* mandatory lines introduce.                                                *)

Scanned == [section |-> "1", fenced |-> FALSE, clauses |-> {}, parents |-> {}]
Scan(done, i) ==
    LET line == document[i]
        mandatory == done.section # Glossary /\ line.must
        key == <<done.section, line.text>>
        clause == [key |-> key, line |-> i, mandatory |-> mandatory]
    IN  CASE line.kind = "fence" -> [done EXCEPT !.fenced = ~ @]
          [] line.kind # "fence" /\ done.fenced -> done
          [] line.kind = "heading" /\ ~ done.fenced -> [done EXCEPT !.section = line.text]
          [] line.kind = "blank" /\ ~ done.fenced -> done
          [] line.kind = "text" /\ ~ done.fenced ->
                [done EXCEPT !.clauses = IF \E c \in @ : c.key = key THEN @ ELSE @ \cup {clause},
                             !.parents = IF mandatory /\ line.colon THEN @ \cup {clause} ELSE @]

\* Slip: a blank line before a list ends it.
ItemsAdjacent(parent) ==
    {j \in parent.line + 1 .. Len(document) : \A k \in parent.line + 1 .. j : document[k].item}

\* The items after a parent, with blank lines before and between them.
Items(parent) ==
    {j \in parent.line + 1 .. Len(document) :
        document[j].item /\ \A k \in parent.line + 1 .. j : document[k].item \/ document[k].kind = "blank"}

Inventory ==
    LET scan[i \in 0 .. Len(document)] == IF i = 0 THEN Scanned ELSE Scan(scan[i - 1], i)
        scanned == scan[Len(document)]
        listed == UNION {{[key |-> <<p.key[1], document[j].text>>, line |-> j, mandatory |-> TRUE] : j \in Items(p)} :
                            p \in scanned.parents}
        last == {c \in listed : \A d \in listed : d.key = c.key => d.line <= c.line}
    IN  {c \in scanned.clauses : \A d \in listed : d.key # c.key} \cup last

----------------------------------------------------------------------------
(* audit, render and main.                                                   *)

\* A test that is cited must be found in its file.
Located(row) == row.evidence # {} => present

\* What is wrong with the maps, of any entry and of all together.
Errors(clauses) ==
    {<<"stale quote", r>> : r \in {r \in rows : \A c \in clauses : c.key # r.key}} \cup
    {<<"duplicate", r>> : r \in {r \in rows : \E q \in rows \ {r} : q.key = r.key}} \cup
    {<<"test not found", r>> : r \in {r \in rows : ~ Located(r)}} \cup
    {<<"one-sided", r>> : r \in {r \in rows : r.status = "tested" /\ r.evidence # {"positive", "negative"}}} \cup
    {<<"unmapped", c>> : c \in {c \in clauses : c.mandatory /\ \A r \in rows : r.key # c.key}}

\* The report shows every mapped clause where it is, and their number.
Rendered(clauses) ==
    LET mapped == {c \in clauses : \E r \in rows : r.key = c.key}
    IN  [clauses |-> mapped, rows |-> rows, mandatory |-> Cardinality({c \in mapped : c.mandatory})]

NoReportYet == [clauses |-> {}, rows |-> {}, mandatory |-> 0]

AuditInit ==
    /\ document \in BoundedSeq(Lines, MaxLines)
    /\ rows = {} /\ present = TRUE /\ report = NoReportYet /\ auditExit = "none"

\* make coverage-report and make coverage-test.
AuditRuns ==
    /\ auditExit = "none"
    /\ \E write \in BOOLEAN :
          LET clauses == Inventory
              rendered == Rendered(clauses)
          IN  /\ auditExit' = IF Errors(clauses) = {} /\ (write \/ report = rendered) THEN "0" ELSE "1"
              /\ report' = IF Errors(clauses) = {} /\ write THEN rendered ELSE report
    /\ UNCHANGED <<document, rows, present>>

\* What an obligation may be mapped to.
Mappings ==
    {[status |-> "tested", evidence |-> {"positive", "negative"}], [status |-> "tested", evidence |-> {"positive"}],
     [status |-> "partial", evidence |-> {}]}

\* Between the audits the specification, the maps and the tests are edited.
MapLine ==
    /\ Cardinality(rows) < MaxRows
    /\ \E key \in {c.key : c \in Inventory} \cup {Stale}, mapping \in Mappings :
          rows' = rows \cup {[key |-> key, status |-> mapping.status, evidence |-> mapping.evidence]}
    /\ auditExit' = "none" /\ UNCHANGED <<document, present, report>>
DropLine ==
    /\ report # NoReportYet
    /\ \E i \in DOMAIN document : document' = RemoveAt(document, i)
    /\ auditExit' = "none" /\ UNCHANGED <<rows, present, report>>
DropTests ==
    /\ present /\ present' = FALSE
    /\ auditExit' = "none" /\ UNCHANGED <<document, rows, report>>

AuditNext == AuditRuns \/ MapLine \/ DropLine \/ DropTests \/ (auditExit # "none" /\ UNCHANGED auditVars)
----------------------------------------------------------------------------
\* Where a line stands in the specification.
Outside(i) == Cardinality({k \in 1 .. i : document[k].kind = "fence"}) % 2 = 0
Headings(i) == {k \in 1 .. i : document[k].kind = "heading" /\ Outside(k)}
Section(i) == IF Headings(i) = {} THEN "1" ELSE document[CHOOSE k \in Headings(i) : \A h \in Headings(i) : h <= k].text
Keyword(i) == document[i].must /\ Outside(i) /\ Section(i) # Glossary
Obligations ==
    {i \in DOMAIN document :
        \/ Keyword(i)
        \/ document[i].item /\ \E p \in 1 .. i - 1 :
              /\ Keyword(p) /\ document[p].colon
              /\ \A k \in p + 1 .. i : document[k].item \/ document[k].kind = "blank"}

\* An audit that succeeds has seen every obligation of the specification as it
\* is then, those in lists included and nothing of an example or the glossary;
\* each is mapped exactly once, by tests that exist, and those called tested
\* have evidence of both kinds; and the report is of this specification: it
\* counts its obligations.
AuditIsComplete ==
    auditExit = "0" =>
        LET keys == {<<Section(i), document[i].text>> : i \in Obligations}
        IN  /\ \A key \in keys : Cardinality({r \in rows : r.key = key}) = 1
            /\ \A r \in rows : (r.evidence = {} \/ present) /\ (r.status = "tested" => Cardinality(r.evidence) = 2)
            /\ report.mandatory = Cardinality(keys)
            /\ \A c \in report.clauses : <<Section(c.line), document[c.line].text>> = c.key
=============================================================================
