----------------------------- MODULE MCReports -----------------------------
(* Two projects that use the same identifiers, documents that differ in     *)
(* what the filters and the orders look at, one request of each shape.     *)
EXTENDS Reports, TLC

Run(projects, linked, stamp, holds, results) ==
    [readable |-> TRUE, projects |-> projects, linked |-> linked, stamp |-> stamp,
     holds |-> holds, results |-> results]
Result(case, status, seconds, at) ==
    [case |-> case, status |-> status, at |-> [seconds |-> seconds, at |-> at]]

Stamp(form, days, text) == [form |-> form, days |-> days, text |-> text]

\* 1970-03-01 in seconds, the day before as text, and neither.
MCDocuments ==
    { Run({}, FALSE, Stamp("epoch", 59, NoText), {"c"},
          <<Result("c", "Passed", TRUE, 5)>>),
      Run({2}, TRUE, Stamp("iso", 0, DateText(19700228)), {"d"},
          <<Result("c", "Retest", TRUE, 5), Result("d", "Failed", FALSE, 9)>>),
      Run({1, 2}, TRUE, Stamp("other", 0, NoText), {},
          <<Result("c", "Blocked", FALSE, 7), Result("e", "Parked", TRUE, 3)>>),
      [readable |-> FALSE, absent |-> FALSE] }

Ask(kind, limited, reach, project) ==
    [kind |-> kind, limited |-> limited, reach |-> reach, project |-> project,
     milestone |-> FALSE, configuration |-> FALSE, from |-> NoText, to |-> NoText]

MCAsked ==
    { Ask(k, l, r, p) : k \in {"coverage", "last"}, l \in {TRUE}, r \in {{1}, {1, 2}}, p \in {None, 2} }
    \union { Ask(k, FALSE, {}, None) : k \in {"coverage", "last", "summary", "names", "progress"} }
    \union { Ask(k, TRUE, {1}, None) : k \in {"summary", "names"} }
    \union { Ask("summary", FALSE, {}, 2) }
    \union { Ask(k, TRUE, r, 1) : k \in {"whole", "ids"}, r \in {{1}, {2}} }
    \union { [Ask("summary", l, {1}, None) EXCEPT !.milestone = TRUE] : l \in BOOLEAN }
    \union { [Ask("summary", l, {1}, None) EXCEPT !.configuration = TRUE] : l \in BOOLEAN }
    \union { [Ask("summary", FALSE, {}, None) EXCEPT !.from = f, !.to = t] :
                f \in {NoText, DateText(19700301)}, t \in {DateText(19700228), <<Hyphen>>} }

\* No run, one, and both with one named twice.
MCReferences == {<<>>, <<1>>, <<2, 1, 2>>}

\* The milestone and the configuration only where the request looks at them;
\* one of the projects starts with one document at most.
MCInit ==
    /\ ReportsInit
    /\ docs[2][2] = Absent
    /\ asked.milestone \/ asked.kind = "progress" \/ \A p \in Projects : ~milestones[p].held
    /\ \A p \in Projects : ~milestones[p].held => milestones[p].runs = <<>>
    /\ asked.configuration \/ environments = {}
MCSpec == MCInit /\ [][ReportsNext]_reportsVars

\* Names of up to three characters that hold the separators.
MCNames == (UNION {[1..n -> {"1", ","}] : n \in 1..3}) \union {<<":">>, <<"|">>, <<"1", ":">>}
=============================================================================
