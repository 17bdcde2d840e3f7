------------------------------- MODULE MCRuns -------------------------------
(***************************************************************************)
(* Runs for TLC.  A known status is stored and never looked at, so one is  *)
(* enough: the notes tell one result from another.                         *)
(***************************************************************************)
EXTENDS Runs, TLC

CONSTANTS c1, c2, n1

Json(entries) == [format |-> "json", tags |-> <<>>, entries |-> entries]

\* The test cases inside one suite; a test case with a child is not self-closing.
JUnit(entries) ==
    LET tags(e) == IF e.children = {} THEN <<"self">> ELSE <<"start", "self", "close">>
        all[i \in 0 .. Len(entries)] == IF i = 0 THEN <<"start">> ELSE all[i - 1] \o tags(entries[i])
    IN  [format |-> "junit", tags |-> Append(all[Len(entries)], "close"), entries |-> entries]

\* The same inside one suite more than is allowed.
Nested(report) ==
    LET n == MaxElementDepth
    IN  [report EXCEPT !.tags = [i \in 1 .. n |-> "start"] \o @ \o [i \in 1 .. n |-> "close"]]
Line(c, s, n) == [case |-> c, status |-> s, note |-> n]
Entry(s, n) == [status |-> s, note |-> n]
TestCase(c, children) == [case |-> c, children |-> children, message |-> n1]

\* Reports of one case and of two, one that names a case twice, one with an
\* entry nobody can name, and two that are refused.
MCReports ==
    {JUnit(<<TestCase(c1, {}), TestCase(NoCase, {"skipped"})>>),
     JUnit(<<TestCase(c1, {"failure"}), TestCase(c1, {"skipped"})>>),
     Nested(JUnit(<<TestCase(c1, {})>>)),
     Json(<<Line(c1, "Passed", Clear), Line(c2, "Passed", n1)>>),
     Json(<<Line(c1, "Passed", Clear), Line(NoCase, "Passed", Clear)>>)}

\* A body says nothing, names a case twice in its results, one of them with a
\* status nobody knows, or brings its own copies, pins and projects.
MCBodies ==
    {NoBody,
     [NoBody EXCEPT !.results = c1 :> <<Entry("Odd", n1), Entry("Passed", Clear)>>],
     [NoBody EXCEPT !.projects = Projects, !.cases = {[case |-> c1, version |-> 2]},
                    !.configs = {}, !.pins = c1 :> 2]}

Symmetry == Permutations(Requests)
=============================================================================
