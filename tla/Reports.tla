------------------------------ MODULE Reports ------------------------------
(***************************************************************************)
(* The reports: coverage, summary, last results, milestone progress and    *)
(* the names of releases and environments (src/src/domain/service/         *)
(* reporting.rs, metadata.rs, src/src/domain/reports.rs, progress.rs); and *)
(* a project read with its children (hydrate, src/src/domain/service/      *)
(* mod.rs), which walks the same way.                                      *)
(*                                                                         *)
(* A report walks the tree without any lock: it lists the projects, lists  *)
(* each project's documents and reads them one by one, while requests on   *)
(* this replica and others go on writing.  `docs' is the resource the      *)
(* report walks: runs, or the suites coverage counts, or the milestones    *)
(* and configurations whose names are listed, or a project's children.     *)
(***************************************************************************)
EXTENDS Integers, FiniteSets, Sequences, SequencesExt

CONSTANTS
    Projects,       \* 1..n, in the order of their identifiers
    Ids,            \* 1..n: identifiers of documents; two projects may share one
    Documents,      \* the documents a project may hold
    References,     \* the runs a milestone may name: any, in any order, some twice
    Asked,          \* the requests of this instance
    Names,          \* identifiers as strings, for the cache keys
    MaxWrites,      \* bound: writes while the report walks
    MaxDay          \* bound: days since the epoch

\* No document at this address; no filter.
Absent == [readable |-> FALSE, absent |-> TRUE]
None == 0

\* What a caller may ask for: a project read with its children in full or by
\* identifier is one of the requests.
ReportKinds == {"coverage", "summary", "last", "names", "progress", "whole", "ids"}

ASSUME ReportsAssumption ==
    /\ Projects \subseteq Nat \ {None} /\ Ids \subseteq Nat \ {None}
    /\ IsFiniteSet(Projects) /\ IsFiniteSet(Ids)
    /\ Absent \notin Documents /\ MaxWrites \in Nat /\ MaxDay \in Nat
    /\ References \subseteq Seq(Ids)

\* Identifiers are texts of any characters; a numeral is that of one number and
\* no separator.
ASSUME NamesAssumption ==
    /\ IsFiniteSet(Names) /\ \A a \in Names : a \in Seq({a[i] : i \in DOMAIN a})
    /\ \A a, b \in Names : ToString(Len(a)) = ToString(Len(b)) => Len(a) = Len(b)
    /\ \A a \in Names : ToString(Len(a)) \notin {"|", "-", "*"}

\* Requests name projects by identifier.
ASSUME AskedAssumption ==
    \A q \in Asked : /\ q.kind \in ReportKinds /\ q.limited \in BOOLEAN
                     /\ q.reach \subseteq Projects /\ q.project \in Projects \union {None}

\* A document that can be decoded holds finitely many cases and a sequence of
\* results, each with its time, in seconds or as a text.
ASSUME DocumentsAssumption ==
    \A d \in Documents : d.readable \in BOOLEAN /\ (d.readable =>
        /\ IsFiniteSet(d.holds)
        /\ d.results \in Seq({d.results[m] : m \in DOMAIN d.results})
        /\ \A m \in DOMAIN d.results :
              d.results[m].at.seconds \in BOOLEAN /\ d.results[m].at.at \in Int)

VARIABLES
    asked,      \* the request
    stored,     \* the projects that exist
    docs,       \* [Projects -> [Ids -> a document or Absent]]
    milestones, \* [Projects -> [held, runs]]: who holds the milestone, and its testRunIds
    environments, \* the projects that hold the configuration
    walk,       \* how far the report is
    changed     \* the addresses written since the walk began

reportsVars == <<asked, stored, docs, milestones, environments, walk, changed>>

\* The numbers of a set, in their order.
Ascending(S) ==
    CHOOSE s \in [1..Cardinality(S) -> S] : \A i, j \in DOMAIN s : i < j => s[i] < s[j]

-----------------------------------------------------------------------------
(* Dates.                                                                   *)

Date(y, m, d) == y * 10000 + m * 100 + d

\* An algorithm without the correction for the last day of a 400-year era.
CivilFromDaysLoose(days) ==
    LET z == days + 719468
        era == z \div 146097
        doe == z - era * 146097
        yoe == (doe - doe \div 1460 + doe \div 36524) \div 365
        doy == doe - (365 * yoe + yoe \div 4 - yoe \div 100)
        mp == (5 * doy + 2) \div 153
        month == IF mp < 10 THEN mp + 3 ELSE mp - 9
    IN  Date(yoe + era * 400 + (IF month <= 2 THEN 1 ELSE 0), month,
             doy - (153 * mp + 2) \div 5 + 1)

\* format_iso8601: the civil date of a number of days since 1970-01-01.
CivilFromDays(days) ==
    LET z == days + 719468
        era == z \div 146097
        doe == z - era * 146097
        yoe == (doe - doe \div 1460 + doe \div 36524 - doe \div 146096) \div 365
        doy == doe - (365 * yoe + yoe \div 4 - yoe \div 100)
        mp == (5 * doy + 2) \div 153
        month == IF mp < 10 THEN mp + 3 ELSE mp - 9
    IN  Date(yoe + era * 400 + (IF month <= 2 THEN 1 ELSE 0), month,
             doy - (153 * mp + 2) \div 5 + 1)

\* The bytes of a text of digits and hyphens, as they compare: a hyphen comes
\* before every digit.
Hyphen == -1
NoText == <<>>
Decimal[n \in Nat] == IF n < 10 THEN <<n>> ELSE Append(Decimal[n \div 10], n % 10)

Precedes(a, b) == \E i \in DOMAIN a : a[i] < b[i] /\ \A j \in 1..i-1 : a[j] = b[j]

\* The year in at least four digits, the month and the day in two, cut after
\* ten bytes: from the year 10000 on digits of the day are lost.
YearText(y) ==
    IF y < 10000 THEN <<y \div 1000, (y \div 100) % 10, (y \div 10) % 10, y % 10>> ELSE Decimal[y]
DayText(m, d) == <<Hyphen, m \div 10, m % 10, Hyphen, d \div 10, d % 10>>
TenBytes(s, t) == [i \in 1..10 |-> IF i <= Len(s) THEN s[i] ELSE t[i - Len(s)]]
DateText(date) == TenBytes(YearText(date \div 10000), DayText((date \div 100) % 100, date % 100))

\* iso8601_date: of the seconds only the days they make count.
Iso8601Date(days) == DateText(CivilFromDays(days))

\* run_date: a timestamp is epoch seconds, an ISO date, or neither.
RunDate(stamp) ==
    CASE stamp.form = "epoch" -> Iso8601Date(stamp.days)
      [] stamp.form = "iso" -> stamp.text
      [] OTHER -> NoText

\* parse_date_filter: a filter that does not begin with a date is refused.
Malformed(filter) == filter # NoText /\ Len(filter) # 10

-----------------------------------------------------------------------------
(* Which runs a report counts.                                              *)

\* run_reachable: the home and every project the run names.
RunReachable(d, home, reach) == home \in reach /\ d.projects \subseteq reach

\* run_is_in_scope: the filters of a summary, all of them.
RunIsInScope(q, d, home, id, runs) ==
    /\ q.project = None \/ q.project = home \/ q.project \in d.projects
    /\ q.milestone => id \in runs
    /\ q.configuration => d.linked
    /\ {q.from, q.to} = {NoText} \/ RunDate(d.stamp) # NoText
    /\ q.from = NoText \/ ~Precedes(RunDate(d.stamp), q.from)
    /\ q.to = NoText \/ ~Precedes(q.to, RunDate(d.stamp))

\* What of a document read at its home goes into the report.
Counts(q, d, home, id, runs) ==
    CASE q.kind = "summary" ->
            (q.limited => RunReachable(d, home, q.reach)) /\ RunIsInScope(q, d, home, id, runs)
      [] q.kind = "last" -> q.limited => RunReachable(d, home, q.reach)
      [] OTHER -> TRUE

-----------------------------------------------------------------------------
(* What is made of the documents counted.                                   *)

Results(seen) == FlattenSeq([n \in DOMAIN seen |->
    [m \in DOMAIN seen[n].doc.results |-> [run |-> seen[n].id, result |-> seen[n].doc.results[m]]]])

Having(observed, status) == {n \in DOMAIN observed : observed[n].result.status = status}

\* summary: Retest and an unknown status count in the total only.
Summary(observed) ==
    [total |-> Len(observed),
     passed |-> Cardinality(Having(observed, "Passed")),
     failed |-> Cardinality(Having(observed, "Failed")),
     blocked |-> Cardinality(Having(observed, "Blocked")),
     untested |-> Cardinality(Having(observed, "Untested"))]

\* Recency that takes a text for a number.
ResultRecencyMixed(t) == <<1, t.at, 0>>

\* result_recency: a number of seconds beats a text.
ResultRecency(t) == IF t.seconds THEN <<1, t.at, 0>> ELSE <<0, 0, t.at>>

Rank(entry) == ResultRecency(entry.result.at) \o <<entry.run>>

\* The observation that wins for a case: the latest, the greater run identifier on
\* a tie, the first of equals; 0 if there is none.
Winner(observed, c) ==
    LET winner[n \in 0..Len(observed)] ==
            IF n = 0 THEN 0
            ELSE IF observed[n].result.case = c
                    /\ (winner[n - 1] = 0 \/ Precedes(Rank(observed[winner[n - 1]]), Rank(observed[n])))
            THEN n ELSE winner[n - 1]
    IN  winner[Len(observed)]

\* last_results: the winner of every case observed.
LastResults(observed) ==
    [c \in {observed[n].result.case : n \in DOMAIN observed} |-> observed[Winner(observed, c)]]

ResultCases(d) == {d.results[m].case : m \in DOMAIN d.results}

\* A population that counts a case once as held and once as recorded.
PopulationApart(d) == (d.holds \X {"held"}) \union (ResultCases(d) \X {"recorded"})

\* The cases of a run: those it holds and those it has a result for, each once.
Population(d) == (d.holds \union ResultCases(d)) \X {"held"}

\* The status the run last recorded for a case; one it does not name is untested.
StatusOf(d, c) ==
    LET said == {m \in DOMAIN d.results : d.results[m].case = c}
        last == CHOOSE m \in said : \A n \in said : n <= m
    IN  IF said = {} THEN "Untested"
        ELSE IF d.results[last].status \in {"Passed", "Failed", "Blocked", "Retest"}
             THEN d.results[last].status ELSE "Untested"

\* progress::compute.
Progress(seen) ==
    LET cases == UNION {{<<n, x[1], x[2]>> : x \in Population(seen[n].doc)} : n \in DOMAIN seen}
        with(status) == Cardinality({x \in cases : StatusOf(seen[x[1]].doc, x[2]) = status})
    IN  [total |-> Cardinality(cases), passed |-> with("Passed"), failed |-> with("Failed"),
         blocked |-> with("Blocked"), retest |-> with("Retest"), untested |-> with("Untested")]

-----------------------------------------------------------------------------
(* The walk.                                                                *)

Ready == [phase |-> "asked", todo |-> <<>>, at |-> None, list |-> <<>>, runs |-> {},
          seen |-> <<>>, outcome |-> "none"]

Answer(outcome) == walk' = [walk EXCEPT !.phase = "answered", !.outcome = outcome,
                                        !.todo = <<>>, !.at = None, !.list = <<>>]

Holders == {p \in stored : milestones[p].held}
HeldAt(id) == {p \in stored : docs[p][id] # Absent}

\* filter_out_of_reach: nothing the caller can reach holds the milestone.
FilterOutOfReach(q) == q.limited /\ Holders \intersect q.reach = {}

\* A named project has to be the caller's to read.
Forbidden(q) == q.limited /\ q.project # None /\ q.project \notin q.reach

\* A filter that does not resolve: an error, or for a restricted caller the
\* empty report.
Unresolved(q) ==
    IF Forbidden(q) THEN "forbidden"
    ELSE IF q.project # None /\ q.project \notin stored THEN "missing"
    ELSE IF q.milestone /\ Cardinality(Holders) # 1
         THEN IF FilterOutOfReach(q) THEN "empty"
              ELSE IF Holders = {} THEN "missing" ELSE "conflict"
    ELSE IF q.configuration /\ environments = {} THEN IF q.limited THEN "empty" ELSE "missing"
    ELSE IF Malformed(q.from) \/ Malformed(q.to) THEN "invalid"
    ELSE "none"

\* Coverage and last results walk the project named, the reachable ones as
\* given, or all.
CoverageScope(q) ==
    IF q.project # None THEN {q.project} ELSE IF q.limited THEN q.reach ELSE stored

LastResultsScope(q) ==
    IF q.project # None THEN {q.project} ELSE IF q.limited THEN q.reach ELSE stored

\* The names are those of the reachable projects that are listed.
NamesScope(q) == {p \in stored : q.limited => p \in q.reach}

\* A summary walks all and skips.
ProjectsWalked(q) ==
    CASE q.kind = "coverage" -> CoverageScope(q)
      [] q.kind = "last" -> LastResultsScope(q)
      [] q.kind = "names" -> NamesScope(q)
      [] OTHER -> stored

Start ==
    /\ walk.phase = "asked" /\ asked.kind \notin {"progress", "whole", "ids"}
    /\ IF Unresolved(asked) # "none" THEN Answer(Unresolved(asked))
       ELSE walk' = [walk EXCEPT !.phase = "projects", !.todo = Ascending(ProjectsWalked(asked)),
                                 !.runs = IF asked.milestone
                                          THEN UNION {ToSet(milestones[p].runs) : p \in Holders} ELSE {}]
    /\ UNCHANGED <<asked, stored, docs, milestones, environments, changed>>

\* A walk over one listing of all identifiers, in which a shared one appears once.
ListChildrenOnce(p) ==
    Ascending({id \in Ids : docs[p][id] # Absent /\ \A n \in DOMAIN walk.seen : walk.seen[n].id # id})

\* list_children: a project that is gone lists nothing.
ListChildren(p) == Ascending({id \in Ids : docs[p][id] # Absent})

NextProject ==
    /\ walk.phase = "projects" /\ walk.todo # <<>> /\ walk.list = <<>>
    /\ walk' = [walk EXCEPT !.at = Head(walk.todo), !.todo = Tail(walk.todo),
                            !.list = ListChildren(Head(walk.todo))]
    /\ UNCHANGED <<asked, stored, docs, milestones, environments, changed>>

\* The next document listed: one that is gone or cannot be decoded is skipped,
\* except that coverage fails.
ReadNext ==
    /\ walk.phase \in {"projects", "references"} /\ walk.list # <<>>
    /\ asked.kind \notin {"whole", "ids"}
    /\ LET id == Head(walk.list)
           d == docs[walk.at][id]
           rest == [walk EXCEPT !.list = Tail(walk.list)]
       IN  IF asked.kind = "coverage" /\ d = Absent THEN Answer("missing")
           ELSE IF asked.kind = "coverage" /\ ~d.readable THEN Answer("invalid")
           ELSE IF d.readable /\ Counts(asked, d, walk.at, id, walk.runs)
           THEN walk' = [rest EXCEPT !.seen = Append(@, [home |-> walk.at, id |-> id, doc |-> d])]
           ELSE walk' = rest
    /\ UNCHANGED <<asked, stored, docs, milestones, environments, changed>>

\* get_and_etag: the project's own document is read first ...
GetAndEtag ==
    /\ walk.phase = "asked" /\ asked.kind \in {"whole", "ids"}
    /\ IF Forbidden(asked) THEN Answer("forbidden")
       ELSE IF asked.project \notin stored THEN Answer("missing")
       ELSE walk' = [walk EXCEPT !.phase = "projects", !.todo = <<asked.project>>]
    /\ UNCHANGED <<asked, stored, docs, milestones, environments, changed>>

\* ... and hydrate adds its children: their identifiers as listed, or their
\* documents, one that is gone or cannot be decoded failing the whole read.
Hydrate ==
    /\ walk.phase = "projects" /\ walk.list # <<>> /\ asked.kind \in {"whole", "ids"}
    /\ LET id == Head(walk.list)
           d == docs[walk.at][id]
       IN  IF asked.kind = "whole" /\ d = Absent THEN Answer("missing")
           ELSE IF asked.kind = "whole" /\ ~d.readable THEN Answer("invalid")
           ELSE walk' = [walk EXCEPT !.list = Tail(walk.list),
                                     !.seen = Append(@, [home |-> walk.at, id |-> id, doc |-> d])]
    /\ UNCHANGED <<asked, stored, docs, milestones, environments, changed>>

\* milestone_progress: the milestone resolves to its home ...
StartProgress ==
    /\ walk.phase = "asked" /\ asked.kind = "progress"
    /\ IF Cardinality(Holders) # 1 THEN Answer(IF Holders = {} THEN "missing" ELSE "conflict")
       ELSE \E home \in Holders :
              walk' = [walk EXCEPT !.phase = "references", !.at = home, !.runs = {home},
                                   !.todo = milestones[home].runs]
    /\ UNCHANGED <<asked, stored, docs, milestones, environments, changed>>

\* ... and each run it names to the home's own, else to the only one; a name
\* nobody holds is skipped, one that several hold is a conflict.
NextReference ==
    /\ walk.phase = "references" /\ walk.todo # <<>> /\ walk.list = <<>>
    /\ LET id == Head(walk.todo)
           home == walk.runs
           found == IF HeldAt(id) \intersect home # {} THEN home ELSE HeldAt(id)
       IN  CASE found = {} -> walk' = [walk EXCEPT !.todo = Tail(walk.todo)]
             [] Cardinality(found) > 1 -> Answer("conflict")
             [] OTHER -> \E p \in found :
                    walk' = [walk EXCEPT !.todo = Tail(walk.todo), !.at = p, !.list = <<id>>]
    /\ UNCHANGED <<asked, stored, docs, milestones, environments, changed>>

Report ==
    /\ walk.phase \in {"projects", "references"} /\ walk.todo = <<>> /\ walk.list = <<>>
    /\ Answer("report")
    /\ UNCHANGED <<asked, stored, docs, milestones, environments, changed>>

-----------------------------------------------------------------------------
(* Writers.                                                                 *)

Walking == walk.phase \in {"projects", "references"} /\ Cardinality(changed) < MaxWrites

\* A document another request stores or deletes.
Write(p, id, d) ==
    /\ Walking /\ p \in stored /\ docs[p][id] # d
    /\ docs' = [docs EXCEPT ![p][id] = d]
    /\ changed' = changed \union {<<p, id>>}
    /\ UNCHANGED <<asked, stored, milestones, environments, walk>>

\* A project deleted with all it holds.
RemoveProject(p) ==
    /\ Walking /\ p \in stored
    /\ stored' = stored \ {p}
    /\ docs' = [docs EXCEPT ![p] = [id \in Ids |-> Absent]]
    /\ changed' = changed \union ({p} \X Ids)
    /\ UNCHANGED <<asked, milestones, environments, walk>>

-----------------------------------------------------------------------------
ReportsInit ==
    /\ asked \in Asked
    /\ stored \in SUBSET Projects
    /\ docs \in [Projects -> [Ids -> Documents \union {Absent}]]
    /\ \A p \in Projects \ stored, id \in Ids : docs[p][id] = Absent
    /\ milestones \in [Projects -> [held : BOOLEAN, runs : References]]
    /\ environments \in SUBSET stored
    /\ walk = Ready
    /\ changed = {}

ReportsNext ==
    \/ Start \/ StartProgress \/ GetAndEtag
    \/ NextProject \/ NextReference \/ ReadNext \/ Hydrate \/ Report
    \/ \E p \in Projects :
          \/ RemoveProject(p)
          \/ \E id \in Ids, d \in Documents \union {Absent} : Write(p, id, d)

ReportsSpec == ReportsInit /\ [][ReportsNext]_reportsVars

-----------------------------------------------------------------------------
(* The keys under which an answer is cached.                                *)

\* The digits of a length, which the colon ends, are one token.
Text(name) == <<ToString(Len(name)), ":">> \o name

\* A key that joins the identifiers.
ScopeKeyJoined(q) ==
    IF ~q.limited THEN <<"*">>
    ELSE FlattenSeq([n \in DOMAIN q.reach |-> <<",">> \o q.reach[n]])

\* scope_key: every identifier behind its length.
ScopeKey(q) == IF ~q.limited THEN <<"*">> ELSE FlattenSeq([n \in DOMAIN q.reach |-> Text(q.reach[n])])

OptionalKey(name) == IF name = <<>> THEN <<"-">> ELSE Text(name)

SummaryKey(q) ==
    <<"summary", "|">> \o ScopeKey(q) \o <<"|">> \o OptionalKey(q.project)
    \o <<"|">> \o OptionalKey(q.milestone)

\* The scope joins the identifiers, behind the reachable set that does not.
LastResultsKey(q) ==
    <<"last-results", "|">> \o ScopeKey(q) \o <<"|">> \o
    (IF q.project # <<>> THEN <<"project", "|">> \o q.project
     ELSE IF ~q.limited THEN <<"all">>
     ELSE <<"projects", "|">> \o FlattenSeq([n \in DOMAIN q.reach |->
               (IF n = 1 THEN <<>> ELSE <<",">>) \o q.reach[n]]))

NamesKey(q) == <<"names", "|">> \o ScopeKey(q)

\* Scopes of up to two identifiers, each with an optional project and milestone.
Scopes == {<<>>} \union {<<a>> : a \in Names}
          \union {SetToSeq({a, b}) : a, b \in Names}
Keyed(optional, filters) ==
    [limited : {TRUE}, reach : Scopes, project : optional, milestone : filters]
    \union [limited : {FALSE}, reach : {<<>>}, project : optional, milestone : filters]

-----------------------------------------------------------------------------
(* Properties.                                                              *)

Count(p, id) == Cardinality({n \in DOMAIN walk.seen : walk.seen[n].home = p /\ walk.seen[n].id = id})
Reported == walk.phase = "answered" /\ walk.outcome = "report"

\* A document that stays as it is through the walk belongs to the report or
\* does not, whatever the others do.
Belongs(p, id) ==
    /\ docs[p][id].readable \/ (asked.kind = "ids" /\ docs[p][id] # Absent)
    /\ CASE asked.kind \in {"whole", "ids"} -> p = asked.project
         [] asked.kind = "progress" ->
               walk.runs \intersect HeldAt(id) = (IF p \in walk.runs THEN {p} ELSE {})
         [] asked.kind = "summary" -> Counts(asked, docs[p][id], p, id, walk.runs)
         [] asked.kind = "last" ->
               /\ asked.limited => RunReachable(docs[p][id], p, asked.reach)
               /\ asked.project \in {None, p}
         [] asked.kind = "coverage" ->
               (asked.limited => p \in asked.reach) /\ asked.project \in {None, p}
         [] asked.kind = "names" -> asked.limited => p \in asked.reach

\* How often a document that belongs is read: once, but a run that a progress
\* is about as often as its milestone names it.
Occurrences(s, x) == Cardinality({k \in DOMAIN s : s[k] = x})
Times(id) ==
    IF asked.kind # "progress" THEN 1
    ELSE Occurrences(milestones[CHOOSE p \in Projects : p \in walk.runs].runs, id)

\* Nobody wrote what decides whether a document is read: the document, and for
\* a progress every run of that name, since the name is resolved among them.
Stayed(p, id) ==
    IF asked.kind = "progress" THEN \A r \in Projects : <<r, id>> \notin changed
    ELSE <<p, id>> \notin changed

\* A report is made of every document that belongs to it and stayed while it
\* walked, and of no other that stayed: each once, though two projects may use
\* one identifier, and in a progress each run once per time its milestone names
\* it; a document touched meanwhile is read no more often than that.
CountsWhatStayed ==
    Reported => \A p \in Projects, id \in Ids :
        /\ Count(p, id) <= Times(id)
        /\ Stayed(p, id) => Count(p, id) = IF Belongs(p, id) THEN Times(id) ELSE 0

\* The latest result reported of a case is no older than any result of that
\* case in a run that stayed through the walk, by the order result_recency
\* documents: seconds before texts, then the run's identifier.
LatestIsLatest ==
    (Reported /\ asked.kind = "last") =>
        LET report == LastResults(Results(walk.seen)) IN
        \A p \in Projects, id \in Ids :
            (<<p, id>> \notin changed /\ Belongs(p, id)) =>
                \A m \in DOMAIN docs[p][id].results :
                    LET r == docs[p][id].results[m] won == report[r.case] IN
                    /\ r.at.seconds => won.result.at.seconds
                    /\ r.at.seconds = won.result.at.seconds =>
                          \/ won.result.at.at > r.at.at
                          \/ won.result.at.at = r.at.at /\ won.run >= id

\* The results that are in no bucket of a summary.
Unbucketed(observed) ==
    {n \in DOMAIN observed :
        observed[n].result.status \notin {"Passed", "Failed", "Blocked", "Untested"}}

\* The five buckets of a progress add up to its total, which counts each case
\* of each run read once, held or only recorded; the buckets of a summary add up to
\* its total but for the results in none, those to be retested and those of an
\* unknown status.
BucketsAddUp ==
    Reported =>
        /\ asked.kind = "progress" =>
              LET r == Progress(walk.seen) IN
              /\ r.passed + r.failed + r.blocked + r.retest + r.untested = r.total
              /\ r.total = Cardinality(UNION {{n} \X (walk.seen[n].doc.holds \union
                                 ResultCases(walk.seen[n].doc)) : n \in DOMAIN walk.seen})
        /\ asked.kind = "summary" =>
              LET r == Summary(Results(walk.seen)) IN
              r.total = r.passed + r.failed + r.blocked + r.untested +
                  Cardinality(Unbucketed(Results(walk.seen)))

\* Injective on the requests above.
KeysApart ==
    LET summaries == Keyed(Names \union {<<>>}, {<<>>} \union {n \in Names : Len(n) = 1})
        latest == Keyed(Names \union {<<>>}, {<<>>})
        listings == Keyed({<<>>}, {<<>>})
    IN  /\ Cardinality({SummaryKey(q) : q \in summaries}) = Cardinality(summaries)
        /\ Cardinality({LastResultsKey(q) : q \in latest}) = Cardinality(latest)
        /\ Cardinality({NamesKey(q) : q \in listings}) = Cardinality(listings)

\* When a report is asked for, the key its answer is looked up under is that
\* of no request with another scope or other filters, whatever characters the
\* identifiers hold.
KeysTellApart == walk.phase = "asked" => KeysApart

\* The day after a civil date, by the calendar.
Leap(y) == y % 4 = 0 /\ (y % 100 # 0 \/ y % 400 = 0)
DaysIn(y, m) == CASE m = 2 -> IF Leap(y) THEN 29 ELSE 28
                  [] m \in {4, 6, 9, 11} -> 30
                  [] OTHER -> 31
DayAfter(date) ==
    LET y == date \div 10000 m == (date \div 100) % 100 d == date % 100 IN
    IF d < DaysIn(y, m) THEN Date(y, m, d + 1)
    ELSE IF m < 12 THEN Date(y, m + 1, 1) ELSE Date(y + 1, 1, 1)

\* Counted in days from 1970-01-01, each date is the day after the one before,
\* and up to the end of 9999 its text comes after that of the one before.
DatesInOrder ==
    /\ CivilFromDays(0) = Date(1970, 1, 1)
    /\ \A day \in 0..MaxDay :
          /\ CivilFromDays(day + 1) = DayAfter(CivilFromDays(day))
          /\ CivilFromDays(day + 1) < Date(10000, 1, 1) =>
                Precedes(Iso8601Date(day), Iso8601Date(day + 1))

\* The dates by which a summary filters runs are the calendar's and their texts
\* are in its order, so that the days between two dates are exactly those its
\* bounds admit, up to the year 9999.
DatesFollowCalendar == (Reported /\ asked.kind = "summary") => DatesInOrder
=============================================================================
