-------------------------------- MODULE Runs --------------------------------
(***************************************************************************)
(* One test run and the cases it executes: what the run embeds, the        *)
(* results it records, the case versions it pins, the configurations it    *)
(* references, and the defect links that live on the cases                 *)
(* (src/src/domain/composition.rs, src/src/domain/service/composition.rs,  *)
(* mutate_run in src/src/domain/service/mod.rs).                           *)
(*                                                                         *)
(* A request resolves its run without the lock, waits for the lock,        *)
(* re-reads the run and the cases it needs, and publishes the changed      *)
(* document.  Cases are edited, copied and removed by other requests under *)
(* the same lock; CaseStore has the steps of those writes.  A case is      *)
(* represented by its version in each project that holds it, and a result  *)
(* by its status and its notes; the time stamp is left out.  The results   *)
(* of a run are an array, in which the body of a create or of a PUT may    *)
(* name a case more than once: here, the entries of each case in order.    *)
(***************************************************************************)
EXTENDS Integers, FiniteSets, Sequences

CONSTANTS
    Requests,
    Cases,
    Projects, Home,   \* the projects, and the one the run lives in
    Configs,
    Defects,
    Statuses,         \* of a result
    Notes,
    Keep, Clear,      \* what a body may say of an optional field besides a value
    Reports,          \* imports: [format, tags, entries], as the file has them
    MaxElementDepth,  \* how deep an XML report may nest
    Malformed,        \* a field that is not what its model says
    Bodies,           \* what the body of a create or of a PUT may carry
    MaxVersion,       \* bound on the version of a case
    MaxChanges,       \* bound on what other requests do to cases and configurations
    NoRun, NoOne, NoCase,
    Kinds,            \* the operations this instance exercises
    Faults            \* {"crash"} or {}

RunKinds == {"record", "replace", "remove", "import", "addCase", "addSuite", "linkConfig",
             "unlinkConfig", "linkDefect", "unlinkDefect", "put", "create", "delete"}

\* What other requests may do to the cases and the configurations meanwhile.
OtherKinds == {"editCase", "copyCase", "removeCase", "removeConfig"}

AllKinds == RunKinds \union OtherKinds

ASSUME RunsAssumption ==
    /\ Home \in Projects /\ NoOne \notin Requests /\ NoCase \notin Cases
    /\ Keep \notin Notes /\ Clear \notin Notes /\ Keep # Clear
    /\ Malformed \notin Notes \union Defects /\ MaxElementDepth \in Nat
    /\ MaxVersion \in Nat \ {0} /\ MaxChanges \in Nat
    /\ Kinds \subseteq AllKinds /\ Faults \subseteq {"crash"}

VARIABLES
    lock,    \* the request holding .tatu.lock
    run,     \* the run document, or NoRun
    live,    \* the version of each case in each project; 0 where it is absent
    links,   \* the defect links of each case in each project: [id, defect]
    configs, \* the configurations that are stored
    pc, op,  \* where each request is, and what it was asked
    etag,    \* the If-Match a PUT carries; NoRun for none
    next,    \* the run, or the links of a case, a request is about to publish
    answer,  \* the status each request was answered with
    summary, \* what an import is going to answer with: [imported, duplicates, errors]
    changes  \* how much other requests have done

vars == <<lock, run, live, links, configs, pc, op, etag, next, answer, summary, changes>>

Nothing == [c \in {} |-> 0]

NewRun == [projects |-> {}, cases |-> {}, suites |-> {}, results |-> Nothing, configs |-> {},
           pins |-> Nothing]

\* A body says of each field what it is to be, or nothing.
NoBody == [projects |-> Keep, cases |-> Keep, suites |-> Keep, results |-> Keep,
           configs |-> Keep, pins |-> Keep]

NoReport == [format |-> "json", tags |-> <<>>, entries |-> <<>>]

NoOp == [kind |-> "delete", case |-> NoCase, status |-> "", note |-> Keep, report |-> NoReport,
         config |-> {}, defect |-> {}, project |-> Home, body |-> NoBody]

NoSummary == [imported |-> 0, duplicates |-> 0, errors |-> 0]

Extend(f, x, y) == [z \in DOMAIN f \union {x} |-> IF z = x THEN y ELSE f[z]]

(* ------------------------------ pure rules ------------------------------ *)

\* The copies of a case a run embeds.
Copies(doc, c) == {e \in doc.cases : e.case = c}

\* A run holds the cases it declares, those of its suites, and those it already
\* has a result for.
HoldsCase(doc, c) ==
    \/ Copies(doc, c) # {} \/ c \in DOMAIN doc.results
    \/ \E suite \in doc.suites : c \in DOMAIN suite

\* What a run embeds: the case, or the suite, as it is at this moment.
AttachCaseToRun(doc, c, v) == [doc EXCEPT !.cases = @ \union {[case |-> c, version |-> v]}]

AttachSuiteToRun(doc, suite) == [doc EXCEPT !.suites = @ \union {suite}]

\* A configuration is referenced, not copied.
AttachConfigurationToRun(doc, ks) == [doc EXCEPT !.configs = @ \union ks]

DetachConfigurationFromRun(doc, ks) == [doc EXCEPT !.configs = @ \ ks]

\* A fault of capture_case_version: the latest capture wins.
CaptureLatest(doc, c, v) == [doc EXCEPT !.pins = Extend(@, c, v)]

\* The first capture wins.
CaptureCaseVersion(doc, c, v) ==
    IF c \in DOMAIN doc.pins THEN doc ELSE [doc EXCEPT !.pins = Extend(@, c, v)]

\* An omitted note keeps the stored one; null clears it.
ApplyPatch(stored, patch) == IF patch = Keep THEN stored ELSE patch

\* The first entry of the case is rewritten; a case without one gets one.
UpsertResult(doc, c, status, note) ==
    LET entries == IF c \in DOMAIN doc.results THEN doc.results[c]
                   ELSE <<[status |-> status, note |-> Clear]>>
        first == [status |-> status, note |-> ApplyPatch(entries[1].note, note)]
    IN  [doc EXCEPT !.results = Extend(@, c, [entries EXCEPT ![1] = first])]

\* The caller has seen that there is a result; its note is patched all the same.
ReplaceResult(doc, c, status, note) ==
    [doc EXCEPT !.results[c][1] = [status |-> status, note |-> ApplyPatch(@.note, note)]]

\* Every entry of the case goes.
RemoveResult(doc, c) ==
    [doc EXCEPT !.results = [d \in DOMAIN @ \ {c} |-> @[d]]]

\* The fields a body carries replace those of the document, each as a whole.
Merge(doc, body) ==
    LET field(stored, sent) == IF sent = Keep THEN stored ELSE sent
    IN  [projects |-> field(doc.projects, body.projects), cases |-> field(doc.cases, body.cases),
         suites |-> field(doc.suites, body.suites), results |-> field(doc.results, body.results),
         configs |-> field(doc.configs, body.configs), pins |-> field(doc.pins, body.pins)]

(* What a body says, and when it is refused. *)

\* result_update: a body that names another case than the path, a status that
\* is none or a note that is no text.
ResultRefused(addressed, body) ==
    \/ body.case # addressed
    \/ body.status \notin Statuses
    \/ body.note = Malformed

\* parse_request, and the link made of what it accepts: an identifier of its
\* own, here the request that made it.
LinkRefused(defect) == defect = Malformed
NewLink(r, defect) == [id |-> r, defect |-> defect]

ImportStatuses == {"Passed", "Failed", "Blocked"}

\* The status of a <testcase>, from the elements in it.
StatusOf(e) ==
    IF e.children \intersect {"failure", "error"} # {} THEN "Failed"
    ELSE IF "skipped" \in e.children THEN "Blocked" ELSE "Passed"

FailureMessage(e) == IF StatusOf(e) = "Failed" THEN e.message ELSE Clear

\* A <testcase> without a name cannot be mapped.
Nameable(e) == e.case # NoCase
MapCase(e) == [case |-> e.case, status |-> StatusOf(e), note |-> FailureMessage(e)]

\* The nesting after each tag of the document: start tags count, close tags
\* discount and never below zero, self-closing ones do neither.
Depths(tags) ==
    LET depth[i \in 0 .. Len(tags)] ==
          CASE i = 0 -> 0
            [] i > 0 /\ tags[i] = "start" -> depth[i - 1] + 1
            [] i > 0 /\ tags[i] = "close" -> IF depth[i - 1] = 0 THEN 0 ELSE depth[i - 1] - 1
            [] OTHER -> depth[i - 1]
    IN  depth

NestsTooDeeply(report) == \E i \in DOMAIN report.tags : Depths(report.tags)[i] > MaxElementDepth

\* map_json_entry: an entry without a case or with another status.
Unusable(e) == e.case = NoCase \/ e.status \notin ImportStatuses

\* An XML report loses the entries nobody can name; a JSON report is refused
\* for one of them.
ReportRefused(report) ==
    CASE report.format = "junit" -> NestsTooDeeply(report)
      [] OTHER -> \E i \in DOMAIN report.entries : Unusable(report.entries[i])

\* The loop over the test cases: one is pushed, or counted as an error.
Push(cases, e) == IF Nameable(e) THEN Append(cases, MapCase(e)) ELSE cases

MapCases(entries) ==
    LET cases[i \in 0 .. Len(entries)] ==
          IF i = 0 THEN <<>> ELSE Push(cases[i - 1], entries[i])
    IN  cases[Len(entries)]

Parse(report) == IF report.format = "json" THEN report.entries ELSE MapCases(report.entries)

\* The entry of a report that counts: the first to name the case.
FirstFor(report, c) ==
    report[CHOOSE i \in 1 .. Len(report) :
             report[i].case = c /\ \A j \in 1 .. i - 1 : report[j].case # c]

Reported(report) == {report[i].case : i \in 1 .. Len(report)}

\* The cases an import writes: those the run has no result for.
Imported(doc, report) == Reported(report) \ DOMAIN doc.results

StoreImportedResults(doc, report) ==
    [doc EXCEPT !.results =
       [c \in DOMAIN @ \union Imported(doc, report) |->
          IF c \in Imported(doc, report)
          THEN <<[status |-> FirstFor(report, c).status, note |-> FirstFor(report, c).note]>>
          ELSE @[c]]]

ImportSummary(doc, report) ==
    LET cases == Parse(report) new == Cardinality(Imported(doc, cases))
    IN  [imported |-> new, duplicates |-> Len(cases) - new,
         errors |-> Len(report.entries) - Len(cases)]

(* ------------------------------- look-ups ------------------------------- *)

Owners(c) == {p \in Projects : live[c][p] # 0}

\* A bare identifier reads only when one project holds the case.
Readable(c) == Cardinality(Owners(c)) = 1

\* The projects among those the run names that hold the case.
InReach(c) == Owners(c) \intersect run.projects

\* The version a capture records: 1 for a case that cannot be read.
VersionSeen(c) ==
    IF Readable(c) THEN live[c][CHOOSE p \in Owners(c) : TRUE] ELSE 1

\* The suite of the run's project, with the cases stored in it.
SuiteSnapshot ==
    [c \in {d \in Cases : live[d][Home] # 0} |-> live[c][Home]]

(* ------------------------- lockless beginnings ------------------------- *)

Goto(r, phase) == pc' = [pc EXCEPT ![r] = phase]

\* The locals of an answered request are gone.
Finish(r, status) ==
    /\ Goto(r, "done")
    /\ answer' = [answer EXCEPT ![r] = status]
    /\ op' = [op EXCEPT ![r] = NoOp]
    /\ etag' = [etag EXCEPT ![r] = NoRun]
    /\ next' = [next EXCEPT ![r] = NoRun]
    /\ summary' = [summary EXCEPT ![r] = NoSummary]

\* run_home: a run nothing stores is a 404; then the body is read.
AskIf(r, o, refused) ==
    /\ pc[r] \in (IF o.kind = "put" THEN {"idle", "read"} ELSE {"idle"})
    /\ o.kind \in Kinds
    /\ IF run = NoRun /\ o.kind # "create"
       THEN Finish(r, "missing")
       ELSE IF refused THEN Finish(r, "invalid")
       ELSE /\ Goto(r, "waiting") /\ op' = [op EXCEPT ![r] = o]
            /\ UNCHANGED <<answer, etag, next, summary>>
    /\ UNCHANGED <<lock, run, live, configs, links>>

Ask(r, o) == AskIf(r, o, FALSE)

\* The collection route names the case in the body alone.
RecordRunResult(r, body) ==
    AskIf(r, [NoOp EXCEPT !.kind = "record", !.case = body.case, !.status = body.status,
                          !.note = body.note], ResultRefused(body.case, body))

ReplaceRunResult(r, c, body) ==
    AskIf(r, [NoOp EXCEPT !.kind = "replace", !.case = c, !.status = body.status,
                          !.note = body.note], ResultRefused(c, body))

DeleteRunResult(r, c) == Ask(r, [NoOp EXCEPT !.kind = "remove", !.case = c])

ImportResults(r, report) ==
    AskIf(r, [NoOp EXCEPT !.kind = "import", !.report = report], ReportRefused(report))

AddCaseToRun(r, c) == Ask(r, [NoOp EXCEPT !.kind = "addCase", !.case = c])

AddSuiteToRun(r) == Ask(r, [NoOp EXCEPT !.kind = "addSuite"])

LinkConfigurationToRun(r, k) == Ask(r, [NoOp EXCEPT !.kind = "linkConfig", !.config = {k}])

UnlinkConfigurationFromRun(r, k) == Ask(r, [NoOp EXCEPT !.kind = "unlinkConfig", !.config = {k}])

CreateRun(r, body) == Ask(r, [NoOp EXCEPT !.kind = "create", !.body = body])

DeleteRun(r) == Ask(r, [NoOp EXCEPT !.kind = "delete"])

\* GET /test_runs/{id}, whose ETag a later PUT may send back.
GetRun(r) ==
    /\ pc[r] = "idle" /\ "put" \in Kinds /\ run # NoRun
    /\ etag' = [etag EXCEPT ![r] = run]
    /\ Goto(r, "read")
    /\ UNCHANGED <<lock, run, live, configs, links, op, next, answer, summary>>

PutRun(r, body) == Ask(r, [NoOp EXCEPT !.kind = "put", !.body = body])

\* The case behind a result, without the lock: the run's project first, then a
\* case only one of the projects the run names holds.
ResolveResultCase(r, kind, c, d) ==
    /\ pc[r] = "idle" /\ kind \in Kinds
    /\ LET go(p) ==
             IF kind = "linkDefect" /\ LinkRefused(d) THEN Finish(r, "invalid") ELSE
             /\ op' = [op EXCEPT ![r] = [NoOp EXCEPT !.kind = kind, !.case = c,
                                                     !.defect = {d}, !.project = p]]
             /\ Goto(r, "waiting") /\ UNCHANGED <<answer, etag, next, summary>>
       IN  \/ run = NoRun /\ Finish(r, "missing")
           \/ run # NoRun /\ c \notin DOMAIN run.results /\ Finish(r, "missing")
           \/ /\ run # NoRun /\ c \in DOMAIN run.results
              /\ IF Home \in Owners(c) THEN go(Home)
                 ELSE IF InReach(c) = {} THEN Finish(r, "missing")
                 ELSE IF Cardinality(InReach(c)) = 1 THEN \E p \in InReach(c) : go(p)
                 ELSE Finish(r, "conflict")
    /\ UNCHANGED <<lock, run, live, configs, links>>

LinkDefectToCase(r, c, d) == ResolveResultCase(r, "linkDefect", c, d)

UnlinkDefectFromCase(r, c, id) == ResolveResultCase(r, "unlinkDefect", c, id)

(* ------------------------- steps under the lock ------------------------- *)

\* A fault of acquire_lock: a shared lock where an exclusive one is needed.
AcquireLockShared(r) ==
    /\ pc[r] = "waiting"
    /\ lock' = r
    /\ Goto(r, "locked")
    /\ UNCHANGED <<run, live, configs, links, op, etag, next, answer, summary>>

AcquireLock(r) ==
    /\ pc[r] = "waiting" /\ lock = NoOne
    /\ lock' = r
    /\ Goto(r, "locked")
    /\ UNCHANGED <<run, live, configs, links, op, etag, next, answer, summary>>

LockTimeout(r) ==
    /\ pc[r] = "waiting" /\ lock # NoOne
    /\ Finish(r, "busy")
    /\ UNCHANGED <<lock, run, live, configs, links>>

\* A refusal writes nothing and releases the lock.
Refuse(r, status) ==
    /\ Finish(r, status) /\ lock' = NoOne
    /\ UNCHANGED <<run, live, configs, links>>

Prepare(r, new) ==
    /\ next' = [next EXCEPT ![r] = new]
    /\ Goto(r, "write")
    /\ UNCHANGED <<lock, run, live, configs, links, op, etag, answer>>

Locked(r, kind) == pc[r] = "locked" /\ op[r].kind = kind

\* A mutation of the run: refused, or prepared for publication.
MutateRun(r, kind, refused, status, new) ==
    /\ Locked(r, kind)
    /\ IF run = NoRun THEN Refuse(r, "missing")
       ELSE IF refused THEN Refuse(r, status)
       ELSE Prepare(r, new) /\ UNCHANGED summary

Record(r) ==
    LET c == op[r].case
    IN  MutateRun(r, "record", ~HoldsCase(run, c), "missing",
                  UpsertResult(CaptureCaseVersion(run, c, VersionSeen(c)), c,
                               op[r].status, op[r].note))

\* A replacement never creates.
Replace(r) ==
    LET c == op[r].case
    IN  MutateRun(r, "replace", c \notin DOMAIN run.results, "missing",
                  ReplaceResult(run, c, op[r].status, op[r].note))

Remove(r) ==
    LET c == op[r].case
    IN  MutateRun(r, "remove", c \notin DOMAIN run.results, "missing", RemoveResult(run, c))

Import(r) ==
    /\ Locked(r, "import")
    /\ \/ run = NoRun /\ Refuse(r, "missing")
       \/ /\ run # NoRun
          /\ Prepare(r, StoreImportedResults(run, Parse(op[r].report)))
          /\ summary' = [summary EXCEPT ![r] = ImportSummary(run, op[r].report)]

\* The case has to be readable, and not declared yet.
AttachCase(r) ==
    LET c == op[r].case
    IN  MutateRun(r, "addCase", ~Readable(c) \/ Copies(run, c) # {},
                  IF Owners(c) = {} THEN "missing" ELSE "conflict",
                  CaptureCaseVersion(AttachCaseToRun(run, c, VersionSeen(c)), c, VersionSeen(c)))

\* The suite is embedded with its cases; no version is captured.
AttachSuite(r) ==
    MutateRun(r, "addSuite", run.suites # {}, "conflict", AttachSuiteToRun(run, SuiteSnapshot))

\* The configuration itself has to be stored, to link it and to unlink it.
ConfigMissing(r) == ~(op[r].config \subseteq configs)

LinkConfig(r) ==
    MutateRun(r, "linkConfig", ConfigMissing(r) \/ op[r].config \subseteq run.configs,
              IF ConfigMissing(r) THEN "missing" ELSE "conflict",
              AttachConfigurationToRun(run, op[r].config))

UnlinkConfig(r) ==
    MutateRun(r, "unlinkConfig", ConfigMissing(r) \/ ~(op[r].config \subseteq run.configs),
              "missing", DetachConfigurationFromRun(run, op[r].config))

EtagMatches(r) == etag[r] = NoRun \/ etag[r] = run

\* A PUT stores what its body carries, looked at no further.
MergeRun(r) == MutateRun(r, "put", ~EtagMatches(r), "mismatch", Merge(run, op[r].body))

CreateAt(r) ==
    /\ Locked(r, "create")
    /\ \/ run # NoRun /\ Refuse(r, "conflict")
       \/ run = NoRun /\ Prepare(r, Merge(NewRun, op[r].body)) /\ UNCHANGED summary

DeleteAt(r) ==
    /\ Locked(r, "delete")
    /\ run' = NoRun
    /\ Finish(r, IF run = NoRun THEN "missing" ELSE "ok") /\ lock' = NoOne
    /\ UNCHANGED <<live, configs, links>>

\* Where the case of a defect request is stored, and its links.
CaseLinks(r) == links[op[r].case][op[r].project]

CaseGone(r) == live[op[r].case][op[r].project] = 0

\* A defect the case already lists is a conflict.
AttachDefect(r) ==
    /\ Locked(r, "linkDefect")
    /\ \/ CaseGone(r) /\ Refuse(r, "missing")
       \/ /\ ~CaseGone(r) /\ (\E l \in CaseLinks(r) : l.defect \in op[r].defect)
          /\ Refuse(r, "conflict")
       \/ /\ ~CaseGone(r) /\ ~\E l \in CaseLinks(r) : l.defect \in op[r].defect
          /\ Prepare(r, CaseLinks(r) \union {NewLink(r, d) : d \in op[r].defect})
          /\ UNCHANGED summary

DetachDefect(r) ==
    /\ Locked(r, "unlinkDefect")
    /\ \/ CaseGone(r) /\ Refuse(r, "missing")
       \/ /\ ~CaseGone(r) /\ (\A l \in CaseLinks(r) : l.id \notin op[r].defect)
          /\ Refuse(r, "missing")
       \/ /\ ~CaseGone(r) /\ (\E l \in CaseLinks(r) : l.id \in op[r].defect)
          /\ Prepare(r, {l \in CaseLinks(r) : l.id \notin op[r].defect})
          /\ UNCHANGED summary

OfCase(r) == op[r].kind \in {"linkDefect", "unlinkDefect"}

\* The rename that publishes the document, and the unlock.
WriteDocument(r) ==
    /\ pc[r] = "write"
    /\ \/ ~OfCase(r) /\ run' = next[r] /\ UNCHANGED links
       \/ /\ OfCase(r) /\ UNCHANGED run
          /\ links' = [links EXCEPT ![op[r].case][op[r].project] = next[r]]
    /\ Finish(r, "ok") /\ lock' = NoOne
    /\ UNCHANGED <<live, configs>>

Crash(r) ==
    /\ "crash" \in Faults
    /\ pc[r] \in {"waiting", "locked", "write"}
    /\ Finish(r, "lost")
    /\ lock' = IF lock = r THEN NoOne ELSE lock
    /\ UNCHANGED <<run, live, configs, links>>

(* ----------------------- the cases, under the lock ----------------------- *)

Change(kind) == kind \in Kinds /\ changes < MaxChanges /\ changes' = changes + 1

\* A fault of the edit: the body is stored without the links the case has.
EditCaseAnew(c, p) ==
    /\ Change("editCase")
    /\ lock = NoOne /\ live[c][p] \in 1 .. MaxVersion - 1
    /\ live' = [live EXCEPT ![c][p] = @ + 1]
    /\ links' = [links EXCEPT ![c][p] = {}]
    /\ UNCHANGED <<lock, run, configs, pc, op, etag, next, answer, summary>>

EditCase(c, p) ==
    /\ Change("editCase")
    /\ lock = NoOne /\ live[c][p] \in 1 .. MaxVersion - 1
    /\ live' = [live EXCEPT ![c][p] = @ + 1]
    /\ UNCHANGED <<lock, run, configs, links, pc, op, etag, next, answer, summary>>

\* A copy keeps the document, its version and its links.
CopyCase(c, p, q) ==
    /\ Change("copyCase")
    /\ lock = NoOne /\ live[c][p] # 0 /\ live[c][q] = 0
    /\ live' = [live EXCEPT ![c][q] = live[c][p]]
    /\ links' = [links EXCEPT ![c][q] = links[c][p]]
    /\ UNCHANGED <<lock, run, configs, pc, op, etag, next, answer, summary>>

RemoveCase(c, p) ==
    /\ Change("removeCase")
    /\ lock = NoOne /\ live[c][p] # 0
    /\ live' = [live EXCEPT ![c][p] = 0]
    /\ links' = [links EXCEPT ![c][p] = {}]
    /\ UNCHANGED <<lock, run, configs, pc, op, etag, next, answer, summary>>

\* A configuration is deleted; the runs that reference it are not touched.
RemoveConfig(k) ==
    /\ Change("removeConfig")
    /\ lock = NoOne /\ k \in configs
    /\ configs' = configs \ {k}
    /\ UNCHANGED <<lock, run, live, links, pc, op, etag, next, answer, summary>>

(* ----------------------------- specification ----------------------------- *)

\* Every case is filed in the run's project; there is no run yet, or it has just
\* been created with some body, or the suite has been added to it and a first result recorded.
Init ==
    /\ lock = NoOne
    /\ live = [c \in Cases |-> [p \in Projects |-> IF p = Home THEN 1 ELSE 0]]
    /\ links = [c \in Cases |-> [p \in Projects |-> {}]]
    /\ configs = Configs
    /\ \/ run \in {NoRun} \union {Merge(NewRun, body) : body \in Bodies}
       \/ \E c \in Cases, s \in Statuses :
            run = UpsertResult(CaptureCaseVersion(AttachSuiteToRun(NewRun, SuiteSnapshot), c, 1),
                               c, s, Clear)
    /\ pc = [r \in Requests |-> "idle"]
    /\ op = [r \in Requests |-> NoOp]
    /\ etag = [r \in Requests |-> NoRun]
    /\ next = [r \in Requests |-> NoRun]
    /\ answer = [r \in Requests |-> "none"]
    /\ summary = [r \in Requests |-> NoSummary]
    /\ changes = 0

Client(r) ==
    \/ \E body \in [case : Cases, status : Statuses \union {Malformed},
                     note : Notes \union {Keep, Clear, Malformed}] :
         \/ RecordRunResult(r, body)
         \/ \E c \in Cases : ReplaceRunResult(r, c, body)
    \/ \E c \in Cases :
         \/ DeleteRunResult(r, c) \/ AddCaseToRun(r, c)
         \/ \E d \in Defects \union {Malformed} : LinkDefectToCase(r, c, d)
         \/ \E id \in Requests : UnlinkDefectFromCase(r, c, id)
    \/ \E k \in Configs : LinkConfigurationToRun(r, k) \/ UnlinkConfigurationFromRun(r, k)
    \/ \E report \in Reports : ImportResults(r, report)
    \/ \E body \in Bodies : PutRun(r, body) \/ CreateRun(r, body)
    \/ AddSuiteToRun(r) \/ DeleteRun(r) \/ GetRun(r)

Server(r) ==
    AcquireLock(r) \/ LockTimeout(r) \/ Record(r) \/ Replace(r) \/ Remove(r) \/ Import(r)
    \/ AttachCase(r) \/ AttachSuite(r) \/ LinkConfig(r) \/ UnlinkConfig(r) \/ MergeRun(r)
    \/ CreateAt(r) \/ DeleteAt(r) \/ AttachDefect(r) \/ DetachDefect(r) \/ WriteDocument(r)

\* Every request has been answered.
AllAnswered == (\A r \in Requests : pc[r] = "done") /\ UNCHANGED vars

Next ==
    \/ (\E r \in Requests : Client(r) \/ Server(r) \/ Crash(r)) /\ UNCHANGED changes
    \/ \E c \in Cases, p \in Projects :
         EditCase(c, p) \/ RemoveCase(c, p) \/ \E q \in Projects : CopyCase(c, p, q)
    \/ \E k \in Configs : RemoveConfig(k)
    \/ AllAnswered

Spec == Init /\ [][Next]_vars

(* ------------------------------- properties ------------------------------ *)

Versions(domains) == \A f \in domains : DOMAIN f \subseteq Cases /\ \A c \in DOMAIN f : f[c] \in Nat

Entries == [status : STRING, note : Notes \union {Clear}]

IsResults(f) == DOMAIN f \subseteq Cases /\ \A c \in DOMAIN f : f[c] \in Seq(Entries) /\ f[c] # <<>>

IsRun(doc) ==
    /\ doc.projects \subseteq Projects /\ doc.configs \subseteq Configs
    /\ doc.cases \subseteq [case : Cases, version : Nat]
    /\ Versions({doc.pins} \union doc.suites) /\ IsResults(doc.results)

\* What a body may hold: each field of a create or of a PUT has the type its model
\* gives it (validate_payload), and nothing else is asked of it: a status is any
\* text, and a case may have several entries.  An entry of a JSON report has the
\* fields of JsonEntry and no others, a <testcase> its name, its children and a
\* message.
JsonEntries ==
    [case : Cases \union {NoCase}, status : STRING, note : Notes \union {Clear}]

TestCases ==
    [case : Cases \union {NoCase}, children : SUBSET STRING, message : Notes \union {Clear}]

ASSUME BodiesAssumption ==
    /\ IsFiniteSet(Cases) /\ Statuses \union ImportStatuses \subseteq STRING
    /\ \A body \in Bodies : IsRun(Merge(NewRun, body))
    /\ \A report \in Reports :
         \/ report.format = "json" /\ report.entries \in Seq(JsonEntries)
         \/ report.format = "junit" /\ report.entries \in Seq(TestCases)

\* A stored run holds, of each case it has a result for, one entry or more, with a
\* status and a note or with the note cleared, never a marker of the request that
\* wrote it (apply_patch).
TypeOK ==
    /\ lock \in Requests \union {NoOne}
    /\ run = NoRun \/ IsRun(run)
    /\ live \in [Cases -> [Projects -> 0 .. MaxVersion]]
    /\ \A c \in Cases, p \in Projects :
         links[c][p] \subseteq [id : Requests, defect : Defects]
    /\ configs \subseteq Configs
    /\ pc \in [Requests -> {"idle", "read", "waiting", "locked", "write", "done"}]
    /\ \A r \in Requests : op[r].kind \in RunKinds
    /\ summary \in [Requests -> [imported : Nat, duplicates : Nat, errors : Nat]]
    /\ changes \in 0 .. MaxChanges

Result(doc, c) == IF c \in DOMAIN doc.results THEN {doc.results[c]} ELSE {}

\* The request whose write this step publishes.
Writer(r) == lock = r /\ pc[r] = "write"

\* Concurrent mutations of one run serialise: a publication changes the result
\* of a case only if its request is about that case, or replaces the whole
\* array; nobody's result is clobbered by a stale read (mutate_run). And
\* "re-importing a report is safe and never overwrites a result someone recorded
\* by hand", also one recorded while the import waited (store_imported_results).
ResultsIndependent ==
    [][run # NoRun /\ run' # NoRun =>
         \A c \in Cases :
            Result(run, c) # Result(run', c) =>
              \E r \in Requests :
                /\ Writer(r)
                /\ \/ op[r].kind \in {"record", "replace", "remove"} /\ op[r].case = c
                   \/ op[r].kind = "import" /\ c \in Reported(Parse(op[r].report)) \ DOMAIN run.results
                   \/ op[r].kind = "put" /\ op[r].body.results # Keep]_run

\* A result that does not come with the body of a create or of a PUT has one of
\* the statuses there are, and is the first and only entry it touches: nothing
\* else doubles a case, and what a body doubled is left as it was behind the first
\* (upsert_result, replace_result, store_imported_results).
ResultsWellFormed ==
    [][run # NoRun /\ run' # NoRun =>
         \A c \in DOMAIN run'.results :
            \/ Result(run, c) = Result(run', c)
            \/ \E r \in Requests : Writer(r) /\ op[r].kind = "put" /\ op[r].body.results # Keep
            \/ /\ run'.results[c][1].status \in Statuses \union ImportStatuses
               /\ Tail(run'.results[c]) =
                    IF c \in DOMAIN run.results THEN Tail(run.results[c]) ELSE <<>>]_run

\* The summary an import answers with accounts for every entry of the report and
\* for every result the run gained (store_imported_results).
ImportAccounted ==
    [][\A r \in Requests :
          Writer(r) /\ op[r].kind = "import" /\ answer'[r] = "ok" =>
            /\ summary[r].imported =
                 Cardinality(DOMAIN run'.results) - Cardinality(DOMAIN run.results)
            /\ summary[r].imported + summary[r].duplicates + summary[r].errors
                 = Len(op[r].report.entries)]_vars

\* "The first write wins": no recording, attachment or edit of the case revises
\* a version the run pinned; only a PUT that carries caseVersions does
\* (capture_case_version).
PinsStay ==
    [][run # NoRun /\ run' # NoRun =>
         \/ \A c \in DOMAIN run.pins : c \in DOMAIN run'.pins /\ run'.pins[c] = run.pins[c]
         \/ \E r \in Requests : Writer(r) /\ op[r].kind = "put" /\ op[r].body.pins # Keep]_run

\* "The pinned version describes what the winning writer saw": when a version is
\* pinned, it is the version the case has at that moment, and the version of the
\* copy the run embeds with it (record_run_result, add_case_to_run).
PinsAreCurrent ==
    [][\A r \in Requests :
          Writer(r) /\ op[r].kind \in {"record", "addCase"} /\ answer'[r] = "ok" =>
            \A c \in DOMAIN run'.pins \ DOMAIN run.pins :
               /\ run'.pins[c] = VersionSeen(c)
               /\ \A copy \in Copies(run', c) \ Copies(run, c) : copy.version = run'.pins[c]]_run

\* A conditional PUT that succeeds replaced exactly the run its ETag was computed
\* from (transform_at).
NoLostUpdate ==
    [][\A r \in Requests :
          op[r].kind = "put" /\ etag[r] # NoRun /\ answer[r] = "none" /\ answer'[r] = "ok"
             => run = etag[r]]_vars

\* Linking the same defect twice is refused, however the requests race: no case
\* ever lists one defect under two links (attach_defect_to_case).
DefectsUnique ==
    \A c \in Cases, p \in Projects :
        \A l, m \in links[c][p] : l.defect = m.defect => l = m

\* Links made through several runs, or by several requests, do not undo each
\* other: a link disappears with its case or through an unlink that names it
\* (mutate_case_document).
LinksKept ==
    [][\A c \in Cases, p \in Projects :
          \A l \in links[c][p] \ links'[c][p] :
            \/ live'[c][p] = 0
            \/ \E r \in Requests :
                 /\ Writer(r) /\ op[r].kind = "unlinkDefect"
                 /\ op[r].case = c /\ op[r].project = p /\ l.id \in op[r].defect]_links

\* The results of a run are the work of the requests that say so, and an answer
\* tells what was done: the properties of results above, and TypeOK.
ResultsSound ==
    []TypeOK /\ ResultsIndependent /\ ResultsWellFormed /\ ImportAccounted /\ NoLostUpdate

\* A pin is right when it is made, and stays: the two properties of pins above.
PinsSound == PinsAreCurrent /\ PinsStay

\* Racing links neither double nor undo each other: the two properties of
\* defect links above.
LinksSound == []DefectsUnique /\ LinksKept
=============================================================================
