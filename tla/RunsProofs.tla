----------------------------- MODULE RunsProofs -----------------------------
(***************************************************************************)
(* Theorems about Runs for any number of requests, cases, projects and     *)
(* changes of the cases meanwhile, any reports and any bodies of a create  *)
(* or of a PUT.                                                            *)
(***************************************************************************)
EXTENDS Runs, FiniteSetTheorems, SequenceTheorems, TLAPS

(* ------------------------ the inductive invariant ----------------------- *)

\* A request variable has a value for every request and for nothing else.
PerRequest(f) == f = [r \in Requests |-> f[r]]

\* A run document has its six fields, whatever a PUT stored in them.
IsDocument(d) ==
    d = [projects |-> d.projects, cases |-> d.cases, suites |-> d.suites, results |-> d.results,
         configs |-> d.configs, pins |-> d.pins]

Phases == {"idle", "read", "waiting", "locked", "write", "done"}
Links == [id : Requests, defect : Defects]

ShapeInv ==
    /\ lock \in Requests \union {NoOne}
    /\ pc \in [Requests -> Phases]
    /\ PerRequest(op) /\ PerRequest(etag) /\ PerRequest(next) /\ PerRequest(answer)
    /\ run = NoRun \/ IsDocument(run)
    /\ live \in [Cases -> [Projects -> Int]]
    /\ links \in [Cases -> [Projects -> SUBSET Links]]

\* A request is between its read and its unlock exactly while it holds the lock.
LockInv == \A r \in Requests : pc[r] \in {"locked", "write"} <=> lock = r

\* A case that is not there has no links, and no defect is listed twice.
LinkInv ==
    /\ \A c \in Cases, p \in Projects : live[c][p] = 0 => links[c][p] = {}
    /\ DefectsUnique

\* What is known of a request since it was read.
OpOK(r) ==
    /\ OfCase(r) => op[r].case \in Cases /\ op[r].project \in Projects
    /\ op[r].kind = "linkDefect" => \E d \in Defects : op[r].defect = {d}

\* The document a request may publish: what its rule makes of the run, of the
\* cases and of the links as they are stored now, not as they once were.
Publishes(r, new) ==
    LET c == op[r].case IN
    /\ op[r].kind \in RunKinds \ {"delete"}
    /\ op[r].kind = "create" => run = NoRun
    /\ ~OfCase(r) /\ op[r].kind # "create" => run # NoRun
    /\ op[r].kind = "put" => EtagMatches(r)
    /\ OfCase(r) => ~CaseGone(r)
    /\ op[r].kind = "record" =>
         new = UpsertResult(CaptureCaseVersion(run, c, VersionSeen(c)), c,
                            op[r].status, op[r].note)
    /\ op[r].kind = "replace" => new = ReplaceResult(run, c, op[r].status, op[r].note)
    /\ op[r].kind = "remove" => new = RemoveResult(run, c)
    /\ op[r].kind = "import" => new = StoreImportedResults(run, Parse(op[r].report))
    /\ op[r].kind = "addCase" =>
         new = CaptureCaseVersion(AttachCaseToRun(run, c, VersionSeen(c)), c, VersionSeen(c))
    /\ op[r].kind = "addSuite" => new = AttachSuiteToRun(run, SuiteSnapshot)
    /\ op[r].kind = "linkConfig" => new = AttachConfigurationToRun(run, op[r].config)
    /\ op[r].kind = "unlinkConfig" => new = DetachConfigurationFromRun(run, op[r].config)
    /\ op[r].kind = "put" => new = Merge(run, op[r].body)
    /\ op[r].kind = "create" => new = Merge(NewRun, op[r].body)
    /\ op[r].kind = "linkDefect" =>
         /\ new = CaseLinks(r) \union {NewLink(r, d) : d \in op[r].defect}
         /\ \A l \in CaseLinks(r) : l.defect \notin op[r].defect
    /\ op[r].kind = "unlinkDefect" =>
         new = {l \in CaseLinks(r) : l.id \notin op[r].defect}

WriteOK(r) == pc[r] = "write" => Publishes(r, next[r])

IInv == ShapeInv /\ LockInv /\ LinkInv /\ \A r \in Requests : OpOK(r) /\ WriteOK(r)

(* --------------------------------- frames -------------------------------- *)

\* A step of one request leaves the locals of the others alone.
OthersKept(r) ==
    \A q \in Requests \ {r} :
        pc'[q] = pc[q] /\ op'[q] = op[q] /\ etag'[q] = etag[q] /\ next'[q] = next[q]

\* A request without a task is about nothing.
LEMMA NoOpKind == NoOp.kind = "delete"
  BY DEF NoOp

\* A request moves on alone.
LEMMA Moved ==
    ASSUME ShapeInv, NEW r \in Requests, NEW phase \in Phases, Goto(r, phase)
    PROVE  /\ pc' \in [Requests -> Phases] /\ pc'[r] = phase
           /\ \A q \in Requests \ {r} : pc'[q] = pc[q]
  BY DEF ShapeInv, Goto

\* An answered request has no locals left.
LEMMA Finished ==
    ASSUME ShapeInv, NEW r \in Requests, NEW status, Finish(r, status)
    PROVE  /\ pc' \in [Requests -> Phases] /\ pc'[r] = "done"
           /\ PerRequest(op') /\ PerRequest(etag') /\ PerRequest(next') /\ PerRequest(answer')
           /\ op'[r] = NoOp /\ OpOK(r)'
           /\ OthersKept(r)
           /\ answer'[r] = status /\ \A q \in Requests \ {r} : answer'[q] = answer[q]
  <1>1. /\ pc' \in [Requests -> Phases] /\ pc'[r] = "done"
        /\ \A q \in Requests \ {r} : pc'[q] = pc[q]
    BY Moved DEF Finish, Phases
  <1>2. PerRequest(op') /\ op'[r] = NoOp /\ \A q \in Requests \ {r} : op'[q] = op[q]
    BY DEF ShapeInv, Finish, PerRequest
  <1>3. PerRequest(etag') /\ \A q \in Requests \ {r} : etag'[q] = etag[q]
    BY DEF ShapeInv, Finish, PerRequest
  <1>4. PerRequest(next') /\ \A q \in Requests \ {r} : next'[q] = next[q]
    BY DEF ShapeInv, Finish, PerRequest
  <1>5. /\ PerRequest(answer') /\ answer'[r] = status
        /\ \A q \in Requests \ {r} : answer'[q] = answer[q]
    BY DEF ShapeInv, Finish, PerRequest
  <1>6. op'[r].kind = "delete"
    BY <1>2, NoOpKind
  <1>7. OpOK(r)'
    BY <1>6 DEF OpOK, OfCase
  <1> QED BY <1>1, <1>2, <1>3, <1>4, <1>5, <1>7 DEF OthersKept

\* A request about to publish is not disturbed by a step that changes neither
\* the files nor its locals.
LEMMA SameWrite ==
    ASSUME NEW q \in Requests, UNCHANGED <<run, live, links>>,
           pc'[q] = pc[q], op'[q] = op[q], etag'[q] = etag[q], next'[q] = next[q],
           OpOK(q), WriteOK(q)
    PROVE  OpOK(q)' /\ WriteOK(q)'
  <1>1. (OfCase(q)' <=> OfCase(q)) /\ OpOK(q)'
    BY DEF OfCase, OpOK
  <1>2. VersionSeen(op[q].case)' = VersionSeen(op[q].case) /\ SuiteSnapshot' = SuiteSnapshot
    BY DEF VersionSeen, Readable, Owners, SuiteSnapshot
  <1>3. /\ CaseLinks(q)' = CaseLinks(q) /\ (CaseGone(q)' <=> CaseGone(q))
        /\ (EtagMatches(q)' <=> EtagMatches(q))
    BY DEF CaseLinks, CaseGone, EtagMatches
  <1>4. op[q]' = op[q] /\ next[q]' = next[q] /\ run' = run /\ pc[q]' = pc[q]
    OBVIOUS
  <1> QED BY <1>1, <1>2, <1>3, <1>4 DEF WriteOK, Publishes

\* A step of a request that publishes nothing and is not about to.
LEMMA QuietInv ==
    ASSUME IInv, NEW r \in Requests, OthersKept(r), UNCHANGED <<run, live, links>>,
           lock' \in Requests \union {NoOne}, pc' \in [Requests -> Phases],
           PerRequest(op'), PerRequest(etag'), PerRequest(next'), PerRequest(answer'),
           LockInv', pc'[r] # "write", OpOK(r)'
    PROVE  IInv'
  <1>1. ShapeInv'
    BY DEF IInv, ShapeInv
  <1>2. LinkInv'
    BY DEF IInv, LinkInv, DefectsUnique
  <1>3. ASSUME NEW q \in Requests PROVE OpOK(q)' /\ WriteOK(q)'
    <2>1. CASE q = r
      BY <2>1 DEF WriteOK
    <2>2. CASE q # r
      BY <2>2, SameWrite DEF IInv, OthersKept
    <2> QED BY <2>1, <2>2
  <1> QED BY <1>1, <1>2, <1>3 DEF IInv

\* Answering a request that holds no lock, or releasing it with the answer.
LEMMA FinishInv ==
    ASSUME IInv, NEW r \in Requests, NEW status, Finish(r, status),
           lock' = IF lock = r THEN NoOne ELSE lock, UNCHANGED <<run, live, links>>
    PROVE  IInv'
  <1>1. ShapeInv
    BY DEF IInv
  <1>2. LockInv'
    BY <1>1, Finished, RunsAssumption DEF IInv, LockInv, OthersKept, ShapeInv
  <1>3. lock' \in Requests \union {NoOne}
    BY <1>1 DEF ShapeInv
  <1> QED BY <1>1, <1>2, <1>3, Finished, QuietInv

(* ------------------------- lockless beginnings ------------------------- *)

\* A request that was read waits for the lock with what it was asked.
LEMMA WaitInv ==
    ASSUME IInv, NEW r \in Requests, pc[r] \in {"idle", "read"},
           Goto(r, "waiting"), NEW o, op' = [op EXCEPT ![r] = o], OpOK(r)',
           UNCHANGED <<lock, run, live, links, answer, etag, next>>
    PROVE  IInv'
  <1>1. /\ pc' \in [Requests -> Phases] /\ pc'[r] = "waiting"
        /\ \A q \in Requests \ {r} : pc'[q] = pc[q]
    BY Moved DEF IInv, Phases
  <1>2. PerRequest(op') /\ \A q \in Requests \ {r} : op'[q] = op[q]
    BY DEF IInv, ShapeInv, PerRequest
  <1>3. PerRequest(etag') /\ PerRequest(next') /\ PerRequest(answer')
        /\ lock' \in Requests \union {NoOne}
    BY DEF IInv, ShapeInv
  <1>4. OthersKept(r)
    BY <1>1, <1>2 DEF OthersKept
  <1>5. LockInv'
    BY <1>1 DEF IInv, LockInv
  <1> QED BY <1>1, <1>2, <1>3, <1>4, <1>5, QuietInv

\* Answering a request that never had the lock.
LEMMA AnswerEarly ==
    ASSUME IInv, NEW r \in Requests, pc[r] \in {"idle", "read", "waiting"}, NEW status,
           Finish(r, status), UNCHANGED <<lock, run, live, links>>
    PROVE  IInv'
  <1>1. lock # r
    BY DEF IInv, LockInv
  <1> QED BY <1>1, FinishInv

\* A request about the run is refused or waits.
LEMMA AskInv ==
    ASSUME IInv, NEW r \in Requests, NEW o, NEW refused,
           o.kind \notin {"linkDefect", "unlinkDefect"}, AskIf(r, o, refused)
    PROVE  IInv'
  <1>1. pc[r] \in {"idle", "read"} /\ UNCHANGED <<lock, run, live, links>>
    BY DEF AskIf
  <1>2. CASE Finish(r, "missing") \/ Finish(r, "invalid")
    BY <1>1, <1>2, AnswerEarly
  <1>3. CASE /\ Goto(r, "waiting") /\ op' = [op EXCEPT ![r] = o]
             /\ UNCHANGED <<answer, etag, next, summary>>
    <2>1. op'[r] = o
      BY <1>3 DEF IInv, ShapeInv, PerRequest
    <2>2. OpOK(r)'
      BY <2>1 DEF OpOK, OfCase
    <2> QED BY <1>1, <1>3, <2>2, WaitInv
  <1> QED BY <1>2, <1>3 DEF AskIf

\* The kinds of the requests about the run.
LEMMA RunRequestInv ==
    ASSUME IInv, NEW r \in Requests,
           \/ \E body, c : RecordRunResult(r, body) \/ ReplaceRunResult(r, c, body)
           \/ \E c : DeleteRunResult(r, c) \/ AddCaseToRun(r, c)
           \/ \E k : LinkConfigurationToRun(r, k) \/ UnlinkConfigurationFromRun(r, k)
           \/ \E report : ImportResults(r, report)
           \/ \E body : PutRun(r, body) \/ CreateRun(r, body)
           \/ AddSuiteToRun(r) \/ DeleteRun(r)
    PROVE  IInv'
  <1>1. \E o, refused : o.kind \notin {"linkDefect", "unlinkDefect"} /\ AskIf(r, o, refused)
    <2>1. CASE \E body, c : RecordRunResult(r, body)
      <3>1. PICK body : RecordRunResult(r, body)
        BY <2>1
      <3> DEFINE o == [NoOp EXCEPT !.kind = "record", !.case = body.case, !.status = body.status,
                                   !.note = body.note]
      <3>2. o.kind = "record"
        BY DEF NoOp
      <3>3. AskIf(r, o, ResultRefused(body.case, body))
        BY <3>1 DEF RecordRunResult
      <3> HIDE DEF o
      <3> QED BY <3>2, <3>3
    <2>2. CASE \E body, c : ReplaceRunResult(r, c, body)
      <3>1. PICK body, c : ReplaceRunResult(r, c, body)
        BY <2>2
      <3> DEFINE o == [NoOp EXCEPT !.kind = "replace", !.case = c, !.status = body.status,
                                   !.note = body.note]
      <3>2. o.kind = "replace"
        BY DEF NoOp
      <3>3. AskIf(r, o, ResultRefused(c, body))
        BY <3>1 DEF ReplaceRunResult
      <3> HIDE DEF o
      <3> QED BY <3>2, <3>3
    <2>3. CASE \E c : DeleteRunResult(r, c) \/ AddCaseToRun(r, c)
      <3>1. PICK c : DeleteRunResult(r, c) \/ AddCaseToRun(r, c)
        BY <2>3
      <3>2. /\ [NoOp EXCEPT !.kind = "remove", !.case = c].kind = "remove"
            /\ [NoOp EXCEPT !.kind = "addCase", !.case = c].kind = "addCase"
        BY SMTT(40) DEF NoOp
      <3> QED BY <3>1, <3>2 DEF DeleteRunResult, AddCaseToRun, Ask
    <2>4. CASE \E k : LinkConfigurationToRun(r, k) \/ UnlinkConfigurationFromRun(r, k)
      <3>1. PICK k : LinkConfigurationToRun(r, k) \/ UnlinkConfigurationFromRun(r, k)
        BY <2>4
      <3>2. /\ [NoOp EXCEPT !.kind = "linkConfig", !.config = {k}].kind = "linkConfig"
            /\ [NoOp EXCEPT !.kind = "unlinkConfig", !.config = {k}].kind = "unlinkConfig"
        BY DEF NoOp
      <3> QED BY <3>1, <3>2 DEF LinkConfigurationToRun, UnlinkConfigurationFromRun, Ask
    <2>5. CASE \E report : ImportResults(r, report)
      <3>1. PICK report : ImportResults(r, report)
        BY <2>5
      <3>2. [NoOp EXCEPT !.kind = "import", !.report = report].kind = "import"
        BY DEF NoOp
      <3> QED BY <3>1, <3>2 DEF ImportResults
    <2>6. CASE \E body : PutRun(r, body) \/ CreateRun(r, body)
      <3>1. PICK body : PutRun(r, body) \/ CreateRun(r, body)
        BY <2>6
      <3>2. /\ [NoOp EXCEPT !.kind = "put", !.body = body].kind = "put"
            /\ [NoOp EXCEPT !.kind = "create", !.body = body].kind = "create"
        BY SMTT(40) DEF NoOp
      <3> QED BY <3>1, <3>2 DEF PutRun, CreateRun, Ask
    <2>7. CASE AddSuiteToRun(r) \/ DeleteRun(r)
      <3>1. /\ [NoOp EXCEPT !.kind = "addSuite"].kind = "addSuite"
            /\ [NoOp EXCEPT !.kind = "delete"].kind = "delete"
        BY DEF NoOp
      <3> QED BY <2>7, <3>1 DEF AddSuiteToRun, DeleteRun, Ask
    <2> QED BY <2>1, <2>2, <2>3, <2>4, <2>5, <2>6, <2>7
  <1> QED BY <1>1, AskInv

\* GetRun preserves the invariant.
LEMMA GetRunInv ==
    ASSUME IInv, NEW r \in Requests, GetRun(r)
    PROVE  IInv'
  <1>1. /\ pc' \in [Requests -> Phases] /\ pc'[r] = "read" /\ pc[r] = "idle"
        /\ \A q \in Requests \ {r} : pc'[q] = pc[q]
    BY Moved DEF IInv, Phases, GetRun
  <1>2. PerRequest(etag') /\ \A q \in Requests \ {r} : etag'[q] = etag[q]
    BY DEF IInv, ShapeInv, PerRequest, GetRun
  <1>3. /\ PerRequest(op') /\ PerRequest(next') /\ PerRequest(answer')
        /\ lock' \in Requests \union {NoOne} /\ UNCHANGED <<lock, run, live, links, op, next>>
    BY DEF IInv, ShapeInv, GetRun
  <1>4. OthersKept(r)
    BY <1>1, <1>2, <1>3 DEF OthersKept
  <1>5. LockInv'
    BY <1>1, <1>3 DEF IInv, LockInv
  <1>6. OpOK(r)'
    BY <1>3 DEF IInv, OpOK, OfCase
  <1> QED BY <1>1, <1>2, <1>3, <1>4, <1>5, <1>6, QuietInv

\* A request about the links of a case is refused, or waits with a case and a
\* project that are there to be looked up.
LEMMA ResolveInv ==
    ASSUME IInv, NEW r \in Requests, NEW kind \in {"linkDefect", "unlinkDefect"},
           NEW c \in Cases, NEW d, kind = "linkDefect" => d \in Defects \union {Malformed},
           ResolveResultCase(r, kind, c, d)
    PROVE  IInv'
  <1>1. pc[r] = "idle" /\ UNCHANGED <<lock, run, live, links>>
    BY DEF ResolveResultCase
  <1>2. CASE \E status : Finish(r, status)
    BY <1>1, <1>2, AnswerEarly
  <1>3. CASE ~\E status : Finish(r, status)
    <2> DEFINE o(p) == [NoOp EXCEPT !.kind = kind, !.case = c, !.defect = {d}, !.project = p]
    <2>1. PICK p \in Projects :
             /\ ~(kind = "linkDefect" /\ LinkRefused(d))
             /\ op' = [op EXCEPT ![r] = o(p)]
             /\ Goto(r, "waiting") /\ UNCHANGED <<answer, etag, next, summary>>
      BY <1>3, RunsAssumption DEF ResolveResultCase, InReach, Owners
    <2>2. /\ o(p).kind = kind /\ o(p).case = c /\ o(p).project = p /\ o(p).defect = {d}
      BY DEF NoOp
    <2> HIDE DEF o
    <2>3. op'[r] = o(p)
      BY <2>1 DEF IInv, ShapeInv, PerRequest
    <2>4. OpOK(r)'
      BY <2>1, <2>2, <2>3 DEF OpOK, OfCase, LinkRefused
    <2> QED BY <1>1, <2>1, <2>4, WaitInv
  <1> QED BY <1>2, <1>3

\* Whatever a client asks for preserves the invariant.
LEMMA ClientInv ==
    ASSUME IInv, NEW r \in Requests, Client(r)
    PROVE  IInv'
  <1>1. CASE GetRun(r)
    BY <1>1, GetRunInv
  <1>2. CASE \E c \in Cases : \/ \E d \in Defects \union {Malformed} : LinkDefectToCase(r, c, d)
                              \/ \E id \in Requests : UnlinkDefectFromCase(r, c, id)
    BY <1>2, ResolveInv DEF LinkDefectToCase, UnlinkDefectFromCase
  <1> QED BY <1>1, <1>2, RunRequestInv DEF Client

(* ------------------------- steps under the lock ------------------------- *)

\* AcquireLock preserves the invariant.
LEMMA AcquireLockInv ==
    ASSUME IInv, NEW r \in Requests, AcquireLock(r)
    PROVE  IInv'
  <1>1. /\ pc' \in [Requests -> Phases] /\ pc'[r] = "locked"
        /\ \A q \in Requests \ {r} : pc'[q] = pc[q]
    BY Moved DEF IInv, Phases, AcquireLock
  <1>2. /\ PerRequest(op') /\ PerRequest(etag') /\ PerRequest(next') /\ PerRequest(answer')
        /\ lock = NoOne /\ lock' = r /\ UNCHANGED <<run, live, links, op, etag, next>>
    BY DEF IInv, ShapeInv, AcquireLock
  <1>3. OthersKept(r)
    BY <1>1, <1>2 DEF OthersKept
  <1>4. LockInv'
    BY <1>1, <1>2, RunsAssumption DEF IInv, LockInv
  <1>5. OpOK(r)'
    BY <1>2 DEF IInv, OpOK, OfCase
  <1> QED BY <1>1, <1>2, <1>3, <1>4, <1>5, QuietInv

\* LockTimeout preserves the invariant.
LEMMA LockTimeoutInv ==
    ASSUME IInv, NEW r \in Requests, LockTimeout(r)
    PROVE  IInv'
  BY AnswerEarly DEF LockTimeout

\* A refusal under the lock preserves the invariant.
LEMMA RefuseInv ==
    ASSUME IInv, NEW r \in Requests, pc[r] = "locked", NEW status, Refuse(r, status)
    PROVE  IInv'
  <1>1. lock = r
    BY DEF IInv, LockInv
  <1> QED BY <1>1, FinishInv DEF Refuse

\* Preparing what the rule of the request makes of what is stored.
LEMMA PrepareInv ==
    ASSUME IInv, NEW r \in Requests, pc[r] = "locked", NEW new, Prepare(r, new),
           Publishes(r, new)
    PROVE  IInv'
  <1>1. /\ pc' \in [Requests -> Phases] /\ pc'[r] = "write"
        /\ \A q \in Requests \ {r} : pc'[q] = pc[q]
    BY Moved DEF IInv, Phases, Prepare
  <1>2. PerRequest(next') /\ next'[r] = new /\ \A q \in Requests \ {r} : next'[q] = next[q]
    BY DEF IInv, ShapeInv, PerRequest, Prepare
  <1>3. UNCHANGED <<lock, run, live, links, op, etag, answer>>
    BY DEF Prepare
  <1>4. ShapeInv'
    BY <1>1, <1>2, <1>3 DEF IInv, ShapeInv, PerRequest
  <1>5. LockInv' /\ LinkInv'
    BY <1>1, <1>3 DEF IInv, LockInv, LinkInv, DefectsUnique
  <1>6. ASSUME NEW q \in Requests PROVE OpOK(q)' /\ WriteOK(q)'
    <2>1. CASE q # r
      BY <1>1, <1>2, <1>3, <2>1, SameWrite DEF IInv
    <2>2. CASE q = r
      <3>1. (OfCase(r)' <=> OfCase(r)) /\ OpOK(r)'
        BY <1>3 DEF IInv, OfCase, OpOK
      <3>2. VersionSeen(op[r].case)' = VersionSeen(op[r].case) /\ SuiteSnapshot' = SuiteSnapshot
        BY <1>3 DEF VersionSeen, Readable, Owners, SuiteSnapshot
      <3>3. /\ CaseLinks(r)' = CaseLinks(r) /\ (CaseGone(r)' <=> CaseGone(r))
            /\ (EtagMatches(r)' <=> EtagMatches(r))
        BY <1>3 DEF CaseLinks, CaseGone, EtagMatches
      <3>4. Publishes(r, next[r])'
        BY <1>2, <1>3, <3>1, <3>2, <3>3 DEF Publishes
      <3> QED BY <2>2, <3>1, <3>4 DEF WriteOK
    <2> QED BY <2>1, <2>2
  <1> QED BY <1>4, <1>5, <1>6 DEF IInv

\* A mutation of the run is refused or prepared.
LEMMA MutateRunInv ==
    ASSUME IInv, NEW r \in Requests,
           \/ Record(r) \/ Replace(r) \/ Remove(r) \/ AttachCase(r) \/ AttachSuite(r)
           \/ LinkConfig(r) \/ UnlinkConfig(r) \/ MergeRun(r)
    PROVE  IInv'
  <1>0. pc[r] = "locked"
    BY DEF Record, Replace, Remove, AttachCase, AttachSuite, LinkConfig, UnlinkConfig, MergeRun,
       MutateRun, Locked
  <1>1. CASE \E status : Refuse(r, status)
    BY <1>0, <1>1, RefuseInv
  <1>2. CASE ~\E status : Refuse(r, status)
    <2> SUFFICES \E new : Prepare(r, new) /\ Publishes(r, new)
      BY <1>0, PrepareInv
    <2>1. CASE Record(r)
      BY <1>2, <2>1 DEF Record, MutateRun, Locked, Publishes, OfCase, RunKinds
    <2>2. CASE Replace(r)
      BY <1>2, <2>2 DEF Replace, MutateRun, Locked, Publishes, OfCase, RunKinds
    <2>3. CASE Remove(r)
      BY <1>2, <2>3 DEF Remove, MutateRun, Locked, Publishes, OfCase, RunKinds
    <2>4. CASE AttachCase(r)
      BY <1>2, <2>4 DEF AttachCase, MutateRun, Locked, Publishes, OfCase, RunKinds
    <2>5. CASE AttachSuite(r)
      BY <1>2, <2>5 DEF AttachSuite, MutateRun, Locked, Publishes, OfCase, RunKinds
    <2>6. CASE LinkConfig(r)
      BY <1>2, <2>6 DEF LinkConfig, MutateRun, Locked, Publishes, OfCase, RunKinds
    <2>7. CASE UnlinkConfig(r)
      BY <1>2, <2>7 DEF UnlinkConfig, MutateRun, Locked, Publishes, OfCase, RunKinds
    <2>8. CASE MergeRun(r)
      BY <1>2, <2>8 DEF MergeRun, MutateRun, Locked, Publishes, OfCase, RunKinds
    <2> QED BY <2>1, <2>2, <2>3, <2>4, <2>5, <2>6, <2>7, <2>8
  <1> QED BY <1>1, <1>2

\* Import preserves the invariant.
LEMMA ImportInv ==
    ASSUME IInv, NEW r \in Requests, Import(r)
    PROVE  IInv'
  <1>1. CASE Refuse(r, "missing")
    BY <1>1, RefuseInv DEF Import, Locked
  <1>2. CASE ~Refuse(r, "missing")
    <2>1. run # NoRun /\ Prepare(r, StoreImportedResults(run, Parse(op[r].report)))
      BY <1>2 DEF Import
    <2>2. Publishes(r, StoreImportedResults(run, Parse(op[r].report)))
      BY <2>1 DEF Import, Locked, Publishes, OfCase, RunKinds
    <2> QED BY <2>1, <2>2, PrepareInv DEF Import, Locked
  <1> QED BY <1>1, <1>2

\* CreateAt preserves the invariant.
LEMMA CreateAtInv ==
    ASSUME IInv, NEW r \in Requests, CreateAt(r)
    PROVE  IInv'
  <1>1. CASE Refuse(r, "conflict")
    BY <1>1, RefuseInv DEF CreateAt, Locked
  <1>2. CASE ~Refuse(r, "conflict")
    <2>1. run = NoRun /\ Prepare(r, Merge(NewRun, op[r].body))
      BY <1>2 DEF CreateAt
    <2>2. Publishes(r, Merge(NewRun, op[r].body))
      BY <2>1 DEF CreateAt, Locked, Publishes, OfCase, RunKinds
    <2> QED BY <2>1, <2>2, PrepareInv DEF CreateAt, Locked
  <1> QED BY <1>1, <1>2

\* AttachDefect preserves the invariant.
LEMMA AttachDefectInv ==
    ASSUME IInv, NEW r \in Requests, AttachDefect(r)
    PROVE  IInv'
  <1> DEFINE new == CaseLinks(r) \union {NewLink(r, d) : d \in op[r].defect}
  <1>1. CASE \E status : Refuse(r, status)
    BY <1>1, RefuseInv DEF AttachDefect, Locked
  <1>2. CASE ~\E status : Refuse(r, status)
    <2>1. /\ ~CaseGone(r) /\ (\A l \in CaseLinks(r) : l.defect \notin op[r].defect)
          /\ Prepare(r, new)
      BY <1>2 DEF AttachDefect
    <2>2. Publishes(r, new)
      BY <2>1 DEF AttachDefect, Locked, Publishes, OfCase, RunKinds
    <2> HIDE DEF new
    <2> QED BY <2>1, <2>2, PrepareInv DEF AttachDefect, Locked
  <1> QED BY <1>1, <1>2

\* DetachDefect preserves the invariant.
LEMMA DetachDefectInv ==
    ASSUME IInv, NEW r \in Requests, DetachDefect(r)
    PROVE  IInv'
  <1> DEFINE new == {l \in CaseLinks(r) : l.id \notin op[r].defect}
  <1>1. CASE \E status : Refuse(r, status)
    BY <1>1, RefuseInv DEF DetachDefect, Locked
  <1>2. CASE ~\E status : Refuse(r, status)
    <2>1. ~CaseGone(r) /\ Prepare(r, new)
      BY <1>2 DEF DetachDefect
    <2>2. Publishes(r, new)
      BY <2>1 DEF DetachDefect, Locked, Publishes, OfCase, RunKinds
    <2> HIDE DEF new
    <2> QED BY <2>1, <2>2, PrepareInv DEF DetachDefect, Locked
  <1> QED BY <1>1, <1>2

(* --------------------- what the rules do to a document ------------------- *)

\* A body replaces the fields it carries.
LEMMA MergeFacts ==
    ASSUME NEW d, NEW body
    PROVE  LET e == Merge(d, body) IN
           /\ IsDocument(e)
           /\ e.projects = IF body.projects = Keep THEN d.projects ELSE body.projects
           /\ e.cases = IF body.cases = Keep THEN d.cases ELSE body.cases
           /\ e.suites = IF body.suites = Keep THEN d.suites ELSE body.suites
           /\ e.results = IF body.results = Keep THEN d.results ELSE body.results
           /\ e.configs = IF body.configs = Keep THEN d.configs ELSE body.configs
           /\ e.pins = IF body.pins = Keep THEN d.pins ELSE body.pins
  BY DEF Merge, IsDocument

\* The first capture of a version, which leaves everything else alone.
LEMMA CaptureFacts ==
    ASSUME NEW d, IsDocument(d), NEW c, NEW v
    PROVE  LET e == CaptureCaseVersion(d, c, v) IN
           /\ IsDocument(e) /\ e.results = d.results /\ e.cases = d.cases /\ e.projects = d.projects
           /\ e.pins = IF c \in DOMAIN d.pins THEN d.pins ELSE Extend(d.pins, c, v)
  BY DEF IsDocument, CaptureCaseVersion

\* A result that is recorded is the only one that changes.
LEMMA ResultFacts ==
    ASSUME NEW d, IsDocument(d), NEW c, NEW status, NEW note
    PROVE  LET e == UpsertResult(d, c, status, note) IN
           /\ IsDocument(e) /\ e.pins = d.pins /\ e.cases = d.cases /\ e.projects = d.projects
           /\ DOMAIN e.results = DOMAIN d.results \union {c}
           /\ \A b \in DOMAIN d.results \ {c} : e.results[b] = d.results[b]
  <1> DEFINE entries == IF c \in DOMAIN d.results THEN d.results[c]
                        ELSE <<[status |-> status, note |-> Clear]>>
             x == [entries EXCEPT ![1] = [status |-> status, note |-> ApplyPatch(entries[1].note, note)]]
             f == Extend(d.results, c, x)
             e == [d EXCEPT !.results = f]
  <1>1. UpsertResult(d, c, status, note) = e
    BY DEF UpsertResult, IsDocument
  <1> HIDE DEF x
  <1>2. DOMAIN f = DOMAIN d.results \union {c} /\ \A b \in DOMAIN d.results \ {c} : f[b] = d.results[b]
    BY DEF Extend
  <1> HIDE DEF f
  <1>3. /\ IsDocument(e) /\ e.pins = d.pins /\ e.cases = d.cases /\ e.projects = d.projects
        /\ e.results = f
    BY DEF IsDocument
  <1> HIDE DEF e
  <1> QED BY <1>1, <1>2, <1>3

\* An import adds results of cases that had none.
LEMMA ImportFacts ==
    ASSUME NEW d, IsDocument(d), NEW report
    PROVE  LET e == StoreImportedResults(d, report) IN
           /\ IsDocument(e) /\ e.pins = d.pins
           /\ DOMAIN e.results = DOMAIN d.results \union Imported(d, report)
           /\ \A b \in DOMAIN d.results : e.results[b] = d.results[b]
  BY DEF IsDocument, StoreImportedResults, Imported

\* What is about to be published is a document; what becomes of the pins, and
\* of each result.
LEMMA PublishFacts ==
    ASSUME IInv, NEW r \in Requests, pc[r] = "write", ~OfCase(r)
    PROVE  /\ IsDocument(next[r])
           /\ run # NoRun /\ ~(op[r].kind = "put" /\ op[r].body.pins # Keep) =>
                \A c \in DOMAIN run.pins :
                    c \in DOMAIN next[r].pins /\ next[r].pins[c] = run.pins[c]
           /\ op[r].kind \in {"record", "addCase"} =>
                \A c \in DOMAIN next[r].pins \ DOMAIN run.pins :
                   /\ next[r].pins[c] = VersionSeen(c)
                   /\ \A copy \in Copies(next[r], c) \ Copies(run, c) : copy.version = next[r].pins[c]
           /\ run # NoRun =>
                \A c : Result(run, c) # Result(next[r], c) =>
                   \/ op[r].kind \in {"record", "replace", "remove"} /\ op[r].case = c
                   \/ op[r].kind = "import" /\ c \in Reported(Parse(op[r].report)) \ DOMAIN run.results
                   \/ op[r].kind = "put" /\ op[r].body.results # Keep
  <1> DEFINE k == op[r].kind
             c == op[r].case
             d == next[r]
             PinsRight ==
                 \A b \in DOMAIN d.pins \ DOMAIN run.pins :
                    /\ d.pins[b] = VersionSeen(b)
                    /\ \A copy \in Copies(d, b) \ Copies(run, b) : copy.version = d.pins[b]
             PinsKept == \A b \in DOMAIN run.pins : b \in DOMAIN d.pins /\ d.pins[b] = run.pins[b]
             ResultsKept(S) == \A b : b \notin S => Result(run, b) = Result(d, b)
  <1>0. Publishes(r, d)
    BY DEF IInv, WriteOK
  <1>1. k = "create" => run = NoRun /\ IsDocument(d)
    BY <1>0, MergeFacts DEF Publishes
  <1>2. k # "create" => run # NoRun /\ IsDocument(run)
    BY <1>0 DEF Publishes, IInv, ShapeInv
  <1>3. ASSUME k = "record"
        PROVE  /\ IsDocument(d) /\ PinsKept /\ ResultsKept({c})
               /\ PinsRight
    <2> DEFINE e == CaptureCaseVersion(run, c, VersionSeen(c))
    <2>1. d = UpsertResult(e, c, op[r].status, op[r].note)
      BY <1>0, <1>3 DEF Publishes
    <2>2. /\ IsDocument(e) /\ e.results = run.results /\ e.cases = run.cases
          /\ e.pins = IF c \in DOMAIN run.pins THEN run.pins ELSE Extend(run.pins, c, VersionSeen(c))
      BY <1>2, <1>3, CaptureFacts
    <2> HIDE DEF e
    <2>3. /\ IsDocument(d) /\ d.pins = e.pins /\ d.cases = e.cases
          /\ DOMAIN d.results = DOMAIN e.results \union {c}
          /\ \A b \in DOMAIN e.results \ {c} : d.results[b] = e.results[b]
      BY <2>1, <2>2, ResultFacts
    <2>4. PinsKept /\ ResultsKept({c})
      BY <2>2, <2>3, SMTT(40) DEF Extend, Result
    <2>5. PinsRight
      BY <2>2, <2>3, SMTT(40) DEF Extend, Copies
    <2> QED BY <2>3, <2>4, <2>5
  <1>4. ASSUME k = "addCase"
        PROVE  /\ IsDocument(d) /\ PinsKept /\ ResultsKept({})
               /\ PinsRight
    <2> DEFINE e == AttachCaseToRun(run, c, VersionSeen(c))
    <2>1. d = CaptureCaseVersion(e, c, VersionSeen(c))
      BY <1>0, <1>4 DEF Publishes
    <2>2. /\ IsDocument(e) /\ e.results = run.results /\ e.pins = run.pins
          /\ e.cases = run.cases \union {[case |-> c, version |-> VersionSeen(c)]}
      BY <1>2, <1>4 DEF AttachCaseToRun, IsDocument
    <2> HIDE DEF e
    <2>3. /\ IsDocument(d) /\ d.results = e.results /\ d.cases = e.cases
          /\ d.pins = IF c \in DOMAIN e.pins THEN e.pins ELSE Extend(e.pins, c, VersionSeen(c))
      BY <2>1, <2>2, CaptureFacts
    <2>4. PinsKept /\ ResultsKept({})
      BY <2>2, <2>3 DEF Extend, Result
    <2>5. \A b \in DOMAIN d.pins \ DOMAIN run.pins : b = c /\ d.pins[b] = VersionSeen(c)
      BY <2>2, <2>3 DEF Extend
    <2>6. \A copy \in Copies(d, c) \ Copies(run, c) : copy.version = VersionSeen(c)
      BY <2>2, <2>3 DEF Copies
    <2> QED BY <2>3, <2>4, <2>5, <2>6
  <1>5. ASSUME k \in {"replace", "remove"}
        PROVE  IsDocument(d) /\ PinsKept /\ ResultsKept({c})
    <2>1. CASE k = "replace"
      <3>1. d = ReplaceResult(run, c, op[r].status, op[r].note)
        BY <1>0, <2>1 DEF Publishes
      <3>2. /\ IsDocument(d) /\ d.pins = run.pins
            /\ DOMAIN d.results = DOMAIN run.results
            /\ \A b \in DOMAIN run.results \ {c} : d.results[b] = run.results[b]
        BY <1>2, <2>1, <3>1 DEF ReplaceResult, IsDocument
      <3> QED BY <3>2 DEF Result
    <2>2. CASE k = "remove"
      <3>1. d = RemoveResult(run, c)
        BY <1>0, <2>2 DEF Publishes
      <3>2. /\ IsDocument(d) /\ d.pins = run.pins
            /\ d.results = [b \in DOMAIN run.results \ {c} |-> run.results[b]]
        BY <1>2, <2>2, <3>1 DEF RemoveResult, IsDocument
      <3> QED BY <3>2 DEF Result
    <2> QED BY <1>5, <2>1, <2>2
  <1>6. ASSUME k = "import"
        PROVE  /\ IsDocument(d) /\ PinsKept
               /\ ResultsKept(Reported(Parse(op[r].report)) \ DOMAIN run.results)
    <2>1. d = StoreImportedResults(run, Parse(op[r].report))
      BY <1>0, <1>6 DEF Publishes
    <2>2. /\ IsDocument(d) /\ d.pins = run.pins
          /\ DOMAIN d.results = DOMAIN run.results \union Imported(run, Parse(op[r].report))
          /\ \A b \in DOMAIN run.results : d.results[b] = run.results[b]
      BY <1>2, <1>6, <2>1, ImportFacts
    <2> QED BY <2>2 DEF Result, Imported
  <1>7. ASSUME k \in {"addSuite", "linkConfig", "unlinkConfig"}
        PROVE  IsDocument(d) /\ PinsKept /\ ResultsKept({})
    <2>1. IsDocument(d) /\ d.pins = run.pins /\ d.results = run.results
      <3>1. CASE k = "addSuite"
        BY <1>0, <1>2, <3>1 DEF Publishes, AttachSuiteToRun, IsDocument
      <3>2. CASE k = "linkConfig"
        BY <1>0, <1>2, <3>2 DEF Publishes, AttachConfigurationToRun, IsDocument
      <3>3. CASE k = "unlinkConfig"
        BY <1>0, <1>2, <3>3 DEF Publishes, DetachConfigurationFromRun, IsDocument
      <3> QED BY <1>7, <3>1, <3>2, <3>3
    <2> QED BY <2>1 DEF Result
  <1>8. ASSUME k = "put"
        PROVE  /\ IsDocument(d) /\ (op[r].body.pins = Keep => PinsKept)
               /\ op[r].body.results = Keep => ResultsKept({})
    <2>1. d = Merge(run, op[r].body)
      BY <1>0, <1>8 DEF Publishes
    <2>2. /\ IsDocument(d)
          /\ d.results = IF op[r].body.results = Keep THEN run.results ELSE op[r].body.results
          /\ d.pins = IF op[r].body.pins = Keep THEN run.pins ELSE op[r].body.pins
      BY <2>1, MergeFacts
    <2> QED BY <2>2 DEF Result
  <1>9. k \in {"record", "replace", "remove", "import", "addCase", "addSuite", "linkConfig",
               "unlinkConfig", "put", "create"}
    BY <1>0 DEF Publishes, RunKinds, OfCase
  <1> QED BY <1>1, <1>2, <1>3, <1>4, <1>5, <1>6, <1>7, <1>8, <1>9

(* -------------------- steps that change what is stored ------------------- *)

\* A step of the lock's holder that ends with its answer and the unlock; the
\* others are outside the critical section.
LEMMA HolderInv ==
    ASSUME IInv, NEW r \in Requests, lock = r, NEW status, Finish(r, status), lock' = NoOne,
           run' = NoRun \/ IsDocument(run'), UNCHANGED live,
           links' \in [Cases -> [Projects -> SUBSET Links]], LinkInv'
    PROVE  IInv'
  <1>1. ShapeInv
    BY DEF IInv
  <1>2. ShapeInv'
    BY <1>1, Finished DEF ShapeInv
  <1>3. \A q \in Requests : pc'[q] \notin {"locked", "write"}
    BY <1>1, Finished DEF OthersKept, IInv, LockInv
  <1>4. LockInv'
    BY <1>3, RunsAssumption DEF LockInv
  <1>5. ASSUME NEW q \in Requests PROVE OpOK(q)' /\ WriteOK(q)'
    <2>1. WriteOK(q)'
      BY <1>3 DEF WriteOK
    <2>2. CASE q = r
      BY <1>1, <2>1, <2>2, Finished
    <2>3. CASE q # r
      <3>1. op'[q] = op[q]
        BY <1>1, <2>3, Finished DEF OthersKept
      <3> QED BY <2>1, <3>1 DEF IInv, OpOK, OfCase
    <2> QED BY <2>2, <2>3
  <1> QED BY <1>2, <1>4, <1>5 DEF IInv

\* DeleteAt preserves the invariant.
LEMMA DeleteAtInv ==
    ASSUME IInv, NEW r \in Requests, DeleteAt(r)
    PROVE  IInv'
  <1>1. lock = r
    BY DEF DeleteAt, Locked, IInv, LockInv
  <1>2. LinkInv' /\ links' \in [Cases -> [Projects -> SUBSET Links]]
    BY DEF DeleteAt, IInv, ShapeInv, LinkInv, DefectsUnique
  <1> QED BY <1>1, <1>2, HolderInv DEF DeleteAt

\* Publishing links changes one list: by a link to a defect it does not have, or
\* by leaving out the links named.
LEMMA LinkFacts ==
    ASSUME IInv, NEW r \in Requests, WriteDocument(r), OfCase(r)
    PROVE  /\ links' \in [Cases -> [Projects -> SUBSET Links]]
           /\ op[r].case \in Cases /\ op[r].project \in Projects /\ ~CaseGone(r)
           /\ links'[op[r].case][op[r].project] = next[r]
           /\ \A c \in Cases, p \in Projects :
                 c # op[r].case \/ p # op[r].project => links'[c][p] = links[c][p]
           /\ op[r].kind = "linkDefect" =>
                \E d \in Defects : /\ next[r] = CaseLinks(r) \union {NewLink(r, d)}
                                   /\ \A l \in CaseLinks(r) : l.defect # d
           /\ op[r].kind = "unlinkDefect" =>
                next[r] = {l \in CaseLinks(r) : l.id \notin op[r].defect}
  <1>1. /\ op[r].case \in Cases /\ op[r].project \in Projects /\ ~CaseGone(r)
        /\ Publishes(r, next[r])
    BY DEF IInv, OpOK, WriteOK, Publishes, WriteDocument
  <1>2. op[r].kind = "unlinkDefect" => next[r] = {l \in CaseLinks(r) : l.id \notin op[r].defect}
    BY <1>1 DEF Publishes
  <1>3. ASSUME op[r].kind = "linkDefect"
        PROVE  \E d \in Defects : /\ next[r] = CaseLinks(r) \union {NewLink(r, d)}
                                  /\ \A l \in CaseLinks(r) : l.defect # d
    <2>1. PICK d \in Defects : op[r].defect = {d}
      BY <1>3 DEF IInv, OpOK
    <2>2. {NewLink(r, x) : x \in op[r].defect} = {NewLink(r, d)}
      BY <2>1
    <2> QED BY <1>1, <1>3, <2>1, <2>2 DEF Publishes
  <1>4. next[r] \in SUBSET Links
    <2>1. CaseLinks(r) \in SUBSET Links
      BY <1>1 DEF IInv, ShapeInv, CaseLinks
    <2>2. \A d \in Defects : NewLink(r, d) \in Links
      BY DEF NewLink, Links
    <2> QED BY <1>2, <1>3, <2>1, <2>2 DEF OfCase
  <1>5. links' = [links EXCEPT ![op[r].case][op[r].project] = next[r]]
    BY DEF WriteDocument
  <1> QED BY <1>1, <1>2, <1>3, <1>4, <1>5, SMTT(40) DEF IInv, ShapeInv

\* WriteDocument preserves the invariant.
LEMMA WriteDocumentInv ==
    ASSUME IInv, NEW r \in Requests, WriteDocument(r)
    PROVE  IInv'
  <1>1. lock = r /\ lock' = NoOne /\ Finish(r, "ok") /\ UNCHANGED live
    BY DEF WriteDocument, IInv, LockInv
  <1>2. CASE ~OfCase(r)
    <2>1. IsDocument(run') /\ UNCHANGED links
      BY <1>2, PublishFacts DEF WriteDocument
    <2>2. LinkInv' /\ links' \in [Cases -> [Projects -> SUBSET Links]]
      BY <1>1, <2>1 DEF IInv, ShapeInv, LinkInv, DefectsUnique
    <2> QED BY <1>1, <2>1, <2>2, HolderInv
  <1>3. CASE OfCase(r)
    <2> DEFINE c == op[r].case
               p == op[r].project
    <2>1. run' = NoRun \/ IsDocument(run')
      BY <1>3 DEF WriteDocument, IInv, ShapeInv
    <2>2. live[c][p] # 0 /\ CaseLinks(r) = links[c][p] /\ c \in Cases /\ p \in Projects
      BY <1>3, LinkFacts DEF CaseGone, CaseLinks
    <2>3. \A l, m \in next[r] : l.defect = m.defect => l = m
      <3>1. \A l, m \in CaseLinks(r) : l.defect = m.defect => l = m
        BY <2>2 DEF IInv, LinkInv, DefectsUnique
      <3>2. CASE op[r].kind = "linkDefect"
        <4>1. PICK d \in Defects : /\ next[r] = CaseLinks(r) \union {NewLink(r, d)}
                                   /\ \A l \in CaseLinks(r) : l.defect # d
          BY <1>3, <3>2, LinkFacts
        <4>2. NewLink(r, d).defect = d
          BY DEF NewLink
        <4> QED BY <3>1, <4>1, <4>2
      <3>3. CASE op[r].kind = "unlinkDefect"
        BY <1>3, <3>1, <3>3, LinkFacts
      <3> QED BY <1>3, <3>2, <3>3 DEF OfCase
    <2>4. LinkInv'
      <3>1. \A b \in Cases, q \in Projects : live'[b][q] = 0 => links'[b][q] = {}
        BY <1>1, <1>3, <2>2, LinkFacts DEF IInv, LinkInv
      <3>2. DefectsUnique'
        <4> SUFFICES ASSUME NEW b \in Cases, NEW q \in Projects
                     PROVE  \A l, m \in links'[b][q] : l.defect = m.defect => l = m
          BY DEF DefectsUnique
        <4>1. CASE b = c /\ q = p
          BY <1>3, <2>3, <4>1, LinkFacts
        <4>2. CASE b # c \/ q # p
          BY <1>3, <4>2, LinkFacts DEF IInv, LinkInv, DefectsUnique
        <4> QED BY <4>1, <4>2
      <3> QED BY <3>1, <3>2 DEF LinkInv
    <2> QED BY <1>1, <1>3, <2>1, <2>4, HolderInv, LinkFacts
  <1> QED BY <1>2, <1>3

\* Crash preserves the invariant.
LEMMA CrashInv ==
    ASSUME IInv, NEW r \in Requests, Crash(r)
    PROVE  IInv'
  BY FinishInv DEF Crash

\* What other requests do to the cases happens while nobody holds the lock, so
\* nobody is about to publish.
LEMMA CasesInv ==
    ASSUME IInv, lock = NoOne, UNCHANGED <<lock, run, pc, op, etag, next, answer>>,
           live' \in [Cases -> [Projects -> Int]],
           links' \in [Cases -> [Projects -> SUBSET Links]], LinkInv'
    PROVE  IInv'
  <1>1. ShapeInv' /\ LockInv'
    BY DEF IInv, ShapeInv, LockInv, PerRequest
  <1>2. ASSUME NEW q \in Requests PROVE OpOK(q)' /\ WriteOK(q)'
    <2>1. OpOK(q)'
      BY DEF IInv, OpOK, OfCase
    <2>2. pc'[q] # "write"
      BY RunsAssumption DEF IInv, LockInv
    <2> QED BY <2>1, <2>2 DEF WriteOK
  <1> QED BY <1>1, <1>2 DEF IInv

\* EditCase preserves the invariant.
LEMMA EditCaseInv ==
    ASSUME IInv, NEW c \in Cases, NEW p \in Projects, EditCase(c, p)
    PROVE  IInv'
  <1>1. /\ live' \in [Cases -> [Projects -> Int]]
        /\ \A b \in Cases, q \in Projects : live'[b][q] = 0 => live[b][q] = 0
    BY DEF IInv, ShapeInv, EditCase
  <1>2. UNCHANGED links
    BY DEF EditCase
  <1>3. LinkInv'
    BY <1>1, <1>2 DEF IInv, LinkInv, DefectsUnique
  <1> QED BY <1>1, <1>2, <1>3, CasesInv DEF EditCase, IInv, ShapeInv

\* CopyCase preserves the invariant.
LEMMA CopyCaseInv ==
    ASSUME IInv, NEW c \in Cases, NEW p \in Projects, NEW q \in Projects, CopyCase(c, p, q)
    PROVE  IInv'
  <1>1. /\ live' \in [Cases -> [Projects -> Int]]
        /\ links' \in [Cases -> [Projects -> SUBSET Links]]
        /\ \A b \in Cases, s \in Projects :
              IF b = c /\ s = q THEN live'[b][s] = live[c][p] /\ links'[b][s] = links[c][p]
              ELSE live'[b][s] = live[b][s] /\ links'[b][s] = links[b][s]
    BY DEF IInv, ShapeInv, CopyCase
  <1>2. LinkInv'
    <2>1. live[c][p] # 0
      BY DEF CopyCase
    <2>2. ASSUME NEW b \in Cases, NEW s \in Projects
          PROVE  /\ live'[b][s] = 0 => links'[b][s] = {}
                 /\ \A l, m \in links'[b][s] : l.defect = m.defect => l = m
      <3>1. CASE b = c /\ s = q
        BY <1>1, <2>1, <3>1 DEF IInv, LinkInv, DefectsUnique
      <3>2. CASE ~(b = c /\ s = q)
        <4>1. live'[b][s] = live[b][s] /\ links'[b][s] = links[b][s]
          BY <1>1, <3>2
        <4> QED BY <4>1 DEF IInv, LinkInv, DefectsUnique
      <3> QED BY <3>1, <3>2
    <2> QED BY <2>2 DEF LinkInv, DefectsUnique
  <1> QED BY <1>1, <1>2, CasesInv DEF CopyCase

\* RemoveCase preserves the invariant.
LEMMA RemoveCaseInv ==
    ASSUME IInv, NEW c \in Cases, NEW p \in Projects, RemoveCase(c, p)
    PROVE  IInv'
  <1>1. /\ live' \in [Cases -> [Projects -> Int]]
        /\ links' \in [Cases -> [Projects -> SUBSET Links]]
        /\ \A b \in Cases, s \in Projects :
              IF b = c /\ s = p THEN links'[b][s] = {}
              ELSE live'[b][s] = live[b][s] /\ links'[b][s] = links[b][s]
    BY DEF IInv, ShapeInv, RemoveCase
  <1>2. LinkInv'
    BY <1>1, SMTT(40) DEF IInv, LinkInv, DefectsUnique
  <1> QED BY <1>1, <1>2, CasesInv DEF RemoveCase

(* ------------------------------- theorems ------------------------------- *)

\* A volume no request has touched yet satisfies the invariant.
LEMMA InitInv == Init => IInv
  <1> SUFFICES ASSUME Init PROVE IInv
    OBVIOUS
  <1>1. run = NoRun \/ IsDocument(run)
    <2>1. IsDocument(NewRun)
      BY DEF NewRun, IsDocument
    <2>2. CASE \E c \in Cases, s \in Statuses :
                  run = UpsertResult(CaptureCaseVersion(AttachSuiteToRun(NewRun, SuiteSnapshot), c, 1),
                                     c, s, Clear)
      <3>1. PICK c \in Cases, s \in Statuses :
               run = UpsertResult(CaptureCaseVersion(AttachSuiteToRun(NewRun, SuiteSnapshot), c, 1),
                                  c, s, Clear)
        BY <2>2
      <3>2. IsDocument(AttachSuiteToRun(NewRun, SuiteSnapshot))
        BY <2>1 DEF AttachSuiteToRun, IsDocument
      <3>3. IsDocument(CaptureCaseVersion(AttachSuiteToRun(NewRun, SuiteSnapshot), c, 1))
        BY <3>2, CaptureFacts
      <3> QED BY <3>1, <3>3, ResultFacts
    <2>3. ASSUME NEW body \in Bodies PROVE IsDocument(Merge(NewRun, body))
      BY MergeFacts
    <2> QED BY <2>2, <2>3 DEF Init
  <1>2. ShapeInv
    BY <1>1 DEF Init, ShapeInv, PerRequest, Phases
  <1>3. LockInv /\ LinkInv
    BY RunsAssumption DEF Init, LockInv, LinkInv, DefectsUnique
  <1>4. ASSUME NEW r \in Requests PROVE OpOK(r) /\ WriteOK(r)
    BY NoOpKind DEF Init, OpOK, OfCase, WriteOK
  <1> QED BY <1>2, <1>3, <1>4 DEF IInv

\* Every step preserves the invariant.
LEMMA NextInv == IInv /\ [Next]_vars => IInv'
  <1> SUFFICES ASSUME IInv, [Next]_vars PROVE IInv'
    OBVIOUS
  <1>1. ASSUME NEW r \in Requests, Client(r) \/ Server(r) \/ Crash(r) PROVE IInv'
    BY <1>1, ClientInv, AcquireLockInv, LockTimeoutInv, MutateRunInv, ImportInv, CreateAtInv,
       DeleteAtInv, AttachDefectInv, DetachDefectInv, WriteDocumentInv, CrashInv DEF Server
  <1>2. ASSUME NEW c \in Cases, NEW p \in Projects,
               EditCase(c, p) \/ RemoveCase(c, p) \/ \E q \in Projects : CopyCase(c, p, q)
        PROVE  IInv'
    BY <1>2, EditCaseInv, RemoveCaseInv, CopyCaseInv
  <1>3. ASSUME NEW k \in Configs, RemoveConfig(k) PROVE IInv'
    BY <1>3, CasesInv DEF RemoveConfig, IInv, ShapeInv, LinkInv, DefectsUnique
  <1>4. CASE UNCHANGED vars
    <2>1. ASSUME NEW q \in Requests PROVE OpOK(q)' /\ WriteOK(q)'
      BY <1>4, SameWrite DEF vars, IInv
    <2> QED BY <1>4, <2>1 DEF vars, IInv, ShapeInv, LockInv, LinkInv, DefectsUnique, PerRequest
  <1> QED BY <1>1, <1>2, <1>3, <1>4 DEF Next, AllAnswered

\* In every reachable state, what a request is about to publish is made of what
\* is stored at that moment.
THEOREM Invariant == Spec => []IInv
  BY InitInv, NextInv, PTL DEF Spec

(* ------------------------ who changes what is stored --------------------- *)

\* The run changes only when the lock's holder publishes it or deletes it.
LEMMA RunChanges ==
    ASSUME IInv, [Next]_vars, run' # run
    PROVE  \E r \in Requests :
             /\ lock = r
             /\ \/ pc[r] = "write" /\ ~OfCase(r) /\ run' = next[r]
                \/ pc[r] = "locked" /\ run' = NoRun
  <1>1. ASSUME NEW r \in Requests, Client(r) PROVE FALSE
    BY <1>1, ZenonT(60) DEF Client, RecordRunResult, ReplaceRunResult, DeleteRunResult, ImportResults,
         AddCaseToRun, AddSuiteToRun, LinkConfigurationToRun, UnlinkConfigurationFromRun,
         CreateRun, DeleteRun, GetRun, PutRun, LinkDefectToCase, UnlinkDefectFromCase,
         ResolveResultCase, Ask, AskIf
  <1>2. ASSUME NEW r \in Requests,
               \/ AcquireLock(r) \/ LockTimeout(r) \/ Record(r) \/ Replace(r) \/ Remove(r)
               \/ Import(r) \/ AttachCase(r) \/ AttachSuite(r) \/ LinkConfig(r)
               \/ UnlinkConfig(r) \/ MergeRun(r) \/ CreateAt(r) \/ AttachDefect(r)
               \/ DetachDefect(r) \/ Crash(r)
        PROVE  FALSE
    BY <1>2 DEF AcquireLock, LockTimeout, Record, Replace, Remove, Import, AttachCase,
         AttachSuite, LinkConfig, UnlinkConfig, MergeRun, CreateAt, AttachDefect, DetachDefect,
         Crash, MutateRun, Refuse, Prepare
  <1>3. PICK r \in Requests : WriteDocument(r) \/ DeleteAt(r)
    BY <1>1, <1>2 DEF Next, Server, AllAnswered, vars, EditCase, CopyCase, RemoveCase, RemoveConfig
  <1>4. lock = r
    BY <1>3 DEF WriteDocument, DeleteAt, Locked, IInv, LockInv
  <1> QED BY <1>3, <1>4, SMTT(40) DEF WriteDocument, DeleteAt, Locked

\* Links change only when the lock's holder publishes those of a case, and with
\* a copy or a removal of the case.
LEMMA LinksChange ==
    ASSUME IInv, [Next]_vars, links' # links
    PROVE  \/ \E r \in Requests : lock = r /\ WriteDocument(r) /\ OfCase(r)
           \/ \E c \in Cases, p \in Projects :
                RemoveCase(c, p) \/ \E q \in Projects : CopyCase(c, p, q)
  <1>1. ASSUME NEW r \in Requests, Client(r) PROVE FALSE
    BY <1>1 DEF Client, RecordRunResult, ReplaceRunResult, DeleteRunResult, ImportResults,
         AddCaseToRun, AddSuiteToRun, LinkConfigurationToRun, UnlinkConfigurationFromRun,
         CreateRun, DeleteRun, GetRun, PutRun, LinkDefectToCase, UnlinkDefectFromCase,
         ResolveResultCase, Ask, AskIf
  <1>2. ASSUME NEW r \in Requests,
               \/ AcquireLock(r) \/ LockTimeout(r) \/ Record(r) \/ Replace(r) \/ Remove(r)
               \/ Import(r) \/ AttachCase(r) \/ AttachSuite(r) \/ LinkConfig(r)
               \/ UnlinkConfig(r) \/ MergeRun(r) \/ CreateAt(r) \/ DeleteAt(r) \/ AttachDefect(r)
               \/ DetachDefect(r) \/ Crash(r)
        PROVE  FALSE
    BY <1>2 DEF AcquireLock, LockTimeout, Record, Replace, Remove, Import, AttachCase,
         AttachSuite, LinkConfig, UnlinkConfig, MergeRun, CreateAt, DeleteAt, AttachDefect,
         DetachDefect, Crash, MutateRun, Refuse, Prepare
  <1>3. ASSUME NEW r \in Requests, WriteDocument(r) PROVE lock = r /\ OfCase(r)
    BY <1>3 DEF WriteDocument, IInv, LockInv
  <1>4. ASSUME NEW c \in Cases, NEW p \in Projects PROVE ~EditCase(c, p)
    BY DEF EditCase
  <1>5. ASSUME NEW k \in Configs PROVE ~RemoveConfig(k)
    BY DEF RemoveConfig
  <1>6. ~UNCHANGED vars
    BY DEF vars
  <1> QED BY <1>1, <1>2, <1>3, <1>4, <1>5, <1>6 DEF Next, Server, AllAnswered

\* A request that deletes nothing is answered 200 only by its publication.
LEMMA Succeeded ==
    ASSUME IInv, [Next]_vars, NEW r \in Requests, op[r].kind # "delete",
           answer[r] = "none", answer'[r] = "ok"
    PROVE  WriteDocument(r)
  <1>1. ASSUME NEW q \in Requests, NEW status, Finish(q, status) PROVE q = r /\ status = "ok"
    <2>1. answer'[q] = status /\ \A x \in Requests \ {q} : answer'[x] = answer[x]
      BY <1>1, Finished DEF IInv
    <2> QED BY <2>1
  <1>2. answer' # answer
    OBVIOUS
  <1>3. ASSUME NEW q \in Requests, Client(q) PROVE FALSE
    <2>0. /\ ~Finish(q, "missing") /\ ~Finish(q, "invalid") /\ ~Finish(q, "conflict")
      BY <1>1
    <2>1. ASSUME NEW o, NEW refused, AskIf(q, o, refused) PROVE FALSE
      BY <1>2, <2>0, <2>1 DEF AskIf
    <2>2. ASSUME NEW kind, NEW c, NEW d, ResolveResultCase(q, kind, c, d) PROVE FALSE
      BY <1>2, <2>0, <2>2 DEF ResolveResultCase
    <2>3. ~GetRun(q)
      BY <1>2 DEF GetRun
    <2> QED
      BY <1>3, <2>1, <2>2, <2>3 DEF Client, RecordRunResult, ReplaceRunResult, DeleteRunResult,
           ImportResults, AddCaseToRun, AddSuiteToRun, LinkConfigurationToRun,
           UnlinkConfigurationFromRun, CreateRun, DeleteRun, PutRun, LinkDefectToCase,
           UnlinkDefectFromCase, Ask
  <1>4. ASSUME NEW q \in Requests,
               \/ AcquireLock(q) \/ LockTimeout(q) \/ Record(q) \/ Replace(q) \/ Remove(q)
               \/ Import(q) \/ AttachCase(q) \/ AttachSuite(q) \/ LinkConfig(q)
               \/ UnlinkConfig(q) \/ MergeRun(q) \/ CreateAt(q) \/ AttachDefect(q)
               \/ DetachDefect(q) \/ Crash(q)
        PROVE  FALSE
    BY <1>1, <1>2, <1>4 DEF AcquireLock, LockTimeout, Record, Replace, Remove, Import, AttachCase,
         AttachSuite, LinkConfig, UnlinkConfig, MergeRun, CreateAt, AttachDefect, DetachDefect,
         Crash, MutateRun, Refuse, Prepare
  <1>5. ASSUME NEW q \in Requests PROVE ~DeleteAt(q)
    BY <1>1 DEF DeleteAt, Locked
  <1>6. ASSUME NEW q \in Requests, WriteDocument(q) PROVE q = r
    BY <1>1, <1>6 DEF WriteDocument
  <1> QED BY <1>2, <1>3, <1>4, <1>5, <1>6
          DEF Next, Server, AllAnswered, vars, EditCase, CopyCase, RemoveCase, RemoveConfig

\* PinsSound: a version is pinned as the case has it at the moment of the
\* publication, though it was read in an earlier step, and the copy embedded with
\* it carries that version (record_run_result, add_case_to_run); once pinned it
\* stays until a PUT that carries caseVersions (capture_case_version).
THEOREM Pins == Spec => PinsSound
  <1>1. ASSUME IInv, [Next]_vars, NEW r \in Requests, Writer(r),
               op[r].kind \in {"record", "addCase"}, run' # run
        PROVE  \A c \in DOMAIN run'.pins \ DOMAIN run.pins :
                  /\ run'.pins[c] = VersionSeen(c)
                  /\ \A copy \in Copies(run', c) \ Copies(run, c) : copy.version = run'.pins[c]
    <2>1. run' = next[r] /\ pc[r] = "write" /\ ~OfCase(r)
      BY <1>1, RunChanges DEF Writer
    <2> QED BY <1>1, <2>1, PublishFacts
  <1>2. ASSUME IInv, [Next]_vars, run # NoRun, run' # NoRun, run' # run
        PROVE  \/ \A c \in DOMAIN run.pins : c \in DOMAIN run'.pins /\ run'.pins[c] = run.pins[c]
               \/ \E r \in Requests : Writer(r) /\ op[r].kind = "put" /\ op[r].body.pins # Keep
    <2>1. PICK r \in Requests : lock = r /\ pc[r] = "write" /\ ~OfCase(r) /\ run' = next[r]
      BY <1>2, RunChanges
    <2> QED BY <1>2, <2>1, PublishFacts DEF Writer
  <1>3. IInv /\ [Next]_vars =>
          [\A r \in Requests :
              Writer(r) /\ op[r].kind \in {"record", "addCase"} /\ answer'[r] = "ok" =>
                \A c \in DOMAIN run'.pins \ DOMAIN run.pins :
                   /\ run'.pins[c] = VersionSeen(c)
                   /\ \A copy \in Copies(run', c) \ Copies(run, c) : copy.version = run'.pins[c]]_run
    BY <1>1
  <1>4. IInv /\ [Next]_vars =>
          [run # NoRun /\ run' # NoRun =>
             \/ \A c \in DOMAIN run.pins : c \in DOMAIN run'.pins /\ run'.pins[c] = run.pins[c]
             \/ \E r \in Requests : Writer(r) /\ op[r].kind = "put" /\ op[r].body.pins # Keep]_run
    BY <1>2
  <1> QED BY <1>3, <1>4, Invariant, PTL DEF Spec, PinsSound, PinsAreCurrent, PinsStay

\* ResultsIndependent: a publication changes the results its request is about,
\* and no others, whatever was recorded while the request waited (mutate_run,
\* store_imported_results).
THEOREM Independent == Spec => ResultsIndependent
  <1>1. ASSUME IInv, [Next]_vars, run # NoRun, run' # NoRun, run' # run, NEW c \in Cases,
               Result(run, c) # Result(run', c)
        PROVE  \E r \in Requests :
                 /\ Writer(r)
                 /\ \/ op[r].kind \in {"record", "replace", "remove"} /\ op[r].case = c
                    \/ op[r].kind = "import" /\ c \in Reported(Parse(op[r].report)) \ DOMAIN run.results
                    \/ op[r].kind = "put" /\ op[r].body.results # Keep
    <2>1. PICK r \in Requests : lock = r /\ pc[r] = "write" /\ ~OfCase(r) /\ run' = next[r]
      BY <1>1, RunChanges
    <2> QED BY <1>1, <2>1, PublishFacts DEF Writer
  <1>2. IInv /\ [Next]_vars =>
          [run # NoRun /\ run' # NoRun =>
             \A c \in Cases :
                Result(run, c) # Result(run', c) =>
                  \E r \in Requests :
                    /\ Writer(r)
                    /\ \/ op[r].kind \in {"record", "replace", "remove"} /\ op[r].case = c
                       \/ op[r].kind = "import" /\ c \in Reported(Parse(op[r].report)) \ DOMAIN run.results
                       \/ op[r].kind = "put" /\ op[r].body.results # Keep]_run
    BY <1>1
  <1> QED BY <1>2, Invariant, PTL DEF Spec, ResultsIndependent

\* NoLostUpdate: a PUT that sent an ETag and succeeded replaced the very run the
\* ETag was computed from (transform_at).
THEOREM ConditionalPut == Spec => NoLostUpdate
  <1>1. ASSUME IInv, [Next]_vars, NEW r \in Requests, op[r].kind = "put", etag[r] # NoRun,
               answer[r] = "none", answer'[r] = "ok"
        PROVE  run = etag[r]
    <2>1. pc[r] = "write"
      BY <1>1, Succeeded DEF WriteDocument
    <2> QED BY <1>1, <2>1 DEF IInv, WriteOK, Publishes, EtagMatches
  <1>2. IInv /\ [Next]_vars =>
          [\A r \in Requests :
              op[r].kind = "put" /\ etag[r] # NoRun /\ answer[r] = "none" /\ answer'[r] = "ok"
                 => run = etag[r]]_vars
    BY <1>1
  <1> QED BY <1>2, Invariant, PTL DEF Spec, NoLostUpdate

\* LinksSound: no case lists a defect twice, and a link disappears only with its
\* case or through an unlink that names it, however links race with each other
\* and with copies of the case (attach_defect_to_case, mutate_case_document).
THEOREM DefectLinks == Spec => LinksSound
  <1>1. ASSUME IInv, [Next]_vars, links' # links, NEW c \in Cases, NEW p \in Projects,
               NEW l \in links[c][p] \ links'[c][p]
        PROVE  \/ live'[c][p] = 0
               \/ \E r \in Requests :
                    /\ Writer(r) /\ op[r].kind = "unlinkDefect"
                    /\ op[r].case = c /\ op[r].project = p /\ l.id \in op[r].defect
    <2>1. ASSUME NEW r \in Requests, lock = r, WriteDocument(r), OfCase(r)
          PROVE  /\ Writer(r) /\ op[r].kind = "unlinkDefect"
                 /\ op[r].case = c /\ op[r].project = p /\ l.id \in op[r].defect
      <3>1. op[r].case = c /\ op[r].project = p
        BY <1>1, <2>1, LinkFacts
      <3>2. l \in CaseLinks(r) /\ l \notin next[r]
        BY <1>1, <2>1, <3>1, LinkFacts DEF CaseLinks
      <3>3. op[r].kind = "unlinkDefect" /\ l.id \in op[r].defect
        BY <1>1, <2>1, <3>2, LinkFacts DEF OfCase
      <3> QED BY <2>1, <3>1, <3>3 DEF Writer, WriteDocument
    <2>2. ASSUME NEW b \in Cases, NEW q \in Projects, RemoveCase(b, q)
          PROVE  live'[c][p] = 0
      <3>1. b = c /\ q = p
        BY <1>1, <2>2 DEF RemoveCase, IInv, ShapeInv
      <3> QED BY <2>2, <3>1, <1>1 DEF RemoveCase, IInv, ShapeInv
    <2>3. ASSUME NEW b \in Cases, NEW q \in Projects, NEW s \in Projects, CopyCase(b, q, s)
          PROVE  FALSE
      <3>1. b = c /\ s = p
        BY <1>1, <2>3 DEF CopyCase, IInv, ShapeInv
      <3>2. links[c][p] = {}
        BY <1>1, <2>3, <3>1 DEF CopyCase, IInv, LinkInv
      <3> QED BY <1>1, <3>2
    <2> QED BY <1>1, <2>1, <2>2, <2>3, LinksChange
  <1>2. IInv => DefectsUnique
    BY DEF IInv, LinkInv
  <1>3. IInv /\ [Next]_vars =>
          [\A c \in Cases, p \in Projects :
              \A l \in links[c][p] \ links'[c][p] :
                \/ live'[c][p] = 0
                \/ \E r \in Requests :
                     /\ Writer(r) /\ op[r].kind = "unlinkDefect"
                     /\ op[r].case = c /\ op[r].project = p /\ l.id \in op[r].defect]_links
    BY <1>1
  <1> QED BY <1>2, <1>3, Invariant, PTL DEF Spec, LinksSound, LinksKept

(* ------------------------------- the import ------------------------------ *)

\* A nonempty set of naturals has a least element: an induction over the entries
\* of a report is the absence of a least counterexample.
LEMMA Least == ASSUME NEW T \in SUBSET Nat, T # {} PROVE \E x \in T : \A y \in T : x <= y
  <1>1. PICK n \in T : TRUE
    OBVIOUS
  <1> DEFINE I(k) == T \cap (0..k)
             C == {I(k) : k \in T}
  <1>2. \A k \in T : I(k) \in FiniteSubsetsOf(Nat)
    <2> SUFFICES ASSUME NEW k \in T PROVE IsFiniteSet(I(k))
      BY DEF FiniteSubsetsOf
    <2>1. IsFiniteSet(0..k)
      BY FS_Interval
    <2> QED BY <2>1, FS_Intersection
  <1>3. C \subseteq FiniteSubsetsOf(Nat) /\ C # {}
    BY <1>1, <1>2
  <1>4. IsWellFoundedOn(StrictSubsetOrdering(Nat), FiniteSubsetsOf(Nat))
    BY FS_StrictSubsetOrderingWellFounded
  <1>5. PICK U \in C : \A V \in C : ~(<<V, U>> \in StrictSubsetOrdering(Nat))
    <2> HIDE DEF C
    <2> QED BY <1>3, <1>4, WFMin
  <1>6. PICK k \in T : U = I(k)
    OBVIOUS
  <1>7. ASSUME NEW y \in T, y < k PROVE FALSE
    <2>1. I(y) \in C /\ I(y) \subseteq I(k) /\ k \in I(k) /\ k \notin I(y)
      BY <1>7
    <2>2. I(y) \in SUBSET Nat /\ I(k) \in SUBSET Nat /\ I(y) # I(k)
      BY <2>1
    <2>3. <<I(y), I(k)>> \in StrictSubsetOrdering(Nat)
      <3> HIDE DEF I, C
      <3> QED BY <2>1, <2>2 DEF StrictSubsetOrdering
    <2> QED BY <1>5, <1>6, <2>1, <2>3
  <1> QED BY <1>7

\* The loop over the test cases runs to its end: there is a function of the
\* number of test cases read so far that starts empty and pushes one by one.
LEMMA LoopExists ==
    ASSUME NEW entries, NEW n \in Nat
    PROVE  \E f : f = [i \in 0 .. n |-> IF i = 0 THEN <<>> ELSE Push(f[i - 1], entries[i])]
  <1> DEFINE Runs(f, k) == f = [i \in 0 .. k |-> IF i = 0 THEN <<>> ELSE Push(f[i - 1], entries[i])]
             T == {k \in Nat : ~\E f : Runs(f, k)}
  <1> SUFFICES ASSUME T # {} PROVE FALSE
    OBVIOUS
  <1>1. PICK k \in T : \A j \in T : k <= j
    <2>1. T \in SUBSET Nat
      OBVIOUS
    <2> HIDE DEF T
    <2> QED BY <2>1, Least
  <1>2. CASE k = 0
    <2> DEFINE f == [i \in 0 .. 0 |-> <<>>]
    <2>1. f = [i \in 0 .. 0 |-> IF i = 0 THEN <<>> ELSE Push(f[i - 1], entries[i])]
      OBVIOUS
    <2> QED BY <1>1, <1>2, <2>1
  <1>3. CASE k # 0
    <2>1. k - 1 \in Nat /\ k - 1 \notin T
      BY <1>1, <1>3, SMTT(40)
    <2>2. PICK g : Runs(g, k - 1)
      BY <2>1
    <2> DEFINE h == [i \in 0 .. k |-> IF i = k THEN Push(g[k - 1], entries[k]) ELSE g[i]]
    <2>3. /\ \A i \in 0 .. k - 1 : g[i] = IF i = 0 THEN <<>> ELSE Push(g[i - 1], entries[i])
      BY <2>2, Zenon
    <2>4. ASSUME NEW i \in 0 .. k
          PROVE  h[i] = IF i = 0 THEN <<>> ELSE Push(h[i - 1], entries[i])
      <3>1. CASE i = k
        <4>1. h[i - 1] = g[k - 1] /\ h[i] = Push(g[k - 1], entries[k])
          BY <2>1, <3>1
        <4> QED BY <1>3, <3>1, <4>1
      <3>2. CASE i # k
        <4>1. i \in 0 .. k - 1 /\ h[i] = g[i] /\ (i # 0 => h[i - 1] = g[i - 1])
          BY <2>1, <3>2
        <4> HIDE DEF h
        <4> QED BY <2>3, <4>1, Zenon
      <3> QED BY <3>1, <3>2
    <2>5. h = [i \in 0 .. k |-> h[i]]
      OBVIOUS
    <2> HIDE DEF h
    <2>6. Runs(h, k)
      BY <2>4, <2>5
    <2> QED BY <1>1, <2>6
  <1> QED BY <1>2, <1>3

\* A case a report names, as the run takes it.
Parsed == [case : Cases, status : ImportStatuses, note : Notes \union {Clear}]

\* Pushing a test case.
LEMMA PushFacts ==
    ASSUME NEW s \in Seq(Parsed), NEW e \in TestCases
    PROVE  Push(s, e) \in Seq(Parsed) /\ Len(Push(s, e)) <= Len(s) + 1
  <1>1. ASSUME Nameable(e) PROVE MapCase(e) \in Parsed
    <2>1. e.case \in Cases /\ e.message \in Notes \union {Clear}
      BY <1>1 DEF Nameable, TestCases
    <2>2. StatusOf(e) \in ImportStatuses /\ FailureMessage(e) \in Notes \union {Clear}
      BY <2>1 DEF StatusOf, FailureMessage, ImportStatuses
    <2> QED BY <2>1, <2>2 DEF MapCase, Parsed
  <1> QED BY <1>1 DEF Push

\* The loop pushes at most one case for each <testcase>.
LEMMA MapCasesFacts ==
    ASSUME NEW entries \in Seq(TestCases)
    PROVE  MapCases(entries) \in Seq(Parsed) /\ Len(MapCases(entries)) <= Len(entries)
  <1> DEFINE n == Len(entries)
             Loop(f) == f = [i \in 0 .. n |-> IF i = 0 THEN <<>> ELSE Push(f[i - 1], entries[i])]
             f == CHOOSE g : Loop(g)
             T == {k \in Nat : k <= n /\ ~(f[k] \in Seq(Parsed) /\ Len(f[k]) <= k)}
  <1>1. n \in Nat /\ \A i \in 1 .. n : entries[i] \in TestCases
    OBVIOUS
  <1>2. Loop(f)
    <2>1. \E g : Loop(g)
      BY <1>1, LoopExists
    <2> HIDE DEF Loop
    <2> QED BY <2>1
  <1>3. MapCases(entries) = f[n]
    BY DEF MapCases
  <1> HIDE DEF f, n
  <1>4. \A i \in 0 .. n : f[i] = IF i = 0 THEN <<>> ELSE Push(f[i - 1], entries[i])
    BY <1>2, Zenon
  <1>5. ASSUME T # {} PROVE FALSE
    <2>1. PICK k \in T : \A j \in T : k <= j
      <3>1. T \in SUBSET Nat
        OBVIOUS
      <3> HIDE DEF T
      <3> QED BY <1>5, <3>1, Least
    <2>2. CASE k = 0
      <3>1. f[0] = <<>>
        BY <1>1, <1>4
      <3>2. <<>> \in Seq(Parsed) /\ Len(<<>>) = 0
        OBVIOUS
      <3> QED BY <2>1, <2>2, <3>1, <3>2
    <2>3. CASE k # 0
      <3>1. k - 1 \in Nat /\ k - 1 <= n /\ k - 1 \notin T /\ k \in 1 .. n
        BY <1>1, <2>1, <2>3
      <3>2. f[k - 1] \in Seq(Parsed) /\ Len(f[k - 1]) <= k - 1
        BY <3>1
      <3>3. f[k] = Push(f[k - 1], entries[k])
        BY <1>4, <2>3, <3>1
      <3>4. Push(f[k - 1], entries[k]) \in Seq(Parsed)
            /\ Len(Push(f[k - 1], entries[k])) <= Len(f[k - 1]) + 1
        BY <1>1, <3>1, <3>2, PushFacts
      <3>5. Len(f[k - 1]) \in Nat /\ Len(f[k]) \in Nat
        BY <3>2, <3>3, <3>4
      <3> QED BY <2>1, <3>1, <3>2, <3>3, <3>4, <3>5
    <2> QED BY <2>2, <2>3
  <1> QED BY <1>1, <1>3, <1>5 DEF n

\* What the parsers make of a report they do not refuse.
LEMMA ParseFacts ==
    ASSUME NEW report \in Reports, ~ReportRefused(report)
    PROVE  /\ Parse(report) \in Seq(Parsed)
           /\ Len(Parse(report)) \in Nat /\ Len(report.entries) \in Nat
           /\ Len(Parse(report)) <= Len(report.entries)
  <1>1. CASE report.format = "json"
    <2>1. report.entries \in Seq(JsonEntries) /\ Parse(report) = report.entries
      BY <1>1, BodiesAssumption DEF Parse
    <2>2. \A i \in DOMAIN report.entries : ~Unusable(report.entries[i])
      BY <1>1 DEF ReportRefused
    <2>3. ASSUME NEW i \in 1 .. Len(report.entries) PROVE report.entries[i] \in Parsed
      <3>1. report.entries[i] \in JsonEntries /\ ~Unusable(report.entries[i])
        BY <2>1, <2>2
      <3> QED BY <3>1 DEF JsonEntries, Unusable, Parsed
    <2>4. report.entries \in Seq(Parsed)
      BY <2>1, <2>3
    <2> QED BY <2>1, <2>4
  <1>2. CASE report.format = "junit"
    <2>1. report.entries \in Seq(TestCases) /\ Parse(report) = MapCases(report.entries)
      BY <1>2, BodiesAssumption DEF Parse
    <2> QED BY <2>1, MapCasesFacts
  <1> QED BY <1>1, <1>2, BodiesAssumption

\* The cases an import names are no more than its entries.
LEMMA ReportedFacts ==
    ASSUME NEW s \in Seq(Parsed)
    PROVE  /\ IsFiniteSet(Reported(s)) /\ Cardinality(Reported(s)) <= Len(s)
           /\ Reported(s) \subseteq Cases
  <1> DEFINE f == [i \in 1 .. Len(s) |-> s[i].case]
  <1>1. Len(s) \in Nat /\ \A i \in 1 .. Len(s) : s[i] \in Parsed
    OBVIOUS
  <1>2. f \in Surjection(1 .. Len(s), Reported(s))
    BY DEF Surjection, Reported
  <1>3. IsFiniteSet(1 .. Len(s)) /\ Cardinality(1 .. Len(s)) = Len(s)
    <2>1. ASSUME NEW k \in Nat PROVE IsFiniteSet(1 .. k) /\ Cardinality(1 .. k) = k
      <3>1. 1 \in Int /\ k \in Int
        OBVIOUS
      <3>2. IsFiniteSet(1 .. k) /\ Cardinality(1 .. k) = IF 1 > k THEN 0 ELSE k - 1 + 1
        BY <3>1, FS_Interval
      <3> QED BY <3>2
    <2> QED BY <1>1, <2>1
  <1>4. IsFiniteSet(Reported(s)) /\ Cardinality(Reported(s)) <= Cardinality(1 .. Len(s))
    <2> HIDE DEF f
    <2> QED BY <1>2, <1>3, FS_Surjection
  <1>5. Reported(s) \subseteq Cases
    BY <1>1 DEF Reported, Parsed
  <1> QED BY <1>3, <1>4, <1>5

\* The summary of an import counts the entries of its report and the results
\* the run gains.
LEMMA SummaryFacts ==
    ASSUME NEW report \in Reports, ~ReportRefused(report), NEW d, IsDocument(d),
           DOMAIN d.results \subseteq Cases
    PROVE  LET sum == ImportSummary(d, report)
               e == StoreImportedResults(d, Parse(report)) IN
           /\ sum \in [imported : Nat, duplicates : Nat, errors : Nat]
           /\ sum.imported + sum.duplicates + sum.errors = Len(report.entries)
           /\ sum.imported = Cardinality(DOMAIN e.results) - Cardinality(DOMAIN d.results)
  <1> DEFINE s == Parse(report)
             new == Imported(d, s)
             n == Cardinality(new)
             old == DOMAIN d.results
             e == StoreImportedResults(d, s)
  <1>1. /\ s \in Seq(Parsed) /\ Len(s) \in Nat /\ Len(report.entries) \in Nat
        /\ Len(s) <= Len(report.entries)
    BY ParseFacts
  <1>2. IsFiniteSet(Reported(s)) /\ Cardinality(Reported(s)) <= Len(s)
    BY <1>1, ReportedFacts
  <1>3. new \in SUBSET Reported(s) /\ new \cap old = {}
    BY DEF Imported
  <1>4. IsFiniteSet(new) /\ n <= Cardinality(Reported(s))
    <2> HIDE DEF new
    <2> QED BY <1>2, <1>3, FS_Subset
  <1>5. n \in Nat /\ Cardinality(Reported(s)) \in Nat
    BY <1>2, <1>4, FS_CardinalityType
  <1>6. n <= Len(s)
    BY <1>1, <1>2, <1>4, <1>5
  <1>7. ImportSummary(d, report) =
           [imported |-> n, duplicates |-> Len(s) - n, errors |-> Len(report.entries) - Len(s)]
    BY DEF ImportSummary
  <1>8. DOMAIN e.results = old \union new
    BY ImportFacts
  <1>9. IsFiniteSet(old) /\ Cardinality(old) \in Nat
    <2>1. IsFiniteSet(Cases) /\ old \in SUBSET Cases
      BY BodiesAssumption
    <2> HIDE DEF old
    <2>2. IsFiniteSet(old)
      BY <2>1, FS_Subset
    <2> QED BY <2>2, FS_CardinalityType
  <1>10. Cardinality(old \union new) = Cardinality(old) + n
    <2> HIDE DEF old, new
    <2>1. Cardinality(old \union new) = Cardinality(old) + Cardinality(new) - Cardinality(old \cap new)
      BY <1>4, <1>9, FS_Union
    <2>2. old \cap new = {} /\ Cardinality({}) = 0
      BY <1>3, FS_EmptySet
    <2>3. Cardinality(old \cap new) = 0
      BY <2>2, Zenon
    <2> HIDE DEF n
    <2>4. n = Cardinality(new)
      BY DEF n
    <2> QED BY <1>5, <1>9, <2>1, <2>3, <2>4
  <1> HIDE DEF s, new, n, old, e
  <1>11. Len(s) - n \in Nat /\ Len(report.entries) - Len(s) \in Nat
    BY <1>1, <1>5, <1>6
  <1>12. Cardinality(DOMAIN e.results) - Cardinality(old) = n
    BY <1>5, <1>8, <1>9, <1>10
  <1>13. n + (Len(s) - n) + (Len(report.entries) - Len(s)) = Len(report.entries)
    BY <1>1, <1>5
  <1> QED BY <1>5, <1>7, <1>11, <1>12, <1>13 DEF e, s, old

(* ------------------------- what a stored run holds ------------------------ *)

\* What a request was asked, by its kind; see result_update and the parsers.
Asked(o) ==
    /\ o.kind \in RunKinds
    /\ o.kind \in {"record", "replace", "addCase"} => o.case \in Cases
    /\ o.kind \in {"record", "replace"} => o.status \in Statuses /\ o.note \in Notes \union {Keep, Clear}
    /\ o.kind = "import" => o.report \in Reports /\ ~ReportRefused(o.report)
    /\ o.kind = "linkConfig" => o.config \subseteq Configs
    /\ o.kind \in {"put", "create"} => o.body \in Bodies

\* An import about to publish has the summary of what it publishes.
SummaryOK(r) ==
    pc[r] = "write" /\ op[r].kind = "import" => summary[r] = ImportSummary(run, op[r].report)

\* A request is answered once, at its end.
AnswerOK(r) == pc[r] # "done" => answer[r] = "none"

ContentInv == TypeOK /\ \A r \in Requests : Asked(op[r]) /\ SummaryOK(r) /\ AnswerOK(r)

\* Versions of cases.
IsVersions(f) == DOMAIN f \subseteq Cases /\ \A c \in DOMAIN f : f[c] \in Nat

\* A run, field by field.
LEMMA RunParts ==
    ASSUME NEW d
    PROVE  IsRun(d) <=> /\ d.projects \subseteq Projects /\ IsVersions(d.pins)
                        /\ d.cases \subseteq [case : Cases, version : Nat]
                        /\ \A f \in d.suites : IsVersions(f)
                        /\ IsResults(d.results) /\ d.configs \subseteq Configs
  BY DEF IsRun, Versions, IsVersions

\* One version more.
LEMMA ExtendVersions ==
    ASSUME NEW f, IsVersions(f), NEW c \in Cases, NEW v \in Nat
    PROVE  IsVersions(Extend(f, c, v))
  BY DEF IsVersions, Extend

\* A capture keeps a run a run.
LEMMA CaptureRun ==
    ASSUME NEW d, IsDocument(d), IsRun(d), NEW c \in Cases, NEW v \in Nat
    PROVE  IsRun(CaptureCaseVersion(d, c, v)) /\ IsDocument(CaptureCaseVersion(d, c, v))
  <1> DEFINE e == [d EXCEPT !.pins = Extend(d.pins, c, v)]
  <1>1. CASE c \in DOMAIN d.pins
    BY <1>1 DEF CaptureCaseVersion
  <1>2. CASE c \notin DOMAIN d.pins
    <2>1. CaptureCaseVersion(d, c, v) = e
      BY <1>2 DEF CaptureCaseVersion, IsDocument
    <2>2. /\ IsDocument(e) /\ e.pins = Extend(d.pins, c, v) /\ e.cases = d.cases /\ e.projects = d.projects
          /\ e.suites = d.suites /\ e.results = d.results /\ e.configs = d.configs
      BY DEF IsDocument
    <2>3. IsVersions(Extend(d.pins, c, v))
      BY RunParts, ExtendVersions
    <2> HIDE DEF e
    <2> QED BY <2>1, <2>2, <2>3, RunParts
  <1> QED BY <1>1, <1>2

\* A note that is stored is a note, or cleared, whatever a patch says.
LEMMA PatchFacts ==
    ASSUME NEW stored \in Notes \union {Clear}, NEW patch \in Notes \union {Keep, Clear}
    PROVE  ApplyPatch(stored, patch) \in Notes \union {Clear}
  BY DEF ApplyPatch

\* The first entry rewritten, and no other.
LEMMA FirstRewritten ==
    ASSUME NEW s \in Seq(Entries), s # <<>>, NEW x \in Entries
    PROVE  LET t == [s EXCEPT ![1] = x] IN
           t \in Seq(Entries) /\ t # <<>> /\ t[1] = x /\ Tail(t) = Tail(s)
  <1> DEFINE t == [s EXCEPT ![1] = x]
  <1>1. Len(s) \in Nat \ {0} /\ DOMAIN s = 1 .. Len(s) /\ \A i \in 1 .. Len(s) : s[i] \in Entries
    OBVIOUS
  <1>2. /\ t = [i \in 1 .. Len(s) |-> IF i = 1 THEN x ELSE s[i]]
    BY <1>1
  <1> HIDE DEF t
  <1>3. t \in Seq(Entries) /\ Len(t) = Len(s) /\ t[1] = x
    BY <1>1, <1>2
  <1>4. \A i \in 2 .. Len(s) : t[i] = s[i]
    BY <1>1, <1>2
  <1>5. Tail(t) = Tail(s)
    BY <1>1, <1>3, <1>4
  <1> QED BY <1>1, <1>3, <1>5 DEF t

\* A recorded result keeps a run a run: its status is the one of the first entry
\* of its case, and the entries behind are kept.
LEMMA UpsertRun ==
    ASSUME NEW d, IsDocument(d), IsRun(d), NEW c \in Cases, NEW status \in Statuses,
           NEW note \in Notes \union {Keep, Clear}
    PROVE  LET e == UpsertResult(d, c, status, note) IN
           /\ IsRun(e) /\ e.results[c][1].status = status
           /\ Tail(e.results[c]) = IF c \in DOMAIN d.results THEN Tail(d.results[c]) ELSE <<>>
  <1> DEFINE entries == IF c \in DOMAIN d.results THEN d.results[c]
                        ELSE <<[status |-> status, note |-> Clear]>>
             y == [status |-> status, note |-> ApplyPatch(entries[1].note, note)]
             x == [entries EXCEPT ![1] = y]
             f == Extend(d.results, c, x)
             e == [d EXCEPT !.results = f]
  <1>0. status \in STRING
    BY BodiesAssumption
  <1>1. IsResults(d.results)
    BY DEF IsRun
  <1>2. /\ entries \in Seq(Entries) /\ entries # <<>>
        /\ c \notin DOMAIN d.results => Tail(entries) = <<>>
    <2>1. CASE c \in DOMAIN d.results
      BY <1>1, <2>1 DEF IsResults
    <2>2. CASE c \notin DOMAIN d.results
      <3> DEFINE z == [status |-> status, note |-> Clear]
      <3>1. z \in Entries
        BY <1>0 DEF Entries
      <3> HIDE DEF z
      <3>2. <<z>> \in Seq(Entries) /\ <<z>> # <<>> /\ Tail(<<z>>) = <<>>
        BY <3>1
      <3> QED BY <2>2, <3>2 DEF z
    <2> QED BY <2>1, <2>2
  <1>3. UpsertResult(d, c, status, note) = e
    BY DEF UpsertResult, IsDocument
  <1>4. c \in DOMAIN d.results => entries = d.results[c]
    OBVIOUS
  <1> HIDE DEF entries
  <1>5. entries[1].note \in Notes \union {Clear}
    <2>1. entries[1] \in Entries
      BY <1>2
    <2> QED BY <2>1 DEF Entries
  <1>6. y \in Entries /\ y.status = status
    BY <1>0, <1>5, PatchFacts DEF Entries
  <1> HIDE DEF y
  <1>7. x \in Seq(Entries) /\ x # <<>> /\ x[1] = y /\ Tail(x) = Tail(entries)
    BY <1>2, <1>6, FirstRewritten
  <1> HIDE DEF x
  <1>8. IsResults(f) /\ f[c] = x
    BY <1>1, <1>7 DEF IsResults, Extend
  <1> HIDE DEF f
  <1>9. /\ e.results = f /\ e.cases = d.cases /\ e.pins = d.pins /\ e.projects = d.projects
        /\ e.suites = d.suites /\ e.configs = d.configs
    BY DEF IsDocument
  <1> HIDE DEF e
  <1>10. IsRun(e)
    BY <1>8, <1>9, RunParts
  <1> QED BY <1>2, <1>3, <1>4, <1>6, <1>7, <1>8, <1>9, <1>10

\* So does a result that is replaced.
LEMMA ReplaceRun ==
    ASSUME NEW d, IsDocument(d), IsRun(d), NEW c \in Cases, NEW status \in Statuses,
           NEW note \in Notes \union {Keep, Clear}
    PROVE  LET e == ReplaceResult(d, c, status, note) IN
           /\ IsRun(e) /\ DOMAIN e.results = DOMAIN d.results
           /\ c \in DOMAIN d.results => /\ e.results[c][1].status = status
                                       /\ Tail(e.results[c]) = Tail(d.results[c])
  <1> DEFINE y == [status |-> status, note |-> ApplyPatch(d.results[c][1].note, note)]
             x == [d.results[c] EXCEPT ![1] = y]
             f == [d.results EXCEPT ![c] = x]
             e == [d EXCEPT !.results = f]
  <1>0. status \in STRING
    BY BodiesAssumption
  <1>1. IsResults(d.results)
    BY DEF IsRun
  <1>2. ReplaceResult(d, c, status, note) = e
    BY DEF ReplaceResult, IsDocument
  <1>3. ASSUME c \in DOMAIN d.results
        PROVE  /\ x \in Seq(Entries) /\ x # <<>> /\ Tail(x) = Tail(d.results[c])
               /\ x[1].status = status
    <2>1. d.results[c] \in Seq(Entries) /\ d.results[c] # <<>>
      BY <1>1, <1>3 DEF IsResults
    <2>2. d.results[c][1] \in Entries
      BY <2>1
    <2>3. d.results[c][1].note \in Notes \union {Clear}
      BY <2>2 DEF Entries
    <2>4. y \in Entries /\ y.status = status
      BY <1>0, <2>3, PatchFacts DEF Entries
    <2> HIDE DEF y
    <2> QED BY <2>1, <2>4, FirstRewritten
  <1> HIDE DEF x
  <1>4. /\ IsResults(f) /\ DOMAIN f = DOMAIN d.results
        /\ c \in DOMAIN d.results => f[c] = x
    BY <1>1, <1>3 DEF IsResults
  <1> HIDE DEF f
  <1>5. /\ e.results = f /\ e.cases = d.cases /\ e.pins = d.pins /\ e.projects = d.projects
        /\ e.suites = d.suites /\ e.configs = d.configs
    BY DEF IsDocument
  <1> HIDE DEF e
  <1>6. IsRun(e)
    BY <1>4, <1>5, RunParts
  <1> QED BY <1>2, <1>3, <1>4, <1>5, <1>6

\* So does an import of a report that was not refused.
LEMMA ImportRun ==
    ASSUME NEW d, IsDocument(d), IsRun(d), NEW s \in Seq(Parsed)
    PROVE  LET e == StoreImportedResults(d, s) IN
           /\ IsRun(e)
           /\ \A c \in Imported(d, s) : /\ e.results[c][1].status \in ImportStatuses
                                       /\ Tail(e.results[c]) = <<>>
  <1> DEFINE new == Imported(d, s)
             entry(c) == [status |-> FirstFor(s, c).status, note |-> FirstFor(s, c).note]
             f == [c \in DOMAIN d.results \union new |->
                     IF c \in new THEN <<entry(c)>> ELSE d.results[c]]
             e == [d EXCEPT !.results = f]
  <1>1. IsResults(d.results)
    BY DEF IsRun
  <1>2. ASSUME NEW c \in new
        PROVE  c \in Cases /\ FirstFor(s, c) \in Parsed
    <2> DEFINE T == {i \in 1 .. Len(s) : s[i].case = c}
               P(i) == s[i].case = c /\ \A j \in 1 .. i - 1 : s[j].case # c
    <2>1. T # {} /\ T \in SUBSET Nat
      BY <1>2 DEF Imported, Reported
    <2>2. PICK i \in T : \A j \in T : i <= j
      <3> HIDE DEF T
      <3> QED BY <2>1, Least
    <2>3. i \in 1 .. Len(s) /\ P(i)
      BY <2>2
    <2>4. FirstFor(s, c) = s[CHOOSE k \in 1 .. Len(s) : P(k)]
      BY DEF FirstFor
    <2>5. (CHOOSE k \in 1 .. Len(s) : P(k)) \in 1 .. Len(s)
      <3> HIDE DEF P
      <3> QED BY <2>3
    <2>6. FirstFor(s, c) \in Parsed
      BY <2>4, <2>5
    <2>7. s[i].case = c /\ s[i] \in Parsed
      BY <2>3
    <2> QED BY <2>6, <2>7 DEF Parsed
  <1>3. StoreImportedResults(d, s) = e
    BY DEF StoreImportedResults, IsDocument
  <1>4. ASSUME NEW c \in new
        PROVE  /\ c \in Cases /\ <<entry(c)>> \in Seq(Entries) /\ <<entry(c)>> # <<>>
               /\ <<entry(c)>>[1].status \in ImportStatuses /\ Tail(<<entry(c)>>) = <<>>
    <2>1. c \in Cases /\ FirstFor(s, c) \in Parsed
      BY <1>4, <1>2
    <2>2. entry(c) \in Entries /\ entry(c).status \in ImportStatuses
      <3> DEFINE x == FirstFor(s, c)
      <3>1. x.status \in ImportStatuses /\ x.note \in Notes \union {Clear}
        <4> HIDE DEF x
        <4>1. x \in Parsed
          BY <2>1 DEF x
        <4> QED BY <4>1 DEF Parsed
      <3>2. x.status \in STRING
        <4> HIDE DEF x
        <4> QED BY <3>1, BodiesAssumption
      <3> HIDE DEF x
      <3>3. entry(c) = [status |-> x.status, note |-> x.note]
        BY DEF x
      <3> HIDE DEF entry
      <3>4. [status |-> x.status, note |-> x.note] \in Entries
        BY <3>1, <3>2 DEF Entries
      <3>5. [status |-> x.status, note |-> x.note].status = x.status
        OBVIOUS
      <3> QED BY <3>1, <3>3, <3>4, <3>5
    <2> HIDE DEF entry
    <2> QED BY <2>1, <2>2
  <1> HIDE DEF new, entry
  <1>6. IsResults(f) /\ \A c \in new : f[c] = <<entry(c)>>
    BY <1>1, <1>4 DEF IsResults
  <1> HIDE DEF f
  <1>5. /\ e.results = f /\ e.cases = d.cases /\ e.pins = d.pins /\ e.projects = d.projects
        /\ e.suites = d.suites /\ e.configs = d.configs
    BY DEF IsDocument
  <1> HIDE DEF e
  <1>7. IsRun(e)
    BY <1>5, <1>6, RunParts
  <1> QED BY <1>3, <1>4, <1>5, <1>6, <1>7 DEF new

\* A body whose fields have their types keeps a run a run.
LEMMA MergedRun ==
    ASSUME NEW d, IsRun(d), NEW body \in Bodies
    PROVE  IsRun(Merge(d, body)) /\ IsRun(Merge(NewRun, body))
  <1> DEFINE e == Merge(d, body)
             new == Merge(NewRun, body)
  <1>1. IsRun(new)
    BY BodiesAssumption
  <1>2. /\ e.projects = IF body.projects = Keep THEN d.projects ELSE new.projects
        /\ e.cases = IF body.cases = Keep THEN d.cases ELSE new.cases
        /\ e.suites = IF body.suites = Keep THEN d.suites ELSE new.suites
        /\ e.results = IF body.results = Keep THEN d.results ELSE new.results
        /\ e.configs = IF body.configs = Keep THEN d.configs ELSE new.configs
        /\ e.pins = IF body.pins = Keep THEN d.pins ELSE new.pins
    BY MergeFacts
  <1> HIDE DEF e, new
  <1>3. IsRun(e)
    BY <1>1, <1>2, RunParts
  <1> QED BY <1>1, <1>3 DEF e, new

\* The version a capture records is a number, and so are those of a suite.
LEMMA VersionFacts ==
    ASSUME TypeOK
    PROVE  /\ \A c \in Cases : VersionSeen(c) \in Nat
           /\ IsVersions(SuiteSnapshot)
  <1>1. live \in [Cases -> [Projects -> Nat]]
    BY RunsAssumption DEF TypeOK
  <1>2. ASSUME NEW c \in Cases, Readable(c) PROVE live[c][CHOOSE p \in Owners(c) : TRUE] \in Nat
    <2>1. Owners(c) # {}
      BY <1>2, FS_EmptySet DEF Readable
    <2>2. (CHOOSE p \in Owners(c) : TRUE) \in Projects
      BY <2>1 DEF Owners
    <2> QED BY <1>1, <2>2
  <1>3. \A c \in Cases : VersionSeen(c) \in Nat
    BY <1>2 DEF VersionSeen
  <1>4. IsVersions(SuiteSnapshot)
    BY <1>1, RunsAssumption DEF SuiteSnapshot, IsVersions
  <1> QED BY <1>3, <1>4

\* What is about to be published is a run.
LEMMA PublishedRun ==
    ASSUME IInv, ContentInv, NEW r \in Requests, pc[r] = "write", ~OfCase(r)
    PROVE  IsRun(next[r])
  <1> DEFINE o == op[r]
             c == op[r].case
             d == next[r]
  <1>0. Publishes(r, d) /\ Asked(o) /\ TypeOK
    BY DEF IInv, WriteOK, ContentInv
  <1>1. o.kind # "create" => IsDocument(run) /\ IsRun(run)
    BY <1>0 DEF Publishes, IInv, ShapeInv, TypeOK
  <1>2. CASE o.kind = "record"
    <2> DEFINE e == CaptureCaseVersion(run, c, VersionSeen(c))
    <2>1. d = UpsertResult(e, c, o.status, o.note)
      BY <1>0, <1>2 DEF Publishes
    <2>2. c \in Cases /\ o.status \in Statuses /\ o.note \in Notes \union {Keep, Clear}
      BY <1>0, <1>2 DEF Asked
    <2>3. VersionSeen(c) \in Nat
      BY <1>0, <2>2, VersionFacts
    <2>4. IsRun(e) /\ IsDocument(e)
      BY <1>1, <1>2, <2>2, <2>3, CaptureRun
    <2> HIDE DEF e
    <2> QED BY <2>1, <2>2, <2>4, UpsertRun
  <1>3. CASE o.kind = "replace"
    <2>1. d = ReplaceResult(run, c, o.status, o.note)
      BY <1>0, <1>3 DEF Publishes
    <2>2. c \in Cases /\ o.status \in Statuses /\ o.note \in Notes \union {Keep, Clear}
      BY <1>0, <1>3 DEF Asked
    <2> QED BY <1>1, <1>3, <2>1, <2>2, ReplaceRun
  <1>4. CASE o.kind = "remove"
    <2> DEFINE f == [b \in DOMAIN run.results \ {c} |-> run.results[b]]
               e == [run EXCEPT !.results = f]
    <2>1. d = e
      BY <1>0, <1>1, <1>4 DEF Publishes, RemoveResult, IsDocument
    <2>2. IsResults(f)
      BY <1>1, <1>4 DEF IsRun, IsResults
    <2> HIDE DEF f
    <2>3. /\ e.results = f /\ e.cases = run.cases /\ e.pins = run.pins /\ e.projects = run.projects
          /\ e.suites = run.suites /\ e.configs = run.configs
      BY <1>1, <1>4 DEF IsDocument
    <2> HIDE DEF e
    <2> QED BY <1>1, <1>4, <2>1, <2>2, <2>3, RunParts
  <1>5. CASE o.kind = "import"
    <2>1. d = StoreImportedResults(run, Parse(o.report)) /\ Parse(o.report) \in Seq(Parsed)
      BY <1>0, <1>5, ParseFacts DEF Publishes, Asked
    <2> QED BY <1>1, <1>5, <2>1, ImportRun
  <1>6. CASE o.kind = "addCase"
    <2> DEFINE f == run.cases \union {[case |-> c, version |-> VersionSeen(c)]}
               e == [run EXCEPT !.cases = f]
    <2>1. d = CaptureCaseVersion(e, c, VersionSeen(c))
      BY <1>0, <1>1, <1>6 DEF Publishes, AttachCaseToRun, IsDocument
    <2>2. c \in Cases /\ VersionSeen(c) \in Nat
      BY <1>0, <1>6, VersionFacts DEF Asked
    <2>3. f \subseteq [case : Cases, version : Nat]
      BY <1>1, <1>6, <2>2, RunParts
    <2> HIDE DEF f
    <2>4. /\ IsDocument(e) /\ e.results = run.results /\ e.cases = f /\ e.pins = run.pins /\ e.projects = run.projects
          /\ e.suites = run.suites /\ e.configs = run.configs
      BY <1>1, <1>6 DEF IsDocument
    <2> HIDE DEF e
    <2>5. IsRun(e)
      BY <1>1, <1>6, <2>3, <2>4, RunParts
    <2> QED BY <2>1, <2>2, <2>4, <2>5, CaptureRun
  <1>7. CASE o.kind = "addSuite"
    <2> DEFINE e == [run EXCEPT !.suites = run.suites \union {SuiteSnapshot}]
    <2>1. d = e
      BY <1>0, <1>1, <1>7 DEF Publishes, AttachSuiteToRun, IsDocument
    <2>2. /\ e.results = run.results /\ e.cases = run.cases /\ e.pins = run.pins /\ e.projects = run.projects
          /\ e.suites = run.suites \union {SuiteSnapshot} /\ e.configs = run.configs
      BY <1>1, <1>7 DEF IsDocument
    <2> HIDE DEF e
    <2>3. IsVersions(SuiteSnapshot)
      BY <1>0, VersionFacts
    <2> QED BY <1>1, <1>7, <2>1, <2>2, <2>3, RunParts
  <1>8. CASE o.kind \in {"linkConfig", "unlinkConfig"}
    <2> DEFINE ks == IF o.kind = "linkConfig" THEN run.configs \union o.config ELSE run.configs \ o.config
               e == [run EXCEPT !.configs = ks]
    <2>1. d = e
      BY <1>0, <1>1, <1>8 DEF Publishes, AttachConfigurationToRun, DetachConfigurationFromRun, IsDocument
    <2>2. ks \subseteq Configs
      BY <1>0, <1>1, <1>8 DEF Asked, IsRun
    <2> HIDE DEF ks
    <2>3. /\ e.results = run.results /\ e.cases = run.cases /\ e.pins = run.pins /\ e.projects = run.projects
          /\ e.suites = run.suites /\ e.configs = ks
      BY <1>1, <1>8 DEF IsDocument
    <2> HIDE DEF e
    <2> QED BY <1>1, <1>8, <2>1, <2>2, <2>3, RunParts
  <1>9. CASE o.kind = "put"
    <2>1. d = Merge(run, o.body) /\ o.body \in Bodies
      BY <1>0, <1>9 DEF Publishes, Asked
    <2> QED BY <1>1, <1>9, <2>1, MergedRun
  <1>10. CASE o.kind = "create"
    <2>1. d = Merge(NewRun, o.body) /\ o.body \in Bodies
      BY <1>0, <1>10 DEF Publishes, Asked
    <2> QED BY <2>1, BodiesAssumption
  <1> QED
    BY <1>0, <1>2, <1>3, <1>4, <1>5, <1>6, <1>7, <1>8, <1>9, <1>10 DEF Publishes, RunKinds, OfCase

\* The steps of a request, by what they do to its locals: it is answered; it is
\* read and waits; it moves on; it prepares an import.  The others' are kept.
Answered(r) ==
    /\ \E status : Finish(r, status)
    /\ run' # run => lock = r
    /\ UNCHANGED <<live, configs, changes>>
IsAsked(r) ==
    /\ Goto(r, "waiting") /\ (\E o : Asked(o) /\ op' = [op EXCEPT ![r] = o])
    /\ pc[r] # "done" /\ UNCHANGED <<run, live, configs, changes, summary, answer>>
MovesOn(r) ==
    /\ \E phase \in Phases : Goto(r, phase) /\ (phase = "write" => op[r].kind # "import")
    /\ pc[r] # "done" /\ UNCHANGED <<run, live, configs, changes, summary, answer, op>>
Imports(r) ==
    /\ Goto(r, "write") /\ op[r].kind = "import" /\ run # NoRun
    /\ summary' = [summary EXCEPT ![r] = ImportSummary(run, op[r].report)]
    /\ pc[r] # "done" /\ UNCHANGED <<run, live, configs, changes, answer, op>>
Steps(r) == Answered(r) \/ IsAsked(r) \/ MovesOn(r) \/ Imports(r)

\* A request about the run.
LEMMA AskSteps ==
    ASSUME NEW r \in Requests, NEW o, Asked(o), NEW refused, AskIf(r, o, refused), UNCHANGED changes
    PROVE  Steps(r)
  BY DEF AskIf, Steps, Answered, IsAsked

\* What a client may ask for.
LEMMA ClientSteps ==
    ASSUME IInv, NEW r \in Requests, Client(r), UNCHANGED changes
    PROVE  Steps(r)
  <1> USE DEF Ask
  <1>1. ASSUME NEW body \in [case : Cases, status : Statuses \union {Malformed},
                              note : Notes \union {Keep, Clear, Malformed}],
               RecordRunResult(r, body) \/ \E c \in Cases : ReplaceRunResult(r, c, body)
        PROVE  Steps(r)
    <2>0. body.case \in Cases /\ body.note \in Notes \union {Keep, Clear, Malformed}
      OBVIOUS
    <2>1. CASE \E status : Finish(r, status)
      <3>1. UNCHANGED <<run, live, configs, changes>>
        BY <1>1 DEF RecordRunResult, ReplaceRunResult, AskIf
      <3> QED BY <2>1, <3>1 DEF Steps, Answered
    <2>2. CASE ~\E status : Finish(r, status)
      <3>1. CASE RecordRunResult(r, body)
        <4> DEFINE o == [NoOp EXCEPT !.kind = "record", !.case = body.case, !.status = body.status,
                                     !.note = body.note]
        <4>1. o.kind = "record" /\ o.case = body.case /\ o.status = body.status /\ o.note = body.note
          BY DEF NoOp
        <4>2. AskIf(r, o, ResultRefused(body.case, body))
          BY <3>1 DEF RecordRunResult
        <4> HIDE DEF o
        <4>3. ~ResultRefused(body.case, body)
          BY <2>2, <4>2 DEF AskIf
        <4>4. Asked(o)
          BY <2>0, <4>1, <4>3 DEF Asked, ResultRefused, RunKinds
        <4> QED BY <4>2, <4>4, AskSteps
      <3>2. CASE \E c \in Cases : ReplaceRunResult(r, c, body)
        <4>0. PICK c \in Cases : ReplaceRunResult(r, c, body)
          BY <3>2
        <4> DEFINE o == [NoOp EXCEPT !.kind = "replace", !.case = c, !.status = body.status,
                                     !.note = body.note]
        <4>1. o.kind = "replace" /\ o.case = c /\ o.status = body.status /\ o.note = body.note
          BY DEF NoOp
        <4>2. AskIf(r, o, ResultRefused(c, body))
          BY <4>0 DEF ReplaceRunResult
        <4> HIDE DEF o
        <4>3. ~ResultRefused(c, body)
          BY <2>2, <4>2 DEF AskIf
        <4>4. Asked(o)
          BY <2>0, <4>0, <4>1, <4>3 DEF Asked, ResultRefused, RunKinds
        <4> QED BY <4>2, <4>4, AskSteps
      <3> QED BY <1>1, <3>1, <3>2
    <2> QED BY <2>1, <2>2
  <1>2. ASSUME NEW c \in Cases, DeleteRunResult(r, c) \/ AddCaseToRun(r, c)
        PROVE  Steps(r)
    <2> DEFINE o1 == [NoOp EXCEPT !.kind = "remove", !.case = c]
               o2 == [NoOp EXCEPT !.kind = "addCase", !.case = c]
    <2>1. o1.kind = "remove" /\ o2.kind = "addCase" /\ o2.case = c
      BY DEF NoOp
    <2>2. AskIf(r, o1, FALSE) \/ AskIf(r, o2, FALSE)
      BY <1>2 DEF DeleteRunResult, AddCaseToRun
    <2> HIDE DEF o1, o2
    <2>3. Asked(o1) /\ Asked(o2)
      BY <2>1 DEF Asked, RunKinds
    <2> QED BY <2>2, <2>3, AskSteps
  <1>3. ASSUME NEW c \in Cases, NEW kind \in {"linkDefect", "unlinkDefect"}, NEW d,
               ResolveResultCase(r, kind, c, d)
        PROVE  Steps(r)
    <2>1. pc[r] # "done" /\ UNCHANGED <<run, live, configs, changes>>
      BY <1>3 DEF ResolveResultCase
    <2>2. CASE \E status : Finish(r, status)
      BY <2>1, <2>2 DEF Steps, Answered
    <2>3. CASE ~\E status : Finish(r, status)
      <3> DEFINE o(p) == [NoOp EXCEPT !.kind = kind, !.case = c, !.defect = {d}, !.project = p]
      <3>1. PICK p : /\ op' = [op EXCEPT ![r] = o(p)]
                     /\ Goto(r, "waiting") /\ UNCHANGED <<answer, etag, next, summary>>
        BY <1>3, <2>3 DEF ResolveResultCase
      <3>2. o(p).kind = kind
        BY DEF NoOp
      <3> HIDE DEF o
      <3>3. Asked(o(p))
        BY <3>2 DEF Asked, RunKinds
      <3> QED BY <2>1, <3>1, <3>3 DEF Steps, IsAsked
    <2> QED BY <2>2, <2>3
  <1>4. ASSUME NEW k \in Configs, LinkConfigurationToRun(r, k) \/ UnlinkConfigurationFromRun(r, k)
        PROVE  Steps(r)
    <2> DEFINE o1 == [NoOp EXCEPT !.kind = "linkConfig", !.config = {k}]
               o2 == [NoOp EXCEPT !.kind = "unlinkConfig", !.config = {k}]
    <2>1. o1.kind = "linkConfig" /\ o1.config = {k} /\ o2.kind = "unlinkConfig"
      BY DEF NoOp
    <2>2. AskIf(r, o1, FALSE) \/ AskIf(r, o2, FALSE)
      BY <1>4 DEF LinkConfigurationToRun, UnlinkConfigurationFromRun
    <2> HIDE DEF o1, o2
    <2>3. Asked(o1) /\ Asked(o2)
      BY <2>1 DEF Asked, RunKinds
    <2> QED BY <2>2, <2>3, AskSteps
  <1>5. ASSUME NEW report \in Reports, ImportResults(r, report)
        PROVE  Steps(r)
    <2> DEFINE o == [NoOp EXCEPT !.kind = "import", !.report = report]
    <2>1. o.kind = "import" /\ o.report = report
      BY DEF NoOp
    <2>2. AskIf(r, o, ReportRefused(report))
      BY <1>5 DEF ImportResults
    <2> HIDE DEF o
    <2>3. CASE \E status : Finish(r, status)
      BY <2>2, <2>3 DEF AskIf, Steps, Answered
    <2>4. CASE ~\E status : Finish(r, status)
      <3>1. ~ReportRefused(report)
        BY <2>2, <2>4 DEF AskIf
      <3>2. Asked(o)
        BY <2>1, <3>1 DEF Asked, RunKinds
      <3> QED BY <2>2, <3>2, AskSteps
    <2> QED BY <2>3, <2>4
  <1>6. ASSUME NEW body \in Bodies, PutRun(r, body) \/ CreateRun(r, body)
        PROVE  Steps(r)
    <2> DEFINE o1 == [NoOp EXCEPT !.kind = "put", !.body = body]
               o2 == [NoOp EXCEPT !.kind = "create", !.body = body]
    <2>1. o1.kind = "put" /\ o1.body = body
      BY DEF NoOp
    <2>2. o2.kind = "create" /\ o2.body = body
      BY DEF NoOp
    <2>3. AskIf(r, o1, FALSE) \/ AskIf(r, o2, FALSE)
      BY <1>6 DEF PutRun, CreateRun
    <2> HIDE DEF o1, o2
    <2>4. Asked(o1) /\ Asked(o2)
      BY <2>1, <2>2 DEF Asked, RunKinds
    <2> QED BY <2>3, <2>4, AskSteps
  <1>7. ASSUME AddSuiteToRun(r) \/ DeleteRun(r)
        PROVE  Steps(r)
    <2> DEFINE o(k) == [NoOp EXCEPT !.kind = k]
    <2>1. \A k : o(k).kind = k
      BY DEF NoOp
    <2>2. AskIf(r, o("addSuite"), FALSE) \/ AskIf(r, o("delete"), FALSE)
      BY <1>7 DEF AddSuiteToRun, DeleteRun
    <2> HIDE DEF o
    <2>3. Asked(o("addSuite")) /\ Asked(o("delete"))
      BY <2>1 DEF Asked, RunKinds
    <2> QED BY <2>2, <2>3, AskSteps
  <1>8. ASSUME GetRun(r) PROVE Steps(r)
    BY <1>8 DEF GetRun, Steps, MovesOn, Phases
  <1> QED BY <1>1, <1>2, <1>3, <1>4, <1>5, <1>6, <1>7, <1>8
          DEF Client, LinkDefectToCase, UnlinkDefectFromCase

\* What the server does with a request, and a crash.
LEMMA ServerSteps ==
    ASSUME IInv, NEW r \in Requests, Server(r) \/ Crash(r), UNCHANGED changes
    PROVE  Steps(r)
  <1>1. CASE AcquireLock(r)
    BY <1>1 DEF AcquireLock, Steps, MovesOn, Phases
  <1>2. CASE LockTimeout(r) \/ Crash(r)
    BY <1>2 DEF LockTimeout, Crash, Steps, Answered
  <1>3. ASSUME NEW status, Refuse(r, status) PROVE Steps(r)
    BY <1>3 DEF Refuse, Steps, Answered
  <1>4. ASSUME NEW new, Prepare(r, new), op[r].kind # "import", UNCHANGED summary,
               pc[r] = "locked"
        PROVE  Steps(r)
    BY <1>4 DEF Prepare, Steps, MovesOn, Phases
  <1>5. ASSUME NEW kind, kind # "import", NEW refused, NEW status, NEW new,
               MutateRun(r, kind, refused, status, new)
        PROVE  Steps(r)
    BY <1>3, <1>4, <1>5 DEF MutateRun, Locked
  <1>6. CASE \/ Record(r) \/ Replace(r) \/ Remove(r) \/ AttachCase(r) \/ AttachSuite(r)
             \/ LinkConfig(r) \/ UnlinkConfig(r) \/ MergeRun(r)
    <2>1. PICK kind \in RunKinds \ {"import"} : \E refused, status, new : MutateRun(r, kind, refused, status, new)
      <3> HIDE DEF MutateRun
      <3>1. {"record", "replace", "remove", "addCase", "addSuite", "linkConfig", "unlinkConfig", "put"}
              \subseteq RunKinds \ {"import"}
        BY DEF RunKinds
      <3> QED BY <1>6, <3>1 DEF Record, Replace, Remove, AttachCase, AttachSuite, LinkConfig, UnlinkConfig, MergeRun
    <2> QED BY <1>5, <2>1
  <1>7. CASE Import(r)
    <2>1. CASE Refuse(r, "missing")
      BY <1>3, <2>1
    <2>2. CASE ~Refuse(r, "missing")
      BY <1>7, <2>2 DEF Import, Locked, Prepare, Steps, Imports
    <2> QED BY <2>1, <2>2
  <1>8. CASE CreateAt(r) \/ AttachDefect(r) \/ DetachDefect(r)
    BY <1>3, <1>4, <1>8 DEF CreateAt, AttachDefect, DetachDefect, Locked
  <1>9. CASE DeleteAt(r) \/ WriteDocument(r)
    <2>1. lock = r
      BY <1>9 DEF DeleteAt, WriteDocument, Locked, IInv, LockInv
    <2> QED BY <1>9, <2>1 DEF DeleteAt, WriteDocument, Steps, Answered
  <1> QED BY <1>1, <1>2, <1>6, <1>7, <1>8, <1>9 DEF Server

\* What a step of a request does to the requests and to the summaries.
LEMMA StepsContent ==
    ASSUME IInv, ContentInv, NEW r \in Requests, Steps(r)
    PROVE  /\ summary' \in [Requests -> [imported : Nat, duplicates : Nat, errors : Nat]]
           /\ \A q \in Requests : Asked(op'[q]) /\ SummaryOK(q)' /\ AnswerOK(q)'
  <1> DEFINE Sums == [imported : Nat, duplicates : Nat, errors : Nat]
  <1>0. /\ summary \in [Requests -> Sums] /\ \A q \in Requests : Asked(op[q]) /\ SummaryOK(q) /\ AnswerOK(q)
        /\ PerRequest(op) /\ pc \in [Requests -> Phases] /\ ShapeInv
        /\ \A q \in Requests : pc[q] = "write" => lock = q
    BY DEF ContentInv, TypeOK, IInv, ShapeInv, LockInv
  <1>1. CASE Answered(r)
    <2>1. PICK status : Finish(r, status)
      BY <1>1 DEF Answered
    <2>2. /\ pc'[r] = "done" /\ op'[r] = NoOp /\ OthersKept(r)
          /\ \A q \in Requests \ {r} : answer'[q] = answer[q]
      BY <1>0, <2>1, Finished
    <2>3. Asked(NoOp)
      BY DEF NoOp, Asked, RunKinds
    <2>4. NoSummary \in Sums
      BY DEF NoSummary
    <2>5. summary' = [summary EXCEPT ![r] = NoSummary]
      BY <2>1 DEF Finish
    <2>6. ASSUME NEW q \in Requests PROVE Asked(op'[q]) /\ SummaryOK(q)' /\ AnswerOK(q)'
      <3>1. CASE q = r
        BY <2>2, <2>3, <3>1 DEF SummaryOK, AnswerOK
      <3>2. CASE q # r
        <4>1. op'[q] = op[q] /\ pc'[q] = pc[q] /\ summary'[q] = summary[q] /\ answer'[q] = answer[q]
          BY <1>0, <2>2, <2>5, <3>2 DEF OthersKept
        <4>2. pc[q] = "write" => run' = run
          BY <1>0, <1>1, <3>2 DEF Answered
        <4> QED BY <1>0, <4>1, <4>2 DEF SummaryOK, AnswerOK
      <3> QED BY <3>1, <3>2
    <2> QED BY <1>0, <2>4, <2>5, <2>6
  <1>2. CASE IsAsked(r)
    <2>1. PICK o : Asked(o) /\ op' = [op EXCEPT ![r] = o]
      BY <1>2 DEF IsAsked
    <2>2. /\ pc' = [pc EXCEPT ![r] = "waiting"] /\ UNCHANGED <<run, summary, answer>>
          /\ pc[r] # "done"
      BY <1>2 DEF IsAsked, Goto
    <2>3. op'[r] = o /\ \A q \in Requests \ {r} : op'[q] = op[q]
      BY <1>0, <2>1 DEF PerRequest
    <2>4. pc'[r] = "waiting" /\ \A q \in Requests \ {r} : pc'[q] = pc[q]
      BY <1>0, <2>2
    <2>5. ASSUME NEW q \in Requests PROVE Asked(op'[q]) /\ SummaryOK(q)' /\ AnswerOK(q)'
      <3>1. CASE q = r
        BY <1>0, <2>1, <2>2, <2>3, <2>4, <3>1 DEF SummaryOK, AnswerOK
      <3>2. CASE q # r
        BY <1>0, <2>2, <2>3, <2>4, <3>2 DEF SummaryOK, AnswerOK
      <3> QED BY <3>1, <3>2
    <2> QED BY <1>0, <2>2, <2>5
  <1>3. CASE MovesOn(r)
    <2>1. PICK phase \in Phases : pc' = [pc EXCEPT ![r] = phase] /\ (phase = "write" => op[r].kind # "import")
      BY <1>3 DEF MovesOn, Goto
    <2>2. pc[r] # "done" /\ UNCHANGED <<run, summary, answer, op>>
      BY <1>3 DEF MovesOn
    <2>3. pc'[r] = phase /\ \A q \in Requests \ {r} : pc'[q] = pc[q]
      BY <1>0, <2>1
    <2>5. ASSUME NEW q \in Requests PROVE Asked(op'[q]) /\ SummaryOK(q)' /\ AnswerOK(q)'
      <3>1. CASE q = r
        BY <1>0, <2>1, <2>2, <2>3, <3>1 DEF SummaryOK, AnswerOK
      <3>2. CASE q # r
        BY <1>0, <2>2, <2>3, <3>2 DEF SummaryOK, AnswerOK
      <3> QED BY <3>1, <3>2
    <2> QED BY <1>0, <2>2, <2>5
  <1>4. CASE Imports(r)
    <2> DEFINE new == ImportSummary(run, op[r].report)
    <2>1. /\ pc' = [pc EXCEPT ![r] = "write"] /\ op[r].kind = "import" /\ run # NoRun
          /\ summary' = [summary EXCEPT ![r] = new] /\ UNCHANGED <<run, answer, op>>
          /\ pc[r] # "done"
      BY <1>4 DEF Imports, Goto
    <2>2. op[r].report \in Reports /\ ~ReportRefused(op[r].report)
      BY <1>0, <2>1 DEF Asked
    <2>3. IsDocument(run) /\ DOMAIN run.results \subseteq Cases
      BY <1>0, <2>1 DEF ShapeInv, ContentInv, TypeOK, IsRun, IsResults
    <2>4. new \in Sums
      BY <2>2, <2>3, SummaryFacts
    <2>6. summary'[r] = new /\ \A q \in Requests \ {r} : summary'[q] = summary[q] /\ pc'[q] = pc[q]
      <3> HIDE DEF new
      <3> QED BY <1>0, <2>1
    <2>7. new' = new
      BY <2>1 DEF ImportSummary, Imported
    <2>5. ASSUME NEW q \in Requests PROVE Asked(op'[q]) /\ SummaryOK(q)' /\ AnswerOK(q)'
      <3>1. CASE q = r
        BY <1>0, <2>1, <2>6, <2>7, <3>1 DEF SummaryOK, AnswerOK
      <3>2. CASE q # r
        BY <1>0, <2>1, <2>6, <3>2 DEF SummaryOK, AnswerOK
      <3> QED BY <3>1, <3>2
    <2> HIDE DEF new
    <2> QED BY <1>0, <2>1, <2>4, <2>5
  <1> QED BY <1>1, <1>2, <1>3, <1>4 DEF Steps

\* Every step keeps what is stored, asked and answered as it should be.
LEMMA ContentNext == IInv /\ IInv' /\ ContentInv /\ [Next]_vars => ContentInv'
  <1> SUFFICES ASSUME IInv, IInv', ContentInv, [Next]_vars PROVE ContentInv'
    OBVIOUS
  <1> DEFINE Sums == [imported : Nat, duplicates : Nat, errors : Nat]
             Numbers == 0 .. MaxVersion
  <1>1. /\ summary \in [Requests -> Sums] /\ \A q \in Requests : Asked(op[q]) /\ SummaryOK(q) /\ AnswerOK(q)
        /\ live \in [Cases -> [Projects -> Numbers]] /\ configs \subseteq Configs
        /\ changes \in 0 .. MaxChanges /\ TypeOK /\ MaxVersion \in Nat /\ MaxChanges \in Nat
    BY RunsAssumption DEF ContentInv, TypeOK
  <1>2. run' = NoRun \/ IsRun(run')
    <2>1. CASE run' = run
      BY <1>1, <2>1 DEF TypeOK
    <2>2. CASE run' # run
      <3>1. PICK r \in Requests : \/ pc[r] = "write" /\ ~OfCase(r) /\ run' = next[r]
                                  \/ run' = NoRun
        BY <2>2, RunChanges
      <3> QED BY <3>1, PublishedRun
    <2> QED BY <2>1, <2>2
  <1>3. /\ live' \in [Cases -> [Projects -> Numbers]] /\ configs' \subseteq Configs
        /\ changes' \in 0 .. MaxChanges /\ summary' \in [Requests -> Sums]
        /\ \A q \in Requests : Asked(op'[q]) /\ SummaryOK(q)' /\ AnswerOK(q)'
    <2>1. CASE \E r \in Requests : (Client(r) \/ Server(r) \/ Crash(r)) /\ UNCHANGED changes
      <3>1. PICK r \in Requests : Steps(r)
        BY <2>1, ClientSteps, ServerSteps
      <3>2. UNCHANGED <<live, configs, changes>>
        BY <3>1 DEF Steps, Answered, IsAsked, MovesOn, Imports
      <3> QED BY <1>1, <3>1, <3>2, StepsContent
    <2>2. ASSUME UNCHANGED <<run, pc, op, summary, answer>>,
                 live' \in [Cases -> [Projects -> Numbers]], configs' \subseteq Configs,
                 changes' \in 0 .. MaxChanges
          PROVE  /\ summary' \in [Requests -> Sums]
                 /\ \A q \in Requests : Asked(op'[q]) /\ SummaryOK(q)' /\ AnswerOK(q)'
      <3>1. ASSUME NEW q \in Requests PROVE Asked(op'[q]) /\ SummaryOK(q)' /\ AnswerOK(q)'
        BY <1>1, <2>2 DEF SummaryOK, AnswerOK
      <3> QED BY <1>1, <2>2, <3>1
    <2>3. ASSUME NEW kind, Change(kind) PROVE changes' \in 0 .. MaxChanges
      BY <1>1, <2>3 DEF Change
    <2>4. ASSUME NEW c \in Cases, NEW p \in Projects, EditCase(c, p)
          PROVE  live' \in [Cases -> [Projects -> Numbers]]
      BY <1>1, <2>4 DEF EditCase
    <2>5. ASSUME NEW c \in Cases, NEW p \in Projects, RemoveCase(c, p)
          PROVE  live' \in [Cases -> [Projects -> Numbers]]
      BY <1>1, <2>5 DEF RemoveCase
    <2>6. ASSUME NEW c \in Cases, NEW p \in Projects, NEW s \in Projects, CopyCase(c, p, s)
          PROVE  live' \in [Cases -> [Projects -> Numbers]]
      BY <1>1, <2>6 DEF CopyCase
    <2> HIDE DEF Numbers
    <2>7. CASE \E c \in Cases, p \in Projects :
                 EditCase(c, p) \/ RemoveCase(c, p) \/ \E q \in Projects : CopyCase(c, p, q)
      <3>1. UNCHANGED <<run, pc, op, summary, answer, configs>> /\ \E kind : Change(kind)
        BY <2>7 DEF EditCase, RemoveCase, CopyCase
      <3>2. live' \in [Cases -> [Projects -> Numbers]]
        BY <2>7, <2>4, <2>5, <2>6
      <3>3. changes' \in 0 .. MaxChanges
        BY <2>3, <3>1
      <3> QED BY <1>1, <2>2, <3>1, <3>2, <3>3
    <2>8. CASE \E k \in Configs : RemoveConfig(k)
      <3>1. UNCHANGED <<run, pc, op, summary, answer, live>> /\ Change("removeConfig") /\ configs' \subseteq configs
        BY <2>8 DEF RemoveConfig
      <3>3. changes' \in 0 .. MaxChanges /\ configs' \subseteq Configs
        BY <1>1, <2>3, <3>1
      <3> QED BY <1>1, <2>2, <3>1, <3>3
    <2>9. CASE UNCHANGED vars
      <3>1. UNCHANGED <<run, pc, op, summary, answer, live, configs, changes>>
        BY <2>9 DEF vars
      <3> QED BY <1>1, <2>2, <3>1
    <2> QED BY <2>1, <2>7, <2>8, <2>9 DEF Next, AllAnswered
  <1>4. /\ lock' \in Requests \union {NoOne} /\ pc' \in [Requests -> Phases]
        /\ links' \in [Cases -> [Projects -> SUBSET Links]]
    BY DEF IInv, ShapeInv
  <1>5. \A c \in Cases, p \in Projects : links'[c][p] \subseteq Links
    BY <1>4
  <1>6. \A q \in Requests : op'[q].kind \in RunKinds
    BY <1>3 DEF Asked
  <1>7. TypeOK'
    BY <1>2, <1>3, <1>4, <1>5, <1>6 DEF TypeOK, Phases, Links
  <1> QED BY <1>3, <1>7 DEF ContentInv

\* A volume no request has touched yet.
LEMMA ContentInit == Init => ContentInv
  <1> SUFFICES ASSUME Init PROVE ContentInv
    OBVIOUS
  <1>1. IsDocument(NewRun) /\ IsRun(NewRun)
    BY RunParts DEF NewRun, Nothing, IsVersions, IsResults, IsDocument
  <1>2. live \in [Cases -> [Projects -> 0 .. MaxVersion]]
    BY RunsAssumption DEF Init
  <1>3. run = NoRun \/ IsRun(run)
    <2>1. ASSUME NEW c \in Cases, NEW s \in Statuses,
                 run = UpsertResult(CaptureCaseVersion(AttachSuiteToRun(NewRun, SuiteSnapshot), c, 1),
                                    c, s, Clear)
          PROVE  IsRun(run)
      <3> DEFINE d == NewRun
                 e == [d EXCEPT !.suites = d.suites \union {SuiteSnapshot}]
      <3>1. AttachSuiteToRun(d, SuiteSnapshot) = e
        BY <1>1 DEF AttachSuiteToRun, IsDocument
      <3> HIDE DEF d
      <3>2. IsDocument(d) /\ IsRun(d)
        BY <1>1 DEF d
      <3>3. /\ IsDocument(e) /\ e.results = d.results /\ e.cases = d.cases /\ e.pins = d.pins /\ e.projects = d.projects
            /\ e.suites = d.suites \union {SuiteSnapshot} /\ e.configs = d.configs
        BY <3>2 DEF IsDocument
      <3>4. IsVersions(SuiteSnapshot)
        BY <1>2, RunsAssumption DEF SuiteSnapshot, IsVersions
      <3> HIDE DEF e
      <3>5. IsRun(e)
        BY <3>2, <3>3, <3>4, RunParts
      <3>6. IsRun(CaptureCaseVersion(e, c, 1)) /\ IsDocument(CaptureCaseVersion(e, c, 1))
        BY <3>3, <3>5, CaptureRun
      <3>7. IsRun(UpsertResult(CaptureCaseVersion(e, c, 1), c, s, Clear))
        BY <3>6, UpsertRun
      <3> QED BY <2>1, <3>1, <3>7 DEF d
    <2>2. ASSUME NEW body \in Bodies PROVE IsRun(Merge(NewRun, body))
      BY BodiesAssumption
    <2> QED BY <2>1, <2>2 DEF Init
  <1>4. Asked(NoOp)
    BY DEF NoOp, Asked, RunKinds
  <1>5. ASSUME NEW r \in Requests PROVE Asked(op[r]) /\ SummaryOK(r) /\ AnswerOK(r)
    BY <1>4 DEF Init, SummaryOK, AnswerOK
  <1>6. NoSummary \in [imported : Nat, duplicates : Nat, errors : Nat]
    BY DEF NoSummary
  <1>7. TypeOK
    <2>1. \A r \in Requests : op[r].kind \in RunKinds
      BY <1>5 DEF Asked
    <2> QED BY <1>2, <1>3, <1>6, <2>1, RunsAssumption DEF TypeOK, Init
  <1> QED BY <1>5, <1>7 DEF ContentInv

\* In every reachable state each field of the run has the type its model gives it,
\* whatever bodies stored in it, and an import about to publish has the right
\* summary (validate_payload, apply_patch, store_imported_results).
THEOREM Content == Spec => []ContentInv
  BY Invariant, ContentInit, ContentNext, PTL DEF Spec

\* A result a publication changes, other than by the body of a PUT: its status is
\* one there is, and it is the first and only entry that was touched.
LEMMA PublishedResult ==
    ASSUME IInv, ContentInv, NEW r \in Requests, pc[r] = "write", ~OfCase(r), run # NoRun,
           NEW c \in DOMAIN next[r].results, Result(run, c) # Result(next[r], c),
           ~(op[r].kind = "put" /\ op[r].body.results # Keep)
    PROVE  /\ next[r].results[c][1].status \in Statuses \union ImportStatuses
           /\ Tail(next[r].results[c]) =
                IF c \in DOMAIN run.results THEN Tail(run.results[c]) ELSE <<>>
  <1> DEFINE o == op[r]
             d == next[r]
  <1>0. Publishes(r, d) /\ Asked(o) /\ TypeOK /\ IsDocument(run) /\ IsRun(run)
    BY DEF IInv, ShapeInv, WriteOK, ContentInv, TypeOK
  <1>1. \/ o.kind \in {"record", "replace", "remove"} /\ o.case = c
        \/ o.kind = "import" /\ c \in Reported(Parse(o.report)) \ DOMAIN run.results
    BY PublishFacts
  <1>2. CASE o.kind = "record" /\ o.case = c
    <2> DEFINE e == CaptureCaseVersion(run, c, VersionSeen(c))
    <2>1. d = UpsertResult(e, c, o.status, o.note)
      BY <1>0, <1>2 DEF Publishes
    <2>2. c \in Cases /\ o.status \in Statuses /\ o.note \in Notes \union {Keep, Clear}
      BY <1>0, <1>2 DEF Asked
    <2>3. VersionSeen(c) \in Nat
      BY <1>0, <2>2, VersionFacts
    <2>4. IsRun(e) /\ IsDocument(e) /\ e.results = run.results
      BY <1>0, <2>2, <2>3, CaptureRun, CaptureFacts
    <2> HIDE DEF e
    <2>5. /\ d.results[c][1].status = o.status
          /\ Tail(d.results[c]) = IF c \in DOMAIN e.results THEN Tail(e.results[c]) ELSE <<>>
      BY <2>1, <2>2, <2>4, UpsertRun
    <2> QED BY <2>2, <2>4, <2>5
  <1>3. CASE o.kind = "replace" /\ o.case = c
    <2>1. d = ReplaceResult(run, c, o.status, o.note)
      BY <1>0, <1>3 DEF Publishes
    <2>2. c \in Cases /\ o.status \in Statuses /\ o.note \in Notes \union {Keep, Clear}
      BY <1>0, <1>3 DEF Asked
    <2>3. /\ DOMAIN d.results = DOMAIN run.results
          /\ c \in DOMAIN run.results => /\ d.results[c][1].status = o.status
                                        /\ Tail(d.results[c]) = Tail(run.results[c])
      BY <1>0, <2>1, <2>2, ReplaceRun
    <2> QED BY <2>2, <2>3
  <1>4. CASE o.kind = "remove" /\ o.case = c
    <2>1. d = RemoveResult(run, c)
      BY <1>0, <1>4 DEF Publishes
    <2>2. DOMAIN d.results = DOMAIN run.results \ {c}
      BY <1>0, <2>1 DEF RemoveResult, IsDocument
    <2> QED BY <2>2
  <1>5. CASE o.kind = "import" /\ c \in Reported(Parse(o.report)) \ DOMAIN run.results
    <2>1. d = StoreImportedResults(run, Parse(o.report)) /\ Parse(o.report) \in Seq(Parsed)
      BY <1>0, <1>5, ParseFacts DEF Publishes, Asked
    <2>2. c \in Imported(run, Parse(o.report))
      BY <1>5 DEF Imported
    <2>3. d.results[c][1].status \in ImportStatuses /\ Tail(d.results[c]) = <<>>
      BY <1>0, <2>1, <2>2, ImportRun
    <2> QED BY <1>5, <2>3
  <1> QED BY <1>1, <1>2, <1>3, <1>4, <1>5

\* ResultsSound: the stored run has the types of its model; a publication changes
\* only the results its request is about (mutate_run), and, unless it is a PUT that
\* carries results, to a known status and without doubling a case; the summary an import answers with
\* accounts for every entry of the report and every result the run gained
\* (store_imported_results); and a conditional PUT replaced the run it names.
THEOREM Results == Spec => ResultsSound
  <1>1. ASSUME IInv, ContentInv, [Next]_vars, NEW r \in Requests, Writer(r),
               op[r].kind = "import", answer'[r] = "ok"
        PROVE  /\ summary[r].imported =
                    Cardinality(DOMAIN run'.results) - Cardinality(DOMAIN run.results)
               /\ summary[r].imported + summary[r].duplicates + summary[r].errors
                    = Len(op[r].report.entries)
    <2>1. pc[r] = "write" /\ answer[r] = "none"
      BY <1>1 DEF Writer, ContentInv, AnswerOK
    <2>2. WriteDocument(r)
      BY <1>1, <2>1, Succeeded, SMTT(40)
    <2>3. run' = next[r] /\ next[r] = StoreImportedResults(run, Parse(op[r].report)) /\ run # NoRun
      BY <1>1, <2>1, <2>2 DEF WriteDocument, OfCase, IInv, WriteOK, Publishes
    <2>4. summary[r] = ImportSummary(run, op[r].report)
      BY <1>1, <2>1 DEF ContentInv, SummaryOK
    <2>5. op[r].report \in Reports /\ ~ReportRefused(op[r].report)
      BY <1>1 DEF ContentInv, Asked
    <2>6. IsDocument(run) /\ DOMAIN run.results \subseteq Cases
      BY <1>1, <2>3 DEF IInv, ShapeInv, ContentInv, TypeOK, IsRun, IsResults
    <2> QED BY <2>3, <2>4, <2>5, <2>6, SummaryFacts
  <1>2. IInv /\ ContentInv /\ [Next]_vars =>
          [\A r \in Requests :
              Writer(r) /\ op[r].kind = "import" /\ answer'[r] = "ok" =>
                /\ summary[r].imported =
                     Cardinality(DOMAIN run'.results) - Cardinality(DOMAIN run.results)
                /\ summary[r].imported + summary[r].duplicates + summary[r].errors
                     = Len(op[r].report.entries)]_vars
    BY <1>1
  <1>3. Spec => ImportAccounted
    BY <1>2, Invariant, Content, PTL DEF Spec, ImportAccounted
  <1>4. ContentInv => TypeOK
    BY DEF ContentInv
  <1>5. Spec => []TypeOK
    BY <1>4, Content, PTL
  <1>6. ASSUME IInv, ContentInv, [Next]_vars, run # NoRun, run' # NoRun, run' # run,
               NEW c \in DOMAIN run'.results
        PROVE  \/ Result(run, c) = Result(run', c)
               \/ \E r \in Requests : Writer(r) /\ op[r].kind = "put" /\ op[r].body.results # Keep
               \/ /\ run'.results[c][1].status \in Statuses \union ImportStatuses
                  /\ Tail(run'.results[c]) =
                       IF c \in DOMAIN run.results THEN Tail(run.results[c]) ELSE <<>>
    <2>1. PICK r \in Requests : lock = r /\ pc[r] = "write" /\ ~OfCase(r) /\ run' = next[r]
      BY <1>6, RunChanges
    <2> QED BY <1>6, <2>1, PublishedResult DEF Writer
  <1>7. IInv /\ ContentInv /\ [Next]_vars =>
          [run # NoRun /\ run' # NoRun =>
             \A c \in DOMAIN run'.results :
                \/ Result(run, c) = Result(run', c)
                \/ \E r \in Requests : Writer(r) /\ op[r].kind = "put" /\ op[r].body.results # Keep
                \/ /\ run'.results[c][1].status \in Statuses \union ImportStatuses
                   /\ Tail(run'.results[c]) =
                        IF c \in DOMAIN run.results THEN Tail(run.results[c]) ELSE <<>>]_run
    BY <1>6
  <1>8. Spec => ResultsWellFormed
    BY <1>7, Invariant, Content, PTL DEF Spec, ResultsWellFormed
  <1> QED BY <1>3, <1>5, <1>8, Independent, ConditionalPut, PTL DEF ResultsSound
=============================================================================
