# TLA+ models of the TatuTest API

The TatuTest API (`src/`) is a test-case management service: a Rust/Axum server that keeps
projects, suites, cases, runs and accounts as JSON files on one volume, without a database.
Everything that makes it correct under load is therefore its own work: one advisory lock file,
temporary files renamed into place, look-ups made before the lock, two-file updates, a cache in
front, a pool of threads whose work outlives the request that asked for it, and several processes
(replicas, the seeding commands) on the same volume. This project models that work, checks it with
TLC on small instances, and proves the safety of every modelled component with TLAPS for instances of
any size.

All paths below are relative to `src/src/` unless they say otherwise.

## The system

### Parts, their state and their operations

| Part | State | Operations | What makes it correct |
| --- | --- | --- | --- |
| File repository (`storage/fs`) | folders with a marker document; `.tatu.lock` | create, transform, delete, place, attachments, revisions | a write is one critical section; readers see whole documents; a crash leaves the old or the new document |
| Case documents and history (`storage/fs/revisions.rs`, `domain/service/history.rs`, `revise_case`) | the case document, `revisions/v<n>.json` | PUT, attachment records, create, duplicate, delete, history | snapshots immutable and numbered right, no gap, no lost conditional update |
| Project tree (`domain/service/crud.rs`, `place_into`, `api/crud.rs`) | which folder holds which kind; grant file per project | create, delete, copy, move, delete project | one kind per name, nothing vanishes, no grants inherited from a former project of the name |
| Attachments (`storage/fs/attachments.rs`) | files, and records in the document | upload, download, delete | what the service lists is stored, what is stored and acknowledged stays |
| Runs (`domain/composition.rs`, `domain/service/composition.rs`) | results, pins, embedded copies, references; links on cases | record, replace, remove, import, add, link, PUT | concurrent mutations do not clobber one another; imports only add; pins are true and stay |
| Derivation cache (`domain/service/cache.rs`) | generation, entries with an age, per process | get, put, invalidate | an answer misses none of the replica's own writes but those acknowledged while it was computed; stale answers end |
| Accounts and sessions (`auth/session.rs`, `auth/store.rs`) | `users.json` with refresh tokens | login, refresh, logout, bootstrap | a refresh token is exchanged once, sessions neither fork nor return |
| Seeding commands (`auth/seed.rs`, `main.rs`) | accounts and grants | `seed-auth`, `unseed-auth`, its check | complete or repeatable; removes only what it names; tells the truth |
| Role checks (`api/access.rs`) | grant files, the homes of documents | a guard per route, list filters | a caller reads and writes within its roles; listings and reads agree |
| Reports (`domain/reports.rs`, `domain/progress.rs`, `domain/service/reporting.rs`) | none; they walk the tree | summary, coverage, last results, progress, names; a project read whole | what stayed is counted as often as it is asked for; figures add up; one cache key per question |
| Configuration and start-up (`config`, `auth/config.rs`, `main.rs`) | environment, optional file, key ring | resolve, open, bootstrap, bind | serves exactly as configured or refuses |
| Guardrails and the blocking pool (`api/guardrails.rs`, `api/mod.rs`) | permits, timer, parked work | arrive, park, answer, cut off, hang up, drain | no permit leaks; answers tell what happened; every request and every stop ends |
| Audit trail, metrics, readiness probe (`domain/service/audit.rs`, `api/metrics.rs`, `storage/fs/probe.rs`) | audit lines, span fields, counters, a scratch file | fill the span of an answer, one line per audited write and one about the grants a project's deletion revokes; probe | the trail and the probe say what is so |
| Passwords, token encoding, redaction, parsing of text | — | — | see *Not modelled* |

### How they interact

- A request runs on the blocking pool (`on_blocking`). It **looks things up without the lock** (the
  home of an identifier, the parent, the caller's role, the step an attachment belongs to), then
  waits for the lock, reads again what it will change, and publishes by rename.
- There is one lock file for the volume. `storage/fs` and `auth/store.rs` both use it, and so do the
  commands. A waiter gives up after a timeout and answers 503; the operating system frees the lock
  of a process that dies.
- Several operations need **more than one publication**: a qualifying update writes a snapshot and
  then the document; an attachment is a file and a record; a rotation spends a token and then
  records the new one; a project delete forgets the grants and then removes the folder; a move that
  cannot rename copies and then removes; a teardown removes grants and then the account.
- The request itself is a future behind layers: counter, actor, permit, timeout, body limit. Dropping
  the future (an answer, a cut-off, a hang-up) returns the permit at once; the closure it parked goes
  on, takes the lock, writes and logs in the name of the actor captured when it was parked.
- The role guard of a request **resolves an identifier and judges it; the operation resolves it
  again**. Reports and whole reads list and then read one document at a time, without any lock.
- A domain write ends by raising the generation of its own process's cache. Other replicas hear
  nothing; they rely on the age limit.

### What is hard here

Look-ups that are stale by the time the lock is held; the gap between two publications of one
operation, hit by a crash, a failing write or another request; races of requests that each passed
the same unlocked test; lock timeouts and retries of half-done work; work that outlives its request
and its server's stop; walks over a tree that changes under them; the cache's generation read at the
wrong time; limits and off-by-one at expiry and in calendar arithmetic. `PROJECT.json` lists each of
these at its line under `hazards`, with the property that covers it.

## The modules

| Module | Models | Extended by |
| --- | --- | --- |
| `CaseStore` | one case folder, its document and snapshots, any number of requests | `MCCaseStore`, `DocumentsProofs` |
| `CaseHistory` | the abstract promise: a live document and an append-only log of superseded ones | instantiated by `CaseStore`, which has the mapping |
| `ProjectTree` | projects, folders, kinds, reserved names, grant files | `MCProjectTree`, `ProjectTreeProofs` |
| `Attachments` | the files of one case and its steps against its document | `MCAttachments`, `AttachmentsProofs` |
| `Runs` | one run, the cases and configurations it refers to, the defect links | `MCRuns`, `RunsProofs` |
| `DerivationCache` | caches of several replicas over shared documents | `MCDerivationCache`, `ServiceProofs` |
| `Sessions` | `users.json`, refresh and access tokens, a clock | `MCSessions`, `SessionsProofs` |
| `Seeding` | seed, teardown and check commands over accounts and grants | `MCSeeding`, `SeedingProofs` |
| `Startup` | the settings a process derives from its environment: pure operators | `Service` |
| `Service` | one server process: start, guardrails, blocking pool, probe, audit, stop, restart | `MCService`, `ServiceProofs` |
| `Access` | every role guard, the operation behind it, the list filters | `MCAccess`, `AccessProofs` |
| `Reports` | the unlocked walks, what is computed from them, cache keys, dates | `MCReports`, `DocumentsProofs` |

A module named `...Proofs` holds the inductive invariant, the lemmas and the theorems about the modules
it extends (`ServiceProofs` a process and the cache it keeps, `DocumentsProofs` how case documents are
written and what reports make of run documents); one named `MC...` the instance TLC checks.

Conventions. Each module has one action per step that another actor can observe: an unlocked
look-up, taking the lock, each publication. `pc[r]` says where a request is, `op[r]` what it was
asked, `answer[r]` the status it got. A lock-holding step that publishes nothing is merged with the
read before it, because nobody can see between them. An operator that begins *A fault of ...* is an
altered form of the definition that follows it and is used by no specification (the newer modules
say it in words: *Commit that drops the error of a write*); it shows which mistake in the code a
property would catch. A property that is a conjunction of others says so; the parts stand above it.

### CaseStore

State: `doc` (the case document), `revs` (the `revisions` folder), `lock`, and per request the
document it read, the document it is about to publish and the ETag it carries. A document is
`[content, meta, version]`: `content` stands for the qualifying fields (`QUALIFYING_CASE_FIELDS`),
`meta` for all others, version 0 for a legacy document without one. An ETag is a digest of the
document, modelled as the document. `TransformAt` is `transform_at` with the closure of a PUT:
compare, merge, `revise_case`; `SaveRevision` and `WriteMarker` are the two renames.
`RecordTransform` is the attachment records' path, which writes the document without revising it.
`RemoveEntry` unlinks one entry of the folder, the document or a snapshot, in the order in which
`remove_dir_all` happens to meet them; `torn` remembers a removal begun and not completed. `Crash` and
`WriteFails` may strike between any two steps, so that a delete may leave any part of a folder.

### ProjectTree

`marker` is the set of projects with a `project.json`; `tree` gives the nodes (suite, case,
collection) of each folder below a project. A folder holding two nodes is a folder with two markers,
which the code means to exclude. A body is usable, unnamed, malformed or overlong, and only the
first gets past `ValidatePayload` and `DeriveCreateId`. A duplicate is a create whose source was read
before the lock. Cases inside suites live and die with the suite's folder.
`InParent` is `require_parent`; `Locate` the unlocked look-up of a bare identifier; `PlaceWrite` has
both the rename and the copy-then-remove path; `RemoveProjectEntry` removes a project folder entry
by entry. `grants` is the role of each user in each project's grant file. It is read by the deletion
guard, emptied by `revoke_project_grants`, and written by the seeding commands (`SeedGrant`,
`UnseedGrant`: an unlocked look, then `SetRole` or `RemoveRole` in a transaction of its own), which do
not ask whether the project exists; `Seeding` has the commands in full. `given` remembers, for the
property, who was granted a role by a command since the grants of the identifier were last forgotten.

### Attachments

`stored` is the set of files of the case folder (place 0) and of each `steps/<index>` folder;
`doc` lists names at the case and at structured steps. File names are unique per upload
(`stored_attachment_name` appends a random suffix), so a name is the request that uploaded it. An
upload reads its parts before it waits; a listing of a step's files is one unlocked read.
The body of a create or a PUT may list any names, at the case and at its steps (`Claims`), of files that
are stored, gone or never uploaded: nothing compares it with the folder. `claimed` remembers the names
a body was the first to list, `disturbed` that a body changed the list or that a request was cut
short between its two steps. A deletion of the case unlinks one entry at a time (`RemoveDirAll`,
`RemoveEntry`) and may stop anywhere; a create may then find files of the former case in its folder.

### Runs

`run` is the run document: the projects it names, embedded cases and suites as versions, results as
status and note, pinned versions, configuration references. The body of a create or a PUT may carry each
of these fields or leave it out (`Merge`); what it carries is deserialised and not looked at further,
so that a result may have any status and a case several results: `results` gives each case its
entries in the order of the array. `live` is the version of each case in each project and `links`
its defect links. The pure rules (`holds_case`, `capture_case_version`, `apply_patch`,
`upsert_result`, `replace_result`, `attach_*`, the import) are operators of the same name. A JUnit
report is its tags with their nesting (`MaxElementDepth` bounds it as in the code), a JSON report its
entries; `Parse` says which are refused, nameless or usable. A body with an unusable status, note or
defect is refused before the run is read.
Simplifications: configurations live in one project, the suite that may
be added holds the run's home project's cases, time stamps and durations are left out, role checks
are `Access`'s.

### DerivationCache

One key; a derived value is the version of every document it was computed from, read one at a time.
`Get` loads the generation first and then looks; `PutLoad` and `PutInsert` are the two halves of
`put`; `Write` and `Invalidate` the two halves of a domain write. `since`, `began` and `ended` remember
what the replica had acknowledged when the request came in, when the computation behind its answer
began, and when `put` loaded the generation for it.

### Sessions

`users` maps accounts to their live refresh tokens. A transaction is `Begin` (lock and read) and a
commit. A login is look-up, prune, insert; a rotation look-up, consume, insert; `Authenticate` and
`Me` verify an access token and look its account up. `session` and `gone`
remember from which sign-in a token descends and when an account was removed, for the properties
only. Signing is not modelled: an access token is its subject and its expiry.

### Seeding

A command is a process of its own; a store transaction or an unlocked read is one step. The check
(`report_account`) scans for orphaned grants first and looks the account up afterwards. `foreign`
remembers, for the properties, where someone else changed a grant since the command last looked.
The initial state has whatever earlier invocations, complete or cut short, may have left.

### Startup and Service

`Startup` is the configuration code as operators on `Ok(v)` and `Err(e)`: bounds, key ring, file
shape and version, encrypted values, the layering, durations, the signing secret. A text is reduced to
what its parser tells apart (`Unset`, `Blank`, `Junk`, a number, a span, ...).

`Service` takes one process through its start (each step may refuse, and what earlier steps did to the
volume stays), its requests, a stop or a kill, and the next start. `phase[r]` is the request's future,
`work[r]` the closure it parked; they part company when the future is dropped. A write may
be the deletion of a project: `AtWrite` then leads through the grant transaction (`TakeGrantLock`,
`RevokeGrants`) before the one that removes the folder, and `forgotten` has the deletions that revoked
something. `applied` counts how often the write reached the store, `trail` what is recorded of a
request: the fields of its span, its audit line, and the line about grants, which names no user.
`doubted` the probes during which
the volume was in trouble. Routes that park nothing, and reads, which hold nothing, are left out. A
missing volume does not come back by itself within a start. The span's fields are not a log line: the
subscriber of `main.rs` prints spans only with the events inside them, and the application's own error
events are left out. What the runtime does when it is dropped
(queued closures are discarded, running ones finish) and what `axum::serve` waits for are external.

### Access

A document is its kind, identifier, home project and the references the guards read. A request by
bare identifier resolves its home, is judged, and then acts, each step on the tree as it is by then;
`Elsewhere` and `Grant` are everybody else, and `moved` remembers what kind of thing they, or the other
requests of the model, changed under the request. Query filters of a listing are left out, roles are read in one step, and bodies carry no
null references.

### Reports

`docs` is the resource the report at hand walks: runs, suites, milestones and configurations, or the
children of a project read whole. A milestone's `runs` are a sequence, in which a run may be named
more than once, as in `testRunIds`. `walk` is how far the report is, `changed` which addresses were
written since it began. Summary, last results and progress are operators over what the walk saw;
cache keys are operators over identifiers as sequences of characters, because the question is whether
separators inside an identifier can confuse two keys; `CivilFromDays` is the integer arithmetic of
`format_iso8601`, `Iso8601Date` the first ten bytes of its text, and `Precedes` the order of texts by
which filters compare. Seconds are counted in days, because TLC's integers have 32 bits. Coverage's directly filed cases and totals are left out; freshness of a cached answer
is `DerivationCache`'s subject.

## The runs

Bounds are named constants of the modules. Every run enables every operation of its module, several
requests are in flight at once (in `access` and `reports` one request beside the writes of others),
and crashes, where the table names them, may end any request anywhere.

| Run | Instance | Shows |
| --- | --- | --- |
| `case_store` | 3 requests, 2 values of each field, legacy and versioned first documents, crashes and failing writes | isolation between read and rename; snapshots numbered right, immutable, without gaps; versions move by one whatever a body carries; no lost conditional update |
| `case_history` | 2 requests, no faults, fair | the store refines `CaseHistory` (`ImplementsHistory`); a snapshot is the document that was replaced and none is ahead (`HistoryExact`); every request is answered |
| `tree` | 3 requests, 2 projects, 2 free names and a reserved one, a user with or without a role, commands that grant and revoke, crashes | one kind per folder and nothing vanishes outside a delete (`EntriesKept`); a new project has only the grants a command gave its identifier since the former one's were forgotten (`FreshAccessList`) |
| `attachments` | 3 requests, up to 2 steps, 1 edit or creation with a body that lists no name or every name, deletions, crashes and failing writes | what no body claimed is listed only when stored and acknowledged, refused uploads leave nothing, list and files differ only after a body that changed the list or a request cut short (`FilesMatchCase`); acknowledged uploads stay (`UploadsStay`) |
| `runs` | 2 requests, 2 cases in 2 projects, reports of both formats, bodies with a case twice and an unknown status, with own copies and pins, 2 changes by others, crashes | no clobbered result, imports add only and account for every entry, conditional PUTs safe (`ResultsSound`); pins right and lasting (`PinsSound`); defect links unique and kept (`LinksSound`) |
| `cache_replicas` | 2 threads in one replica and 1 in another, 1 document, 2 writes, age limit 2, fair | an answer shows what its replica had acknowledged when its computation began, and misses of what was acknowledged before the request at most what came during that computation (`LocallyBounded`); stale answers end |
| `cache_race` (violation) | 2 threads in one replica, 2 documents | a value computed before a write is stored under the generation after it |
| `sessions` | 3 requests, 3 accounts, 4 tokens, a clock of 2 ticks, crashes | single use and no fork (`RotationSound`); no session lost or revived (`SessionsKept`); unique names, bounded authority of a removed account (`AccountsSound`) |
| `seeding` | 2 commands, 2 projects, 2 roles, an administrator, a left-over account, 1 project deletion | complete seeds, honest teardowns and checks (`ReportsHonest`); confined teardowns, grants before the account (`TeardownBounded`) |
| `service` | a writer and a probe, 2 pool threads, 2 starts, 37 environments, 1 change of the volume's health, fair | `ServesAsConfigured`; permits neither leak nor multiply; an answer tells whether the write is in the store; orphaned work belongs to cut-off or departed requests; audit lines, spans and counters true; probes honest; requests and stops end |
| `access` | 1 request among the writes and grants of others, 2 projects sharing an identifier, an account and an administrator, at most 2 documents and 1 foreign change | reads and writes stay within the caller's roles unless what was judged changed meanwhile; a listing is exactly what reads would serve |
| `reports` | 2 projects sharing 2 identifiers, milestones with no run, one, and one named twice, 2 writes during the walk, a request of each shape, dates of 400 years | what stayed is counted once, or as often as the milestone names it; last results are last; buckets add up; keys and dates right |

**Why the bounds are enough to be interesting.** A race here is between two requests, a third is
there to observe, to hold the lock, or to retry after a crash; hence two or three. Content is
compared for equality only, so two values distinguish "same" from "changed", and interchangeable
values and requests are symmetric. Versions in `CaseStore` need no bound: each request makes at most
one update. `MAX_AGE = 2` allows an entry that is fresh, ageing and expired. Two clock ticks pass
both token lifetimes, including the instant of expiry. One edit or creation lets a case
that is deleted, or half deleted, be created again, or its steps and lists be replaced, under an upload
that is waiting. Two roles and two
projects let a grant be missing, differ, and be held where the command does not look. In `service` a
cap of 1 with two requests meets the limit and another environment has none, and two starts are what a second bootstrap needs; each
environment differs from a serving one at the boundary of one rule. In `access` one foreign change is
what can fall between a guard and its operation; two documents are a run or a milestone and what it
names, or one identifier in two homes. In `reports` two writes can move a document from a project
that is still to come to one already walked; 146097 days are one full era of the Gregorian calendar.

**Fairness.** `CaseStore` assumes weak fairness of each request's server steps: threads of the
blocking pool are scheduled, and a waiter for the lock can either take it or time out, so no fairness
between waiters is needed. `DerivationCache` assumes that threads with work proceed and that time
passes. `Service` assumes that the executor polls what is ready, the pool runs what it began and a
timer that is armed fires; nothing of clients, operators or the volume. Its two liveness properties ask
for a configured timeout wherever a body is still to come: with `TATU_REQUEST_TIMEOUT_MS=0` a body that
never arrives holds its permit and a graceful stop. Clients owe nothing. All other specifications are
safety only.

**Deadlock** is checked except in `access` and `reports`, where a request that has been answered has
nothing left to do; elsewhere the service idles when all requests are answered (`AllAnswered`, `Rest`).

## What is proved

Each theorem holds for every value of the constants that the `ASSUME`s of its module allow: any number
of requests, accounts, documents, projects, commands or starts, and with the faults of the module. The
assumptions say that sentinels are not values, that bounds and lifetimes are natural numbers, and that
the operations and faults are ones the model defines. These say more:

- the founding accounts of `Sessions` have distinct names; the requests of `Service`, the projects of
  `Seeding`, which a command lists, and the projects and identifiers of `Reports`, which a walk lists,
  are finitely many; identifiers of copies in `Access` are fresh;
- `BodiesAssumption` (`Runs`): the cases are finitely many; each field a body carries has the type of its
  model, with any text as a status and any number of results for a case; a report is a sequence of JSON entries or of test cases;
- `DocumentsAssumption` and `AskedAssumption` (`Reports`): a document that can be decoded holds finitely
  many cases and a sequence of results with a time each; a milestone's references are a sequence of
  identifiers; a request names projects;
- `NamesAssumption` (`Reports`): identifiers are texts of any characters; the decimal numeral of a length
  is that of one number, and no separator. It is all the proof needs to know of `ToString`;
- `DeploymentsAssumption` (`Service`): what a variable, a key file or a settings file holds is one of the
  shapes its parser tells apart.

The refinement and `SnapshotsAreThePast` have a hypothesis of their own (below).

Every safety theorem follows one argument. `IInv` holds initially and is kept by each action (one lemma
per action), and the property follows from `IInv`, or, for an action property, from `IInv` and the step.
TLC checked each `IInv` on the instance of the module's run before it was proved. The shared difficulty
is that requests run side by side, so `IInv` is mostly a predicate of one request, and a *frame* lemma
says once what a step of another request leaves of it.

| Theorem | States | What the invariant adds, and why it is needed |
| --- | --- | --- |
| `DocumentsProofs`: `TypeCorrect`, `WritesAreIsolated`, `SnapshotsAreFiledRight`, `HistoryHasNoGap`, `ConditionalUpdatesAreSafe`, `SnapshotsAreImmutable`, `VersionsMoveByOne` | the properties of `case_store` | `LockInv`, `OpInv`, `WriteInv` (below) |
| `DocumentsProofs`: `SnapshotsAreThePast`, `Refinement`, both for `Faults = {}` | `HistoryExact`, `ImplementsHistory` | `ExactInv`: only a running delete leaves the folder half removed (`RemovalInv`); a document to be published keeps the version, or changes the content, takes the next version and finds its predecessor in the snapshot (`SupersedeInv`); only such an update is ahead of the marker (`AheadInv`) |
| `SessionsProofs`: `Rotation`, `Accounting`, `Keeping` | `RotationSound`, `AccountsSound`, `SessionsKept` | a session is carried by one live token *or* by one rotation between its two transactions, never both (`PendingInv`); a consumed token is not live again (`SpentInv`); the lock's holder has read the file as it is (`LockInv`); no access token outlives the removal of its account by more than a lifetime (`AccessInv`) |
| `ServiceProofs`: `Permits`, `Telling`, `Orphans`, `Readiness`, `Logging` | `PermitsBoundRequests`, `AnswersTell`, `OrphansAreCutOff`, `ProbeHonest`, `TrailTruthful` | future and closure are followed separately (`WorkInv`, `OutcomeInv`, `AnswerInv`) because either may outlive the other; a probe at work on a volume in trouble is marked (`ProbeInv`); what is recorded at which stage, in whose name, a revocation before the removal it belongs to, and that the counters belong to the process that answered (`TrailInv`, `ActorInv`, `CountInv`) |
| `ServiceProofs`: `Configured` | `ServesAsConfigured` | what the steps of a start that lie behind it accepted (`BootInv`) |
| `ProjectTreeProofs`: `Entries`, `AccessLists` | `EntriesKept`, `FreshAccessList` | what was found free under the lock is free at the publication, and a move that copied has the same entry at both ends (`PlaceOK`); in a project that is gone, or whose removal is past its first transaction, only users a command granted a role since have one (`GrantInv`, `RevokedOK`) |
| `ServiceProofs`: `LocalAnswers` | `LocallyBounded` | a ledger of what each replica had acknowledged in each of its generations, which entries (`EntryOK`) and threads (`ThreadOK`) fit |
| `SeedingProofs`: `Reports`, `Teardown` | `ReportsHonest`, `TeardownBounded` | an account no command has created yet is stored, granted and worked on nowhere (`BornInv`); of the projects named, those not in the list still to visit are settled (`GrantOK`) |
| `AccessProofs`: `Listing`, `Serving`, `Writing` | `ListedIsReadable`, `ServedWithinReach`, `WritesWhereEntitled` | what a guard resolved and the verdict it gave stay true until a document of a kind it looks at, or a grant, changes (`HomeOK`, `ReadOK`, `EntitledOK`) |
| `RunsProofs`: `Results`, `Pins`, `DefectLinks` | `ResultsSound`, `PinsSound`, `LinksSound` | what is about to be published is the request's rule applied to what is stored *now* (`WriteOK`), because only the lock's holder publishes (`LockInv`); a case that is gone has no links, so that a copy overwrites none (`LinkInv`); an import's summary is that of the run it is about to replace (`ContentInv`) |
| `AttachmentsProofs`: `FilesMatch`, `Uploads` | `FilesMatchCase`, `UploadsStay` | while no body changed the list and nothing was cut short, folder and list differ by the one file the lock's holder is between storing and recording, or between removing and forgetting, or by what a deletion of the case has unlinked (`SyncInv`); an upload stores under its own name, at one place, and leaves a file only if it was acknowledged, is about to be recorded or was cut short (`RequestOK`); an unclaimed listed name is such an upload (`ListedWasUploaded`) |
| `DocumentsProofs`: `CountsStayed`, `Latest`, `Buckets`, `Calendar`, `Keys` | `CountsWhatStayed`, `LatestIsLatest`, `BucketsAddUp`, `DatesFollowCalendar`, `KeysTellApart` | in a walk over projects what is still to do, listed and read are disjoint (`SeenOnce`), and a document nobody touched is in one of them exactly if it belongs to the report (`ProjectsWalk`); in a walk over references the readings done and due add up to the times the run is named (`ReferencesWalk`) |

`Invariant` of a module is its `Spec => []IInv`; `CacheInvariant`, `ReportsInvariant` and `Content` are the
same for the cache, for reports and for what a run holds.

*CaseStore.* `GapFree` needs to know, at the rename that raises the version, that the snapshot of the old
one is there: that is the last clause of `WriteInv`, true because the snapshot is written first.
`WriteInv` in turn says that what is about to be published was merged into the document that is still
there, which only holds because nobody else is inside the critical section: `LockInv`. `OpInv` carries
what is known of a request's body from its arrival to its use. The action properties are proved from
`IInv` and two lemmas: `FileChanges` (which actions change the folder, and how) and `PutSucceeds` (a PUT
answered with success passed its comparison in the state it published from).

*The refinement.* `CaseStore` defines the mapping (`LiveView`, `PastView`): a folder being removed is a case
already gone, and a snapshot counts once the document it snapshots is superseded. Only three actions
change the files. Saving a snapshot is a stutter, because by `AheadInv` there was none under that version
and by the mapping it does not count yet; publishing the marker is `File`, `Revise` or `Amend`; the first entry
a delete removes is `Remove` and the others are stutters. The hypothesis `Faults = {}` cannot be dropped:
after a crash between snapshot and rename `AheadInv` is false, then `SupersedeInv`, as "Where code and text disagree"
describes, and a delete cut short leaves a case without its history.

*DerivationCache.* `LocallyExact`, the claim of `cache.rs:9`, is false as soon as two threads of a replica
race, as `cache_race` shows; `LocallyBounded` is what is left of it, for any number of threads. The
invariant says that a *ledger* exists: a function from generations to what the replica had acknowledged in
them. It exists because a write is acknowledged in the step that opens a generation. So the generation a
request loaded stands for what was acknowledged when it came in, and the generation of an entry for
what was acknowledged when `put` loaded it; a hit has the same generation on both sides, hence the
answer can miss only what was acknowledged between the start of its computation and that load. An entry
that was filled before a later write is of an earlier generation and never served.

*Access.* The theorem covers several guarded requests at once, where the run has one beside the writes
of others. `SameGuard` is the lemma everything rests on: a guard's verdict depends on the roles and on the
documents of its own kind, runs, suites and configurations, and on nothing else. It is what makes
the kinds listed in `WritesWhereEntitled` sufficient.

*Runs.* The run, the case versions and the links are read in one step and the document made of them is
published in another. `Publishes` states, for each operation, that the document is still what the
operation's rule makes of the stored state; it survives the steps of others because edits, copies and
removals of cases take the same lock. The properties are then about the rules alone (`PublishFacts`,
`LinkFacts`) and about who changes the run, the links and an answer (`RunChanges`, `LinksChange`,
`PutAnswered`). The account of an import (`ImportAccounted`) compares sizes: the cases
it counts as imported are in no result before and each in one after, so the run grows by exactly that
many; duplicates and errors are the rest of the cases mapped and of the entries read. What the loop over
the test cases of a JUnit report collects is shown one entry at a time.

*Attachments.* The file is stored before it is recorded and removed before it is forgotten, in two
publications under one lock. `disturbed` is where the agreement ends: a body that lists something else
than is stored, a crash or a failing write between the two, a deletion of the case cut short; a deletion
that reaches the last entry restores it. What is claimed of a name is claimed only where no body listed it
first. `UploadsStay` needs no such hypothesis, because a file goes only in a step of a deletion that names
it or of the deletion of its case, both under the lock.

*The start.* `SoundIsAccepted` is the heart of `Configured`: the operators of `Startup`, in the order the
code calls them (log settings, key ring, settings file, layering, lock timeout, layout, authentication,
limits), accept exactly the environments that `Sound` describes in the terms of the documentation, and
yield the documented values. It is proved parser by parser. `BootInv` then remembers which of them are
behind a start.

*Reports.* The walk is an induction over steps like the others; a milestone's references are counted, not
collected, since one may occur twice. The rest is about what operators compute.
`Calendar`: an era of 400 years is split into centuries, cycles and years, and it is shown where each
division in `CivilFromDays` steps, for every day, without bound; that the texts are in order is shown
digit by digit for years of four digits. `Latest`: the reduction's winner is the
first of the greatest. `Buckets`: the five sets of a progress are disjoint and cover what it counts.
`Keys`: a key can be read from the front. Where one key has the numeral of a length, so has the other,
hence the same one, and as many characters follow in both; where one scope ends, the other has a
separator, which no numeral is. So a scope and what follows it (`ScopeApart`) and an optional name and
what follows it (`OptionalApart`) can be told apart, whatever characters names hold; then there are as
many keys as requests.

*Induction over data.* The library's induction theorems take an operator as a parameter and cannot be
used here. Where a fact about a sequence or a recursive function needs induction, the proof takes the
least counterexample (`Least`, from the well-foundedness of the strict inclusion of finite sets, which
the library states without a parameter) and derives a contradiction from its predecessor.

### Only model-checked

- The liveness properties `EveryRequestAnswered`, `EventuallyFresh`, `EveryRequestEnds` and `DrainEnds`:
  liveness under fairness, and `ENABLED`, are out of this prover's reach.

Every invariant and every action property of a passing run is also a theorem. `access` and `reports` check
the properties from the initial states of their `MC` modules; the theorems are about all of them.

## Where code and text disagree

One run is expected to fail: `cache_race`. `domain/service/cache.rs:9` says "Exactly stale on the local
replica"; `put` stamps a value with the generation at insertion, so a value computed before a write is
served as current after it, until its age limit.

Seen while modelling, not the subject of a run:

- `require_parent` (`domain/service/mod.rs:788`) says "so a write can never invent one" (`:787`). The
  parent is checked before the lock, and creating a document creates the folders above it, so a create
  that races the deletion of its project brings the folder back without its document.
- `delete_at` (`storage/fs/crud.rs:348`) removes a folder by name, whatever its marker, while
  `src/docs/contracts/api-compatibility.md:300` says "delete that occurrence": a case route removes a
  suite that carries the name.
- `attach_suite_to_run` (`domain/composition.rs:54`) embeds a suite's cases and pins none, while
  `src/docs/contracts/api-compatibility.md:917` says "record the revision of each case it snapshotted":
  a case edited before its first result is pinned at a version the run does not embed.
- `TATU_JWT_SECRET` in the environment with a `jwt_secret_file` in the file is refused as a conflict,
  because the two are different keys; `src/docs/security/configuration-decision.md:147` says that "any
  setting the environment also provides wins".
- `api/guardrails.rs:61` says of the concurrency limit that "it bounds worst-case work". The permit goes
  with the request; work parked by requests that were cut off or abandoned runs beside that of
  `max_concurrency` others, bounded by the pool (`OrphansAreCutOff`).
- A graceful stop discards parked work no thread has begun; only cut-off or departed requests can have
  any.
- Creating a workflow, and the projects a body lists for a run started from one, are judged by no role
  check; `WritesWhereEntitled` leaves them out.
- Coverage, and a project read whole, fail as a whole when a child listed a moment ago is gone or cannot
  be decoded; the other reports skip it.
- A crash between snapshot and rename leaves `v<n>.json` behind. If a change that does not qualify
  then alters the document at version n, the next qualifying update keeps the older snapshot, so
  "the **pre-update** document is written" (`src/docs/wiki/case-versioning-and-history.md:43`) holds
  only without crashes (`SnapshotIsPreUpdate` in `case_history`). A history listing between the two
  renames shows the live version as recorded.
- `logout` (`auth/session.rs:209`) answers true without looking at what `revoke_refresh_token`
  reports, against its comment at `:187`; a sign-out that races a rotation is recorded as a
  revocation while the session lives on under the new token.
- Deleting a project forgets its grants first. If the second transaction times out, an owner who is
  told to retry no longer has the grant the retry needs (`api/crud.rs:124`).
- Reordering steps by PUT moves their attachment records but not their folders. A deletion of an
  attachment cut short leaves a record whose file is gone, and deleting it again is a 404. A failing
  write of the file itself leaves the partial file.
- `unseed_account` says that nothing is removed if the store cannot be read; a read that fails after
  the first removal leaves that removal in place.
- `place_into` does not invalidate the derivation cache.
- `domain/service/audit.rs:11` says "Every line also names the acting subject" and `:23` "exactly one line
  per attempted mutation". Deleting a project writes two lines, and the one about its grants
  (`api/access.rs:837`) has no `user` field; it is written even when the removal then fails.
- `api/metrics.rs:133` says that recording on the span "keeps one log line per request". The subscriber
  (`main.rs:329`) is set up without span events, so an answer that logs nothing itself leaves no line.
- `models.rs:220` says of a result's status "one of the five buckets". Only the result routes and the
  import check it; the body of a create or a PUT may store any status, and a case more than once.
- A milestone that names a run twice in `testRunIds` counts that run's cases twice.
- `seed_account` grants a role on any project identifier. One granted while no such project exists, or
  between the two transactions of its deletion, is inherited by the next project of that identifier
  (`FreshAccessList` says that only those are).
- A deletion of a case or a project that dies midway leaves what it had not unlinked: a marker without
  its history, or files without a marker that a case created under the name finds in its folder.
- `iso8601_date` cuts the text at ten bytes. From the year 10000 on, which a time stamp in milliseconds
  reaches, the texts are no longer in the order of the dates, and a date filter judges them wrongly.

## Not modelled, and why

- **Passwords** (`auth/password.rs`), signing and encryption: libraries; a password, a token or an
  envelope is right or wrong.
- **Text**: the lexing of XML and JSON, tracker URLs, the characters of identifiers and paths,
  redaction of log lines, the spelling of copy names. Character-level work without concurrent state.
- **Field-by-field validation** (`domain/validation.rs`, `models.rs`): a body is usable or refused.
- **Responses**: envelopes, wording, headers, request identifiers, and `newest_mtime` on the readiness
  page, which nothing reads back.
- **The operating system's** `flock`, `rename` and `fsync`, which are taken to work.
- **Coverage totals** and the expansion of a workflow's steps into a run's suites: plain counting and
  copying of documents the models reduce to their references.

## Plan

1. *Done*: every module with its runs, and a theorem for each of their safety properties.
2. Next, should the code grow: coverage's totals in `Reports`, and the expansion of a workflow into a
   run's suites in `Runs`.
3. When a mapped function changes, `PROJECT.json` names the definition to revisit; the run of its module
   answers within minutes, and the failing lemma names the action that no longer keeps the invariant.
