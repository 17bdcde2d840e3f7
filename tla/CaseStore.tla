----------------------------- MODULE CaseStore -----------------------------
(***************************************************************************)
(* One test-case folder of the file repository, as concurrent requests of  *)
(* any number of replicas see it: the marker document test-case.json, the  *)
(* snapshots under revisions/, and the advisory lock .tatu.lock that every *)
(* write takes (src/src/storage/fs, src/src/domain/service).               *)
(*                                                                         *)
(* A document keeps what the rules tell apart: `content' stands for the    *)
(* four qualifying fields, `meta' for every other field a client sets, and *)
(* `version' for the server-owned bookkeeping (version and lastModified).  *)
(* Version 0 is a legacy document that carries no version.  The ETag is a  *)
(* digest of the stored bytes, so it is modelled by the document itself.   *)
(*                                                                         *)
(* A request runs once.  A write crosses the code's own boundaries one     *)
(* step at a time: a lockless look-up, the lock, the read under the lock,  *)
(* the snapshot, the publishing rename, the unlock.  Readers take no lock. *)
(***************************************************************************)
EXTENDS Integers

CONSTANTS
    Requests,       \* request threads, of one replica or of several
    Content,        \* values of the qualifying fields
    Meta,           \* values of the other client fields
    BodyVersions,   \* versions a client may put in a PUT body
    Keep,           \* a field the PUT body leaves out
    NoDoc,          \* no file where the marker would be
    NoOne,          \* the lock is free
    Kinds,          \* the operations this instance exercises
    FirstVersions,  \* versions the case may have when the model starts
    Faults          \* what may go wrong: "crash", "io"

AllKinds == {"put", "create", "duplicate", "delete", "record", "recordStep", "history"}

ASSUME StoreAssumption ==
    /\ Keep \notin Content /\ Keep \notin Meta
    /\ Keep \notin BodyVersions /\ BodyVersions \subseteq Nat
    /\ NoDoc \notin [content : Content, meta : Meta, version : Nat]
    /\ NoOne \notin Requests
    /\ FirstVersions \subseteq Nat
    /\ Kinds \subseteq AllKinds
    /\ Faults \subseteq {"crash", "io"}

VARIABLES
    lock,     \* the request holding .tatu.lock
    doc,      \* the marker document
    revs,     \* revisions/v<n>.json, by n
    pc,       \* where each request is
    op,       \* what each request was asked to do
    etag,     \* the If-Match a request carries; NoDoc for none
    base,     \* the document a request read under the lock, or served
    next,     \* the document a request is about to publish
    listed,   \* the revisions a history request found
    answer,   \* the status each request was answered with
    origin,   \* the version the present case was filed with
    torn      \* a recursive delete of the folder began and has not completed

vars == <<lock, doc, revs, pc, op, etag, base, next, listed, answer, origin, torn>>

Docs == [content : Content, meta : Meta, version : Nat]
Bodies == [content : Content \union {Keep}, meta : Meta \union {Keep},
           version : Nat \union {Keep}]
PutBodies == [content : Content \union {Keep}, meta : Meta \union {Keep},
              version : BodyVersions \union {Keep}]
Ops == [kind : AllKinds, body : Bodies]
Phases == {"idle", "read", "waiting", "locked", "snapshot", "write",
           "deleting", "unlocking", "history", "snapshots", "done"}
Answers == {"none", "ok", "missing", "conflict", "mismatch", "busy", "failed", "lost"}

Empty == [v \in {} |-> NoDoc]
EmptyBody == [content |-> Keep, meta |-> Keep, version |-> Keep]
NoOp == [kind |-> "history", body |-> EmptyBody]

\* The version a document is at: a legacy document counts as version 1.
Ver(d) == IF d.version = 0 THEN 1 ELSE d.version

(* ------------------------------ pure rules ----------------------------- *)

\* A PUT overlays the fields its body carries on the stored document.
MergedDocument(stored, body) ==
    [content |-> IF body.content = Keep THEN stored.content ELSE body.content,
     meta    |-> IF body.meta = Keep THEN stored.meta ELSE body.meta,
     version |-> IF body.version = Keep THEN stored.version ELSE body.version]

\* Only the qualifying fields decide whether an update is a new revision.
CaseContentChanged(stored, merged) == stored.content # merged.content

\* A fault of revise_case, for the runs of altered specifications: the body's
\* version kept when nothing qualifying changed.
ReviseCaseTrusting(stored, merged) ==
    [merged EXCEPT !.version = IF CaseContentChanged(stored, merged)
                               THEN Ver(stored) + 1
                               ELSE merged.version]

\* The server owns the version: whatever the body said is discarded.
ReviseCase(stored, merged) ==
    [merged EXCEPT !.version = IF CaseContentChanged(stored, merged)
                               THEN Ver(stored) + 1
                               ELSE stored.version]

\* A fault of stamp_case_creation: the body stored as it came.
StampMissing(body) == body

\* A new case starts its history at version 1.
StampCaseCreation(body) == [content |-> body.content, meta |-> body.meta, version |-> 1]

\* A fault of save_revision_inner: no test for a snapshot that is there.
SavedRevisionOverwriting(saved, v, d) ==
    [w \in DOMAIN saved \union {v} |-> IF w = v THEN d ELSE saved[w]]

\* Publishing v<n>.json; an existing snapshot is never rewritten.
SavedRevision(saved, v, d) ==
    IF v \in DOMAIN saved
    THEN saved
    ELSE [w \in DOMAIN saved \union {v} |-> IF w = v THEN d ELSE saved[w]]

(* ------------------------- lockless beginnings ------------------------- *)

Goto(r, phase) == pc' = [pc EXCEPT ![r] = phase]

Reply(r, status) == answer' = [answer EXCEPT ![r] = status]

\* Answer a request that holds no lock.
Finish(r, status) == Goto(r, "done") /\ Reply(r, status)

\* The locals of an answered request are gone.
Forget(r) ==
    /\ op' = [op EXCEPT ![r] = NoOp]
    /\ etag' = [etag EXCEPT ![r] = NoDoc]
    /\ base' = [base EXCEPT ![r] = NoDoc]
    /\ next' = [next EXCEPT ![r] = NoDoc]

\* A GET serves a body together with the digest of the bytes it parsed.
Get(r) ==
    /\ pc[r] = "idle" /\ doc # NoDoc /\ "put" \in Kinds
    /\ etag' = [etag EXCEPT ![r] = doc]
    /\ Goto(r, "read")
    /\ UNCHANGED <<lock, doc, revs, op, base, next, listed, answer, origin, torn>>

\* The lockless resolution of a bare identifier: nothing stored is a 404.
Resolve(r, kind, body) ==
    /\ \/ doc = NoDoc /\ Finish(r, "missing") /\ Forget(r)
       \/ /\ doc # NoDoc /\ Goto(r, "waiting")
          /\ op' = [op EXCEPT ![r] = [kind |-> kind, body |-> body]]
          /\ UNCHANGED <<etag, base, next, answer>>
    /\ UNCHANGED <<lock, doc, revs, listed, origin, torn>>

\* PUT, with the If-Match of an earlier GET or with none.
Put(r) ==
    /\ pc[r] \in {"idle", "read"} /\ "put" \in Kinds
    /\ \E body \in PutBodies : Resolve(r, "put", body)

\* Uploading or deleting a file of the case rewrites its attachment records.
RecordAttachment(r) ==
    /\ pc[r] = "idle" /\ "record" \in Kinds
    /\ \E m \in Meta : Resolve(r, "record", [EmptyBody EXCEPT !.meta = m])

\* The same for a file of one step, whose records are part of `steps'.
RecordStepAttachment(r) ==
    /\ pc[r] = "idle" /\ "recordStep" \in Kinds
    /\ \E c \in Content : Resolve(r, "recordStep", [EmptyBody EXCEPT !.content = c])

Delete(r) ==
    /\ pc[r] = "idle" /\ "delete" \in Kinds
    /\ Resolve(r, "delete", EmptyBody)

Create(r) ==
    /\ pc[r] = "idle" /\ "create" \in Kinds
    /\ \E c \in Content, m \in Meta :
         op' = [op EXCEPT ![r] = [kind |-> "create",
                                  body |-> [EmptyBody EXCEPT !.content = c, !.meta = m]]]
    /\ Goto(r, "waiting")
    /\ UNCHANGED <<lock, doc, revs, etag, base, next, listed, answer, origin, torn>>

\* Duplicating another case into this name: the copy keeps the document of its
\* source, version included, and none of the source's snapshots.
Duplicate(r) ==
    /\ pc[r] = "idle" /\ "duplicate" \in Kinds
    /\ \E c \in Content, m \in Meta, v \in FirstVersions :
         op' = [op EXCEPT ![r] = [kind |-> "duplicate",
                                  body |-> [content |-> c, meta |-> m, version |-> v]]]
    /\ Goto(r, "waiting")
    /\ UNCHANGED <<lock, doc, revs, etag, base, next, listed, answer, origin, torn>>

(* --------------------------- the advisory lock -------------------------- *)

\* A fault of acquire_lock: a shared lock where an exclusive one is needed.
AcquireLockShared(r) ==
    /\ pc[r] = "waiting"
    /\ lock' = r
    /\ Goto(r, "locked")
    /\ UNCHANGED <<doc, revs, op, etag, base, next, listed, answer, origin, torn>>

AcquireLock(r) ==
    /\ pc[r] = "waiting" /\ lock = NoOne
    /\ lock' = r
    /\ Goto(r, "locked")
    /\ UNCHANGED <<doc, revs, op, etag, base, next, listed, answer, origin, torn>>

\* The deadline passes while somebody else holds the lock: 503.
LockTimeout(r) ==
    /\ pc[r] = "waiting" /\ lock # NoOne
    /\ Finish(r, "busy") /\ Forget(r)
    /\ UNCHANGED <<lock, doc, revs, listed, origin, torn>>

Unlock(r) ==
    /\ pc[r] = "unlocking"
    /\ lock' = NoOne
    /\ Goto(r, "done") /\ Forget(r)
    /\ UNCHANGED <<doc, revs, listed, answer, origin, torn>>

\* A refusal under the lock writes nothing.
Refuse(r, status) ==
    /\ Goto(r, "unlocking") /\ Reply(r, status)
    /\ UNCHANGED <<lock, doc, revs, op, etag, base, next, listed, origin, torn>>

\* Remember what was read and what will be published.
Prepare(r, new, phase) ==
    /\ base' = [base EXCEPT ![r] = doc]
    /\ next' = [next EXCEPT ![r] = new]
    /\ Goto(r, phase)
    /\ UNCHANGED <<lock, doc, revs, op, etag, listed, answer, origin, torn>>

(* -------------------------- steps under the lock ------------------------ *)

Locked(r, kind) == pc[r] = "locked" /\ op[r].kind = kind

\* A fault of transform_at: the precondition compared with the bytes of a
\* look-up that came before the lock, so that it always holds.
EtagUnchecked(r) == etag[r] = etag[r]

EtagMatches(r) == etag[r] = NoDoc \/ etag[r] = doc

\* A fault of transform_at: a legacy document is versioned without a snapshot.
TransformAtLegacyUnsaved(r) ==
    /\ Locked(r, "put")
    /\ \/ doc = NoDoc /\ Refuse(r, "missing")
       \/ doc # NoDoc /\ ~EtagMatches(r) /\ Refuse(r, "mismatch")
       \/ /\ doc # NoDoc /\ EtagMatches(r)
          /\ LET merged == MergedDocument(doc, op[r].body)
             IN  Prepare(r, ReviseCase(doc, merged),
                         IF CaseContentChanged(doc, merged) /\ doc.version # 0
                         THEN "snapshot" ELSE "write")

\* Re-read, check If-Match, merge and version the document.
TransformAt(r) ==
    /\ Locked(r, "put")
    /\ \/ doc = NoDoc /\ Refuse(r, "missing")
       \/ doc # NoDoc /\ ~EtagMatches(r) /\ Refuse(r, "mismatch")
       \/ /\ doc # NoDoc /\ EtagMatches(r)
          /\ LET merged == MergedDocument(doc, op[r].body)
             IN  Prepare(r, ReviseCase(doc, merged),
                         IF CaseContentChanged(doc, merged) THEN "snapshot" ELSE "write")

\* A fault of record_step_attachment: a new version without a snapshot.
RecordTransformRevising(r) ==
    /\ Locked(r, "record") \/ Locked(r, "recordStep")
    /\ \/ doc = NoDoc /\ Refuse(r, "missing")
       \/ /\ doc # NoDoc
          /\ Prepare(r, ReviseCase(doc, MergedDocument(doc, op[r].body)), "write")

\* The marker is re-read and rewritten with the record added or dropped.
RecordTransform(r) ==
    /\ Locked(r, "record") \/ Locked(r, "recordStep")
    /\ \/ doc = NoDoc /\ Refuse(r, "missing")
       \/ /\ doc # NoDoc
          /\ Prepare(r, [MergedDocument(doc, op[r].body) EXCEPT !.version = doc.version],
                     "write")

\* The existence check of a create happens under the lock of its write.
CreateAt(r) ==
    /\ Locked(r, "create") \/ Locked(r, "duplicate")
    /\ \/ doc # NoDoc /\ Refuse(r, "conflict")
       \/ /\ doc = NoDoc
          /\ Prepare(r, IF op[r].kind = "create" THEN StampCaseCreation(op[r].body)
                                                ELSE op[r].body,
                     "write")

\* Faults of revise_case: the snapshot filed under the new version, the new
\* document snapshotted, and the locking save_revision called under the lock.
SaveRevisionAsNew(r) ==
    /\ pc[r] = "snapshot"
    /\ revs' = SavedRevision(revs, Ver(next[r]), base[r])
    /\ Goto(r, "write")
    /\ UNCHANGED <<lock, doc, op, etag, base, next, listed, answer, origin, torn>>

SaveRevisionOfNew(r) ==
    /\ pc[r] = "snapshot"
    /\ revs' = SavedRevision(revs, Ver(base[r]), next[r])
    /\ Goto(r, "write")
    /\ UNCHANGED <<lock, doc, op, etag, base, next, listed, answer, origin, torn>>

SaveRevisionRelocking(r) ==
    /\ pc[r] = "snapshot" /\ lock = NoOne
    /\ revs' = SavedRevision(revs, Ver(base[r]), base[r])
    /\ Goto(r, "write")
    /\ UNCHANGED <<lock, doc, op, etag, base, next, listed, answer, origin, torn>>

\* The snapshot of the superseded document, before it is superseded.
SaveRevision(r) ==
    /\ pc[r] = "snapshot"
    /\ revs' = SavedRevision(revs, Ver(base[r]), base[r])
    /\ Goto(r, "write")
    /\ UNCHANGED <<lock, doc, op, etag, base, next, listed, answer, origin, torn>>

\* The rename that publishes the marker.
WriteMarker(r) ==
    /\ pc[r] = "write"
    /\ doc' = next[r]
    /\ origin' = IF base[r] = NoDoc THEN Ver(next[r]) ELSE origin
    /\ Goto(r, "unlocking") /\ Reply(r, "ok")
    /\ UNCHANGED <<lock, revs, op, etag, base, next, listed, torn>>

\* What is left when the snapshot of version v is unlinked.
Without(saved, v) == [w \in DOMAIN saved \ {v} |-> saved[w]]

\* remove_dir_all unlinks the marker and the snapshots file by file, in directory
\* order, and the folder with the last of them.
RemoveEntry(r) ==
    /\ Locked(r, "delete") \/ pc[r] = "deleting"
    /\ \/ doc # NoDoc /\ doc' = NoDoc /\ UNCHANGED revs
       \/ \E v \in DOMAIN revs : revs' = Without(revs, v) /\ UNCHANGED doc
    /\ IF doc' = NoDoc /\ revs' = Empty
       THEN Goto(r, "unlocking") /\ Reply(r, "ok") /\ torn' = FALSE
       ELSE Goto(r, "deleting") /\ UNCHANGED answer /\ torn' = TRUE
    /\ UNCHANGED <<lock, op, etag, base, next, listed, origin>>

\* The folder went away while the request waited for the lock.
DeleteMissing(r) ==
    /\ Locked(r, "delete")
    /\ doc = NoDoc /\ revs = Empty
    /\ Refuse(r, "missing")

(* ---------------------------- history reads ----------------------------- *)

\* The three lockless reads behind GET /test_cases/{id}/history.
ListRevisions(r) ==
    /\ pc[r] = "idle" /\ "history" \in Kinds /\ doc # NoDoc
    /\ listed' = [listed EXCEPT ![r] = DOMAIN revs]
    /\ IF DOMAIN revs = {}
       THEN Finish(r, "ok")
       ELSE Goto(r, "history") /\ UNCHANGED answer
    /\ UNCHANGED <<lock, doc, revs, op, etag, base, next, origin, torn>>

ReadLive(r) ==
    /\ pc[r] = "history"
    /\ base' = [base EXCEPT ![r] = doc]
    /\ IF doc = NoDoc
       THEN Finish(r, "missing")
       ELSE Goto(r, "snapshots") /\ UNCHANGED answer
    /\ UNCHANGED <<lock, doc, revs, op, etag, next, listed, origin, torn>>

ReadSnapshots(r) ==
    /\ pc[r] = "snapshots"
    /\ Finish(r, IF listed[r] \subseteq DOMAIN revs THEN "ok" ELSE "missing")
    /\ UNCHANGED <<lock, doc, revs, op, etag, base, next, listed, origin, torn>>

(* -------------------------------- faults -------------------------------- *)

\* A write to the volume fails; the temporary file is removed, nothing is
\* published, and the request is answered 500.  An unlink that fails leaves the
\* folder as far as remove_dir_all had come.
WriteFails(r) ==
    /\ "io" \in Faults
    /\ pc[r] \in {"snapshot", "write", "deleting"} \/ Locked(r, "delete")
    /\ Goto(r, "unlocking") /\ Reply(r, "failed")
    /\ UNCHANGED <<lock, doc, revs, op, etag, base, next, listed, origin, torn>>

\* The process dies; the kernel drops its flock with the descriptor.
Crash(r) ==
    /\ "crash" \in Faults
    /\ pc[r] \notin {"idle", "read", "done"}
    /\ lock' = IF lock = r THEN NoOne ELSE lock
    /\ Finish(r, "lost") /\ Forget(r)
    /\ UNCHANGED <<doc, revs, listed, origin, torn>>

(* ---------------------------- specification ----------------------------- *)

Init ==
    /\ lock = NoOne
    /\ \/ doc = NoDoc /\ origin = 1
       \/ \E c \in Content, m \in Meta, v \in FirstVersions :
            /\ doc = [content |-> c, meta |-> m, version |-> v]
            /\ origin = Ver(doc)
    /\ revs = Empty
    /\ pc = [r \in Requests |-> "idle"]
    /\ op = [r \in Requests |-> NoOp]
    /\ etag = [r \in Requests |-> NoDoc]
    /\ base = [r \in Requests |-> NoDoc]
    /\ next = [r \in Requests |-> NoDoc]
    /\ listed = [r \in Requests |-> {}]
    /\ answer = [r \in Requests |-> "none"]
    /\ torn = FALSE

\* Steps a client decides on.
Client(r) ==
    Get(r) \/ Put(r) \/ RecordAttachment(r) \/ RecordStepAttachment(r)
    \/ Delete(r) \/ Create(r) \/ Duplicate(r) \/ ListRevisions(r)

\* Steps the server takes on its own once a request is in.
Server(r) ==
    AcquireLock(r) \/ LockTimeout(r) \/ TransformAt(r) \/ RecordTransform(r)
    \/ CreateAt(r) \/ SaveRevision(r) \/ WriteMarker(r) \/ RemoveEntry(r)
    \/ DeleteMissing(r) \/ Unlock(r) \/ ReadLive(r) \/ ReadSnapshots(r)

\* Every request has been answered; the service idles.
AllAnswered == (\A r \in Requests : pc[r] = "done") /\ UNCHANGED vars

Next ==
    \/ \E r \in Requests : Client(r) \/ Server(r) \/ WriteFails(r) \/ Crash(r)
    \/ AllAnswered

Spec == Init /\ [][Next]_vars

\* A thread that can take its next server step eventually takes it.
Fairness == \A r \in Requests : WF_vars(Server(r))

FairSpec == Spec /\ Fairness

(* ------------------------------ properties ------------------------------ *)

\* The stored case and every snapshot carry the fields that creation stamps, and
\* no snapshot is filed under version zero (stamp_case_creation, save_revision).
TypeOK ==
    /\ lock \in Requests \union {NoOne}
    /\ doc \in Docs \union {NoDoc}
    /\ DOMAIN revs \subseteq Nat \ {0}
    /\ \A v \in DOMAIN revs : revs[v] \in Docs
    /\ pc \in [Requests -> Phases]
    /\ op \in [Requests -> Ops]
    /\ etag \in [Requests -> Docs \union {NoDoc}]
    /\ base \in [Requests -> Docs \union {NoDoc}]
    /\ next \in [Requests -> Docs \union {NoDoc}]
    /\ listed \in [Requests -> SUBSET (Nat \ {0})]
    /\ answer \in [Requests -> Answers]
    /\ origin \in Nat \ {0}
    /\ torn \in BOOLEAN

Critical == {"locked", "snapshot", "write", "deleting", "unlocking"}

\* Between the read under the lock and the rename nobody else changes the
\* marker: what a request is about to replace is what it merged into
\* (transform_at, create_at, record_attachment).
Isolation ==
    \A r \in Requests : pc[r] \in {"snapshot", "write"} => lock = r /\ base[r] = doc

\* A PUT carrying an If-Match that is answered with success replaced exactly
\* the document its ETag was computed from (update_with_etag).
NoLostUpdate ==
    [][\A r \in Requests :
          /\ op[r].kind = "put" /\ etag[r] # NoDoc
          /\ answer[r] = "none" /\ answer'[r] = "ok"
          => doc = etag[r]]_vars

\* revisions/v<n>.json always holds a document of version n (revise_case,
\* save_revision_inner), faults or not.
SnapshotVersions == \A v \in DOMAIN revs : Ver(revs[v]) = v

\* A case at version n has a snapshot of every version since it was filed,
\* however its updates were interrupted: the snapshot is written first.  Only
\* a recursive delete cut short can leave a marker without its history.
GapFree ==
    doc # NoDoc /\ ~torn => \A v \in origin .. Ver(doc) - 1 : v \in DOMAIN revs

\* A snapshot is never rewritten.  It disappears only while a delete of the case
\* holds the lock, and unless that delete emptied the folder, the folder is one
\* whose removal was begun (save_revision_inner, delete_at).
RevisionsImmutable ==
    [][\A v \in DOMAIN revs :
          \/ v \in DOMAIN revs' /\ revs'[v] = revs[v]
          \/ /\ v \notin DOMAIN revs'
             /\ \E r \in Requests : lock = r /\ op[r].kind = "delete"
             /\ torn' \/ (doc' = NoDoc /\ revs' = Empty)]_revs

\* The version of a stored case never goes back and never skips, whatever
\* version a body carries (revise_case discards it).
VersionSteps ==
    [][doc # NoDoc /\ doc' # NoDoc => Ver(doc') \in {Ver(doc), Ver(doc) + 1}]_doc

\* A qualifying update leaves the pre-update document, as it stood, under its
\* version.  Holds while nothing fails between the snapshot and the rename.
SnapshotIsPreUpdate ==
    [][doc # NoDoc /\ doc' # NoDoc /\ Ver(doc') > Ver(doc)
          => revs'[Ver(doc)] = doc]_doc

\* No snapshot of the live version or of a later one exists, except while the
\* update that supersedes the live version holds the lock.  Holds without
\* faults.
NoneAhead ==
    doc # NoDoc =>
        \A v \in DOMAIN revs :
            \/ v < Ver(doc)
            \/ v = Ver(doc) /\ \E r \in Requests : pc[r] = "write"

\* Without faults the history is exact: a snapshot is the document an update
\* replaced, and none exists for a version that is still live.
HistoryExact == []NoneAhead /\ SnapshotIsPreUpdate

(* ---------------------------- the abstraction --------------------------- *)

\* The refinement mapping: a folder being removed is a case already gone, and
\* a snapshot counts once the document it snapshots is superseded.
LiveView == IF torn THEN NoDoc ELSE doc

PastView ==
    IF LiveView = NoDoc
    THEN Empty
    ELSE [v \in {w \in DOMAIN revs : w < Ver(doc)} |-> revs[v]]

History == INSTANCE CaseHistory WITH live <- LiveView, past <- PastView

\* Seen through the mapping, the lock, the two-step publication of an update
\* and the entry-by-entry delete are one atomic change of case and history
\* (transform_at, revise_case, save_revision_inner, delete_at), when no write
\* fails and no process dies.
ImplementsHistory == History!Spec

(* ------------------------------- liveness ------------------------------- *)

\* "A busy volume is answered rather than queued behind indefinitely": every
\* request that was sent is answered.
EveryRequestAnswered ==
    \A r \in Requests : pc[r] \notin {"idle", "read"} ~> pc[r] = "done"
=============================================================================
