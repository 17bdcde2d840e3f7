-------------------------- MODULE DocumentsProofs --------------------------
(***************************************************************************)
(* Theorems about stored documents: how CaseStore writes them, for any     *)
(* number of requests, any values of the fields, any operations and any    *)
(* faults, and, where nothing fails, that it implements CaseHistory; and   *)
(* what Reports makes of the run documents it reads, for any documents,    *)
(* any projects, any run identifiers and any writers.  The two models      *)
(* share neither constants nor variables.                                  *)
(***************************************************************************)
EXTENDS CaseStore, Reports, FiniteSetTheorems, SequenceTheorems, TLAPS

(* ------------------------ the inductive invariant ----------------------- *)

\* A request is inside the critical section exactly while it holds the lock.
LockInv == \A r \in Requests : pc[r] \in Critical <=> lock = r

\* What a request was asked to do, by where it is.
OpInv ==
    \A r \in Requests :
        /\ op[r].kind = "create" => op[r].body.content \in Content /\ op[r].body.meta \in Meta
        /\ op[r].kind = "duplicate" => op[r].body \in Docs
        /\ pc[r] \in {"idle", "read", "history", "snapshots"} => op[r].kind = "history"
        /\ pc[r] = "deleting" => op[r].kind = "delete"

\* What a request is about to publish replaces the document it read, matches
\* the precondition it carries, and is of the same version or of the next one,
\* the next one only after the superseded document was snapshotted.
WriteInv ==
    \A r \in Requests :
        pc[r] \in {"snapshot", "write"} =>
            /\ base[r] = doc
            /\ next[r] \in Docs
            /\ op[r].kind = "put" => doc # NoDoc /\ EtagMatches(r)
            /\ pc[r] = "snapshot" => doc # NoDoc
            /\ doc # NoDoc =>
                 \/ Ver(next[r]) = Ver(doc)
                 \/ /\ Ver(next[r]) = Ver(doc) + 1
                    /\ pc[r] = "write" => Ver(doc) \in DOMAIN revs

IInv == TypeOK /\ LockInv /\ OpInv /\ WriteInv /\ SnapshotVersions /\ GapFree

(* -------------------------- facts about the rules ----------------------- *)

\* A document's version is a positive number.
LEMMA VerType ==
    ASSUME NEW d \in Docs
    PROVE  Ver(d) \in Nat \ {0}
  BY DEF Docs, Ver

\* Overlaying a body on a stored document gives a document.
LEMMA MergedType ==
    ASSUME NEW d \in Docs, NEW b \in Bodies
    PROVE  MergedDocument(d, b) \in Docs
  BY StoreAssumption DEF Docs, Bodies, MergedDocument

\* An update either keeps the version or moves to the next one, and moves
\* exactly when a qualifying field changed.
LEMMA ReviseFacts ==
    ASSUME NEW d \in Docs, NEW m \in Docs
    PROVE  /\ ReviseCase(d, m) \in Docs
           /\ CaseContentChanged(d, m) => Ver(ReviseCase(d, m)) = Ver(d) + 1
           /\ ~CaseContentChanged(d, m) => Ver(ReviseCase(d, m)) = Ver(d)
  BY VerType DEF Docs, ReviseCase, CaseContentChanged, Ver

\* The absence of a file is not a document.
LEMMA NoDocIsNoDoc == NoDoc \notin Docs
  BY StoreAssumption DEF Docs

\* An idle request is typed like any other.
LEMMA NoOpType == NoOp \in Ops /\ NoOp.kind = "history"
  BY DEF NoOp, Ops, EmptyBody, Bodies, AllKinds

(* ----------------------- every action preserves it ---------------------- *)

\* Get preserves the invariant.
LEMMA GetInv ==
    ASSUME IInv, NEW r \in Requests, Get(r)
    PROVE  IInv'
  <1>1. TypeOK'
    BY StoreAssumption DEF IInv, TypeOK, Ops, Bodies, Phases, Answers, NoOp, EmptyBody, AllKinds, Get, Goto
  <1>2. LockInv'
    BY StoreAssumption DEF IInv, TypeOK, LockInv, Critical, Phases, Get, Goto
  <1>3. OpInv'
    BY StoreAssumption DEF IInv, TypeOK, LockInv, OpInv, Ops, Bodies, NoOp, EmptyBody, AllKinds, Phases, Get, Goto
  <1>4. WriteInv'
    BY StoreAssumption DEF IInv, TypeOK, LockInv, OpInv, WriteInv, Critical, EtagMatches, Phases, NoOp, EmptyBody, Get, Goto
  <1>5. SnapshotVersions'
    BY StoreAssumption DEF IInv, TypeOK, SnapshotVersions, Get, Goto
  <1>6. GapFree'
    BY StoreAssumption DEF IInv, TypeOK, GapFree, Get, Goto
  <1> QED BY <1>1, <1>2, <1>3, <1>4, <1>5, <1>6 DEF IInv

\* The lockless resolution either answers 404 or queues the request.
LEMMA ResolveInv ==
    ASSUME IInv, NEW r \in Requests, pc[r] \in {"idle", "read"},
           NEW kind \in AllKinds \ {"create", "duplicate", "history"},
           NEW body \in Bodies, Resolve(r, kind, body)
    PROVE  IInv'
  <1> DEFINE req == [kind |-> kind, body |-> body]
  <1>1. req \in Ops /\ req.kind = kind
    BY DEF Ops
  <1> HIDE DEF req
  <1>2. TypeOK'
    BY <1>1, NoOpType DEF IInv, TypeOK, Phases, Answers, Resolve, Finish, Forget, Goto, Reply, req
  <1>3. LockInv'
    BY StoreAssumption DEF IInv, TypeOK, LockInv, Critical, Phases,
       Resolve, Finish, Forget, Goto, Reply
  <1>4. OpInv'
    BY <1>1, NoOpType DEF IInv, TypeOK, OpInv, AllKinds, Phases,
       Resolve, Finish, Forget, Goto, Reply, req
  <1>5. WriteInv'
    BY StoreAssumption DEF IInv, TypeOK, WriteInv, EtagMatches, Phases,
       Resolve, Finish, Forget, Goto, Reply
  <1>6. SnapshotVersions' /\ GapFree'
    BY DEF IInv, SnapshotVersions, GapFree, Resolve
  <1> QED BY <1>2, <1>3, <1>4, <1>5, <1>6 DEF IInv

\* Put preserves the invariant.
LEMMA PutInv ==
    ASSUME IInv, NEW r \in Requests, Put(r)
    PROVE  IInv'
  <1>1. PICK body \in PutBodies : Resolve(r, "put", body)
    BY DEF Put
  <1>2. body \in Bodies
    BY StoreAssumption DEF PutBodies, Bodies
  <1> QED BY <1>1, <1>2, ResolveInv DEF Put, AllKinds

\* RecordAttachment preserves the invariant.
LEMMA RecordAttachmentInv ==
    ASSUME IInv, NEW r \in Requests, RecordAttachment(r)
    PROVE  IInv'
  <1>1. PICK x \in Meta : Resolve(r, "record", [EmptyBody EXCEPT !.meta = x])
    BY DEF RecordAttachment
  <1>2. [EmptyBody EXCEPT !.meta = x] \in Bodies
    BY DEF EmptyBody, Bodies
  <1> QED BY <1>1, <1>2, ResolveInv DEF RecordAttachment, AllKinds

\* RecordStepAttachment preserves the invariant.
LEMMA RecordStepAttachmentInv ==
    ASSUME IInv, NEW r \in Requests, RecordStepAttachment(r)
    PROVE  IInv'
  <1>1. PICK x \in Content : Resolve(r, "recordStep", [EmptyBody EXCEPT !.content = x])
    BY DEF RecordStepAttachment
  <1>2. [EmptyBody EXCEPT !.content = x] \in Bodies
    BY DEF EmptyBody, Bodies
  <1> QED BY <1>1, <1>2, ResolveInv DEF RecordStepAttachment, AllKinds

\* Delete preserves the invariant.
LEMMA DeleteInv ==
    ASSUME IInv, NEW r \in Requests, Delete(r)
    PROVE  IInv'
  <1>1. EmptyBody \in Bodies
    BY DEF EmptyBody, Bodies
  <1> QED BY <1>1, ResolveInv DEF Delete, AllKinds

\* Create preserves the invariant.
LEMMA CreateInv ==
    ASSUME IInv, NEW r \in Requests, Create(r)
    PROVE  IInv'
  <1>1. TypeOK'
    <2>1. PICK c \in Content, m \in Meta :
             op' = [op EXCEPT ![r] = [kind |-> "create",
                                      body |-> [EmptyBody EXCEPT !.content = c, !.meta = m]]]
      BY DEF Create
    <2>2. [EmptyBody EXCEPT !.content = c, !.meta = m] \in Bodies
      BY DEF EmptyBody, Bodies
    <2>3. [kind |-> "create", body |-> [EmptyBody EXCEPT !.content = c, !.meta = m]] \in Ops
      BY <2>2 DEF Ops, AllKinds
    <2>4. op' \in [Requests -> Ops]
      BY <2>1, <2>3 DEF IInv, TypeOK
    <2> QED BY <2>4 DEF IInv, TypeOK, Phases, Create, Goto
  <1>2. LockInv'
    BY StoreAssumption DEF IInv, TypeOK, LockInv, Critical, Phases, Create, Goto
  <1>3. OpInv'
    BY StoreAssumption DEF IInv, TypeOK, LockInv, OpInv, Ops, Bodies, NoOp, EmptyBody, AllKinds, Phases, Create, Goto
  <1>4. WriteInv'
    BY StoreAssumption DEF IInv, TypeOK, LockInv, OpInv, WriteInv, Critical, EtagMatches, Phases, NoOp, EmptyBody, Create, Goto
  <1>5. SnapshotVersions'
    BY StoreAssumption DEF IInv, TypeOK, SnapshotVersions, Create, Goto
  <1>6. GapFree'
    BY StoreAssumption DEF IInv, TypeOK, GapFree, Create, Goto
  <1> QED BY <1>1, <1>2, <1>3, <1>4, <1>5, <1>6 DEF IInv

\* Duplicate preserves the invariant.
LEMMA DuplicateInv ==
    ASSUME IInv, NEW r \in Requests, Duplicate(r)
    PROVE  IInv'
  <1>1. TypeOK'
    BY StoreAssumption DEF IInv, TypeOK, Ops, Bodies, Phases, Answers, NoOp, EmptyBody, AllKinds, Duplicate, Goto, Docs
  <1>2. LockInv'
    BY StoreAssumption DEF IInv, TypeOK, LockInv, Critical, Phases, Duplicate, Goto, Docs
  <1>3. OpInv'
    BY StoreAssumption DEF IInv, TypeOK, LockInv, OpInv, Ops, Bodies, NoOp, EmptyBody, AllKinds, Phases, Duplicate, Goto, Docs
  <1>4. WriteInv'
    BY StoreAssumption DEF IInv, TypeOK, LockInv, OpInv, WriteInv, Critical, EtagMatches, Phases, NoOp, EmptyBody, Duplicate, Goto, Docs
  <1>5. SnapshotVersions'
    BY StoreAssumption DEF IInv, TypeOK, SnapshotVersions, Duplicate, Goto, Docs
  <1>6. GapFree'
    BY StoreAssumption DEF IInv, TypeOK, GapFree, Duplicate, Goto, Docs
  <1> QED BY <1>1, <1>2, <1>3, <1>4, <1>5, <1>6 DEF IInv

\* AcquireLock preserves the invariant.
LEMMA AcquireLockInv ==
    ASSUME IInv, NEW r \in Requests, AcquireLock(r)
    PROVE  IInv'
  <1>1. TypeOK'
    BY StoreAssumption DEF IInv, TypeOK, Ops, Bodies, Phases, Answers, NoOp, EmptyBody, AllKinds, AcquireLock, Goto
  <1>2. LockInv'
    BY StoreAssumption DEF IInv, TypeOK, LockInv, Critical, Phases, AcquireLock, Goto
  <1>3. OpInv'
    BY StoreAssumption DEF IInv, TypeOK, LockInv, OpInv, Ops, Bodies, NoOp, EmptyBody, AllKinds, Phases, AcquireLock, Goto
  <1>4. WriteInv'
    BY StoreAssumption DEF IInv, TypeOK, LockInv, OpInv, WriteInv, Critical, EtagMatches, Phases, NoOp, EmptyBody, AcquireLock, Goto
  <1>5. SnapshotVersions'
    BY StoreAssumption DEF IInv, TypeOK, SnapshotVersions, AcquireLock, Goto
  <1>6. GapFree'
    BY StoreAssumption DEF IInv, TypeOK, GapFree, AcquireLock, Goto
  <1> QED BY <1>1, <1>2, <1>3, <1>4, <1>5, <1>6 DEF IInv

\* LockTimeout preserves the invariant.
LEMMA LockTimeoutInv ==
    ASSUME IInv, NEW r \in Requests, LockTimeout(r)
    PROVE  IInv'
  <1>1. TypeOK'
    BY StoreAssumption DEF IInv, TypeOK, Ops, Bodies, Phases, Answers, NoOp, EmptyBody, AllKinds, LockTimeout, Finish, Forget, Goto, Reply
  <1>2. LockInv'
    BY StoreAssumption DEF IInv, TypeOK, LockInv, Critical, Phases, LockTimeout, Finish, Forget, Goto, Reply
  <1>3. OpInv'
    BY StoreAssumption DEF IInv, TypeOK, LockInv, OpInv, Ops, Bodies, NoOp, EmptyBody, AllKinds, Phases, LockTimeout, Finish, Forget, Goto, Reply
  <1>4. WriteInv'
    BY StoreAssumption DEF IInv, TypeOK, LockInv, OpInv, WriteInv, Critical, EtagMatches, Phases, NoOp, EmptyBody, LockTimeout, Finish, Forget, Goto, Reply
  <1>5. SnapshotVersions'
    BY StoreAssumption DEF IInv, TypeOK, SnapshotVersions, LockTimeout, Finish, Forget, Goto, Reply
  <1>6. GapFree'
    BY StoreAssumption DEF IInv, TypeOK, GapFree, LockTimeout, Finish, Forget, Goto, Reply
  <1> QED BY <1>1, <1>2, <1>3, <1>4, <1>5, <1>6 DEF IInv

\* Unlock preserves the invariant.
LEMMA UnlockInv ==
    ASSUME IInv, NEW r \in Requests, Unlock(r)
    PROVE  IInv'
  <1>1. TypeOK'
    BY StoreAssumption DEF IInv, TypeOK, Ops, Bodies, Phases, Answers, NoOp, EmptyBody, AllKinds, Unlock, Forget, Goto
  <1>2. LockInv'
    BY StoreAssumption DEF IInv, TypeOK, LockInv, Critical, Phases, Unlock, Forget, Goto
  <1>3. OpInv'
    BY StoreAssumption DEF IInv, TypeOK, LockInv, OpInv, Ops, Bodies, NoOp, EmptyBody, AllKinds, Phases, Unlock, Forget, Goto
  <1>4. WriteInv'
    BY StoreAssumption DEF IInv, TypeOK, LockInv, OpInv, WriteInv, Critical, EtagMatches, Phases, NoOp, EmptyBody, Unlock, Forget, Goto
  <1>5. SnapshotVersions'
    BY StoreAssumption DEF IInv, TypeOK, SnapshotVersions, Unlock, Forget, Goto
  <1>6. GapFree'
    BY StoreAssumption DEF IInv, TypeOK, GapFree, Unlock, Forget, Goto
  <1> QED BY <1>1, <1>2, <1>3, <1>4, <1>5, <1>6 DEF IInv

\* Refusing under the lock changes only where the request is.
LEMMA RefuseInv ==
    ASSUME IInv, NEW r \in Requests, pc[r] = "locked", NEW status \in Answers,
           Refuse(r, status)
    PROVE  IInv'
  <1>1. TypeOK'
    BY DEF IInv, TypeOK, Phases, Refuse, Goto, Reply
  <1>2. LockInv'
    BY DEF IInv, TypeOK, LockInv, Critical, Phases, Refuse, Goto, Reply
  <1>3. OpInv'
    BY DEF IInv, TypeOK, OpInv, Phases, Refuse, Goto, Reply
  <1>4. WriteInv'
    BY DEF IInv, TypeOK, WriteInv, EtagMatches, Phases, Refuse, Goto, Reply
  <1>5. SnapshotVersions' /\ GapFree'
    BY DEF IInv, SnapshotVersions, GapFree, Refuse
  <1> QED BY <1>1, <1>2, <1>3, <1>4, <1>5 DEF IInv

\* Preparing a document of the right version for publication.
LEMMA PrepareInv ==
    ASSUME IInv, NEW r \in Requests, pc[r] = "locked",
           NEW new \in Docs, NEW phase \in {"snapshot", "write"},
           Prepare(r, new, phase),
           op[r].kind = "put" => doc # NoDoc /\ EtagMatches(r),
           phase = "snapshot" => doc # NoDoc /\ Ver(new) = Ver(doc) + 1,
           phase = "write" => doc = NoDoc \/ Ver(new) = Ver(doc)
    PROVE  IInv'
  <1>1. TypeOK'
    BY DEF IInv, TypeOK, Phases, Prepare, Goto
  <1>2. LockInv'
    BY DEF IInv, TypeOK, LockInv, Critical, Phases, Prepare, Goto
  <1>3. OpInv'
    BY DEF IInv, TypeOK, OpInv, Phases, Prepare, Goto
  <1>4. WriteInv'
    <2> SUFFICES ASSUME NEW q \in Requests, pc'[q] \in {"snapshot", "write"}
                 PROVE  WriteInv!(q)!2'
      BY DEF WriteInv
    <2>1. CASE q = r
      BY <2>1 DEF IInv, TypeOK, EtagMatches, Prepare, Goto
    <2>2. CASE q # r
      BY <2>2 DEF IInv, TypeOK, LockInv, Critical, Prepare, Goto
    <2> QED BY <2>1, <2>2
  <1>5. SnapshotVersions' /\ GapFree'
    BY DEF IInv, SnapshotVersions, GapFree, Prepare
  <1> QED BY <1>1, <1>2, <1>3, <1>4, <1>5 DEF IInv

\* TransformAt preserves the invariant.
LEMMA TransformAtInv ==
    ASSUME IInv, NEW r \in Requests, TransformAt(r)
    PROVE  IInv'
  <1> DEFINE merged == MergedDocument(doc, op[r].body)
  <1>1. CASE doc = NoDoc /\ Refuse(r, "missing")
    BY <1>1, RefuseInv DEF TransformAt, Locked, Answers
  <1>2. CASE doc # NoDoc /\ ~EtagMatches(r) /\ Refuse(r, "mismatch")
    BY <1>2, RefuseInv DEF TransformAt, Locked, Answers
  <1>3. CASE /\ doc # NoDoc /\ EtagMatches(r)
             /\ Prepare(r, ReviseCase(doc, merged),
                        IF CaseContentChanged(doc, merged) THEN "snapshot" ELSE "write")
    <2>1. doc \in Docs /\ op[r].body \in Bodies
      BY <1>3 DEF IInv, TypeOK, Ops
    <2>2. merged \in Docs
      BY <2>1, MergedType
    <2> HIDE DEF merged
    <2>3. /\ ReviseCase(doc, merged) \in Docs
          /\ CaseContentChanged(doc, merged) => Ver(ReviseCase(doc, merged)) = Ver(doc) + 1
          /\ ~CaseContentChanged(doc, merged) => Ver(ReviseCase(doc, merged)) = Ver(doc)
      BY <2>1, <2>2, ReviseFacts
    <2>4. pc[r] = "locked"
      BY DEF TransformAt, Locked
    <2>5. CASE CaseContentChanged(doc, merged)
      <3>1. Prepare(r, ReviseCase(doc, merged), "snapshot")
        BY <1>3, <2>5
      <3> QED BY <1>3, <2>3, <2>4, <2>5, <3>1, PrepareInv
    <2>6. CASE ~CaseContentChanged(doc, merged)
      <3>1. Prepare(r, ReviseCase(doc, merged), "write")
        BY <1>3, <2>6
      <3> QED BY <1>3, <2>3, <2>4, <2>6, <3>1, PrepareInv
    <2> QED BY <2>5, <2>6
  <1> QED BY <1>1, <1>2, <1>3 DEF TransformAt

\* RecordTransform preserves the invariant.
LEMMA RecordTransformInv ==
    ASSUME IInv, NEW r \in Requests, RecordTransform(r)
    PROVE  IInv'
  <1> DEFINE new == [MergedDocument(doc, op[r].body) EXCEPT !.version = doc.version]
  <1>1. CASE doc = NoDoc /\ Refuse(r, "missing")
    BY <1>1, RefuseInv DEF RecordTransform, Locked, Answers
  <1>2. CASE doc # NoDoc /\ Prepare(r, new, "write")
    <2>1. doc \in Docs /\ op[r].body \in Bodies
      BY <1>2 DEF IInv, TypeOK, Ops
    <2>2. MergedDocument(doc, op[r].body) \in Docs
      BY <2>1, MergedType
    <2>3. new \in Docs /\ Ver(new) = Ver(doc)
      BY <2>1, <2>2 DEF Docs, Ver
    <2> HIDE DEF new
    <2> QED BY <1>2, <2>3, PrepareInv DEF RecordTransform, Locked
  <1> QED BY <1>1, <1>2 DEF RecordTransform

\* CreateAt preserves the invariant.
LEMMA CreateAtInv ==
    ASSUME IInv, NEW r \in Requests, CreateAt(r)
    PROVE  IInv'
  <1> DEFINE new == IF op[r].kind = "create" THEN StampCaseCreation(op[r].body)
                                             ELSE op[r].body
  <1>1. CASE doc # NoDoc /\ Refuse(r, "conflict")
    BY <1>1, RefuseInv DEF CreateAt, Locked, Answers
  <1>2. CASE doc = NoDoc /\ Prepare(r, new, "write")
    <2>1. new \in Docs
      BY DEF IInv, OpInv, CreateAt, Locked, StampCaseCreation, Docs
    <2> HIDE DEF new
    <2> QED BY <1>2, <2>1, PrepareInv DEF CreateAt, Locked
  <1> QED BY <1>1, <1>2 DEF CreateAt

\* SaveRevision preserves the invariant.
LEMMA SaveRevisionInv ==
    ASSUME IInv, NEW r \in Requests, SaveRevision(r)
    PROVE  IInv'
  <1> DEFINE v == Ver(doc)
  <1>1. base[r] = doc /\ doc \in Docs
    BY DEF IInv, TypeOK, WriteInv, SaveRevision
  <1>2. v \in Nat \ {0}
    BY <1>1, VerType
  <1>3. /\ DOMAIN revs' = DOMAIN revs \union {v}
        /\ \A w \in DOMAIN revs : revs'[w] = revs[w]
        /\ v \notin DOMAIN revs => revs'[v] = doc
    <2>1. revs' = SavedRevision(revs, v, doc)
      BY <1>1 DEF SaveRevision
    <2> HIDE DEF v
    <2> QED BY <2>1 DEF SavedRevision
  <1>4. TypeOK'
    BY <1>1, <1>2, <1>3 DEF IInv, TypeOK, Phases, SaveRevision, Goto
  <1>5. LockInv'
    BY DEF IInv, TypeOK, LockInv, Critical, Phases, SaveRevision, Goto
  <1>6. OpInv'
    BY DEF IInv, TypeOK, OpInv, Phases, SaveRevision, Goto
  <1>7. WriteInv'
    <2>1. Ver(doc) \in DOMAIN revs' /\ \A w \in DOMAIN revs : w \in DOMAIN revs'
      BY <1>3
    <2> QED BY <2>1 DEF IInv, TypeOK, WriteInv, EtagMatches, SaveRevision, Goto, Ver
  <1>8. SnapshotVersions'
    BY <1>3 DEF IInv, SnapshotVersions
  <1>9. GapFree'
    BY <1>3 DEF IInv, GapFree, SaveRevision
  <1> QED BY <1>4, <1>5, <1>6, <1>7, <1>8, <1>9 DEF IInv

\* WriteMarker preserves the invariant.
LEMMA WriteMarkerInv ==
    ASSUME IInv, NEW r \in Requests, WriteMarker(r)
    PROVE  IInv'
  <1>1. /\ base[r] = doc /\ next[r] \in Docs
        /\ doc # NoDoc => \/ Ver(next[r]) = Ver(doc)
                          \/ Ver(next[r]) = Ver(doc) + 1 /\ Ver(doc) \in DOMAIN revs
    BY DEF IInv, WriteInv, WriteMarker
  <1>2. Ver(next[r]) \in Nat \ {0}
    BY <1>1, VerType
  <1>3. TypeOK'
    BY <1>1, <1>2 DEF IInv, TypeOK, Phases, Answers, WriteMarker, Goto, Reply
  <1>4. LockInv'
    BY DEF IInv, TypeOK, LockInv, Critical, Phases, WriteMarker, Goto, Reply
  <1>5. OpInv'
    BY DEF IInv, TypeOK, OpInv, Phases, WriteMarker, Goto, Reply
  <1>6. WriteInv'
    BY DEF IInv, TypeOK, LockInv, Critical, WriteInv, Phases, WriteMarker, Goto, Reply
  <1>7. SnapshotVersions'
    BY DEF IInv, SnapshotVersions, WriteMarker
  <1>8. GapFree'
    <2>1. CASE doc = NoDoc
      BY <1>1, <1>2, <2>1 DEF GapFree, WriteMarker
    <2>2. CASE doc # NoDoc
      <3>1. Ver(doc) \in Nat \ {0} /\ origin \in Nat
        BY <2>2, VerType DEF IInv, TypeOK
      <3>2. \A v \in origin .. Ver(next[r]) - 1 :
               v \in origin .. Ver(doc) - 1 \/ (v = Ver(doc) /\ v \in DOMAIN revs)
        BY <1>1, <1>2, <2>2, <3>1
      <3> QED BY <1>1, <2>2, <3>2 DEF IInv, GapFree, WriteMarker
    <2> QED BY <2>1, <2>2
  <1> QED BY <1>3, <1>4, <1>5, <1>6, <1>7, <1>8 DEF IInv

\* What an unlinked entry leaves: the marker or nothing, and snapshots as they were.
LEMMA RemoveLeaves ==
    ASSUME IInv, NEW r \in Requests, RemoveEntry(r)
    PROVE  /\ doc' \in {doc, NoDoc}
           /\ DOMAIN revs' \subseteq DOMAIN revs
           /\ \A v \in DOMAIN revs' : revs'[v] = revs[v]
           /\ torn' = (doc' # NoDoc \/ revs' # Empty)
  <1>1. torn' = (doc' # NoDoc \/ revs' # Empty)
    BY DEF RemoveEntry
  <1>2. CASE doc' = NoDoc /\ UNCHANGED revs
    BY <1>1, <1>2
  <1>3. ASSUME NEW v \in DOMAIN revs, revs' = Without(revs, v), UNCHANGED doc
        PROVE  /\ doc' \in {doc, NoDoc}
               /\ DOMAIN revs' \subseteq DOMAIN revs
               /\ \A w \in DOMAIN revs' : revs'[w] = revs[w]
    BY <1>3 DEF Without
  <1> QED BY <1>1, <1>2, <1>3 DEF RemoveEntry

\* RemoveEntry preserves the invariant.
LEMMA RemoveEntryInv ==
    ASSUME IInv, NEW r \in Requests, RemoveEntry(r)
    PROVE  IInv'
  <1>1. /\ Locked(r, "delete") \/ pc[r] = "deleting"
        /\ UNCHANGED <<lock, op, etag, base, next, listed, origin>>
        /\ \/ Goto(r, "unlocking") /\ Reply(r, "ok") /\ torn' = FALSE
           \/ Goto(r, "deleting") /\ UNCHANGED answer /\ torn' = TRUE
    BY DEF RemoveEntry
  <1>2. TypeOK'
    <2>1. doc' \in Docs \union {NoDoc}
      BY RemoveLeaves DEF IInv, TypeOK
    <2>2. DOMAIN revs' \subseteq Nat \ {0} /\ \A v \in DOMAIN revs' : revs'[v] \in Docs
      BY RemoveLeaves DEF IInv, TypeOK
    <2>3. /\ pc' \in [Requests -> Phases] /\ answer' \in [Requests -> Answers]
          /\ torn' \in BOOLEAN
      BY <1>1 DEF IInv, TypeOK, Goto, Reply, Phases, Answers
    <2> QED BY <1>1, <2>1, <2>2, <2>3 DEF IInv, TypeOK
  <1>3. LockInv'
    BY <1>1, StoreAssumption DEF IInv, TypeOK, LockInv, Critical, Phases, Locked, Goto, Reply
  <1>4. OpInv'
    BY <1>1, StoreAssumption DEF IInv, TypeOK, LockInv, OpInv, Locked, Goto, Reply
  <1>5. WriteInv'
    BY <1>1, StoreAssumption DEF IInv, TypeOK, LockInv, OpInv, WriteInv, Critical, EtagMatches, Phases, Locked, Goto, Reply
  <1>6. SnapshotVersions'
    BY RemoveLeaves DEF IInv, SnapshotVersions, Ver
  <1>7. GapFree'
    BY RemoveLeaves DEF GapFree
  <1> QED BY <1>2, <1>3, <1>4, <1>5, <1>6, <1>7 DEF IInv

\* DeleteMissing preserves the invariant.
LEMMA DeleteMissingInv ==
    ASSUME IInv, NEW r \in Requests, DeleteMissing(r)
    PROVE  IInv'
  <1>1. TypeOK'
    BY StoreAssumption DEF IInv, TypeOK, Ops, Bodies, Phases, Answers, NoOp, EmptyBody, AllKinds, DeleteMissing, Locked, Refuse, Goto, Reply
  <1>2. LockInv'
    BY StoreAssumption DEF IInv, TypeOK, LockInv, Critical, Phases, DeleteMissing, Locked, Refuse, Goto, Reply
  <1>3. OpInv'
    BY StoreAssumption DEF IInv, TypeOK, LockInv, OpInv, Ops, Bodies, NoOp, EmptyBody, AllKinds, Phases, DeleteMissing, Locked, Refuse, Goto, Reply
  <1>4. WriteInv'
    BY StoreAssumption DEF IInv, TypeOK, LockInv, OpInv, WriteInv, Critical, EtagMatches, Phases, NoOp, EmptyBody, DeleteMissing, Locked, Refuse, Goto, Reply
  <1>5. SnapshotVersions'
    BY StoreAssumption DEF IInv, TypeOK, SnapshotVersions, DeleteMissing, Locked, Refuse, Goto, Reply
  <1>6. GapFree'
    BY StoreAssumption DEF IInv, TypeOK, GapFree, DeleteMissing, Locked, Refuse, Goto, Reply
  <1> QED BY <1>1, <1>2, <1>3, <1>4, <1>5, <1>6 DEF IInv

\* ListRevisions preserves the invariant.
LEMMA ListRevisionsInv ==
    ASSUME IInv, NEW r \in Requests, ListRevisions(r)
    PROVE  IInv'
  <1>1. TypeOK'
    BY StoreAssumption, ZenonT(60) DEF IInv, TypeOK, Ops, Bodies, Phases, Answers, NoOp, EmptyBody, AllKinds, ListRevisions, Finish, Goto, Reply
  <1>2. LockInv'
    BY StoreAssumption DEF IInv, TypeOK, LockInv, Critical, Phases, ListRevisions, Finish, Goto, Reply
  <1>3. OpInv'
    BY StoreAssumption DEF IInv, TypeOK, LockInv, OpInv, Ops, Bodies, NoOp, EmptyBody, AllKinds, Phases, ListRevisions, Finish, Goto, Reply
  <1>4. WriteInv'
    BY StoreAssumption DEF IInv, TypeOK, LockInv, OpInv, WriteInv, Critical, EtagMatches, Phases, NoOp, EmptyBody, ListRevisions, Finish, Goto, Reply
  <1>5. SnapshotVersions'
    BY StoreAssumption DEF IInv, TypeOK, SnapshotVersions, ListRevisions, Finish, Goto, Reply
  <1>6. GapFree'
    BY StoreAssumption DEF IInv, TypeOK, GapFree, ListRevisions, Finish, Goto, Reply
  <1> QED BY <1>1, <1>2, <1>3, <1>4, <1>5, <1>6 DEF IInv

\* ReadLive preserves the invariant.
LEMMA ReadLiveInv ==
    ASSUME IInv, NEW r \in Requests, ReadLive(r)
    PROVE  IInv'
  <1>1. TypeOK'
    BY StoreAssumption, ZenonT(60) DEF IInv, TypeOK, Ops, Bodies, Phases, Answers, NoOp, EmptyBody, AllKinds, ReadLive, Finish, Goto, Reply
  <1>2. LockInv'
    BY StoreAssumption DEF IInv, TypeOK, LockInv, Critical, Phases, ReadLive, Finish, Goto, Reply
  <1>3. OpInv'
    BY StoreAssumption DEF IInv, TypeOK, LockInv, OpInv, Ops, Bodies, NoOp, EmptyBody, AllKinds, Phases, ReadLive, Finish, Goto, Reply
  <1>4. WriteInv'
    BY StoreAssumption DEF IInv, TypeOK, LockInv, OpInv, WriteInv, Critical, EtagMatches, Phases, NoOp, EmptyBody, ReadLive, Finish, Goto, Reply
  <1>5. SnapshotVersions'
    BY StoreAssumption DEF IInv, TypeOK, SnapshotVersions, ReadLive, Finish, Goto, Reply
  <1>6. GapFree'
    BY StoreAssumption DEF IInv, TypeOK, GapFree, ReadLive, Finish, Goto, Reply
  <1> QED BY <1>1, <1>2, <1>3, <1>4, <1>5, <1>6 DEF IInv

\* ReadSnapshots preserves the invariant.
LEMMA ReadSnapshotsInv ==
    ASSUME IInv, NEW r \in Requests, ReadSnapshots(r)
    PROVE  IInv'
  <1>1. TypeOK'
    BY StoreAssumption DEF IInv, TypeOK, Ops, Bodies, Phases, Answers, NoOp, EmptyBody, AllKinds, ReadSnapshots, Finish, Goto, Reply
  <1>2. LockInv'
    BY StoreAssumption DEF IInv, TypeOK, LockInv, Critical, Phases, ReadSnapshots, Finish, Goto, Reply
  <1>3. OpInv'
    BY StoreAssumption DEF IInv, TypeOK, LockInv, OpInv, Ops, Bodies, NoOp, EmptyBody, AllKinds, Phases, ReadSnapshots, Finish, Goto, Reply
  <1>4. WriteInv'
    BY StoreAssumption DEF IInv, TypeOK, LockInv, OpInv, WriteInv, Critical, EtagMatches, Phases, NoOp, EmptyBody, ReadSnapshots, Finish, Goto, Reply
  <1>5. SnapshotVersions'
    BY StoreAssumption DEF IInv, TypeOK, SnapshotVersions, ReadSnapshots, Finish, Goto, Reply
  <1>6. GapFree'
    BY StoreAssumption DEF IInv, TypeOK, GapFree, ReadSnapshots, Finish, Goto, Reply
  <1> QED BY <1>1, <1>2, <1>3, <1>4, <1>5, <1>6 DEF IInv

\* WriteFails preserves the invariant.
LEMMA WriteFailsInv ==
    ASSUME IInv, NEW r \in Requests, WriteFails(r)
    PROVE  IInv'
  <1>1. TypeOK'
    BY StoreAssumption DEF IInv, TypeOK, Ops, Bodies, Phases, Answers, NoOp, EmptyBody, AllKinds, WriteFails, Locked, Goto, Reply
  <1>2. LockInv'
    BY StoreAssumption DEF IInv, TypeOK, LockInv, Critical, Phases, WriteFails, Locked, Goto, Reply
  <1>3. OpInv'
    BY StoreAssumption DEF IInv, TypeOK, LockInv, OpInv, Ops, Bodies, NoOp, EmptyBody, AllKinds, Phases, WriteFails, Locked, Goto, Reply
  <1>4. WriteInv'
    BY StoreAssumption DEF IInv, TypeOK, LockInv, OpInv, WriteInv, Critical, EtagMatches, Phases, NoOp, EmptyBody, WriteFails, Locked, Goto, Reply
  <1>5. SnapshotVersions'
    BY StoreAssumption DEF IInv, TypeOK, SnapshotVersions, WriteFails, Locked, Goto, Reply
  <1>6. GapFree'
    BY StoreAssumption DEF IInv, TypeOK, GapFree, WriteFails, Locked, Goto, Reply
  <1> QED BY <1>1, <1>2, <1>3, <1>4, <1>5, <1>6 DEF IInv

\* Crash preserves the invariant.
LEMMA CrashInv ==
    ASSUME IInv, NEW r \in Requests, Crash(r)
    PROVE  IInv'
  <1>1. TypeOK'
    BY StoreAssumption DEF IInv, TypeOK, Ops, Bodies, Phases, Answers, NoOp, EmptyBody, AllKinds, Crash, Finish, Forget, Goto, Reply
  <1>2. LockInv'
    BY StoreAssumption DEF IInv, TypeOK, LockInv, Critical, Phases, Crash, Finish, Forget, Goto, Reply
  <1>3. OpInv'
    BY StoreAssumption DEF IInv, TypeOK, LockInv, OpInv, Ops, Bodies, NoOp, EmptyBody, AllKinds, Phases, Crash, Finish, Forget, Goto, Reply
  <1>4. WriteInv'
    BY StoreAssumption DEF IInv, TypeOK, LockInv, OpInv, WriteInv, Critical, EtagMatches, Phases, NoOp, EmptyBody, Crash, Finish, Forget, Goto, Reply
  <1>5. SnapshotVersions'
    BY StoreAssumption DEF IInv, TypeOK, SnapshotVersions, Crash, Finish, Forget, Goto, Reply
  <1>6. GapFree'
    BY StoreAssumption DEF IInv, TypeOK, GapFree, Crash, Finish, Forget, Goto, Reply
  <1> QED BY <1>1, <1>2, <1>3, <1>4, <1>5, <1>6 DEF IInv


(* ------------------------------ the theorems ----------------------------- *)

\* A volume the server has not written to yet satisfies the invariant.
LEMMA InitInv == Init => IInv
  <1> SUFFICES ASSUME Init PROVE IInv
    OBVIOUS
  <1>1. doc \in Docs \union {NoDoc} /\ origin \in Nat \ {0} /\ (doc # NoDoc => origin = Ver(doc))
    BY StoreAssumption DEF Init, Docs, Ver
  <1>2. TypeOK
    BY <1>1, NoOpType DEF Init, TypeOK, Empty, Phases, Answers
  <1>3. LockInv /\ WriteInv
    BY StoreAssumption DEF Init, LockInv, WriteInv, Critical
  <1>4. OpInv
    BY NoOpType DEF Init, OpInv
  <1>5. SnapshotVersions
    BY DEF Init, SnapshotVersions, Empty
  <1>6. GapFree
    <2> SUFFICES ASSUME doc # NoDoc PROVE origin .. Ver(doc) - 1 = {}
      BY DEF GapFree
    <2> QED BY <1>1, VerType
  <1> QED BY <1>2, <1>3, <1>4, <1>5, <1>6 DEF IInv

\* Every step, of whatever request, preserves the invariant.
LEMMA StepInv == IInv /\ [Next]_vars => IInv'
  <1> SUFFICES ASSUME IInv, [Next]_vars PROVE IInv'
    OBVIOUS
  <1>1. CASE UNCHANGED vars
    BY <1>1 DEF vars, IInv, TypeOK, LockInv, OpInv, WriteInv, SnapshotVersions, GapFree,
       EtagMatches, Ver
  <1>2. ASSUME NEW r \in Requests, Client(r)
        PROVE  IInv'
    BY <1>2, GetInv, PutInv, RecordAttachmentInv, RecordStepAttachmentInv, DeleteInv,
       CreateInv, DuplicateInv, ListRevisionsInv DEF Client
  <1>3. ASSUME NEW r \in Requests, Server(r)
        PROVE  IInv'
    BY <1>3, AcquireLockInv, LockTimeoutInv, TransformAtInv, RecordTransformInv, CreateAtInv,
       SaveRevisionInv, WriteMarkerInv, RemoveEntryInv, DeleteMissingInv, UnlockInv,
       ReadLiveInv, ReadSnapshotsInv DEF Server
  <1>4. ASSUME NEW r \in Requests, WriteFails(r) \/ Crash(r)
        PROVE  IInv'
    BY <1>4, WriteFailsInv, CrashInv
  <1> QED BY <1>1, <1>2, <1>3, <1>4 DEF Next, AllAnswered

\* The invariant holds throughout.
THEOREM Invariant == Spec => []IInv
  BY InitInv, StepInv, PTL DEF Spec

\* Every variable keeps its type (the repository never publishes anything but
\* a document, and a version is always a number).
THEOREM TypeCorrect == Spec => []TypeOK
  <1>1. IInv => TypeOK
    BY DEF IInv
  <1> QED BY <1>1, Invariant, PTL

\* The document a write replaces is the one it merged into under the lock
\* (transform_at, create_at, record_attachment).
THEOREM WritesAreIsolated == Spec => []Isolation
  <1>1. IInv => Isolation
    BY DEF IInv, LockInv, WriteInv, Isolation, Critical
  <1> QED BY <1>1, Invariant, PTL

\* v<n>.json holds a document of version n (revise_case).
THEOREM SnapshotsAreFiledRight == Spec => []SnapshotVersions
  <1>1. IInv => SnapshotVersions
    BY DEF IInv
  <1> QED BY <1>1, Invariant, PTL

\* A case has a snapshot of every version it left behind, whatever crashed
\* (revise_case writes the snapshot before the marker).
THEOREM HistoryHasNoGap == Spec => []GapFree
  <1>1. IInv => GapFree
    BY DEF IInv
  <1> QED BY <1>1, Invariant, PTL

\* The marker changes only when a request publishes it or a delete removes it,
\* and the snapshots only when one is saved or a delete removes them.
LEMMA FileChanges ==
    ASSUME Next
    PROVE  /\ doc' # doc => \E r \in Requests : WriteMarker(r) \/ RemoveEntry(r)
           /\ revs' # revs => \E r \in Requests : SaveRevision(r) \/ RemoveEntry(r)
  <1>1. ASSUME NEW r \in Requests, Client(r)
        PROVE  UNCHANGED <<doc, revs>>
    BY <1>1 DEF Client, Get, Put, RecordAttachment, RecordStepAttachment, Delete, Create,
       Duplicate, ListRevisions, Resolve
  <1>2. ASSUME NEW r \in Requests, WriteFails(r) \/ Crash(r)
        PROVE  UNCHANGED <<doc, revs>>
    BY <1>2 DEF WriteFails, Crash
  <1>3. ASSUME NEW r \in Requests, Server(r)
        PROVE  \/ UNCHANGED <<doc, revs>>
               \/ WriteMarker(r) /\ UNCHANGED revs
               \/ SaveRevision(r) /\ UNCHANGED doc
               \/ RemoveEntry(r)
    <2>1. CASE AcquireLock(r) \/ LockTimeout(r) \/ DeleteMissing(r) \/ Unlock(r)
               \/ ReadLive(r) \/ ReadSnapshots(r)
      BY <2>1 DEF AcquireLock, LockTimeout, DeleteMissing, Unlock, ReadLive, ReadSnapshots, Refuse
    <2>2. CASE TransformAt(r) \/ RecordTransform(r) \/ CreateAt(r)
      BY <2>2 DEF TransformAt, RecordTransform, CreateAt, Refuse, Prepare
    <2>3. CASE WriteMarker(r) \/ SaveRevision(r)
      BY <2>3 DEF WriteMarker, SaveRevision
    <2> QED BY <1>3, <2>1, <2>2, <2>3 DEF Server
  <1>4. CASE AllAnswered
    BY <1>4 DEF AllAnswered, vars
  <1> QED BY <1>1, <1>2, <1>3, <1>4 DEF Next

\* A PUT is answered with success in one place, where it publishes the marker.
LEMMA PutSucceeds ==
    ASSUME IInv, Next, NEW r \in Requests, op[r].kind = "put",
           answer[r] = "none", answer'[r] = "ok"
    PROVE  WriteMarker(r)
  <1>1. ASSUME NEW q \in Requests, Client(q)
        PROVE  FALSE
    <2>1. pc[q] = "idle" \/ (pc[q] = "read" /\ Put(q))
      BY <1>1 DEF Client, Get, Put, RecordAttachment, RecordStepAttachment, Delete, Create,
         Duplicate, ListRevisions
    <2>2. q # r
      BY <2>1 DEF IInv, OpInv
    <2> QED BY <1>1, <2>2 DEF IInv, TypeOK, Client, Get, Put, RecordAttachment,
         RecordStepAttachment, Delete, Create, Duplicate, ListRevisions, Resolve, Finish, Reply
  <1>2. ASSUME NEW q \in Requests, WriteFails(q) \/ Crash(q)
        PROVE  FALSE
    BY <1>2 DEF IInv, TypeOK, WriteFails, Crash, Finish, Reply
  <1>3. ASSUME NEW q \in Requests, Server(q)
        PROVE  WriteMarker(r)
    <2>1. CASE AcquireLock(q) \/ SaveRevision(q) \/ Unlock(q)
      BY <2>1 DEF AcquireLock, SaveRevision, Unlock
    <2>2. CASE LockTimeout(q) \/ DeleteMissing(q)
      BY <2>2 DEF IInv, TypeOK, LockTimeout, DeleteMissing, Refuse, Finish, Reply
    <2>3. CASE TransformAt(q) \/ RecordTransform(q) \/ CreateAt(q)
      BY <2>3 DEF IInv, TypeOK, TransformAt, RecordTransform, CreateAt, Refuse, Prepare, Reply
    <2>4. CASE ReadLive(q) \/ ReadSnapshots(q)
      BY <2>4 DEF IInv, TypeOK, OpInv, ReadLive, ReadSnapshots, Finish, Reply
    <2>5. CASE RemoveEntry(q)
      BY <2>5 DEF IInv, TypeOK, OpInv, RemoveEntry, Locked, Reply
    <2>6. CASE WriteMarker(q)
      BY <2>6 DEF IInv, TypeOK, WriteMarker, Reply
    <2> QED BY <1>3, <2>1, <2>2, <2>3, <2>4, <2>5, <2>6 DEF Server
  <1>4. CASE AllAnswered
    BY <1>4 DEF AllAnswered, vars
  <1> QED BY <1>1, <1>2, <1>3, <1>4 DEF Next

\* A conditional update that succeeds replaced the document its ETag names
\* (transform_at compares under the lock of the write).
THEOREM ConditionalUpdatesAreSafe == Spec => NoLostUpdate
  <1> DEFINE Act == \A r \in Requests :
                       /\ op[r].kind = "put" /\ etag[r] # NoDoc
                       /\ answer[r] = "none" /\ answer'[r] = "ok"
                       => doc = etag[r]
  <1>1. IInv /\ [Next]_vars => [Act]_vars
    <2> SUFFICES ASSUME IInv, Next, NEW r \in Requests,
                        op[r].kind = "put", etag[r] # NoDoc,
                        answer[r] = "none", answer'[r] = "ok"
                 PROVE  doc = etag[r]
      OBVIOUS
    <2>1. WriteMarker(r)
      BY PutSucceeds
    <2> QED BY <2>1 DEF IInv, WriteInv, WriteMarker, EtagMatches
  <1> QED BY <1>1, Invariant, PTL DEF Spec, NoLostUpdate

\* A snapshot is never rewritten, and one disappears only while a delete of the case
\* holds the lock, from a folder that is then empty or half removed
\* (save_revision_inner, delete_at).
THEOREM SnapshotsAreImmutable == Spec => RevisionsImmutable
  <1> DEFINE Act == \A v \in DOMAIN revs :
                      \/ v \in DOMAIN revs' /\ revs'[v] = revs[v]
                      \/ /\ v \notin DOMAIN revs'
                         /\ \E r \in Requests : lock = r /\ op[r].kind = "delete"
                         /\ torn' \/ (doc' = NoDoc /\ revs' = Empty)
  <1>1. IInv /\ [Next]_vars => [Act]_revs
    <2> SUFFICES ASSUME IInv, Next, revs' # revs PROVE Act
      BY DEF vars
    <2>1. PICK r \in Requests : SaveRevision(r) \/ RemoveEntry(r)
      BY FileChanges
    <2>2. CASE SaveRevision(r)
      BY <2>2 DEF SaveRevision, SavedRevision
    <2>3. CASE RemoveEntry(r)
      <3>1. lock = r /\ op[r].kind = "delete"
        BY <2>3 DEF RemoveEntry, Locked, IInv, LockInv, OpInv, Critical
      <3>2. torn' \/ (doc' = NoDoc /\ revs' = Empty)
        BY <2>3, RemoveLeaves
      <3> QED BY <2>3, <3>1, <3>2, RemoveLeaves
    <2> QED BY <2>1, <2>2, <2>3
  <1> QED BY <1>1, Invariant, PTL DEF Spec, RevisionsImmutable

\* Whatever a body says, the version of a stored case stays or moves on by one
\* (revise_case).
THEOREM VersionsMoveByOne == Spec => VersionSteps
  <1> DEFINE Act == doc # NoDoc /\ doc' # NoDoc => Ver(doc') \in {Ver(doc), Ver(doc) + 1}
  <1>1. IInv /\ [Next]_vars => [Act]_doc
    <2> SUFFICES ASSUME IInv, Next, doc' # doc, doc # NoDoc, doc' # NoDoc
                 PROVE  Ver(doc') \in {Ver(doc), Ver(doc) + 1}
      BY DEF vars
    <2>1. PICK r \in Requests : WriteMarker(r) \/ RemoveEntry(r)
      BY FileChanges
    <2>2. CASE WriteMarker(r)
      BY <2>2 DEF WriteMarker, IInv, WriteInv
    <2>3. CASE RemoveEntry(r)
      BY <2>3 DEF RemoveEntry
    <2> QED BY <2>1, <2>2, <2>3
  <1> QED BY <1>1, Invariant, PTL DEF Spec, VersionSteps

(* ----------------------- the history without faults --------------------- *)

\* Nobody but a running delete leaves the folder half removed, or snapshots without
\* a marker.
RemovalInv ==
    /\ torn => \E r \in Requests : pc[r] = "deleting"
    /\ doc = NoDoc /\ ~torn => revs = Empty

\* An update supersedes the document when a qualifying field changes, and then
\* the document it replaces is in its snapshot; any other keeps the version.
SupersedeInv ==
    \A r \in Requests :
        pc[r] \in {"snapshot", "write"} /\ doc # NoDoc =>
            \/ pc[r] = "write" /\ next[r].version = doc.version
            \/ /\ next[r].version = Ver(doc) + 1
               /\ next[r].content # doc.content
               /\ pc[r] = "write" => Ver(doc) \in DOMAIN revs /\ revs[Ver(doc)] = doc

\* Only an update between its snapshot and its rename is ahead of the marker.
AheadInv ==
    doc # NoDoc =>
        \A v \in DOMAIN revs :
            \/ v < Ver(doc)
            \/ /\ v = Ver(doc)
               /\ \E r \in Requests : pc[r] = "write" /\ next[r].version = Ver(doc) + 1

ExactInv == RemovalInv /\ SupersedeInv /\ AheadInv

\* A folder nobody has written to has no history.
LEMMA InitExact == Init => ExactInv
  <1> SUFFICES ASSUME Init PROVE ExactInv
    OBVIOUS
  <1> QED BY DEF Init, ExactInv, RemovalInv, SupersedeInv, AheadInv, Empty

\* A step that touches no file, and takes no request into or out of the
\* phases in which files change, leaves the history exact.
LEMMA QuietExact ==
    ASSUME ExactInv, NEW r \in Requests, UNCHANGED <<doc, revs, torn>>,
           \A q \in Requests \ {r} : pc'[q] = pc[q] /\ next'[q] = next[q],
           pc[r] \notin {"write", "deleting"}, pc'[r] \notin {"snapshot", "write"}
    PROVE  ExactInv'
  <1>1. RemovalInv'
    BY DEF ExactInv, RemovalInv
  <1>2. SupersedeInv'
    BY DEF ExactInv, SupersedeInv, Ver
  <1>3. AheadInv'
    BY DEF ExactInv, AheadInv, Ver
  <1> QED BY <1>1, <1>2, <1>3 DEF ExactInv

\* What a client starts, and what a history listing reads, is quiet.
LEMMA ClientExact ==
    ASSUME IInv, ExactInv, NEW r \in Requests,
           Client(r) \/ ReadLive(r) \/ ReadSnapshots(r)
    PROVE  ExactInv'
  <1>1. CASE Get(r)
    BY <1>1, QuietExact DEF IInv, TypeOK, Get, Goto
  <1>2. CASE Put(r) \/ RecordAttachment(r) \/ RecordStepAttachment(r) \/ Delete(r)
    <2>1. pc[r] \in {"idle", "read"} /\ \E kind, body : Resolve(r, kind, body)
      BY <1>2 DEF Put, RecordAttachment, RecordStepAttachment, Delete
    <2>2. PICK kind, body : Resolve(r, kind, body)
      BY <2>1
    <2> QED BY <2>1, <2>2, QuietExact DEF IInv, TypeOK, Resolve, Finish, Forget, Goto, Reply
  <1>3. CASE Create(r) \/ Duplicate(r)
    BY <1>3, QuietExact DEF IInv, TypeOK, Create, Duplicate, Goto
  <1>4. CASE ListRevisions(r) \/ ReadLive(r) \/ ReadSnapshots(r)
    BY <1>4, QuietExact DEF IInv, TypeOK, ListRevisions, ReadLive, ReadSnapshots, Finish,
       Goto, Reply
  <1> QED BY <1>1, <1>2, <1>3, <1>4 DEF Client

\* So is taking, not getting and leaving the lock.
LEMMA LockingExact ==
    ASSUME IInv, ExactInv, NEW r \in Requests,
           AcquireLock(r) \/ LockTimeout(r) \/ Unlock(r) \/ DeleteMissing(r)
    PROVE  ExactInv'
  BY QuietExact DEF IInv, TypeOK, AcquireLock, LockTimeout, Unlock, DeleteMissing, Locked,
     Refuse, Finish, Forget, Goto, Reply

\* And refusing under the lock.
LEMMA RefuseExact ==
    ASSUME IInv, ExactInv, NEW r \in Requests, pc[r] = "locked", NEW status,
           Refuse(r, status)
    PROVE  ExactInv'
  BY QuietExact DEF IInv, TypeOK, Refuse, Goto

\* Preparing a document that supersedes the stored one or keeps its version.
LEMMA PrepareExact ==
    ASSUME IInv, ExactInv, NEW r \in Requests, pc[r] = "locked",
           NEW new, NEW phase \in {"snapshot", "write"}, Prepare(r, new, phase),
           phase = "snapshot" => new.version = Ver(doc) + 1 /\ new.content # doc.content,
           phase = "write" => doc = NoDoc \/ new.version = doc.version
    PROVE  ExactInv'
  <1>1. \A q \in Requests \ {r} : pc'[q] = pc[q] /\ next'[q] = next[q]
    BY DEF IInv, TypeOK, Prepare, Goto
  <1>2. pc'[r] = phase /\ next'[r] = new /\ UNCHANGED <<doc, revs, torn>>
    BY DEF IInv, TypeOK, Prepare, Goto
  <1>3. RemovalInv'
    BY <1>1, <1>2 DEF ExactInv, RemovalInv
  <1>4. SupersedeInv'
    BY <1>1, <1>2 DEF ExactInv, SupersedeInv, Ver
  <1>5. AheadInv'
    BY <1>1, <1>2 DEF ExactInv, AheadInv, Ver
  <1> QED BY <1>3, <1>4, <1>5 DEF ExactInv

\* An update is prepared with the next version exactly when it snapshots.
LEMMA TransformAtExact ==
    ASSUME IInv, ExactInv, NEW r \in Requests, TransformAt(r)
    PROVE  ExactInv'
  <1> DEFINE merged == MergedDocument(doc, op[r].body)
  <1>0. pc[r] = "locked"
    BY DEF TransformAt, Locked
  <1>1. CASE Refuse(r, "missing") \/ Refuse(r, "mismatch")
    BY <1>0, <1>1, RefuseExact
  <1>2. CASE /\ doc # NoDoc
             /\ Prepare(r, ReviseCase(doc, merged),
                        IF CaseContentChanged(doc, merged) THEN "snapshot" ELSE "write")
    <2>1. merged \in Docs
      BY <1>2, MergedType DEF IInv, TypeOK, Ops
    <2> HIDE DEF merged
    <2>2. CASE CaseContentChanged(doc, merged)
      <3>1. /\ ReviseCase(doc, merged).version = Ver(doc) + 1
            /\ ReviseCase(doc, merged).content # doc.content
        BY <2>1, <2>2 DEF ReviseCase, CaseContentChanged, Docs
      <3>2. Prepare(r, ReviseCase(doc, merged), "snapshot")
        BY <1>2, <2>2
      <3> QED BY <1>0, <3>1, <3>2, PrepareExact
    <2>3. CASE ~CaseContentChanged(doc, merged)
      <3>1. ReviseCase(doc, merged).version = doc.version
        BY <2>1, <2>3 DEF ReviseCase, Docs
      <3>2. Prepare(r, ReviseCase(doc, merged), "write")
        BY <1>2, <2>3
      <3> QED BY <1>0, <3>1, <3>2, PrepareExact
    <2> QED BY <2>2, <2>3
  <1> QED BY <1>1, <1>2 DEF TransformAt

\* A record of an attachment keeps the version.
LEMMA RecordTransformExact ==
    ASSUME IInv, ExactInv, NEW r \in Requests, RecordTransform(r)
    PROVE  ExactInv'
  <1> DEFINE new == [MergedDocument(doc, op[r].body) EXCEPT !.version = doc.version]
  <1>0. pc[r] = "locked"
    BY DEF RecordTransform, Locked
  <1>1. CASE Refuse(r, "missing")
    BY <1>0, <1>1, RefuseExact
  <1>2. CASE doc # NoDoc /\ Prepare(r, new, "write")
    <2>1. new.version = doc.version
      BY DEF MergedDocument
    <2> HIDE DEF new
    <2> QED BY <1>0, <1>2, <2>1, PrepareExact
  <1> QED BY <1>1, <1>2 DEF RecordTransform

\* A create prepares its document only where there is none.
LEMMA CreateAtExact ==
    ASSUME IInv, ExactInv, NEW r \in Requests, CreateAt(r)
    PROVE  ExactInv'
  <1>0. pc[r] = "locked"
    BY DEF CreateAt, Locked
  <1>1. CASE Refuse(r, "conflict")
    BY <1>0, <1>1, RefuseExact
  <1>2. CASE ~Refuse(r, "conflict")
    <2>1. PICK new : doc = NoDoc /\ Prepare(r, new, "write")
      BY <1>2 DEF CreateAt
    <2> QED BY <1>0, <2>1, PrepareExact
  <1> QED BY <1>1, <1>2

\* The request that holds the lock is alone among the files.
LEMMA HolderIsAlone ==
    ASSUME IInv, ExactInv, NEW r \in Requests, pc[r] \in Critical
    PROVE  /\ \A q \in Requests : q # r => pc[q] \notin Critical
           /\ pc[r] # "deleting" => ~torn
           /\ doc \in Docs \union {NoDoc} /\ (doc # NoDoc => doc \in Docs /\ Ver(doc) \in Nat \ {0})
  <1>1. \A q \in Requests : q # r => pc[q] \notin Critical
    BY DEF IInv, LockInv
  <1>2. pc[r] # "deleting" => ~torn
    BY <1>1 DEF ExactInv, RemovalInv, Critical
  <1>3. doc \in Docs \union {NoDoc}
    BY DEF IInv, TypeOK
  <1> QED BY <1>1, <1>2, <1>3, VerType

\* The snapshot is of the document that stands: nothing was there before it.
LEMMA SnapshotIsNew ==
    ASSUME IInv, ExactInv, NEW r \in Requests, SaveRevision(r)
    PROVE  /\ doc \in Docs /\ Ver(doc) \in Nat \ {0} /\ ~torn
           /\ Ver(doc) \notin DOMAIN revs
           /\ DOMAIN revs' = DOMAIN revs \union {Ver(doc)}
           /\ \A w \in DOMAIN revs : revs'[w] = revs[w]
           /\ revs'[Ver(doc)] = doc
  <1>1. base[r] = doc /\ doc \in Docs /\ doc # NoDoc /\ pc[r] = "snapshot"
    BY NoDocIsNoDoc DEF IInv, TypeOK, WriteInv, SaveRevision
  <1>2. Ver(doc) \in Nat \ {0} /\ ~torn /\ \A q \in Requests : pc[q] # "write"
    BY <1>1, HolderIsAlone DEF Critical
  <1>3. Ver(doc) \notin DOMAIN revs
    BY <1>1, <1>2 DEF ExactInv, AheadInv
  <1>4. revs' = SavedRevision(revs, Ver(doc), doc)
    BY <1>1 DEF SaveRevision
  <1> QED BY <1>1, <1>2, <1>3, <1>4 DEF SavedRevision

\* SaveRevision keeps the history exact.
LEMMA SaveRevisionExact ==
    ASSUME IInv, ExactInv, NEW r \in Requests, SaveRevision(r)
    PROVE  ExactInv'
  <1>1. /\ pc[r] = "snapshot" /\ pc'[r] = "write" /\ UNCHANGED <<doc, next, torn>>
        /\ \A q \in Requests \ {r} : pc'[q] = pc[q]
    BY DEF IInv, TypeOK, SaveRevision, Goto
  <1>2. \A q \in Requests \ {r} : pc[q] \notin Critical
    BY <1>1, HolderIsAlone DEF Critical
  <1>3. doc # NoDoc
    BY SnapshotIsNew, NoDocIsNoDoc
  <1>4. RemovalInv'
    BY <1>1, <1>3, SnapshotIsNew DEF RemovalInv
  <1>5. next[r].version = Ver(doc) + 1 /\ next[r].content # doc.content
    BY <1>1, <1>3 DEF ExactInv, SupersedeInv
  <1>6. SupersedeInv'
    <2> SUFFICES ASSUME NEW q \in Requests, pc'[q] \in {"snapshot", "write"}
                 PROVE  SupersedeInv!(q)!2'
      BY DEF SupersedeInv
    <2>1. q = r
      BY <1>1, <1>2 DEF Critical
    <2>2. Ver(doc)' = Ver(doc)
      BY <1>1 DEF Ver
    <2> QED BY <1>1, <1>5, <2>1, <2>2, SnapshotIsNew
  <1>7. AheadInv'
    <2>1. Ver(doc)' = Ver(doc)
      BY <1>1 DEF Ver
    <2>2. \A v \in DOMAIN revs : v < Ver(doc)
      BY <1>1, <1>2, <1>3 DEF ExactInv, AheadInv, Critical
    <2> QED BY <1>1, <1>5, <2>1, <2>2, SnapshotIsNew DEF AheadInv
  <1> QED BY <1>4, <1>6, <1>7 DEF ExactInv

\* Publishing the marker: what it replaces, and what becomes of the version.
LEMMA MarkerFacts ==
    ASSUME IInv, ExactInv, NEW r \in Requests, WriteMarker(r)
    PROVE  /\ pc[r] = "write" /\ pc'[r] = "unlocking"
           /\ \A q \in Requests \ {r} : pc'[q] = pc[q] /\ pc[q] \notin Critical
           /\ doc' = next[r] /\ doc' \in Docs /\ doc' # NoDoc /\ Ver(doc') \in Nat \ {0}
           /\ ~torn /\ UNCHANGED <<revs, torn>>
           /\ doc = NoDoc => revs = Empty
           /\ doc # NoDoc =>
                /\ doc \in Docs /\ Ver(doc) \in Nat \ {0}
                /\ \/ /\ doc'.version = doc.version /\ Ver(doc') = Ver(doc)
                      /\ \A v \in DOMAIN revs : v < Ver(doc)
                   \/ /\ doc'.version = Ver(doc) + 1 /\ Ver(doc') = Ver(doc) + 1
                      /\ doc'.content # doc.content
                      /\ Ver(doc) \in DOMAIN revs /\ revs[Ver(doc)] = doc
                      /\ \A v \in DOMAIN revs : v <= Ver(doc)
  <1>1. /\ pc[r] = "write" /\ pc'[r] = "unlocking" /\ doc' = next[r] /\ UNCHANGED <<revs, torn>>
        /\ \A q \in Requests \ {r} : pc'[q] = pc[q]
    BY DEF IInv, TypeOK, WriteMarker, Goto
  <1>2. (\A q \in Requests \ {r} : pc[q] \notin Critical) /\ ~torn
    BY <1>1, HolderIsAlone DEF Critical
  <1>3. doc' \in Docs /\ doc' # NoDoc /\ Ver(doc') \in Nat \ {0}
    BY <1>1, NoDocIsNoDoc, VerType DEF IInv, WriteInv
  <1>4. doc = NoDoc => revs = Empty
    BY <1>2 DEF ExactInv, RemovalInv
  <1>5. ASSUME doc # NoDoc
        PROVE  /\ doc \in Docs /\ Ver(doc) \in Nat \ {0}
               /\ \/ /\ doc'.version = doc.version /\ Ver(doc') = Ver(doc)
                     /\ \A v \in DOMAIN revs : v < Ver(doc)
                  \/ /\ doc'.version = Ver(doc) + 1 /\ Ver(doc') = Ver(doc) + 1
                     /\ doc'.content # doc.content
                     /\ Ver(doc) \in DOMAIN revs /\ revs[Ver(doc)] = doc
                     /\ \A v \in DOMAIN revs : v <= Ver(doc)
    <2>1. doc \in Docs /\ Ver(doc) \in Nat \ {0} /\ doc.version \in Nat
      BY <1>1, <1>5, HolderIsAlone DEF Critical, Docs
    <2>2. \A v \in DOMAIN revs :
             v < Ver(doc) \/ (v = Ver(doc) /\ next[r].version = Ver(doc) + 1)
      BY <1>1, <1>2, <1>5 DEF ExactInv, AheadInv, Critical
    <2>3. DOMAIN revs \subseteq Nat
      BY DEF IInv, TypeOK
    <2>4. CASE next[r].version = doc.version
      <3>1. next[r].version # Ver(doc) + 1
        BY <2>1, <2>4 DEF Ver
      <3>2. Ver(doc') = Ver(doc)
        BY <1>1, <2>4 DEF Ver
      <3> QED BY <1>1, <2>1, <2>2, <2>4, <3>1, <3>2
    <2>5. CASE next[r].version # doc.version
      <3>1. /\ next[r].version = Ver(doc) + 1 /\ next[r].content # doc.content
            /\ Ver(doc) \in DOMAIN revs /\ revs[Ver(doc)] = doc
        BY <1>1, <1>5, <2>5 DEF ExactInv, SupersedeInv
      <3>2. Ver(doc') = Ver(doc) + 1
        BY <1>1, <2>1, <3>1 DEF Ver
      <3>3. \A v \in DOMAIN revs : v <= Ver(doc)
        BY <2>1, <2>2, <2>3
      <3> QED BY <1>1, <2>1, <3>1, <3>2, <3>3
    <2> QED BY <2>4, <2>5
  <1> QED BY <1>1, <1>2, <1>3, <1>4, <1>5

\* WriteMarker keeps the history exact.
LEMMA WriteMarkerExact ==
    ASSUME IInv, ExactInv, NEW r \in Requests, WriteMarker(r)
    PROVE  ExactInv'
  <1>1. RemovalInv'
    BY MarkerFacts DEF RemovalInv
  <1>2. SupersedeInv'
    BY MarkerFacts DEF SupersedeInv, Critical
  <1>3. AheadInv'
    <2>1. \A v \in DOMAIN revs : v < Ver(doc')
      <3>1. DOMAIN revs \subseteq Nat
        BY DEF IInv, TypeOK
      <3>2. CASE doc = NoDoc
        BY <3>2, MarkerFacts DEF Empty
      <3>3. CASE doc # NoDoc
        BY <3>1, <3>3, MarkerFacts
      <3> QED BY <3>2, <3>3
    <2>2. Ver(doc') = Ver(doc)' /\ DOMAIN revs' = DOMAIN revs
      BY MarkerFacts DEF Ver
    <2> QED BY <2>1, <2>2 DEF AheadInv
  <1> QED BY <1>1, <1>2, <1>3 DEF ExactInv

\* Removing an entry: who does it, and what is left.
LEMMA RemoveFacts ==
    ASSUME IInv, ExactInv, NEW r \in Requests, RemoveEntry(r)
    PROVE  /\ pc[r] \in {"locked", "deleting"} /\ UNCHANGED next
           /\ \A q \in Requests \ {r} : pc'[q] = pc[q] /\ pc[q] \notin Critical
           /\ pc'[r] \in {"deleting", "unlocking"}
           /\ ~torn => doc # NoDoc
           /\ torn' = (pc'[r] = "deleting")
           /\ torn' = (doc' # NoDoc \/ revs' # Empty)
  <1>1. pc[r] \in {"locked", "deleting"} /\ UNCHANGED next
    BY DEF RemoveEntry, Locked
  <1>2. \A q \in Requests \ {r} : pc'[q] = pc[q] /\ pc[q] \notin Critical
    BY <1>1, HolderIsAlone DEF IInv, TypeOK, RemoveEntry, Goto, Critical
  <1>3. /\ pc'[r] \in {"deleting", "unlocking"}
        /\ torn' = (pc'[r] = "deleting")
        /\ torn' = (doc' # NoDoc \/ revs' # Empty)
    BY DEF IInv, TypeOK, RemoveEntry, Goto
  <1>4. ~torn => doc # NoDoc
    BY DEF ExactInv, RemovalInv, RemoveEntry, Empty
  <1> QED BY <1>1, <1>2, <1>3, <1>4

\* RemoveEntry keeps the history exact.
LEMMA RemoveEntryExact ==
    ASSUME IInv, ExactInv, NEW r \in Requests, RemoveEntry(r)
    PROVE  ExactInv'
  <1>1. RemovalInv'
    BY RemoveFacts DEF RemovalInv
  <1>2. SupersedeInv'
    BY RemoveFacts DEF SupersedeInv, Critical
  <1>3. AheadInv'
    <2> SUFFICES ASSUME doc' # NoDoc, NEW v \in DOMAIN revs'
                 PROVE  v < Ver(doc)'
      BY DEF AheadInv
    <2>1. doc' = doc /\ v \in DOMAIN revs
      BY RemoveLeaves
    <2>2. \A q \in Requests : pc[q] # "write"
      BY RemoveFacts DEF Critical
    <2> QED BY <2>1, <2>2 DEF ExactInv, AheadInv, Ver
  <1> QED BY <1>1, <1>2, <1>3 DEF ExactInv

\* Without faults every step keeps the history exact.
LEMMA StepExact ==
    ASSUME Faults = {}
    PROVE  IInv /\ ExactInv /\ [Next]_vars => ExactInv'
  <1> SUFFICES ASSUME IInv, ExactInv, [Next]_vars PROVE ExactInv'
    OBVIOUS
  <1>1. CASE UNCHANGED vars
    BY <1>1 DEF vars, ExactInv, RemovalInv, SupersedeInv, AheadInv, Ver
  <1>2. ASSUME NEW r \in Requests, Client(r) \/ Server(r)
        PROVE  ExactInv'
    BY <1>2, ClientExact, LockingExact, TransformAtExact, RecordTransformExact, CreateAtExact,
       SaveRevisionExact, WriteMarkerExact, RemoveEntryExact DEF Server
  <1>3. ASSUME NEW r \in Requests
        PROVE  ~WriteFails(r) /\ ~Crash(r)
    BY DEF WriteFails, Crash
  <1> QED BY <1>1, <1>2, <1>3 DEF Next, AllAnswered

\* The strengthened invariant of a store nothing goes wrong in.
LEMMA ExactInvariant ==
    ASSUME Faults = {}
    PROVE  Spec => [](IInv /\ ExactInv)
  <1>1. IInv /\ ExactInv /\ [Next]_vars => IInv' /\ ExactInv'
    BY StepInv, StepExact
  <1> QED BY <1>1, InitInv, InitExact, PTL DEF Spec

\* While nothing fails, no snapshot is ahead of the marker but the one of the
\* update in flight, and every new version has the document it replaced as its
\* predecessor's snapshot (revise_case, save_revision_inner).
THEOREM SnapshotsAreThePast ==
    ASSUME Faults = {}
    PROVE  Spec => HistoryExact
  <1> DEFINE Act == doc # NoDoc /\ doc' # NoDoc /\ Ver(doc') > Ver(doc)
                      => revs'[Ver(doc)] = doc
  <1>1. IInv /\ ExactInv => NoneAhead
    BY DEF ExactInv, AheadInv, NoneAhead
  <1>2. IInv /\ ExactInv /\ [Next]_vars => [Act]_doc
    <2> SUFFICES ASSUME IInv, ExactInv, Next, doc' # doc,
                        doc # NoDoc, doc' # NoDoc, Ver(doc') > Ver(doc)
                 PROVE  revs'[Ver(doc)] = doc
      BY DEF vars
    <2>1. PICK r \in Requests : WriteMarker(r) \/ RemoveEntry(r)
      BY FileChanges
    <2>2. CASE WriteMarker(r)
      <3>1. Ver(doc') # Ver(doc)
        BY <2>2, MarkerFacts
      <3> QED BY <2>2, <3>1, MarkerFacts
    <2>3. CASE RemoveEntry(r)
      BY <2>3 DEF RemoveEntry
    <2> QED BY <2>1, <2>2, <2>3
  <1> QED BY <1>1, <1>2, ExactInvariant, PTL DEF Spec, HistoryExact, SnapshotIsPreUpdate

(* ------------------------------ refinement ------------------------------ *)

\* Saving the snapshot of a document that still stands is not seen.
LEMMA SaveRevisionUnseen ==
    ASSUME IInv, ExactInv, NEW r \in Requests, SaveRevision(r)
    PROVE  UNCHANGED <<LiveView, PastView>>
  <1> DEFINE V == {w \in DOMAIN revs : w < Ver(doc)}
             W == {w \in DOMAIN revs \union {Ver(doc)} : w < Ver(doc)}
  <1>1. doc # NoDoc /\ doc' = doc /\ torn' = torn /\ Ver(doc') = Ver(doc) /\ ~torn
    BY SnapshotIsNew, NoDocIsNoDoc DEF SaveRevision, Ver
  <1>2. W = V
    BY SnapshotIsNew
  <1>3. PastView = [v \in V |-> revs[v]]
    BY <1>1 DEF PastView, LiveView
  <1>4. PastView' = [v \in W |-> revs'[v]]
    <2>1. PastView' = [v \in {w \in DOMAIN revs' : w < Ver(doc')} |-> revs'[v]]
      BY <1>1 DEF PastView, LiveView, Ver
    <2> QED BY <1>1, <2>1, SnapshotIsNew
  <1>5. \A v \in V : revs'[v] = revs[v]
    BY SnapshotIsNew
  <1>6. PastView' = PastView
    BY <1>2, <1>3, <1>4, <1>5
  <1> QED BY <1>1, <1>6 DEF LiveView

\* Publishing the marker is the whole of a filing, a revision or an amendment.
LEMMA WriteMarkerSeen ==
    ASSUME IInv, ExactInv, NEW r \in Requests, WriteMarker(r)
    PROVE  History!Next
  <1>1. LiveView = doc /\ LiveView' = doc' /\ doc' # NoDoc /\ doc' \in History!Docs
    BY MarkerFacts DEF LiveView, History!Docs, Docs
  <1>2. PastView' = [v \in {w \in DOMAIN revs : w < Ver(doc')} |-> revs[v]]
    BY <1>1, MarkerFacts DEF PastView, Ver
  <1>3. CASE doc = NoDoc
    <2>1. PastView' = History!Nothing
      BY <1>2, <1>3, MarkerFacts DEF Empty, History!Nothing
    <2> QED BY <1>1, <1>3, <2>1 DEF History!Next, History!File
  <1>4. CASE doc # NoDoc
    <2>1. PastView = [v \in {w \in DOMAIN revs : w < Ver(doc)} |-> revs[v]]
      BY <1>1, <1>4, MarkerFacts DEF PastView
    <2>2. CASE doc'.version = doc.version
      <3>1. Ver(doc') = Ver(doc)
        BY <2>2 DEF Ver
      <3> QED BY <1>1, <1>2, <1>4, <2>1, <2>2, <3>1 DEF History!Next, History!Amend
    <2>3. CASE doc'.version # doc.version
      <3> DEFINE n == Ver(doc)
                 V == {w \in DOMAIN revs : w < n}
      <3>1. /\ doc'.version = n + 1 /\ Ver(doc') = n + 1 /\ doc'.content # doc.content
            /\ n \in DOMAIN revs /\ revs[n] = doc /\ n \in Nat
        BY <1>4, <2>3, MarkerFacts
      <3>2. DOMAIN revs \subseteq Nat
        BY DEF IInv, TypeOK
      <3>3. n = History!VersionOf(doc)
        BY DEF Ver, History!VersionOf
      <3> HIDE DEF n
      <3>4. {w \in DOMAIN revs : w < n + 1} = V \union {n}
        BY <3>1, <3>2
      <3>5. PastView = [v \in V |-> revs[v]]
        BY <2>1 DEF n
      <3>6. PastView' = [v \in V \union {n} |-> revs[v]]
        BY <1>2, <3>1, <3>4
      <3>7. PastView' = [v \in DOMAIN PastView \union {n} |-> IF v = n THEN doc ELSE PastView[v]]
        BY <3>1, <3>5, <3>6
      <3> QED BY <1>1, <1>4, <3>1, <3>3, <3>7 DEF History!Next, History!Revise
    <2> QED BY <2>2, <2>3
  <1> QED BY <1>3, <1>4

\* The first entry a delete removes takes the case away; the rest is not seen.
LEMMA RemoveEntrySeen ==
    ASSUME IInv, ExactInv, NEW r \in Requests, RemoveEntry(r)
    PROVE  History!Next \/ UNCHANGED <<LiveView, PastView>>
  <1>1. LiveView' = NoDoc
    BY RemoveFacts DEF LiveView
  <1>2. PastView' = Empty /\ Empty = History!Nothing
    BY <1>1 DEF PastView, Empty, History!Nothing
  <1>3. CASE torn
    BY <1>1, <1>2, <1>3 DEF LiveView, PastView
  <1>4. CASE ~torn
    BY <1>1, <1>2, <1>4, RemoveFacts DEF LiveView, History!Next, History!Remove
  <1> QED BY <1>3, <1>4 DEF IInv, TypeOK

\* Only a delete begins or ends the removal of the folder.
LEMMA TornChanges ==
    ASSUME Next, torn' # torn
    PROVE  \E r \in Requests : RemoveEntry(r)
  <1>1. ASSUME NEW r \in Requests, Client(r) \/ WriteFails(r) \/ Crash(r)
        PROVE  torn' = torn
    BY <1>1 DEF Client, Get, Put, RecordAttachment, RecordStepAttachment, Delete, Create,
       Duplicate, ListRevisions, Resolve, WriteFails, Crash
  <1>2. ASSUME NEW r \in Requests, Server(r)
        PROVE  torn' = torn \/ RemoveEntry(r)
    BY <1>2 DEF Server, AcquireLock, LockTimeout, TransformAt, RecordTransform, CreateAt,
       SaveRevision, WriteMarker, DeleteMissing, Unlock, ReadLive, ReadSnapshots, Refuse, Prepare
  <1>3. CASE AllAnswered
    BY <1>3 DEF AllAnswered, vars
  <1> QED BY <1>1, <1>2, <1>3 DEF Next

\* Seen through the mapping, every step is a step of CaseHistory or nothing.
LEMMA StepSeen ==
    ASSUME IInv, ExactInv, [Next]_vars
    PROVE  [History!Next]_<<LiveView, PastView>>
  <1>1. CASE UNCHANGED <<doc, revs, torn>>
    BY <1>1 DEF LiveView, PastView, Ver
  <1>2. CASE ~UNCHANGED <<doc, revs, torn>>
    <2>1. Next
      BY <1>2 DEF vars
    <2>2. PICK r \in Requests : SaveRevision(r) \/ WriteMarker(r) \/ RemoveEntry(r)
      BY <1>2, <2>1, FileChanges, TornChanges
    <2> QED BY <2>2, SaveRevisionUnseen, WriteMarkerSeen, RemoveEntrySeen
  <1> QED BY <1>1, <1>2

\* The folder, with its lock, its two renames per update and its entry-by-entry
\* delete, implements the history its readers are promised (transform_at,
\* revise_case, save_revision_inner, create_at, delete_at), for any number of
\* concurrent requests, as long as no write fails and no process dies.
THEOREM Refinement ==
    ASSUME Faults = {}
    PROVE  Spec => ImplementsHistory
  <1>1. Init => History!Init
    <2> SUFFICES ASSUME Init PROVE History!Init
      OBVIOUS
    <2>1. LiveView = doc /\ doc \in Docs \union {NoDoc}
      BY InitInv DEF Init, LiveView, IInv, TypeOK
    <2>2. PastView = History!Nothing
      BY DEF Init, PastView, Empty, History!Nothing
    <2> QED BY <2>1, <2>2 DEF History!Init, History!Docs, Docs
  <1>2. IInv /\ ExactInv /\ [Next]_vars => [History!Next]_<<LiveView, PastView>>
    BY StepSeen
  <1> QED BY <1>1, <1>2, ExactInvariant, PTL DEF Spec, ImplementsHistory, History!Spec

(* --------------------------------- dates --------------------------------- *)

\* The parts of CivilFromDays: the year and the day of a 400-year era, counted
\* from 1 March, and the month and the day of a year, counted from March.
Yoe(e) == (e - e \div 1460 + e \div 36524 - e \div 146096) \div 365
Doy(e) == e - (365 * Yoe(e) + Yoe(e) \div 4 - Yoe(e) \div 100)
March(d) == (5 * d + 2) \div 153
DayOf(d) == d - (153 * March(d) + 2) \div 5 + 1
MonthOf(d) == IF March(d) < 10 THEN March(d) + 3 ELSE March(d) - 9

\* Day d of year y of an era, as a date.
Civil(era, y, d) ==
    Date(y + era * 400 + (IF MonthOf(d) <= 2 THEN 1 ELSE 0), MonthOf(d), DayOf(d))

\* An era has four centuries of 25 cycles of four years, the last of which in a
\* cycle ends in a leap day, but for that of the first three centuries' ends.
LEMMA EraSplit ==
    ASSUME NEW e \in Nat, e <= 146096
    PROVE  \E c \in 0..3, q \in 0..24, t \in 0..3, d \in Nat :
              /\ d <= 365 /\ e = 36524 * c + 1461 * q + 365 * t + d
              /\ d = 365 => t = 3 /\ (q # 24 \/ c = 3)
  <1>1. CASE e = 146096
    <2>1. e = 36524 * 3 + 1461 * 24 + 365 * 3 + 365
      BY <1>1, SMT
    <2> QED BY <2>1, SMT
  <1>2. CASE e # 146096
    <2>1. PICK c \in 0..3, r \in Nat : r <= 36523 /\ e = 36524 * c + r
      <3>1. e \div 36524 \in 0..3 /\ e - 36524 * (e \div 36524) \in Nat /\ e - 36524 * (e \div 36524) <= 36523
        BY <1>2, SMT
      <3>2. e = 36524 * (e \div 36524) + (e - 36524 * (e \div 36524))
        BY SMT
      <3> QED BY <3>1, <3>2, SMT
    <2>2. PICK q \in 0..24, s \in Nat : s <= 1460 /\ r = 1461 * q + s
      <3>1. r \div 1461 \in 0..24 /\ r - 1461 * (r \div 1461) \in Nat /\ r - 1461 * (r \div 1461) <= 1460
        BY <2>1, SMT
      <3>2. r = 1461 * (r \div 1461) + (r - 1461 * (r \div 1461))
        BY SMT
      <3> QED BY <3>1, <3>2, SMT
    <2>3. CASE s = 1460
      <3>1. q # 24 /\ s = 365 * 3 + 365
        BY <2>1, <2>2, <2>3, SMT
      <3>2. e = 36524 * c + 1461 * q + 365 * 3 + 365
        BY <2>1, <2>2, <3>1, SMT
      <3> QED BY <3>1, <3>2, SMT
    <2>4. CASE s # 1460
      <3>1. PICK t \in 0..3, d \in Nat : d <= 364 /\ s = 365 * t + d
        <4>1. s \div 365 \in 0..3 /\ s - 365 * (s \div 365) \in Nat /\ s - 365 * (s \div 365) <= 364
          BY <2>2, <2>4, SMT
        <4>2. s = 365 * (s \div 365) + (s - 365 * (s \div 365))
          BY SMT
        <4> QED BY <4>1, <4>2, SMT
      <3>2. e = 36524 * c + 1461 * q + 365 * t + d
        BY <2>1, <2>2, <3>1, SMT
      <3> QED BY <3>1, <3>2, SMT
    <2> QED BY <2>3, <2>4
  <1> QED BY <1>1, <1>2

\* Day e of an era is day d of year t of cycle q of century c.
InEra(e, c, q, t, d) ==
    /\ e \in Nat /\ e <= 146096 /\ c \in 0..3 /\ q \in 0..24 /\ t \in 0..3 /\ d \in Nat /\ d <= 365
    /\ e = 36524 * c + 1461 * q + 365 * t + d
    /\ d = 365 => t = 3 /\ (q # 24 \/ c = 3)

\* The year and the day of the year are those of the split.
YearNo(c, q, t) == 100 * c + 4 * q + t

LEMMA YearOfEra ==
    ASSUME NEW e, NEW c, NEW q, NEW t, NEW d, InEra(e, c, q, t, d)
    PROVE  Yoe(e) = YearNo(c, q, t) /\ Doy(e) = d
  <1>0. /\ e \in Nat /\ e <= 146096 /\ c \in 0..3 /\ q \in 0..24 /\ t \in 0..3 /\ d \in Nat /\ d <= 365
        /\ e = 36524 * c + 1461 * q + 365 * t + d
        /\ d = 365 => t = 3 /\ (q # 24 \/ c = 3)
    BY SMT DEF InEra
  <1> USE <1>0
  <1> DEFINE y == 100 * c + 4 * q + t
  <1>1. (e - e \div 1460 + e \div 36524 - e \div 146096) \div 365 = y
    <2>1. CASE e = 146096
      <3>1. c = 3 /\ q = 24 /\ t = 3
        BY <2>1, SMT
      <3>2. e \div 1460 = 100 /\ e \div 36524 = 4 /\ e \div 146096 = 1
        BY <2>1, SMT
      <3>3. 145999 \div 365 = 399
        BY SMT
      <3> QED BY <2>1, <3>1, <3>2, <3>3, SMT
    <2>2. CASE e # 146096
      <3>1. e \div 146096 = 0
        BY <2>2, SMT
      <3>2. e \div 36524 = c
        BY <2>2, SMT
      <3>3. PICK g \in {25 * c + q, 25 * c + q + 1} : e \div 1460 = g
        BY <2>2, SMT
      <3>4. 0 <= e - g + c - 365 * y /\ e - g + c - 365 * y <= 364
        <4>1. 1460 * g <= e /\ e < 1460 * g + 1460
          BY <3>3, SMT
        <4> QED BY <2>2, <4>1, <3>3, SMT
      <3> QED BY <3>1, <3>2, <3>3, <3>4, SMT
    <2> QED BY <2>1, <2>2
  <1>2. y \div 4 = 25 * c + q /\ y \div 100 = c
    BY SMT
  <1> QED BY <1>1, <1>2, SMT DEF Yoe, Doy, YearNo

\* Day of the era to civil date.
LEMMA CivilParts ==
    ASSUME NEW days \in Nat, NEW era \in Nat, NEW e \in Nat, e <= 146096,
           days + 719468 = era * 146097 + e
    PROVE  CivilFromDays(days) = Civil(era, Yoe(e), Doy(e))
  <1>1. (days + 719468) \div 146097 = era /\ days + 719468 - era * 146097 = e
    BY SMT
  <1>2. \A f, g : f = (days + 719468) \div 146097 /\ g = days + 719468 - f * 146097 =>
                    CivilFromDays(days) = Civil(f, Yoe(g), Doy(g))
    BY SMT DEF CivilFromDays, Civil, Yoe, Doy, March, DayOf, MonthOf
  <1> QED BY <1>1, <1>2, SMT

\* The months of a year that begins in March.
LEMMA MonthTable ==
    ASSUME NEW d \in Nat, d <= 365
    PROVE  \/ 0 <= d /\ d <= 30 /\ March(d) = 0 /\ MonthOf(d) = 3 /\ DayOf(d) = d - 0 + 1
           \/ 31 <= d /\ d <= 60 /\ March(d) = 1 /\ MonthOf(d) = 4 /\ DayOf(d) = d - 31 + 1
           \/ 61 <= d /\ d <= 91 /\ March(d) = 2 /\ MonthOf(d) = 5 /\ DayOf(d) = d - 61 + 1
           \/ 92 <= d /\ d <= 121 /\ March(d) = 3 /\ MonthOf(d) = 6 /\ DayOf(d) = d - 92 + 1
           \/ 122 <= d /\ d <= 152 /\ March(d) = 4 /\ MonthOf(d) = 7 /\ DayOf(d) = d - 122 + 1
           \/ 153 <= d /\ d <= 183 /\ March(d) = 5 /\ MonthOf(d) = 8 /\ DayOf(d) = d - 153 + 1
           \/ 184 <= d /\ d <= 213 /\ March(d) = 6 /\ MonthOf(d) = 9 /\ DayOf(d) = d - 184 + 1
           \/ 214 <= d /\ d <= 244 /\ March(d) = 7 /\ MonthOf(d) = 10 /\ DayOf(d) = d - 214 + 1
           \/ 245 <= d /\ d <= 274 /\ March(d) = 8 /\ MonthOf(d) = 11 /\ DayOf(d) = d - 245 + 1
           \/ 275 <= d /\ d <= 305 /\ March(d) = 9 /\ MonthOf(d) = 12 /\ DayOf(d) = d - 275 + 1
           \/ 306 <= d /\ d <= 336 /\ March(d) = 10 /\ MonthOf(d) = 1 /\ DayOf(d) = d - 306 + 1
           \/ 337 <= d /\ d <= 365 /\ March(d) = 11 /\ MonthOf(d) = 2 /\ DayOf(d) = d - 337 + 1
  <1>1. \A m \in 0..11 : 153 * m <= 5 * d + 2 /\ 5 * d + 2 < 153 * m + 153 => March(d) = m
    BY SMT DEF March
  <1>2. CASE 0 <= d /\ d <= 30
    <2>1. March(d) = 0 /\ (153 * 0 + 2) \div 5 = 0
      BY <1>1, <1>2, SMT
    <2> QED BY <1>2, <2>1, SMT DEF MonthOf, DayOf
  <1>3. CASE 31 <= d /\ d <= 60
    <2>1. March(d) = 1 /\ (153 * 1 + 2) \div 5 = 31
      BY <1>1, <1>3, SMT
    <2> QED BY <1>3, <2>1, SMT DEF MonthOf, DayOf
  <1>4. CASE 61 <= d /\ d <= 91
    <2>1. March(d) = 2 /\ (153 * 2 + 2) \div 5 = 61
      BY <1>1, <1>4, SMT
    <2> QED BY <1>4, <2>1, SMT DEF MonthOf, DayOf
  <1>5. CASE 92 <= d /\ d <= 121
    <2>1. March(d) = 3 /\ (153 * 3 + 2) \div 5 = 92
      BY <1>1, <1>5, SMT
    <2> QED BY <1>5, <2>1, SMT DEF MonthOf, DayOf
  <1>6. CASE 122 <= d /\ d <= 152
    <2>1. March(d) = 4 /\ (153 * 4 + 2) \div 5 = 122
      BY <1>1, <1>6, SMT
    <2> QED BY <1>6, <2>1, SMT DEF MonthOf, DayOf
  <1>7. CASE 153 <= d /\ d <= 183
    <2>1. March(d) = 5 /\ (153 * 5 + 2) \div 5 = 153
      BY <1>1, <1>7, SMT
    <2> QED BY <1>7, <2>1, SMT DEF MonthOf, DayOf
  <1>8. CASE 184 <= d /\ d <= 213
    <2>1. March(d) = 6 /\ (153 * 6 + 2) \div 5 = 184
      BY <1>1, <1>8, SMT
    <2> QED BY <1>8, <2>1, SMT DEF MonthOf, DayOf
  <1>9. CASE 214 <= d /\ d <= 244
    <2>1. March(d) = 7 /\ (153 * 7 + 2) \div 5 = 214
      BY <1>1, <1>9, SMT
    <2> QED BY <1>9, <2>1, SMT DEF MonthOf, DayOf
  <1>10. CASE 245 <= d /\ d <= 274
    <2>1. March(d) = 8 /\ (153 * 8 + 2) \div 5 = 245
      BY <1>1, <1>10, SMT
    <2> QED BY <1>10, <2>1, SMT DEF MonthOf, DayOf
  <1>11. CASE 275 <= d /\ d <= 305
    <2>1. March(d) = 9 /\ (153 * 9 + 2) \div 5 = 275
      BY <1>1, <1>11, SMT
    <2> QED BY <1>11, <2>1, SMT DEF MonthOf, DayOf
  <1>12. CASE 306 <= d /\ d <= 336
    <2>1. March(d) = 10 /\ (153 * 10 + 2) \div 5 = 306
      BY <1>1, <1>12, SMT
    <2> QED BY <1>12, <2>1, SMT DEF MonthOf, DayOf
  <1>13. CASE 337 <= d /\ d <= 365
    <2>1. March(d) = 11 /\ (153 * 11 + 2) \div 5 = 337
      BY <1>1, <1>13, SMT
    <2> QED BY <1>13, <2>1, SMT DEF MonthOf, DayOf
  <1> QED BY <1>2, <1>3, <1>4, <1>5, <1>6, <1>7, <1>8, <1>9, <1>10, <1>11, <1>12, <1>13, SMT

\* A date is read back into its parts.
LEMMA DateParts ==
    ASSUME NEW y \in Nat, NEW m \in 1..12, NEW d \in 1..31
    PROVE  /\ Date(y, m, d) \div 10000 = y
           /\ (Date(y, m, d) \div 100) % 100 = m
           /\ Date(y, m, d) % 100 = d
  <1>1. Date(y, m, d) \div 10000 = y
    BY SMT DEF Date
  <1>2. Date(y, m, d) \div 100 = 100 * y + m
    BY SMT DEF Date
  <1>3. (100 * y + m) % 100 = m
    BY SMT
  <1>4. Date(y, m, d) % 100 = d
    BY SMT DEF Date
  <1> QED BY <1>1, <1>2, <1>3, <1>4, SMT

\* What the day after a date is.
LEMMA DayAfterFacts ==
    ASSUME NEW y \in Nat, NEW m \in 1..12, NEW d \in 1..31
    PROVE  /\ d < DaysIn(y, m) => DayAfter(Date(y, m, d)) = Date(y, m, d + 1)
           /\ ~(d < DaysIn(y, m)) /\ m < 12 => DayAfter(Date(y, m, d)) = Date(y, m + 1, 1)
           /\ ~(d < DaysIn(y, m)) /\ m = 12 => DayAfter(Date(y, m, d)) = Date(y + 1, 1, 1)
  <1> DEFINE D == Date(y, m, d)
  <1>1. D \div 10000 = y /\ (D \div 100) % 100 = m /\ D % 100 = d
    BY DateParts, SMTT(40)
  <1>2. DayAfter(D) = IF d < DaysIn(y, m) THEN Date(y, m, d + 1)
                      ELSE IF m < 12 THEN Date(y, m + 1, 1) ELSE Date(y + 1, 1, 1)
    BY <1>1, SMT DEF DayAfter
  <1>3. DaysIn(y, m) \in Nat
    BY SMT DEF DaysIn
  <1>4. d < DaysIn(y, m) => DayAfter(D) = Date(y, m, d + 1)
    BY <1>2, <1>3, SMT
  <1>5. ~(d < DaysIn(y, m)) /\ m < 12 => DayAfter(D) = Date(y, m + 1, 1)
    BY <1>2, <1>3, SMT
  <1>6. ~(d < DaysIn(y, m)) /\ m = 12 => DayAfter(D) = Date(y + 1, 1, 1)
    BY <1>2, <1>3, SMT
  <1> QED BY <1>4, <1>5, <1>6, SMT

\* The day after day d of a year that has a day d + 1.
LEMMA NextInYear ==
    ASSUME NEW era \in Nat, NEW y \in Nat, NEW d \in Nat, d <= 364,
           d = 364 => Leap(y + era * 400 + 1)
    PROVE  Civil(era, y, d + 1) = DayAfter(Civil(era, y, d))
  <1> DEFINE Y == y + era * 400 + (IF MonthOf(d) <= 2 THEN 1 ELSE 0)
  <1>1. MonthOf(d) \in 1..12 /\ DayOf(d) \in 1..31 /\ Y \in Nat
    <2>1. MonthOf(d) \in 1..12 /\ DayOf(d) \in 1..31
      BY MonthTable, SMT
    <2> QED BY <2>1, SMT
  <1>2. Civil(era, y, d) = Date(Y, MonthOf(d), DayOf(d))
    BY SMT DEF Civil
  <1>3. \/ /\ MonthOf(d + 1) = MonthOf(d) /\ DayOf(d + 1) = DayOf(d) + 1
           /\ DayOf(d) < DaysIn(Y, MonthOf(d))
        \/ /\ MonthOf(d) < 12 /\ MonthOf(d) # 2 /\ MonthOf(d + 1) = MonthOf(d) + 1 /\ DayOf(d + 1) = 1
           /\ ~(DayOf(d) < DaysIn(Y, MonthOf(d)))
        \/ /\ MonthOf(d) = 12 /\ MonthOf(d + 1) = 1 /\ DayOf(d + 1) = 1
           /\ ~(DayOf(d) < DaysIn(Y, MonthOf(d)))
    <2>1. MonthOf(d) = 2 /\ d = 364 => Leap(Y)
      BY SMT
    <2>2. d + 1 \in Nat /\ d + 1 <= 365
      BY SMT
    <2> HIDE DEF Y
    <2> QED BY <2>1, <2>2, MonthTable, SMTT(60) DEF DaysIn
  <1> HIDE DEF Y
  <1>7. PICK m \in 1..12, k \in 1..31 : m = MonthOf(d) /\ k = DayOf(d)
    BY <1>1
  <1>8. Y \in Nat
    BY <1>1
  <1>9. /\ k < DaysIn(Y, m) => DayAfter(Date(Y, m, k)) = Date(Y, m, k + 1)
        /\ ~(k < DaysIn(Y, m)) /\ m < 12 => DayAfter(Date(Y, m, k)) = Date(Y, m + 1, 1)
        /\ ~(k < DaysIn(Y, m)) /\ m = 12 => DayAfter(Date(Y, m, k)) = Date(Y + 1, 1, 1)
    BY <1>8, DayAfterFacts
  <1>4. CASE /\ MonthOf(d + 1) = MonthOf(d) /\ DayOf(d + 1) = DayOf(d) + 1
             /\ DayOf(d) < DaysIn(Y, MonthOf(d))
    <2>1. DayAfter(Civil(era, y, d)) = Date(Y, MonthOf(d), DayOf(d) + 1)
      BY <1>7, <1>9, <1>2, <1>4, SMT
    <2> QED BY <1>4, <2>1, SMT DEF Civil, Y
  <1>5. CASE /\ MonthOf(d) < 12 /\ MonthOf(d) # 2 /\ MonthOf(d + 1) = MonthOf(d) + 1 /\ DayOf(d + 1) = 1
             /\ ~(DayOf(d) < DaysIn(Y, MonthOf(d)))
    <2>1. DayAfter(Civil(era, y, d)) = Date(Y, MonthOf(d) + 1, 1)
      BY <1>7, <1>9, <1>2, <1>5, SMT
    <2>2. MonthOf(d) <= 2 <=> MonthOf(d + 1) <= 2
      BY <1>1, <1>5, SMT
    <2> QED BY <1>5, <2>1, <2>2, SMT DEF Civil, Y
  <1>6. CASE /\ MonthOf(d) = 12 /\ MonthOf(d + 1) = 1 /\ DayOf(d + 1) = 1
             /\ ~(DayOf(d) < DaysIn(Y, MonthOf(d)))
    <2>1. DayAfter(Civil(era, y, d)) = Date(Y + 1, 1, 1)
      BY <1>7, <1>9, <1>2, <1>6, SMT
    <2>2. Y = y + era * 400
      BY <1>6, SMT DEF Y
    <2>3. Civil(era, y, d + 1) = Date(y + era * 400 + 1, 1, 1)
      BY <1>6, SMT DEF Civil
    <2> QED BY <2>1, <2>2, <2>3, SMT
  <1> QED BY <1>3, <1>4, <1>5, <1>6

\* The day after the last day of a year that begins in March is the first of March.
LEMMA NextYear ==
    ASSUME NEW era \in Nat, NEW y \in Nat, NEW d \in Nat, d \in {364, 365},
           d = 364 <=> ~Leap(y + era * 400 + 1), NEW following, following = y + era * 400 + 1
    PROVE  DayAfter(Civil(era, y, d)) = Date(following, 3, 1)
  <1>1. MonthOf(d) = 2 /\ DayOf(d) = d - 336
    BY MonthTable, SMT
  <1>2. following \in Nat /\ Civil(era, y, d) = Date(following, 2, d - 336)
    BY <1>1, SMT DEF Civil
  <1>3. ~(d - 336 < DaysIn(following, 2)) /\ d - 336 \in 1..31
    BY SMT DEF DaysIn
  <1> QED BY <1>2, <1>3, DayAfterFacts, SMT

\* The first day of a year that begins in March.
LEMMA FirstOfYear ==
    ASSUME NEW era \in Nat, NEW y \in Nat
    PROVE  Civil(era, y, 0) = Date(y + era * 400, 3, 1)
  <1>1. MonthOf(0) = 3 /\ DayOf(0) = 1
    BY MonthTable, SMT
  <1> QED BY <1>1, SMT DEF Civil

\* The year that ends year y of an era is a leap year if y is the last of its
\* cycle, and not the last of one of the first three centuries.
LEMMA LeapOfEra ==
    ASSUME NEW era \in Nat, NEW c \in 0..3, NEW q \in 0..24, NEW t \in 0..3
    PROVE  Leap(100 * c + 4 * q + t + era * 400 + 1) <=> t = 3 /\ (q # 24 \/ c = 3)
  <1> DEFINE Y == 100 * c + 4 * q + t + era * 400 + 1
  <1>1. Y % 4 = 0 <=> t = 3
    BY SMT
  <1>2. t = 3 => (Y % 100 = 0 <=> q = 24)
    BY SMT
  <1>3. t = 3 /\ q = 24 => (Y % 400 = 0 <=> c = 3)
    BY SMT
  <1>4. t = 3 /\ Y % 400 = 0 => q = 24
    BY SMT
  <1> QED BY <1>1, <1>2, <1>3, <1>4 DEF Leap

\* Every date is the day after the one before.
LEMMA NextDay ==
    ASSUME NEW day \in Nat
    PROVE  CivilFromDays(day + 1) = DayAfter(CivilFromDays(day))
  <1>1. PICK era \in Nat, e \in Nat :
            /\ CivilFromDays(day) = Civil(era, Yoe(e), Doy(e)) /\ e <= 146096
            /\ day + 719468 = era * 146097 + e
    <2> DEFINE E == (day + 719468) \div 146097
               D == (day + 719468) % 146097
    <2>1. E \in Nat /\ D \in Nat /\ D <= 146096 /\ day + 719468 = E * 146097 + D
      BY SMT
    <2> HIDE DEF E, D
    <2>2. CivilFromDays(day) = Civil(E, Yoe(D), Doy(D))
      BY <2>1, CivilParts, SMT
    <2> QED BY <2>1, <2>2, SMT
  <1>2. day + 719468 = era * 146097 + e
    BY <1>1, SMT
  <1>3. PICK c \in 0..3, q \in 0..24, t \in 0..3, d \in Nat :
              /\ d <= 365 /\ e = 36524 * c + 1461 * q + 365 * t + d
              /\ d = 365 => t = 3 /\ (q # 24 \/ c = 3)
    BY <1>1, EraSplit, SMT
  <1> DEFINE y == 100 * c + 4 * q + t
             leap == t = 3 /\ (q # 24 \/ c = 3)
  <1>4. Yoe(e) = y /\ Doy(e) = d
    <2>1. Yoe(e) = 100 * c + 4 * q + t /\ Doy(e) = d
      <3>1. InEra(e, c, q, t, d)
        BY <1>1, <1>3, SMT DEF InEra
      <3>2. Yoe(e) = YearNo(c, q, t) /\ Doy(e) = d
        BY <3>1, YearOfEra
      <3> QED BY <3>2, SMT DEF YearNo
    <2> QED BY <2>1, SMT
  <1>5. y \in Nat /\ (Leap(y + era * 400 + 1) <=> leap)
    BY <1>1, LeapOfEra, SMTT(40)
  <1>6. CASE e < 146096
    <2>1. day + 1 \in Nat /\ e + 1 \in Nat /\ e + 1 <= 146096 /\ day + 1 + 719468 = era * 146097 + (e + 1)
      BY <1>2, <1>6, SMT
    <2>2. CivilFromDays(day + 1) = Civil(era, Yoe(e + 1), Doy(e + 1))
      BY <2>1, CivilParts, SMT
    <2>3. e + 1 \in Nat /\ e + 1 <= 146096
      BY <1>1, <1>6, SMT
    <2>4. CASE d < 364 \/ (d = 364 /\ leap)
      <3>1. d + 1 \in Nat /\ d + 1 <= 365 /\ e + 1 = 36524 * c + 1461 * q + 365 * t + (d + 1)
            /\ (d + 1 = 365 => t = 3 /\ (q # 24 \/ c = 3)) /\ d <= 364
        BY <1>3, <2>4, SMT
      <3>2. Yoe(e + 1) = y /\ Doy(e + 1) = d + 1
        <4> DEFINE f == e + 1
                   g == d + 1
        <4>1. InEra(f, c, q, t, g)
          BY <1>3, <2>3, <3>1, SMT DEF InEra
        <4> HIDE DEF f, g, y, leap
        <4>2. Yoe(f) = YearNo(c, q, t) /\ Doy(f) = g
          BY <4>1, YearOfEra
        <4> QED BY <4>2, SMT DEF YearNo, f, g, y
      <3>3. d = 364 => Leap(y + era * 400 + 1)
        BY <1>5, <2>4, SMT
      <3> HIDE DEF y
      <3>4. Civil(era, y, d + 1) = DayAfter(Civil(era, y, d))
        BY <1>1, <1>3, <1>5, <3>1, <3>3, NextInYear, SMT
      <3> QED BY <1>1, <1>4, <2>2, <3>2, <3>4, SMT
    <2>5. CASE d = 365 \/ (d = 364 /\ ~leap)
      <3>1. d \in {364, 365} /\ (d = 364 <=> ~leap)
        BY <1>3, <2>5, SMT
      <3>2. DayAfter(Civil(era, y, d)) = Date(y + era * 400 + 1, 3, 1)
        <4> HIDE DEF y, leap
        <4> QED BY <1>1, <1>3, <1>5, <3>1, NextYear, SMT
      <3>3. Yoe(e + 1) = y + 1 /\ Doy(e + 1) = 0
        <4>1. CASE t # 3
          <5>1. t + 1 \in 0..3 /\ d = 364 /\ e + 1 = 36524 * c + 1461 * q + 365 * (t + 1) + 0
            BY <1>3, <2>5, <4>1, SMT
          <5>2. Yoe(e + 1) = 100 * c + 4 * q + (t + 1) /\ Doy(e + 1) = 0
            <6> DEFINE f == e + 1
                       s == t + 1
                       z == 0
            <6>1. InEra(f, c, q, s, z)
              BY <1>3, <2>3, <5>1, SMT DEF InEra
            <6> HIDE DEF f, s, z
            <6>2. Yoe(f) = YearNo(c, q, s) /\ Doy(f) = z
              BY <6>1, YearOfEra
            <6> QED BY <6>2, SMT DEF YearNo, f, s, z
          <5> QED BY <5>2, SMT
        <4>2. CASE t = 3 /\ q # 24
          <5>1. q + 1 \in 0..24 /\ e + 1 = 36524 * c + 1461 * (q + 1) + 365 * 0 + 0
            BY <1>3, <2>5, <4>2, SMT
          <5>2. Yoe(e + 1) = 100 * c + 4 * (q + 1) + 0 /\ Doy(e + 1) = 0
            <6> DEFINE f == e + 1
                       s == q + 1
                       z == 0
            <6>1. InEra(f, c, s, z, z)
              BY <1>3, <2>3, <5>1, SMT DEF InEra
            <6> HIDE DEF f, s, z
            <6>2. Yoe(f) = YearNo(c, s, z) /\ Doy(f) = z
              BY <6>1, YearOfEra
            <6> QED BY <6>2, SMT DEF YearNo, f, s, z
          <5> QED BY <4>2, <5>2, SMT
        <4>3. CASE t = 3 /\ q = 24
          <5>1. c + 1 \in 0..3 /\ e + 1 = 36524 * (c + 1) + 1461 * 0 + 365 * 0 + 0
            BY <1>3, <1>6, <2>5, <4>3, SMT
          <5>2. Yoe(e + 1) = 100 * (c + 1) + 4 * 0 + 0 /\ Doy(e + 1) = 0
            <6> DEFINE f == e + 1
                       s == c + 1
                       z == 0
            <6>1. InEra(f, s, z, z, z)
              BY <1>3, <2>3, <5>1, SMT DEF InEra
            <6> HIDE DEF f, s, z
            <6>2. Yoe(f) = YearNo(s, z, z) /\ Doy(f) = z
              BY <6>1, YearOfEra
            <6> QED BY <6>2, SMT DEF YearNo, f, s, z
          <5> QED BY <4>3, <5>2, SMT
        <4> QED BY <4>1, <4>2, <4>3, SMT
      <3>4. Civil(era, y + 1, 0) = Date(y + 1 + era * 400, 3, 1)
        <4>1. y + 1 \in Nat
          BY <1>5, SMT
        <4> HIDE DEF y
        <4> QED BY <1>1, <4>1, FirstOfYear, SMT
      <3>5. y + 1 + era * 400 = y + era * 400 + 1
        BY <1>1, <1>5, SMT
      <3> QED BY <1>1, <1>4, <2>2, <3>2, <3>3, <3>4, <3>5, SMT
    <2> QED BY <1>3, <2>4, <2>5, SMT
  <1>7. CASE e = 146096
    <2>1. day + 1 \in Nat /\ era + 1 \in Nat /\ day + 1 + 719468 = (era + 1) * 146097 + 0
      BY <1>2, <1>7, SMT
    <2>2. CivilFromDays(day + 1) = Civil(era + 1, Yoe(0), Doy(0))
      BY <2>1, CivilParts, SMT
    <2>3. c = 3 /\ q = 24 /\ t = 3 /\ d = 365
      BY <1>3, <1>7, SMT
    <2>4. Yoe(0) = 0 /\ Doy(0) = 0
      BY SMT DEF Yoe, Doy
    <2>5. Civil(era + 1, 0, 0) = Date(0 + (era + 1) * 400, 3, 1)
      <3>1. era + 1 \in Nat
        BY <1>1, SMT
      <3> QED BY <3>1, FirstOfYear, SMT
    <2>6. DayAfter(Civil(era, y, d)) = Date(y + era * 400 + 1, 3, 1)
      <3>1. d \in {364, 365} /\ (d = 364 <=> ~leap)
        BY <2>3, SMT
      <3> HIDE DEF y, leap
      <3> QED BY <1>1, <1>3, <1>5, <3>1, NextYear, SMT
    <2>7. y + era * 400 + 1 = 0 + (era + 1) * 400
      BY <1>1, <2>3, SMT
    <2> QED BY <1>1, <1>4, <2>2, <2>4, <2>5, <2>6, <2>7, SMT
  <1> QED BY <1>1, <1>6, <1>7, SMT

\* What CivilFromDays gives is a date.
LEMMA CivilIsDate ==
    ASSUME NEW day \in Nat
    PROVE  \E y \in Nat, m \in 1..12, d \in 1..31 : CivilFromDays(day) = Date(y, m, d)
  <1> DEFINE E == (day + 719468) \div 146097
             D == (day + 719468) % 146097
  <1>1. E \in Nat /\ D \in Nat /\ D <= 146096 /\ day + 719468 = E * 146097 + D
    BY SMT
  <1> HIDE DEF E, D
  <1>2. CivilFromDays(day) = Civil(E, Yoe(D), Doy(D))
    BY <1>1, CivilParts, SMT
  <1>3. PICK c \in 0..3, q \in 0..24, t \in 0..3, f \in Nat :
              /\ f <= 365 /\ D = 36524 * c + 1461 * q + 365 * t + f
              /\ f = 365 => t = 3 /\ (q # 24 \/ c = 3)
    BY <1>1, EraSplit, SMT
  <1>4. Yoe(D) = YearNo(c, q, t) /\ Doy(D) = f
    <2>1. InEra(D, c, q, t, f)
      BY <1>1, <1>3, SMT DEF InEra
    <2> QED BY <2>1, YearOfEra
  <1>5. MonthOf(f) \in 1..12 /\ DayOf(f) \in 1..31
    BY <1>3, MonthTable, SMT
  <1>6. YearNo(c, q, t) \in Nat
    BY <1>3, SMT DEF YearNo
  <1> DEFINE Y == YearNo(c, q, t) + E * 400 + (IF MonthOf(f) <= 2 THEN 1 ELSE 0)
  <1>7. Y \in Nat
    BY <1>1, <1>5, <1>6, SMT
  <1>8. CivilFromDays(day) = Date(Y, MonthOf(f), DayOf(f))
    BY <1>2, <1>4 DEF Civil
  <1> HIDE DEF Y
  <1> QED BY <1>5, <1>7, <1>8

\* The text of a date of a year of four digits.
FourDigits(y, m, d) == y \in Nat /\ y < 10000 /\ m \in 1..12 /\ d \in 1..31
Written(y, m, d) ==
    <<y \div 1000, (y \div 100) % 10, (y \div 10) % 10, y % 10, Hyphen, m \div 10, m % 10,
      Hyphen, d \div 10, d % 10>>

LEMMA TextIs ==
    ASSUME NEW y, NEW m, NEW d, FourDigits(y, m, d)
    PROVE  DateText(Date(y, m, d)) = Written(y, m, d)
  <1>1. /\ Date(y, m, d) \div 10000 = y /\ (Date(y, m, d) \div 100) % 100 = m
        /\ Date(y, m, d) % 100 = d
    BY DateParts, SMTT(40) DEF FourDigits
  <1>2. DateText(Date(y, m, d)) = TenBytes(YearText(y), DayText(m, d))
    BY <1>1, SMT DEF DateText
  <1>3. YearText(y) = <<y \div 1000, (y \div 100) % 10, (y \div 10) % 10, y % 10>>
    BY SMT DEF FourDigits, YearText
  <1>4. ASSUME NEW a, NEW b, NEW c, NEW e, NEW f, NEW g, NEW h, NEW i, NEW j, NEW k
        PROVE  TenBytes(<<a, b, c, e>>, <<f, g, h, i, j, k>>) = <<a, b, c, e, f, g, h, i, j, k>>
    BY SMT DEF TenBytes
  <1> QED BY <1>2, <1>3, <1>4, SMT DEF DayText, Written

\* Two texts that agree up to a byte and differ there are in the order of the byte.
LEMMA FirstDifference ==
    ASSUME NEW a, NEW b, DOMAIN a = 1..10, NEW i \in 1..10, a[i] < b[i],
           \A j \in 1..(i - 1) : a[j] = b[j]
    PROVE  Precedes(a, b)
  BY DEF Precedes

LEMMA TextOrder ==
    ASSUME NEW y, NEW m, NEW d, FourDigits(y, m, d)
    PROVE  /\ Precedes(Written(y, m, d), Written(y, m, d + 1))
           /\ Precedes(Written(y, m, d), Written(y, m + 1, 1))
           /\ Precedes(Written(y, m, d), Written(y + 1, 1, 1))
  <1> USE DEF FourDigits
  <1>1. ASSUME NEW Y, NEW M, NEW D PROVE DOMAIN Written(Y, M, D) = 1..10
    BY DEF Written
  <1>2. Precedes(Written(y, m, d), Written(y, m, d + 1))
    <2>1. CASE d \div 10 < (d + 1) \div 10
      <3> DEFINE a == Written(y, m, d)
                 b == Written(y, m, d + 1)
      <3>1. a[9] < b[9] /\ \A j \in 1..8 : a[j] = b[j]
        BY <2>1 DEF Written
      <3> HIDE DEF a, b
      <3> QED BY <1>1, <3>1, FirstDifference DEF a, b
    <2>2. CASE d \div 10 = (d + 1) \div 10 /\ d % 10 < (d + 1) % 10
      <3> DEFINE a == Written(y, m, d)
                 b == Written(y, m, d + 1)
      <3>1. a[10] < b[10] /\ \A j \in 1..9 : a[j] = b[j]
        BY <2>2 DEF Written
      <3> HIDE DEF a, b
      <3> QED BY <1>1, <3>1, FirstDifference DEF a, b
    <2>3. d \div 10 < (d + 1) \div 10 \/ (d \div 10 = (d + 1) \div 10 /\ d % 10 < (d + 1) % 10)
      BY SMT
    <2> QED BY <2>1, <2>2, <2>3
  <1>3. Precedes(Written(y, m, d), Written(y, m + 1, 1))
    <2> DEFINE a == Written(y, m, d)
               b == Written(y, m + 1, 1)
    <2>1. CASE m \div 10 < (m + 1) \div 10
      <3>1. a[6] < b[6] /\ \A j \in 1..5 : a[j] = b[j]
        BY <2>1 DEF Written
      <3> HIDE DEF a, b
      <3> QED BY <1>1, <3>1, FirstDifference DEF a, b
    <2>2. CASE m \div 10 = (m + 1) \div 10 /\ m % 10 < (m + 1) % 10
      <3>1. a[7] < b[7] /\ \A j \in 1..6 : a[j] = b[j]
        BY <2>2 DEF Written
      <3> HIDE DEF a, b
      <3> QED BY <1>1, <3>1, FirstDifference DEF a, b
    <2>3. m \div 10 < (m + 1) \div 10 \/ (m \div 10 = (m + 1) \div 10 /\ m % 10 < (m + 1) % 10)
      BY SMT
    <2> QED BY <2>1, <2>2, <2>3
  <1>4. Precedes(Written(y, m, d), Written(y + 1, 1, 1))
    <2> DEFINE a == Written(y, m, d)
               b == Written(y + 1, 1, 1)
               t == y \div 1000
               h == (y \div 100) % 10
               e == (y \div 10) % 10
               o == y % 10
    <2>1. y = 1000 * t + 100 * h + 10 * e + o /\ t \in Nat /\ h \in 0..9 /\ e \in 0..9 /\ o \in 0..9
      BY SMT
    <2>2. a[1] = t /\ a[2] = h /\ a[3] = e /\ a[4] = o
      BY DEF Written
    <2>3. b[1] = (y + 1) \div 1000 /\ b[2] = ((y + 1) \div 100) % 10
          /\ b[3] = ((y + 1) \div 10) % 10 /\ b[4] = (y + 1) % 10
      BY DEF Written
    <2> HIDE DEF a, b, t, h, e, o
    <2>4. CASE o # 9
      <3>1. b[1] = t /\ b[2] = h /\ b[3] = e /\ b[4] = o + 1
        BY <2>1, <2>3, <2>4, SMTT(40)
      <3>2. a[4] < b[4] /\ \A j \in 1..3 : a[j] = b[j]
        BY <2>1, <2>2, <3>1, SMT
      <3> QED BY <1>1, <3>2, FirstDifference DEF a, b
    <2>5. CASE o = 9 /\ e # 9
      <3>1. b[1] = t /\ b[2] = h /\ b[3] = e + 1
        BY <2>1, <2>3, <2>5, SMT
      <3>2. a[3] < b[3] /\ \A j \in 1..2 : a[j] = b[j]
        BY <2>1, <2>2, <3>1, SMT
      <3> QED BY <1>1, <3>2, FirstDifference DEF a, b
    <2>6. CASE o = 9 /\ e = 9 /\ h # 9
      <3>1. b[1] = t /\ b[2] = h + 1
        BY <2>1, <2>3, <2>6, SMT
      <3>2. a[2] < b[2] /\ \A j \in 1..1 : a[j] = b[j]
        BY <2>1, <2>2, <3>1, SMT
      <3> QED BY <1>1, <3>2, FirstDifference DEF a, b
    <2>7. CASE o = 9 /\ e = 9 /\ h = 9
      <3>1. b[1] = t + 1
        BY <2>1, <2>3, <2>7, SMT
      <3>2. a[1] < b[1] /\ \A j \in 1..0 : a[j] = b[j]
        BY <2>1, <2>2, <3>1, SMTT(40)
      <3> QED BY <1>1, <3>2, FirstDifference DEF a, b
    <2> QED BY <2>4, <2>5, <2>6, <2>7
  <1> QED BY <1>2, <1>3, <1>4

\* One date is the next of another in its month, its year, or the years.
Follows(y, m, d, Y, M, D) ==
    \/ Y = y /\ M = m /\ D = d + 1
    \/ Y = y /\ M = m + 1 /\ D = 1
    \/ Y = y + 1 /\ M = 1 /\ D = 1

LEMMA FollowsInText ==
    ASSUME NEW a, NEW b, NEW y, NEW m, NEW d, NEW Y, NEW M, NEW D, FourDigits(y, m, d),
           FourDigits(Y, M, D), a = Date(y, m, d), b = Date(Y, M, D), Follows(y, m, d, Y, M, D)
    PROVE  Precedes(DateText(a), DateText(b))
  <1>1. DateText(a) = Written(y, m, d) /\ DateText(b) = Written(Y, M, D)
    BY TextIs
  <1>2. Precedes(Written(y, m, d), Written(Y, M, D))
    BY TextOrder, Zenon DEF Follows
  <1> QED BY <1>1, <1>2

\* The texts of consecutive days are in order while the year has four digits.
LEMMA NextText ==
    ASSUME NEW day \in Nat, CivilFromDays(day + 1) < Date(10000, 1, 1)
    PROVE  Precedes(Iso8601Date(day), Iso8601Date(day + 1))
  <1>1. PICK y \in Nat, m \in 1..12, d \in 1..31 : CivilFromDays(day) = Date(y, m, d)
    BY CivilIsDate
  <1>2. PICK Y \in Nat, M \in 1..12, D \in 1..31 : CivilFromDays(day + 1) = Date(Y, M, D)
    BY CivilIsDate
  <1>3. Y < 10000
    BY <1>2, SMT DEF Date
  <1>4. CivilFromDays(day + 1) = DayAfter(Date(y, m, d))
    BY <1>1, NextDay
  <1>5. DaysIn(y, m) \in 28..31
    BY SMT DEF DaysIn
  <1>6. CASE d < DaysIn(y, m)
    <2>1. CivilFromDays(day + 1) = Date(y, m, d + 1) /\ d + 1 \in 1..31
      BY <1>4, <1>5, <1>6, DayAfterFacts, SMTT(40)
    <2>2. FourDigits(y, m, d) /\ FourDigits(y, m, d + 1)
      BY <1>1, <1>2, <1>3, <2>1, SMT DEF Date, FourDigits
    <2>3. Follows(y, m, d, y, m, d + 1)
      BY DEF Follows
    <2>4. Precedes(DateText(CivilFromDays(day)), DateText(CivilFromDays(day + 1)))
      BY <1>1, <2>1, <2>2, <2>3, FollowsInText
    <2> QED BY <2>4 DEF Iso8601Date
  <1>7. CASE ~(d < DaysIn(y, m)) /\ m < 12
    <2>1. CivilFromDays(day + 1) = Date(y, m + 1, 1) /\ m + 1 \in 1..12 /\ 1 \in 1..31
      BY <1>4, <1>7, DayAfterFacts, SMTT(40)
    <2>2. FourDigits(y, m, d) /\ FourDigits(y, m + 1, 1)
      BY <1>1, <1>2, <1>3, <2>1, SMT DEF Date, FourDigits
    <2>3. Follows(y, m, d, y, m + 1, 1)
      BY DEF Follows
    <2>4. Precedes(DateText(CivilFromDays(day)), DateText(CivilFromDays(day + 1)))
      BY <1>1, <2>1, <2>2, <2>3, FollowsInText
    <2> QED BY <2>4 DEF Iso8601Date
  <1>8. CASE ~(d < DaysIn(y, m)) /\ m = 12
    <2>1. CivilFromDays(day + 1) = Date(y + 1, 1, 1) /\ y + 1 \in Nat /\ 1 \in 1..31 /\ 1 \in 1..12
      BY <1>4, <1>8, DayAfterFacts, SMT
    <2>2. FourDigits(y, m, d) /\ FourDigits(y + 1, 1, 1)
      BY <1>1, <1>2, <1>3, <2>1, SMT DEF Date, FourDigits
    <2>3. Follows(y, m, d, y + 1, 1, 1)
      BY DEF Follows
    <2>4. Precedes(DateText(CivilFromDays(day)), DateText(CivilFromDays(day + 1)))
      BY <1>1, <2>1, <2>2, <2>3, FollowsInText
    <2> QED BY <2>4 DEF Iso8601Date
  <1> QED BY <1>5, <1>6, <1>7, <1>8

LEMMA DatesRight == DatesInOrder
  <1>1. CivilFromDays(0) = Date(1970, 1, 1)
    <2>1. 0 + 719468 = 4 * 146097 + 135080 /\ 135080 \in Nat /\ 135080 <= 146096
      BY SMT
    <2>2. CivilFromDays(0) = Civil(4, Yoe(135080), Doy(135080))
      BY <2>1, CivilParts, SMT
    <2>3. Yoe(135080) = 100 * 3 + 4 * 17 + 1 /\ Doy(135080) = 306
      <3>1. 135080 = 36524 * 3 + 1461 * 17 + 365 * 1 + 306
        BY SMT
      <3>2. 135080 \in Nat /\ 135080 <= 146096 /\ 306 \in Nat /\ 306 <= 365 /\ 306 # 365
        BY SMT
      <3> DEFINE f == 135080
                 g == 306
      <3>3. InEra(f, 3, 17, 1, g)
        BY <3>1, <3>2, SMT DEF InEra
      <3> HIDE DEF f, g
      <3>4. Yoe(f) = YearNo(3, 17, 1) /\ Doy(f) = g
        BY <3>3, YearOfEra
      <3> QED BY <3>4, SMT DEF YearNo, f, g
    <2>4. MonthOf(306) = 1 /\ DayOf(306) = 1
      BY MonthTable, SMT
    <2> QED BY <2>2, <2>3, <2>4, SMT DEF Civil
  <1>2. ASSUME NEW day \in Nat
        PROVE  /\ CivilFromDays(day + 1) = DayAfter(CivilFromDays(day))
               /\ CivilFromDays(day + 1) < Date(10000, 1, 1) =>
                     Precedes(Iso8601Date(day), Iso8601Date(day + 1))
    BY NextDay, NextText
  <1>3. \A day \in 0..MaxDay : day \in Nat
    BY SMT
  <1> DEFINE Good(day) ==
               /\ CivilFromDays(day + 1) = DayAfter(CivilFromDays(day))
               /\ CivilFromDays(day + 1) < Date(10000, 1, 1) =>
                     Precedes(Iso8601Date(day), Iso8601Date(day + 1))
  <1>4. \A day \in Nat : Good(day)
    BY <1>2, Zenon
  <1>5. \A day \in 0..MaxDay : Good(day)
    <2> HIDE DEF Good
    <2> QED BY <1>3, <1>4, Zenon
  <1> QED BY <1>1, <1>5, SMT DEF DatesInOrder

(* ------------------------------ the walk --------------------------------- *)

Spread(s) == {s[i] : i \in DOMAIN s}
Distinct(s) == \A i, j \in DOMAIN s : s[i] = s[j] => i = j

\* The projects whose documents a request is about.
InScope(p) ==
    /\ asked.kind \in {"whole", "ids"} => p = asked.project
    /\ asked.kind \in {"coverage", "last", "names"} => (asked.limited => p \in asked.reach)
    /\ asked.kind \in {"coverage", "last"} => asked.project \in {None, p}

Entries == [home : Projects, id : Ids, doc : Documents \union {Absent}]

\* The phases of a walk whose answer may still be a report, or is.
Alive == walk.phase \in {"projects", "references"} \/ Reported

\* Nothing is stored in a project that is gone.
StateOK ==
    /\ asked \in Asked /\ stored \in SUBSET Projects
    /\ docs \in [Projects -> [Ids -> Documents \union {Absent}]]
    /\ \A p \in Projects : p \notin stored => \A id \in Ids : docs[p][id] = Absent
    /\ milestones \in [Projects -> [held : BOOLEAN, runs : References]]
    /\ changed \in SUBSET (Projects \X Ids)

\* A walk is over projects, or, for a progress, over the runs of the milestone
\* that one project, the only one in runs, holds.
WalkOK ==
    /\ walk \in [phase : {"asked", "projects", "references", "answered"},
                 todo : Seq(Projects \union Ids), at : Projects \union {None}, list : Seq(Ids),
                 runs : SUBSET (Projects \union Ids), seen : Seq(Entries),
                 outcome : {"none", "report", "forbidden", "missing", "empty", "conflict", "invalid"}]
    /\ walk.phase = "asked" =>
          walk.seen = <<>> /\ walk.todo = <<>> /\ walk.list = <<>> /\ walk.runs = {}
    /\ walk.phase = "projects" => asked.kind # "progress" /\ walk.todo \in Seq(Projects)
    /\ walk.phase = "references" => asked.kind = "progress" /\ walk.todo \in Seq(Ids)
    /\ walk.phase = "answered" => walk.todo = <<>> /\ walk.list = <<>>
    /\ walk.phase # "answered" => walk.outcome = "none"
    /\ asked.kind = "progress" /\ Alive => \E home \in Projects : walk.runs = {home}
    /\ asked.kind # "progress" => Distinct(walk.todo)
    /\ Distinct(walk.list)
    /\ walk.list # <<>> => walk.at \in Projects

\* In a walk over projects a document is read once: its project is no longer to
\* do, and it is no longer listed.
SeenOnce ==
    /\ asked.kind # "progress" => \A n, m \in DOMAIN walk.seen :
          walk.seen[n].home = walk.seen[m].home /\ walk.seen[n].id = walk.seen[m].id => n = m
    /\ walk.phase = "projects" =>
          /\ \A n \in DOMAIN walk.seen : walk.seen[n].home \notin Spread(walk.todo)
          /\ \A n \in DOMAIN walk.seen :
                walk.seen[n].home = walk.at => walk.seen[n].id \notin Spread(walk.list)
          /\ walk.list # <<>> => walk.at \notin Spread(walk.todo)

Held(p, id) == \E n \in DOMAIN walk.seen : walk.seen[n] = [home |-> p, id |-> id, doc |-> docs[p][id]]

Untouched(id) == \A r \in Projects : <<r, id>> \notin changed
SeenAt(p, id) == \E n \in DOMAIN walk.seen : walk.seen[n].home = p /\ walk.seen[n].id = id
Listed(p, id) == p = walk.at /\ id \in Spread(walk.list)

\* What is left of a walk over projects is in the scope of the request, and
\* what has been read is what belongs, for the documents nobody touched.
ScopeLeft(p) == p \in Spread(walk.todo) \/ (p = walk.at /\ walk.list # <<>>) => InScope(p)
Accounted(p, id) ==
    <<p, id>> \notin changed =>
        /\ Listed(p, id) => docs[p][id] # Absent
        /\ Belongs(p, id) /\ p \notin Spread(walk.todo) /\ ~Listed(p, id) => Held(p, id)
        /\ SeenAt(p, id) => Belongs(p, id)
ProjectsWalk ==
    asked.kind # "progress" /\ Alive =>
        \A p \in Projects : ScopeLeft(p) /\ \A id \in Ids : Accounted(p, id)

\* The run listed is the one its name resolves to; the readings done and those
\* still due are no more than the times the milestone names a run, and are that
\* many for a run that belongs, if nobody touched the runs of its name.
Due(id) == Occurrences(walk.list, id) + Occurrences(walk.todo, id)
Referenced(p, id) ==
    /\ Count(p, id) + Due(id) <= Times(id)
    /\ Untouched(id) =>
          /\ id \in Spread(walk.list) => (Belongs(p, id) <=> p = walk.at /\ docs[p][id].readable)
          /\ Belongs(p, id) => Count(p, id) + Due(id) = Times(id)
          /\ ~Belongs(p, id) => Count(p, id) = 0
ReferencesWalk ==
    asked.kind = "progress" /\ Alive => \A p \in Projects, id \in Ids : Referenced(p, id)

\* A report other than of identifiers is made of documents that were decoded.
SeenReadable ==
    asked.kind # "ids" => \A n \in DOMAIN walk.seen : walk.seen[n].doc \in Documents /\ walk.seen[n].doc.readable

ReportsInv == StateOK /\ WalkOK /\ SeenOnce /\ ProjectsWalk /\ ReferencesWalk /\ SeenReadable

(* --------------------------- sets and sequences -------------------------- *)

\* A nonempty set of naturals has a least element: what an induction over data
\* rests on below, as the absence of a least counterexample.
LEMMA Least == ASSUME NEW T \in SUBSET Nat, T # {} PROVE \E x \in T : \A y \in T : x <= y
  <1>1. PICK n \in T : TRUE
    OBVIOUS
  <1> DEFINE I(k) == T \cap (0..k)
             C == {I(k) : k \in T}
  <1>2. \A k \in T : I(k) \in FiniteSubsetsOf(Nat)
    <2> SUFFICES ASSUME NEW k \in T PROVE IsFiniteSet(I(k))
      BY DEF FiniteSubsetsOf
    <2>1. IsFiniteSet(0..k)
      BY FS_Interval
    <2> QED BY <2>1, FS_Intersection
  <1>3. C \subseteq FiniteSubsetsOf(Nat) /\ C # {}
    BY <1>1, <1>2
  <1>4. IsWellFoundedOn(StrictSubsetOrdering(Nat), FiniteSubsetsOf(Nat))
    BY FS_StrictSubsetOrderingWellFounded
  <1>5. PICK U \in C : \A V \in C : ~(<<V, U>> \in StrictSubsetOrdering(Nat))
    <2> HIDE DEF C
    <2> QED BY <1>3, <1>4, WFMin
  <1>6. PICK k \in T : U = I(k)
    OBVIOUS
  <1>7. ASSUME NEW y \in T, y < k PROVE FALSE
    <2>1. I(y) \in C /\ I(y) \subseteq I(k) /\ k \in I(k) /\ k \notin I(y)
      BY <1>7
    <2>2. I(y) \in SUBSET Nat /\ I(k) \in SUBSET Nat /\ I(y) # I(k)
      BY <2>1
    <2>3. <<I(y), I(k)>> \in StrictSubsetOrdering(Nat)
      <3> HIDE DEF I, C
      <3> QED BY <2>1, <2>2 DEF StrictSubsetOrdering
    <2> QED BY <1>5, <1>6, <2>1, <2>3
  <1> QED BY <1>7

\* A finite set of naturals has an ascending enumeration.
LEMMA AscendingExists ==
    ASSUME NEW N \in Nat
    PROVE  \A S \in SUBSET Nat : IsFiniteSet(S) /\ Cardinality(S) = N =>
              \E s \in [1..N -> S] : \A i, j \in 1..N : i < j => s[i] < s[j]
  <1> DEFINE Good(n) == \A S \in SUBSET Nat : IsFiniteSet(S) /\ Cardinality(S) = n =>
                  \E s \in [1..n -> S] : \A i, j \in 1..n : i < j => s[i] < s[j]
             Bad == {n \in Nat : ~Good(n)}
  <1> SUFFICES ASSUME Bad # {} PROVE FALSE
    BY Zenon
  <1>1. PICK n \in Bad : \A k \in Bad : n <= k
    <2>1. Bad \in SUBSET Nat
      BY Zenon
    <2> HIDE DEF Bad
    <2> QED BY <2>1, Least
  <1>2. n \in Nat /\ ~Good(n) /\ (n # 0 => Good(n - 1))
    <2>1. n \in Nat /\ ~Good(n)
      BY Zenon
    <2>2. ASSUME n # 0, ~Good(n - 1) PROVE FALSE
      <3>1. n - 1 \in Nat
        BY <2>1, <2>2, SMT
      <3>2. n - 1 \in Bad
        BY <2>2, <3>1, Zenon
      <3>3. n <= n - 1
        <4> HIDE DEF Bad
        <4> QED BY <1>1, <3>2
      <3> QED BY <2>1, <3>3, SMT
    <2> HIDE DEF Good
    <2> QED BY <2>1, <2>2
  <1>3. PICK S \in SUBSET Nat : /\ IsFiniteSet(S) /\ Cardinality(S) = n
            /\ ~\E s \in [1..n -> S] : \A i, j \in 1..n : i < j => s[i] < s[j]
    BY <1>2, Zenon
  <1>4. CASE n = 0
    <2>1. [i \in 1..n |-> 0] \in [1..n -> S]
      BY <1>4, SMT
    <2>2. \A i \in 1..n : FALSE
      BY <1>4, SMT
    <2> QED BY <1>3, <2>1, <2>2, Zenon
  <1>5. CASE n # 0
    <2>1. S # {}
      BY <1>3, <1>5, FS_EmptySet
    <2>2. PICK x \in S : \A y \in S : x <= y
      BY <2>1, Least
    <2>3. IsFiniteSet(S \ {x}) /\ Cardinality(S \ {x}) = n - 1 /\ S \ {x} \in SUBSET Nat
      BY <1>3, FS_RemoveElement
    <2>4. PICK s \in [1..(n - 1) -> S \ {x}] : \A i, j \in 1..(n - 1) : i < j => s[i] < s[j]
      BY <1>2, <1>5, <2>3, Zenon
    <2> DEFINE t == [i \in 1..n |-> IF i = 1 THEN x ELSE s[i - 1]]
    <2>5. t \in [1..n -> S]
      BY <1>2, <2>2, <2>4, SMT
    <2>6. ASSUME NEW i \in 1..n, NEW j \in 1..n, i < j PROVE t[i] < t[j]
      <3>1. j # 1 /\ j - 1 \in 1..(n - 1) /\ t[j] = s[j - 1]
        BY <1>2, <2>6, SMT
      <3>2. CASE i = 1
        <4>1. s[j - 1] \in S \ {x} /\ t[i] = x
          BY <3>1, <3>2, <2>4, SMT
        <4>2. x <= s[j - 1] /\ s[j - 1] # x /\ x \in Nat /\ s[j - 1] \in Nat
          BY <4>1, <2>2, Zenon
        <4> QED BY <3>1, <4>1, <4>2, SMT
      <3>3. CASE i # 1
        <4>1. i - 1 \in 1..(n - 1) /\ t[i] = s[i - 1] /\ i - 1 < j - 1
          BY <1>2, <2>6, <3>3, SMT
        <4> QED BY <2>4, <3>1, <4>1
      <3> QED BY <3>2, <3>3
    <2> HIDE DEF t
    <2> QED BY <1>3, <2>5, <2>6
  <1> QED BY <1>4, <1>5

\* Ascending lists the elements of a finite set, each once.
LEMMA AscendingFacts ==
    ASSUME NEW S \in SUBSET Nat, IsFiniteSet(S)
    PROVE  Ascending(S) \in Seq(S) /\ Distinct(Ascending(S)) /\ Spread(Ascending(S)) = S
  <1> DEFINE N == Cardinality(S)
             s == Ascending(S)
  <1>1. N \in Nat
    BY FS_CardinalityType
  <1>2. s \in [1..N -> S] /\ \A i, j \in 1..N : i < j => s[i] < s[j]
    <2>1. \E f \in [1..N -> S] : \A i, j \in 1..N : i < j => f[i] < f[j]
      BY <1>1, AscendingExists
    <2>2. \E f \in [1..N -> S] : \A i, j \in DOMAIN f : i < j => f[i] < f[j]
      BY <2>1, Zenon
    <2>3. s \in [1..N -> S] /\ \A i, j \in DOMAIN s : i < j => s[i] < s[j]
      <3> HIDE DEF N
      <3> QED BY <2>2, Zenon DEF Ascending, N
    <2> QED BY <2>3, Zenon
  <1> HIDE DEF N, s
  <1>3. Distinct(s)
    <2> SUFFICES ASSUME NEW i \in 1..N, NEW j \in 1..N, s[i] = s[j] PROVE i = j
      BY <1>2 DEF Distinct
    <2>3. s[i] \in S /\ s[j] \in S
      BY <1>2
    <2>4. s[i] \in Nat /\ s[j] \in Nat
      BY <2>3
    <2>1. ~(s[i] < s[j]) /\ ~(s[j] < s[i])
      BY <2>4, SMT
    <2>2. ~(i < j) /\ ~(j < i)
      BY <1>2, <2>1
    <2> QED BY <1>1, <2>2, SMT
  <1>4. s \in Injection(1..N, S)
    BY <1>2, <1>3 DEF Injection, IsInjective, Distinct
  <1>5. Cardinality(1..N) = N
    BY <1>1, FS_Interval, SMT
  <1>6. s \in Surjection(1..N, S)
    BY <1>4, <1>5, FS_Injection DEF N
  <1>7. Spread(s) = S
    BY <1>2, <1>6 DEF Surjection, Spread
  <1>8. s \in Seq(S)
    BY <1>1, <1>2, SeqDef
  <1> QED BY <1>3, <1>7, <1>8 DEF s

LEMMA EmptySpread == Spread(<<>>) = {} /\ Distinct(<<>>)
  BY DEF Spread, Distinct

\* How often an element occurs in a sequence, and in the sequence without its first.
LEMMA OccursNat == ASSUME NEW S, NEW s \in Seq(S), NEW x PROVE Occurrences(s, x) \in Nat
  <1> DEFINE O == {k \in DOMAIN s : s[k] = x}
  <1>1. IsFiniteSet(1..Len(s))
    BY FS_Interval
  <1>2. IsFiniteSet(O)
    BY <1>1, FS_Subset
  <1> HIDE DEF O
  <1>3. Cardinality(O) \in Nat
    BY <1>2, FS_CardinalityType
  <1> QED BY <1>3 DEF Occurrences, O

LEMMA OccursShort ==
    /\ \A x : Occurrences(<<>>, x) = 0
    /\ \A x, y : Occurrences(<<y>>, x) = IF x = y THEN 1 ELSE 0
  <1>1. ASSUME NEW x PROVE Occurrences(<<>>, x) = 0
    <2>1. {k \in DOMAIN <<>> : <<>>[k] = x} = {}
      OBVIOUS
    <2> QED BY <2>1, FS_EmptySet DEF Occurrences
  <1>2. ASSUME NEW x, NEW y PROVE Occurrences(<<y>>, x) = IF x = y THEN 1 ELSE 0
    <2>1. CASE x = y
      <3>1. {k \in DOMAIN <<y>> : <<y>>[k] = x} = {1}
        BY <2>1
      <3>2. Cardinality({1}) = 1
        BY FS_Singleton
      <3> QED BY <2>1, <3>1, <3>2 DEF Occurrences
    <2>2. CASE x # y
      <3>1. {k \in DOMAIN <<y>> : <<y>>[k] = x} = {}
        BY <2>2
      <3> QED BY <2>2, <3>1, FS_EmptySet DEF Occurrences
    <2> QED BY <2>1, <2>2
  <1> QED BY <1>1, <1>2

LEMMA OccursTail ==
    ASSUME NEW S, NEW s \in Seq(S), s # <<>>, NEW x
    PROVE  Occurrences(s, x) = Occurrences(Tail(s), x) + (IF Head(s) = x THEN 1 ELSE 0)
  <1> DEFINE n == Len(s)
             A == {k \in 1..n : s[k] = x}
             B == {k \in 1..(n - 1) : s[k + 1] = x}
             f == [k \in B |-> k + 1]
  <1>1. n \in Nat /\ n # 0 /\ DOMAIN s = 1..n /\ Head(s) = s[1]
    OBVIOUS
  <1>2. DOMAIN Tail(s) = 1..(n - 1) /\ \A k \in 1..(n - 1) : Tail(s)[k] = s[k + 1]
    BY <1>1
  <1>3. Occurrences(s, x) = Cardinality(A)
    BY <1>1 DEF Occurrences
  <1>4. Occurrences(Tail(s), x) = Cardinality(B)
    <2>1. {k \in DOMAIN Tail(s) : Tail(s)[k] = x} = B
      BY <1>2
    <2> QED BY <2>1 DEF Occurrences
  <1>5. IsFiniteSet(A) /\ IsFiniteSet(B)
    <2>1. n - 1 \in Nat
      BY <1>1
    <2>2. IsFiniteSet(1..n) /\ IsFiniteSet(1..(n - 1))
      BY <1>1, <2>1, FS_Interval
    <2> QED BY <2>2, FS_Subset
  <1>6. f \in Bijection(B, A \ {1})
    <2>1. f \in [B -> A \ {1}]
      BY <1>1
    <2>2. \A j, k \in B : f[j] = f[k] => j = k
      OBVIOUS
    <2>3. \A k \in A \ {1} : \E j \in B : f[j] = k
      <3> SUFFICES ASSUME NEW k \in A \ {1} PROVE \E j \in B : f[j] = k
        OBVIOUS
      <3>1. k - 1 \in B /\ f[k - 1] = k
        BY <1>1
      <3> QED BY <3>1
    <2> HIDE DEF f, A, B
    <2> QED BY <2>1, <2>2, <2>3 DEF Bijection, Injection, Surjection, IsInjective
  <1>7. Cardinality(B) = Cardinality(A \ {1}) /\ IsFiniteSet(A \ {1})
    <2> HIDE DEF f, A, B
    <2>1. IsFiniteSet(A \ {1})
      BY <1>5, FS_Subset
    <2>2. Cardinality(A \ {1}) = Cardinality(B)
      BY <1>5, <1>6, FS_Bijection, Zenon DEF ExistsBijection
    <2> QED BY <2>1, <2>2
  <1>8. 1 \in A <=> Head(s) = x
    BY <1>1
  <1> HIDE DEF A, B
  <1>9. CASE 1 \in A
    <2>1. Cardinality(A \ {1}) = Cardinality(A) - 1 /\ Cardinality(A) \in Nat
      BY <1>5, <1>9, FS_RemoveElement, FS_CardinalityType
    <2> QED BY <1>3, <1>4, <1>7, <1>8, <1>9, <2>1
  <1>10. CASE 1 \notin A
    <2>1. A \ {1} = A /\ Cardinality(A) \in Nat
      BY <1>5, <1>10, FS_CardinalityType
    <2>2. Occurrences(Tail(s), x) = Occurrences(s, x) /\ Occurrences(s, x) \in Nat /\ Head(s) # x
      BY <1>3, <1>4, <1>7, <1>8, <1>10, <2>1, Zenon
    <2> QED BY <2>2
  <1> QED BY <1>9, <1>10

\* The first of a sequence, and the others.
LEMMA TailSpread ==
    ASSUME NEW S, NEW s \in Seq(S), s # <<>>
    PROVE  /\ Head(s) \in S /\ Tail(s) \in Seq(S) /\ Head(s) \in Spread(s)
           /\ Spread(s) = Spread(Tail(s)) \union {Head(s)}
  <1>1. Len(s) \in Nat /\ Len(s) # 0 /\ DOMAIN s = 1..Len(s) /\ Head(s) = s[1]
    OBVIOUS
  <1>2. /\ Tail(s) \in Seq(S) /\ DOMAIN Tail(s) = 1..(Len(s) - 1)
        /\ \A i \in 1..(Len(s) - 1) : Tail(s)[i] = s[i + 1]
    BY <1>1
  <1>3. Head(s) \in Spread(s) /\ Head(s) \in S
    BY <1>1 DEF Spread
  <1>4. Spread(s) \subseteq Spread(Tail(s)) \union {Head(s)}
    <2> SUFFICES ASSUME NEW i \in 1..Len(s), i # 1 PROVE s[i] \in Spread(Tail(s))
      BY <1>1 DEF Spread
    <2>1. i - 1 \in 1..(Len(s) - 1) /\ Tail(s)[i - 1] = s[i]
      BY <1>1, <1>2
    <2> QED BY <1>2, <2>1 DEF Spread
  <1>5. Spread(Tail(s)) \subseteq Spread(s)
    <2> SUFFICES ASSUME NEW i \in 1..(Len(s) - 1) PROVE s[i + 1] \in Spread(s)
      BY <1>1, <1>2 DEF Spread
    <2> QED BY <1>1 DEF Spread
  <1> QED BY <1>2, <1>3, <1>4, <1>5

\* ... when nothing repeats.
LEMMA TailFacts ==
    ASSUME NEW S, NEW s \in Seq(S), s # <<>>, Distinct(s)
    PROVE  /\ Head(s) \in S /\ Tail(s) \in Seq(S) /\ Distinct(Tail(s))
           /\ Head(s) \in Spread(s) /\ Head(s) \notin Spread(Tail(s))
           /\ Spread(s) = Spread(Tail(s)) \union {Head(s)}
  <1>1. Len(s) \in Nat /\ Len(s) # 0 /\ DOMAIN s = 1..Len(s) /\ Head(s) = s[1]
    OBVIOUS
  <1>2. DOMAIN Tail(s) = 1..(Len(s) - 1) /\ \A i \in 1..(Len(s) - 1) : Tail(s)[i] = s[i + 1]
    BY <1>1
  <1>3. Distinct(Tail(s))
    BY <1>1, <1>2 DEF Distinct
  <1>4. ASSUME Head(s) \in Spread(Tail(s)) PROVE FALSE
    <2>1. PICK i \in 1..(Len(s) - 1) : s[1] = s[i + 1]
      BY <1>1, <1>2, <1>4 DEF Spread
    <2>2. 1 = i + 1
      BY <1>1, <2>1 DEF Distinct
    <2> QED BY <2>2
  <1> QED BY <1>3, <1>4, TailSpread

\* How often a document is among those read, and when one more is.
Tally(s, p, id) == Cardinality({n \in DOMAIN s : s[n].home = p /\ s[n].id = id})

LEMMA CountGrows ==
    ASSUME NEW S, NEW s \in Seq(S), NEW e \in S, NEW p, NEW id
    PROVE  Tally(Append(s, e), p, id) = Tally(s, p, id) + (IF e.home = p /\ e.id = id THEN 1 ELSE 0)
  <1> DEFINE A == {n \in DOMAIN s : s[n].home = p /\ s[n].id = id}
             t == Append(s, e)
             B == {n \in DOMAIN t : t[n].home = p /\ t[n].id = id}
             m == Len(s) + 1
  <1>1. /\ Len(s) \in Nat /\ DOMAIN s = 1..Len(s) /\ DOMAIN t = 1..m /\ t[m] = e
        /\ \A n \in DOMAIN s : t[n] = s[n]
    OBVIOUS
  <1>2. IsFiniteSet(A) /\ m \notin A
    <2>1. IsFiniteSet(1..Len(s))
      BY <1>1, FS_Interval
    <2> QED BY <1>1, <2>1, FS_Subset
  <1>3. B = IF e.home = p /\ e.id = id THEN A \union {m} ELSE A
    <2>1. \A n : n \in 1..m <=> n \in 1..Len(s) \/ n = m
      BY <1>1
    <2> HIDE DEF t, m
    <2> QED BY <1>1, <2>1
  <1> HIDE DEF A, B, t, m
  <1>4. Cardinality(A) \in Nat /\ Cardinality(A \union {m}) = Cardinality(A) + 1
    BY <1>2, FS_CardinalityType, FS_AddElement
  <1>5. Cardinality(B) = Cardinality(A) + (IF e.home = p /\ e.id = id THEN 1 ELSE 0)
    BY <1>3, <1>4
  <1> QED BY <1>5 DEF A, B, t, Tally

(* ----------------------- the walk keeps its invariant -------------------- *)

Errors == {"forbidden", "missing", "empty", "conflict", "invalid"}

LEMMA Documented ==
    ASSUME StateOK, NEW p \in Projects, NEW id \in Ids
    PROVE  /\ docs[p][id] \in Documents \union {Absent} /\ docs[p][id].readable \in BOOLEAN
           /\ docs[p][id] = Absent => ~docs[p][id].readable
           /\ docs[p][id].readable => docs[p][id] \in Documents
           /\ p \notin stored => docs[p][id] = Absent
  <1>1. docs[p][id] \in Documents \union {Absent} /\ (p \notin stored => docs[p][id] = Absent)
    BY DEF StateOK
  <1>2. Absent.readable = FALSE
    BY DEF Absent
  <1>3. \A d \in Documents : d.readable \in BOOLEAN
    BY DocumentsAssumption
  <1> QED BY <1>1, <1>2, <1>3

\* What belongs to a report over projects.
Belonging ==
    asked.kind # "progress" => \A p \in Projects, id \in Ids :
        Belongs(p, id) <=>
              /\ docs[p][id].readable \/ (asked.kind = "ids" /\ docs[p][id] # Absent)
              /\ InScope(p) /\ Counts(asked, docs[p][id], p, id, walk.runs)

LEMMA BelongsMeans == StateOK => Belonging
  <1> SUFFICES ASSUME StateOK, asked.kind # "progress", NEW p \in Projects, NEW id \in Ids
               PROVE  Belongs(p, id) <=>
                        /\ docs[p][id].readable \/ (asked.kind = "ids" /\ docs[p][id] # Absent)
                        /\ InScope(p) /\ Counts(asked, docs[p][id], p, id, walk.runs)
    BY DEF Belonging
  <1>1. asked.kind \in ReportKinds /\ asked.limited \in BOOLEAN
    BY AskedAssumption DEF StateOK
  <1>2. CASE asked.kind \in {"whole", "ids"}
    BY <1>2 DEF Belongs, InScope, Counts
  <1>3. CASE asked.kind = "summary"
    BY <1>3 DEF Belongs, InScope, Counts
  <1>4. CASE asked.kind = "last"
    BY <1>1, <1>4 DEF Belongs, InScope, Counts, RunReachable
  <1>5. CASE asked.kind = "coverage"
    BY <1>1, <1>5 DEF Belongs, InScope, Counts
  <1>6. CASE asked.kind = "names"
    BY <1>1, <1>6 DEF Belongs, InScope, Counts
  <1> QED BY <1>1, <1>2, <1>3, <1>4, <1>5, <1>6 DEF ReportKinds

\* What belongs to a progress.
BelongingToProgress ==
    asked.kind = "progress" => \A p \in Projects, id \in Ids :
        Belongs(p, id) <=>
              docs[p][id].readable /\ walk.runs \intersect HeldAt(id) = (IF p \in walk.runs THEN {p} ELSE {})

LEMMA BelongsProgress == BelongingToProgress
  BY DEF Belongs, BelongingToProgress

LEMMA InitHolds == ReportsInit => ReportsInv
  <1> SUFFICES ASSUME ReportsInit PROVE ReportsInv
    OBVIOUS
  <1>1. StateOK
    BY DEF ReportsInit, StateOK
  <1>2. /\ walk.phase = "asked" /\ walk.todo = <<>> /\ walk.at = None /\ walk.list = <<>>
        /\ walk.runs = {} /\ walk.seen = <<>> /\ walk.outcome = "none"
    BY DEF ReportsInit, Ready
  <1>3. WalkOK
    <2>1. /\ walk \in [phase : {"asked", "projects", "references", "answered"},
                 todo : Seq(Projects \union Ids), at : Projects \union {None}, list : Seq(Ids),
                 runs : SUBSET (Projects \union Ids), seen : Seq(Entries),
                 outcome : {"none", "report", "forbidden", "missing", "empty", "conflict", "invalid"}]
      BY DEF ReportsInit, Ready
    <2> QED BY <1>2, <2>1, EmptySpread DEF WalkOK, Alive, Reported
  <1>4. SeenOnce /\ SeenReadable
    BY <1>2 DEF SeenOnce, SeenReadable
  <1>5. ~Alive
    BY <1>2 DEF Alive, Reported
  <1> QED BY <1>1, <1>3, <1>4, <1>5 DEF ReportsInv, ProjectsWalk, ReferencesWalk

\* A step of the report leaves the store alone.
LEMMA StateKept ==
    ASSUME StateOK, UNCHANGED <<asked, stored, docs, milestones, environments, changed>>
    PROVE  StateOK'
  BY DEF StateOK

\* The fields of a walk.
LEMMA WalkFields ==
    ASSUME WalkOK
    PROVE  /\ walk.phase \in {"asked", "projects", "references", "answered"}
           /\ walk.todo \in Seq(Projects \union Ids) /\ walk.at \in Projects \union {None}
           /\ walk.list \in Seq(Ids) /\ walk.runs \in SUBSET (Projects \union Ids)
           /\ walk.seen \in Seq(Entries)
  BY DEF WalkOK

\* An answer that is an error leaves nothing to show.
LEMMA AnswerError ==
    ASSUME ReportsInv, NEW o \in Errors, Answer(o),
           UNCHANGED <<asked, stored, docs, milestones, environments, changed>>
    PROVE  ReportsInv'
  <1>1. StateOK'
    BY StateKept DEF ReportsInv
  <1>2. /\ walk'.phase = "answered" /\ walk'.todo = <<>> /\ walk'.at = None /\ walk'.list = <<>>
        /\ walk'.runs = walk.runs /\ walk'.seen = walk.seen /\ walk'.outcome = o
    BY DEF Answer, ReportsInv, WalkOK
  <1>3. ~Alive'
    BY <1>2 DEF Alive, Reported, Errors
  <1>4. WalkOK'
    <2>1. walk' \in [phase : {"asked", "projects", "references", "answered"},
                 todo : Seq(Projects \union Ids), at : Projects \union {None}, list : Seq(Ids),
                 runs : SUBSET (Projects \union Ids), seen : Seq(Entries),
                 outcome : {"none", "report", "forbidden", "missing", "empty", "conflict", "invalid"}]
      <3>1. WalkOK /\ o \in {"none", "report", "forbidden", "missing", "empty", "conflict", "invalid"}
        BY DEF ReportsInv, Errors
      <3>2. <<>> \in Seq(Projects \union Ids) /\ <<>> \in Seq(Ids)
        OBVIOUS
      <3> QED BY <3>1, <3>2 DEF Answer, WalkOK
    <2> QED BY <1>2, <1>3, <2>1, EmptySpread DEF WalkOK
  <1>5. SeenOnce' /\ SeenReadable'
    BY <1>2 DEF ReportsInv, SeenOnce, SeenReadable
  <1> QED BY <1>1, <1>3, <1>4, <1>5 DEF ReportsInv, ProjectsWalk, ReferencesWalk

\* The times a milestone names a run, and the readings due.
LEMMA TimesKept ==
    ASSUME UNCHANGED <<asked, milestones>>, walk'.runs = walk.runs
    PROVE  \A id : Times(id)' = Times(id)
  BY DEF Times, Occurrences

LEMMA DueNat ==
    ASSUME WalkOK
    PROVE  /\ \A id : Occurrences(walk.list, id) \in Nat /\ Occurrences(walk.todo, id) \in Nat /\ Due(id) \in Nat
           /\ \A p, id : Count(p, id) \in Nat
  <1>1. walk.list \in Seq(Ids) /\ walk.todo \in Seq(Projects \union Ids) /\ walk.seen \in Seq(Entries)
    BY DEF WalkOK
  <1>2. \A id : Occurrences(walk.list, id) \in Nat /\ Occurrences(walk.todo, id) \in Nat
    BY <1>1, OccursNat
  <1>3. \A id : Due(id) \in Nat
    BY <1>2 DEF Due
  <1>4. ASSUME NEW p, NEW id PROVE Count(p, id) \in Nat
    <2> DEFINE C == {n \in DOMAIN walk.seen : walk.seen[n].home = p /\ walk.seen[n].id = id}
    <2>1. IsFiniteSet(1..Len(walk.seen)) /\ DOMAIN walk.seen = 1..Len(walk.seen)
      BY <1>1, FS_Interval
    <2>2. IsFiniteSet(C)
      BY <2>1, FS_Subset
    <2> HIDE DEF C
    <2>3. Cardinality(C) \in Nat
      BY <2>2, FS_CardinalityType
    <2> QED BY <2>3 DEF C, Count
  <1> QED BY <1>2, <1>3, <1>4

LEMMA TimesNat ==
    ASSUME StateOK, WalkOK, Alive, asked.kind = "progress"
    PROVE  \A id : Times(id) \in Nat
  <1>1. PICK home \in Projects : walk.runs = {home}
    BY DEF WalkOK
  <1>2. (CHOOSE q \in Projects : q \in walk.runs) = home
    BY <1>1
  <1>3. milestones[home].runs \in Seq(Ids)
    BY <1>1, ReportsAssumption DEF StateOK
  <1> QED BY <1>2, <1>3, OccursNat DEF Times

\* A walk begins with nothing seen and every project that holds a document in
\* its scope to do.
LEMMA Begins ==
    ASSUME ReportsInv, UNCHANGED <<asked, stored, docs, milestones, environments, changed>>,
           walk.phase = "asked", asked.kind # "progress", NEW T \in Seq(Projects), Distinct(T),
           NEW R \in SUBSET Ids, walk' = [walk EXCEPT !.phase = "projects", !.todo = T, !.runs = R],
           \A p \in Spread(T) : InScope(p),
           \A p \in Projects \ Spread(T) : InScope(p) => p \notin stored
    PROVE  ReportsInv'
  <1>1. StateOK' /\ StateOK /\ WalkOK
    BY StateKept DEF ReportsInv
  <1>2. /\ walk'.phase = "projects" /\ walk'.todo = T /\ walk'.at = walk.at /\ walk'.list = <<>>
        /\ walk'.runs = R /\ walk'.seen = <<>> /\ walk'.outcome = "none"
    BY <1>1 DEF WalkOK
  <1>3. WalkOK'
    <2>1. T \in Seq(Projects \union Ids)
      BY SeqMonotonic
    <2>2. walk' \in [phase : {"asked", "projects", "references", "answered"},
                 todo : Seq(Projects \union Ids), at : Projects \union {None}, list : Seq(Ids),
                 runs : SUBSET (Projects \union Ids), seen : Seq(Entries),
                 outcome : {"none", "report", "forbidden", "missing", "empty", "conflict", "invalid"}]
      BY <1>1, <2>1 DEF WalkOK
    <2> QED BY <1>2, <2>2, EmptySpread DEF WalkOK
  <1>4. SeenOnce' /\ SeenReadable'
    BY <1>2 DEF SeenOnce, SeenReadable
  <1>5. ProjectsWalk'
    <2>1. ASSUME NEW p \in Projects, NEW id \in Ids, Belongs(p, id)', p \notin Spread(T)
          PROVE  FALSE
      <3>1. /\ (docs[p][id].readable \/ (asked.kind = "ids" /\ docs[p][id] # Absent))'
            /\ InScope(p)'
        <4>1. Belonging'
          BY <1>1, BelongsMeans, PTL
        <4> QED BY <2>1, <4>1 DEF Belonging
      <3>2. p \notin stored
        BY <2>1, <3>1 DEF InScope
      <3> QED BY <1>1, <3>1, <3>2, Documented
    <2> SUFFICES ASSUME NEW p \in Projects PROVE ScopeLeft(p)' /\ \A id \in Ids : Accounted(p, id)'
      BY DEF ProjectsWalk
    <2>2. ScopeLeft(p)'
      BY <1>2 DEF ScopeLeft, InScope
    <2>3. \A id \in Ids : ~Listed(p, id)' /\ ~SeenAt(p, id)'
      BY <1>2, EmptySpread DEF Listed, SeenAt
    <2> QED BY <1>2, <2>1, <2>2, <2>3 DEF Accounted
  <1>6. ReferencesWalk'
    BY DEF ReferencesWalk
  <1> QED BY <1>1, <1>3, <1>4, <1>5, <1>6 DEF ReportsInv

LEMMA UnresolvedType == Unresolved(asked) \in Errors \union {"none"}
  BY DEF Unresolved, Errors

LEMMA FiniteParts ==
    /\ \A S \in SUBSET Projects : S \in SUBSET Nat /\ IsFiniteSet(S)
    /\ \A S \in SUBSET Ids : S \in SUBSET Nat /\ IsFiniteSet(S)
  BY ReportsAssumption, FS_Subset

LEMMA StartKeeps == ReportsInv /\ Start => ReportsInv'
  <1> SUFFICES ASSUME ReportsInv, Start PROVE ReportsInv'
    OBVIOUS
  <1>1. CASE Unresolved(asked) # "none"
    <2>1. Answer(Unresolved(asked)) /\ UNCHANGED <<asked, stored, docs, milestones, environments, changed>>
      BY <1>1 DEF Start
    <2>2. Unresolved(asked) \in Errors
      BY <1>1, UnresolvedType
    <2> QED BY <2>1, <2>2, AnswerError
  <1>2. CASE Unresolved(asked) = "none"
    <2> DEFINE P == ProjectsWalked(asked)
               T == Ascending(P)
               R == IF asked.milestone THEN UNION {ToSet(milestones[p].runs) : p \in Holders} ELSE {}
    <2>1. /\ UNCHANGED <<asked, stored, docs, milestones, environments, changed>>
          /\ walk.phase = "asked" /\ asked.kind \notin {"progress", "whole", "ids"}
          /\ walk' = [walk EXCEPT !.phase = "projects", !.todo = T, !.runs = R]
      BY <1>2 DEF Start
    <2>2. /\ asked \in Asked /\ stored \in SUBSET Projects
          /\ milestones \in [Projects -> [held : BOOLEAN, runs : References]]
      BY DEF ReportsInv, StateOK
    <2>3. /\ asked.kind \in ReportKinds /\ asked.limited \in BOOLEAN
          /\ asked.reach \subseteq Projects /\ asked.project \in Projects \union {None}
      BY <2>2, AskedAssumption
    <2>4. ~Forbidden(asked)
      BY <1>2 DEF Unresolved
    <2>5. P \in SUBSET Projects
      BY <2>2, <2>3 DEF ProjectsWalked, CoverageScope, LastResultsScope, NamesScope
    <2>6. T \in Seq(P) /\ Distinct(T) /\ Spread(T) = P
      <3>1. P \in SUBSET Nat /\ IsFiniteSet(P)
        BY <2>5, FiniteParts
      <3> HIDE DEF P
      <3> QED BY <3>1, AscendingFacts
    <2>7. T \in Seq(Projects)
      BY <2>5, <2>6, SeqMonotonic
    <2>8. R \in SUBSET Ids
      <3>1. \A p \in Holders : milestones[p].runs \in Seq(Ids)
        BY <2>2, ReportsAssumption DEF Holders
      <3>2. \A s \in Seq(Ids) : ToSet(s) \subseteq Ids
        BY DEF ToSet
      <3> QED BY <3>1, <3>2
    <2>9. (\A p \in P : InScope(p)) /\ (\A p \in Projects \ P : InScope(p) => p \notin stored)
      <3>1. CASE asked.kind = "coverage"
        BY <2>3, <2>4, <3>1 DEF ProjectsWalked, CoverageScope, InScope, Forbidden
      <3>2. CASE asked.kind = "last"
        BY <2>3, <2>4, <3>2 DEF ProjectsWalked, LastResultsScope, InScope, Forbidden
      <3>3. CASE asked.kind = "names"
        BY <2>3, <2>4, <3>3 DEF ProjectsWalked, NamesScope, InScope
      <3>4. CASE asked.kind = "summary"
        BY <2>3, <2>4, <3>4 DEF ProjectsWalked, InScope
      <3> QED BY <2>1, <2>3, <3>1, <3>2, <3>3, <3>4 DEF ReportKinds
    <2> HIDE DEF P, T, R
    <2> QED BY <2>1, <2>6, <2>7, <2>8, <2>9, Begins
  <1> QED BY <1>1, <1>2

LEMMA GetKeeps == ReportsInv /\ GetAndEtag => ReportsInv'
  <1> SUFFICES ASSUME ReportsInv, GetAndEtag PROVE ReportsInv'
    OBVIOUS
  <1>1. /\ UNCHANGED <<asked, stored, docs, milestones, environments, changed>>
        /\ walk.phase = "asked" /\ asked.kind \in {"whole", "ids"}
    BY DEF GetAndEtag
  <1>2. CASE Answer("forbidden") \/ Answer("missing")
    BY <1>1, <1>2, AnswerError DEF Errors
  <1>3. CASE /\ asked.project \in stored
             /\ walk' = [walk EXCEPT !.phase = "projects", !.todo = <<asked.project>>]
    <2> DEFINE T == <<asked.project>>
    <2>1. WalkOK /\ walk.runs = {} /\ stored \in SUBSET Projects
      BY <1>1 DEF ReportsInv, WalkOK, StateOK
    <2>2. walk' = [walk EXCEPT !.phase = "projects", !.todo = T, !.runs = {}]
      BY <1>3, <2>1 DEF WalkOK
    <2>3. T \in Seq(Projects) /\ Distinct(T) /\ Spread(T) = {asked.project}
      BY <1>3, <2>1 DEF Distinct, Spread
    <2>4. \A p : InScope(p) <=> p = asked.project
      BY <1>1 DEF InScope
    <2> HIDE DEF T
    <2>5. (\A p \in Spread(T) : InScope(p)) /\ (\A p \in Projects \ Spread(T) : InScope(p) => p \notin stored)
      BY <2>3, <2>4
    <2>6. {} \in SUBSET Ids /\ asked.kind # "progress"
      BY <1>1
    <2> QED BY <1>1, <2>2, <2>3, <2>5, <2>6, Begins
  <1> QED BY <1>2, <1>3 DEF GetAndEtag

LEMMA StartProgressKeeps == ReportsInv /\ StartProgress => ReportsInv'
  <1> SUFFICES ASSUME ReportsInv, StartProgress PROVE ReportsInv'
    OBVIOUS
  <1>1. /\ UNCHANGED <<asked, stored, docs, milestones, environments, changed>>
        /\ walk.phase = "asked" /\ asked.kind = "progress"
    BY DEF StartProgress
  <1>2. CASE Answer("conflict") \/ Answer("missing")
    BY <1>1, <1>2, AnswerError DEF Errors
  <1>3. CASE Cardinality(Holders) = 1
    <2>1. PICK home \in Holders :
              walk' = [walk EXCEPT !.phase = "references", !.at = home, !.runs = {home},
                                   !.todo = milestones[home].runs]
      BY <1>3 DEF StartProgress
    <2>2. StateOK /\ WalkOK /\ StateOK'
      BY <1>1, StateKept DEF ReportsInv
    <2>3. home \in Projects /\ milestones[home].runs \in References
      BY <2>2 DEF Holders, StateOK
    <2> DEFINE T == milestones[home].runs
    <2>4. T \in Seq(Ids)
      BY <2>3, ReportsAssumption
    <2>5. T \in Seq(Projects \union Ids)
      BY <2>4, SeqMonotonic
    <2> HIDE DEF T
    <2>6. walk' = [walk EXCEPT !.phase = "references", !.at = home, !.runs = {home}, !.todo = T]
      BY <2>1, <2>3 DEF T
    <2>7. /\ walk'.phase = "references" /\ walk'.todo = T /\ walk'.at = home /\ walk'.list = <<>>
          /\ walk'.runs = {home} /\ walk'.seen = <<>> /\ walk'.outcome = "none"
      BY <1>1, <2>2, <2>6 DEF WalkOK
    <2>8. WalkOK'
      <3>1. walk' \in [phase : {"asked", "projects", "references", "answered"},
                 todo : Seq(Projects \union Ids), at : Projects \union {None}, list : Seq(Ids),
                 runs : SUBSET (Projects \union Ids), seen : Seq(Entries),
                 outcome : {"none", "report", "forbidden", "missing", "empty", "conflict", "invalid"}]
        BY <2>2, <2>3, <2>5, <2>6 DEF WalkOK
      <3> QED BY <1>1, <2>3, <2>4, <2>7, <3>1, EmptySpread DEF WalkOK
    <2>9. SeenOnce' /\ SeenReadable'
      BY <1>1, <2>7 DEF SeenOnce, SeenReadable
    <2>10. ASSUME NEW p \in Projects, NEW id \in Ids PROVE Referenced(p, id)'
      <3>1. Count(p, id)' = 0
        <4>1. {n \in DOMAIN walk'.seen : walk'.seen[n].home = p /\ walk'.seen[n].id = id} = {}
          BY <2>7
        <4> QED BY <4>1, FS_EmptySet DEF Count
      <3>2. Times(id)' = Occurrences(T, id)
        <4>1. (CHOOSE q \in Projects : q \in {home}) = home
          BY <2>3
        <4> QED BY <1>1, <2>7, <4>1 DEF Times, T
      <3>3. Due(id)' = Occurrences(<<>>, id) + Occurrences(T, id)
        BY <2>7 DEF Due
      <3>4. Due(id)' = Times(id)' /\ Times(id)' \in Nat
        BY <2>4, <3>2, <3>3, OccursShort, OccursNat
      <3> QED BY <2>7, <3>1, <3>4, EmptySpread DEF Referenced
    <2>11. ProjectsWalk' /\ ReferencesWalk'
      BY <1>1, <2>10 DEF ProjectsWalk, ReferencesWalk
    <2> QED BY <2>2, <2>8, <2>9, <2>11 DEF ReportsInv
  <1> QED BY <1>2, <1>3 DEF StartProgress

\* What belongs to a report depends on what is stored, on the request and on
\* the milestone's runs.
LEMMA BelongsKept ==
    ASSUME UNCHANGED <<asked, stored, docs>>, walk'.runs = walk.runs
    PROVE  \A p \in Projects, id \in Ids : Belongs(p, id)' <=> Belongs(p, id)
  BY DEF Belongs, HeldAt, Counts

LEMMA NextProjectKeeps == ReportsInv /\ NextProject => ReportsInv'
  <1> SUFFICES ASSUME ReportsInv, NextProject PROVE ReportsInv'
    OBVIOUS
  <1> DEFINE h == Head(walk.todo)
             C == {id \in Ids : docs[h][id] # Absent}
             L == Ascending(C)
  <1>1. /\ UNCHANGED <<asked, stored, docs, milestones, environments, changed>>
        /\ walk.phase = "projects" /\ walk.todo # <<>> /\ walk.list = <<>>
        /\ walk' = [walk EXCEPT !.at = h, !.todo = Tail(walk.todo), !.list = L]
    BY DEF NextProject, ListChildren
  <1>2. StateOK /\ WalkOK /\ StateOK' /\ SeenOnce /\ ProjectsWalk /\ SeenReadable
    BY <1>1, StateKept DEF ReportsInv
  <1>3. walk.todo \in Seq(Projects) /\ Distinct(walk.todo) /\ asked.kind # "progress" /\ walk.outcome = "none"
    BY <1>1, <1>2 DEF WalkOK
  <1>4. /\ h \in Projects /\ Tail(walk.todo) \in Seq(Projects) /\ Distinct(Tail(walk.todo))
        /\ h \in Spread(walk.todo) /\ h \notin Spread(Tail(walk.todo))
        /\ Spread(walk.todo) = Spread(Tail(walk.todo)) \union {h}
    BY <1>1, <1>3, TailFacts
  <1>5. L \in Seq(C) /\ Distinct(L) /\ Spread(L) = C
    <2>1. C \in SUBSET Ids
      OBVIOUS
    <2> HIDE DEF C
    <2> QED BY <2>1, FiniteParts, AscendingFacts
  <1>6. L \in Seq(Ids) /\ Tail(walk.todo) \in Seq(Projects \union Ids)
    BY <1>4, <1>5, SeqMonotonic
  <1>10. \A id \in Spread(L) : id \in Ids /\ docs[h][id] # Absent
    BY <1>5
  <1>11. \A id \in Ids : id \notin Spread(L) => docs[h][id] = Absent
    BY <1>5
  <1> HIDE DEF h, C, L
  <1>7. /\ walk'.phase = "projects" /\ walk'.todo = Tail(walk.todo) /\ walk'.at = h /\ walk'.list = L
        /\ walk'.runs = walk.runs /\ walk'.seen = walk.seen /\ walk'.outcome = "none"
    BY <1>1, <1>2, <1>3 DEF WalkOK
  <1>8. WalkOK'
    <2>1. walk' \in [phase : {"asked", "projects", "references", "answered"},
                 todo : Seq(Projects \union Ids), at : Projects \union {None}, list : Seq(Ids),
                 runs : SUBSET (Projects \union Ids), seen : Seq(Entries),
                 outcome : {"none", "report", "forbidden", "missing", "empty", "conflict", "invalid"}]
      BY <1>1, <1>2, <1>4, <1>6 DEF WalkOK
    <2> QED BY <1>1, <1>3, <1>4, <1>5, <1>7, <2>1 DEF WalkOK
  <1>9. SeenOnce' /\ SeenReadable'
    <2>1. \A n \in DOMAIN walk.seen : walk.seen[n].home \notin Spread(walk.todo)
      BY <1>1, <1>2 DEF SeenOnce
    <2> QED BY <1>1, <1>2, <1>4, <1>7, <2>1 DEF SeenOnce, SeenReadable
  <1>12. ProjectsWalk'
    <2>1. Alive /\ Alive'
      BY <1>1, <1>7 DEF Alive
    <2>2. \A p \in Projects, id \in Ids : Belongs(p, id)' <=> Belongs(p, id)
      BY <1>1, <1>7, BelongsKept
    <2>3. \A p : InScope(p)' <=> InScope(p)
      BY <1>1 DEF InScope
    <2>4. \A p \in Projects, id \in Ids : Held(p, id) => Held(p, id)'
      BY <1>1, <1>7 DEF Held
    <2>5. ASSUME NEW p \in Projects, NEW id \in Ids, <<p, id>> \notin changed, Belongs(p, id),
                 p \notin Spread(Tail(walk.todo)), ~(p = h /\ id \in Spread(L))
          PROVE  Held(p, id)
      <3>1. CASE p = h
        <4>1. docs[p][id] = Absent
          BY <1>11, <2>5, <3>1
        <4>2. docs[p][id].readable \/ docs[p][id] # Absent
          BY <1>2, <1>3, <2>5, BelongsMeans DEF Belonging
        <4> QED BY <1>2, <4>1, <4>2, Documented
      <3>2. CASE p # h
        <4>1. p \notin Spread(walk.todo) /\ ~(p = walk.at /\ id \in Spread(walk.list))
          BY <1>1, <1>4, <2>5, <3>2, EmptySpread
        <4>2. ~Listed(p, id)
          BY <4>1 DEF Listed
        <4> QED BY <1>2, <1>3, <2>1, <2>5, <4>1, <4>2 DEF ProjectsWalk, Accounted
      <3> QED BY <3>1, <3>2
    <2> SUFFICES ASSUME NEW p \in Projects PROVE ScopeLeft(p)' /\ \A id \in Ids : Accounted(p, id)'
      BY DEF ProjectsWalk
    <2>6. ScopeLeft(p)'
      BY <1>2, <1>3, <1>4, <1>7, <2>1, <2>3 DEF ProjectsWalk, ScopeLeft
    <2>7. ASSUME NEW id \in Ids PROVE Accounted(p, id)'
      <3>1. Listed(p, id)' <=> p = h /\ id \in Spread(L)
        BY <1>7 DEF Listed
      <3>2. SeenAt(p, id)' => SeenAt(p, id)
        BY <1>7 DEF SeenAt
      <3>3. <<p, id>> \notin changed /\ SeenAt(p, id) => Belongs(p, id)
        BY <1>2, <1>3, <2>1 DEF ProjectsWalk, Accounted
      <3>4. <<p, id>> \notin changed' => <<p, id>> \notin changed
        BY <1>1
      <3>5. docs'[p][id] = docs[p][id] /\ walk'.todo = Tail(walk.todo)
        BY <1>1, <1>7
      <3> QED BY <1>10, <2>2, <2>4, <2>5, <3>1, <3>2, <3>3, <3>4, <3>5 DEF Accounted
    <2> QED BY <2>6, <2>7
  <1>13. ReferencesWalk'
    BY <1>1, <1>3 DEF ReferencesWalk
  <1> QED BY <1>2, <1>8, <1>9, <1>12, <1>13 DEF ReportsInv

\* One document read, taken into the report or passed over.
LEMMA ReadKeeps ==
    ASSUME ReportsInv, UNCHANGED <<asked, stored, docs, milestones, environments, changed>>,
           walk.phase \in {"projects", "references"}, walk.list # <<>>,
           NEW p, p = walk.at, NEW i, i = Head(walk.list), NEW S, NEW e,
           e = [home |-> p, id |-> i, doc |-> docs[p][i]],
           walk' = [walk EXCEPT !.list = Tail(walk.list), !.seen = S],
           \/ S = walk.seen /\ ~Belongs(p, i) /\ (asked.kind = "progress" => ~docs[p][i].readable)
           \/ /\ S = Append(walk.seen, e)
              /\ asked.kind # "ids" => docs[p][i].readable
              /\ asked.kind # "progress" /\ <<p, i>> \notin changed => Belongs(p, i)
    PROVE  ReportsInv'
  <1>1. StateOK /\ WalkOK /\ StateOK' /\ SeenOnce /\ ProjectsWalk /\ ReferencesWalk /\ SeenReadable
    BY StateKept DEF ReportsInv
  <1>2. /\ p \in Projects /\ walk.list \in Seq(Ids) /\ Distinct(walk.list) /\ walk.outcome = "none"
        /\ walk.seen \in Seq(Entries)
    BY <1>1 DEF WalkOK
  <1>3. /\ i \in Ids /\ Tail(walk.list) \in Seq(Ids) /\ Distinct(Tail(walk.list))
        /\ i \in Spread(walk.list) /\ i \notin Spread(Tail(walk.list))
        /\ Spread(walk.list) = Spread(Tail(walk.list)) \union {i}
    BY <1>2, TailFacts
  <1>4. e \in Entries /\ e.home = p /\ e.id = i /\ e.doc = docs[p][i]
    BY <1>1, <1>2, <1>3, Documented DEF Entries
  <1>5. /\ walk'.phase = walk.phase /\ walk'.todo = walk.todo /\ walk'.at = p
        /\ walk'.list = Tail(walk.list) /\ walk'.runs = walk.runs /\ walk'.seen = S
        /\ walk'.outcome = "none"
    BY <1>1, <1>2, SMTT(40) DEF WalkOK
  <1>6. /\ S \in Seq(Entries)
        /\ \A n \in DOMAIN S : (n \in DOMAIN walk.seen /\ S[n] = walk.seen[n])
                               \/ (S = Append(walk.seen, e) /\ n = Len(walk.seen) + 1 /\ S[n] = e)
        /\ \A n \in DOMAIN walk.seen : n \in DOMAIN S /\ S[n] = walk.seen[n]
        /\ S = Append(walk.seen, e) => Len(walk.seen) + 1 \in DOMAIN S /\ S[Len(walk.seen) + 1] = e
    <2>1. CASE S = walk.seen
      <3>1. S # Append(walk.seen, e)
        BY <1>2, <1>4, <2>1, SMTT(40)
      <3> QED BY <1>2, <2>1, <3>1
    <2>2. CASE S = Append(walk.seen, e)
      BY <1>2, <1>4, <2>2
    <2> QED BY <2>1, <2>2
  <1>7. WalkOK'
    <2>1. walk' \in [phase : {"asked", "projects", "references", "answered"},
                 todo : Seq(Projects \union Ids), at : Projects \union {None}, list : Seq(Ids),
                 runs : SUBSET (Projects \union Ids), seen : Seq(Entries),
                 outcome : {"none", "report", "forbidden", "missing", "empty", "conflict", "invalid"}]
      BY <1>1, <1>3, <1>6 DEF WalkOK
    <2>2. Alive
      BY DEF Alive
    <2> QED BY <1>1, <1>2, <1>3, <1>5, <2>1, <2>2 DEF WalkOK
  <1>8. asked.kind # "progress" =>
            \A n \in DOMAIN walk.seen : ~(walk.seen[n].home = p /\ walk.seen[n].id = i)
    BY <1>1, <1>3 DEF SeenOnce, WalkOK
  <1>9. SeenOnce'
    <2>1. asked.kind # "progress" =>
              \A n, m \in DOMAIN S : S[n].home = S[m].home /\ S[n].id = S[m].id => n = m
      <3> SUFFICES ASSUME asked.kind # "progress", NEW n \in DOMAIN S, NEW m \in DOMAIN S,
                          S[n].home = S[m].home, S[n].id = S[m].id
                   PROVE  n = m
        OBVIOUS
      <3>1. CASE S[n] = e /\ n = Len(walk.seen) + 1
        BY <1>4, <1>6, <1>8, <3>1
      <3>2. CASE S[m] = e /\ m = Len(walk.seen) + 1
        BY <1>4, <1>6, <1>8, <3>2, ZenonT(60)
      <3>3. CASE n \in DOMAIN walk.seen /\ m \in DOMAIN walk.seen
        BY <1>1, <1>6, <3>3 DEF SeenOnce
      <3> QED BY <1>6, <3>1, <3>2, <3>3
    <2>2. walk.phase = "projects" =>
             /\ p \notin Spread(walk.todo)
             /\ \A n \in DOMAIN S : S[n].home \notin Spread(walk.todo)
             /\ \A n \in DOMAIN S : S[n].home = p => S[n].id \notin Spread(Tail(walk.list))
      BY <1>1, <1>3, <1>4, <1>6, SMTT(40) DEF SeenOnce
    <2> QED BY <1>5, <2>1, <2>2 DEF SeenOnce
  <1>10. SeenReadable'
    <2>1. asked.kind # "ids" /\ S = Append(walk.seen, e) => e.doc \in Documents /\ e.doc.readable
      <3>1. docs[p][i].readable => docs[p][i] \in Documents
        BY <1>1, <1>2, <1>3, Documented
      <3>2. S # Append(walk.seen, e) \/ S # walk.seen
        BY <1>2, <1>4
      <3> QED BY <1>4, <3>1, <3>2
    <2> QED BY <1>1, <1>5, <1>6, <2>1 DEF SeenReadable
  <1>11. \A r \in Projects, id \in Ids : Belongs(r, id)' <=> Belongs(r, id)
    BY <1>5, BelongsKept
  <1>12. \A r \in Projects, id \in Ids :
            SeenAt(r, id)' <=> SeenAt(r, id) \/ (S = Append(walk.seen, e) /\ r = p /\ id = i)
    <2> SUFFICES ASSUME NEW r \in Projects, NEW id \in Ids
                 PROVE  SeenAt(r, id)' <=> SeenAt(r, id) \/ (S = Append(walk.seen, e) /\ r = p /\ id = i)
      OBVIOUS
    <2>1. SeenAt(r, id)' <=> \E n \in DOMAIN S : S[n].home = r /\ S[n].id = id
      BY <1>5 DEF SeenAt
    <2> QED BY <1>4, <1>6, <2>1 DEF SeenAt
  <1>13. Alive /\ Alive' /\ (S # walk.seen \/ S # Append(walk.seen, e))
    BY <1>2, <1>4, <1>5 DEF Alive
  <1>14. ProjectsWalk'
    <2> SUFFICES ASSUME NEW r \in Projects, asked.kind # "progress"
                 PROVE  ScopeLeft(r)' /\ \A id \in Ids : Accounted(r, id)'
      BY DEF ProjectsWalk
    <2>1. ScopeLeft(r)'
      <3>1. ScopeLeft(r)
        BY <1>1, <1>13 DEF ProjectsWalk
      <3> QED BY <1>5, <3>1 DEF ScopeLeft, InScope
    <2>2. ASSUME NEW id \in Ids PROVE Accounted(r, id)'
      <3>1. Accounted(r, id)
        BY <1>1, <1>13 DEF ProjectsWalk
      <3>2. Listed(r, id) <=> Listed(r, id)' \/ (r = p /\ id = i)
        BY <1>3, <1>5 DEF Listed
      <3>3. Held(r, id) => Held(r, id)'
        BY <1>5, <1>6 DEF Held
      <3>4. S = Append(walk.seen, e) => Held(p, i)'
        <4> SUFFICES ASSUME S = Append(walk.seen, e) PROVE Held(p, i)'
          BY SMTT(40)
        <4>1. Len(walk.seen) + 1 \in DOMAIN walk'.seen /\ walk'.seen[Len(walk.seen) + 1] = e
          BY <1>5, <1>6
        <4>2. e = [home |-> p, id |-> i, doc |-> docs'[p][i]]
          OBVIOUS
        <4> QED BY <4>1, <4>2 DEF Held
      <3>5. Belongs(p, i) => S = Append(walk.seen, e)
        OBVIOUS
      <3>6. <<p, i>> \notin changed /\ S = Append(walk.seen, e) => Belongs(p, i)
        BY <1>13
      <3>7. docs'[r][id] = docs[r][id] /\ walk'.todo = walk.todo /\ changed' = changed
        BY <1>5
      <3> QED BY <1>11, <1>12, <3>1, <3>2, <3>3, <3>4, <3>5, <3>6, <3>7 DEF Accounted
    <2> QED BY <2>1, <2>2
  <1>15. ReferencesWalk'
    <2> SUFFICES ASSUME asked.kind = "progress", NEW r \in Projects, NEW id \in Ids
                 PROVE  Referenced(r, id)'
      BY DEF ReferencesWalk
    <2>1. Referenced(r, id) /\ Referenced(p, i)
      BY <1>1, <1>2, <1>3, <1>13 DEF ReferencesWalk
    <2>2. Times(id)' = Times(id)
      BY <1>5, TimesKept
    <2>3. Due(id) \in Nat /\ Count(r, id) \in Nat
      BY <1>1, DueNat
    <2>4. Due(id) = Due(id)' + (IF i = id THEN 1 ELSE 0) /\ Due(id)' \in Nat
      <3>1. Occurrences(walk.list, id) = Occurrences(Tail(walk.list), id) + (IF i = id THEN 1 ELSE 0)
        BY <1>2, OccursTail
      <3>2. Occurrences(Tail(walk.list), id) \in Nat /\ Occurrences(walk.todo, id) \in Nat
        BY <1>1, <1>3, OccursNat, DueNat
      <3>3. Due(id)' = Occurrences(Tail(walk.list), id) + Occurrences(walk.todo, id)
        BY <1>5 DEF Due
      <3> QED BY <3>1, <3>2, <3>3 DEF Due
    <2>5. Count(r, id)' = Count(r, id) +
              (IF S = Append(walk.seen, e) /\ r = p /\ id = i THEN 1 ELSE 0)
      <3>1. CASE S = walk.seen
        <4>1. Count(r, id)' = Count(r, id)
          BY <1>5, <3>1, Zenon DEF Count
        <4> QED BY <1>13, <2>3, <3>1, <4>1
      <3>2. CASE S = Append(walk.seen, e)
        <4>1. Tally(S, r, id) = Tally(walk.seen, r, id) + (IF e.home = r /\ e.id = id THEN 1 ELSE 0)
          BY <1>2, <1>4, <3>2, CountGrows
        <4>2. Count(r, id)' = Tally(S, r, id) /\ Count(r, id) = Tally(walk.seen, r, id)
          BY <1>5, Zenon DEF Count, Tally
        <4> QED BY <1>4, <3>2, <4>1, <4>2
      <3> QED BY <3>1, <3>2
    <2>6. Untouched(id)' <=> Untouched(id)
      BY DEF Untouched
    <2>7. Count(r, id)' + Due(id)' <= Times(id)'
      <3>1. Count(r, id) + Due(id) <= Times(id)
        BY <2>1 DEF Referenced
      <3>2. Times(id) \in Nat
        BY <1>1, <1>13, TimesNat
      <3> QED BY <2>2, <2>3, <2>4, <2>5, <3>1, <3>2
    <2>8. ASSUME Untouched(id)
          PROVE  /\ id \in Spread(Tail(walk.list)) => (Belongs(r, id)' <=> r = p /\ docs'[r][id].readable)
                 /\ Belongs(r, id)' => Count(r, id)' + Due(id)' = Times(id)'
                 /\ ~Belongs(r, id)' => Count(r, id)' = 0
      <3>1. /\ id \in Spread(walk.list) => (Belongs(r, id) <=> r = p /\ docs[r][id].readable)
            /\ Belongs(r, id) => Count(r, id) + Due(id) = Times(id)
            /\ ~Belongs(r, id) => Count(r, id) = 0
        BY <2>1, <2>8 DEF Referenced
      <3>2. Belongs(r, id)' <=> Belongs(r, id)
        BY <1>11
      <3>3. S = Append(walk.seen, e) <=> docs[p][i].readable
        BY <1>13
      <3>4. CASE id = i /\ r = p
        <4>1. S = Append(walk.seen, e) <=> Belongs(r, id)
          BY <1>3, <3>1, <3>3, <3>4
        <4>2. CASE Belongs(r, id)
          BY <1>3, <2>2, <2>3, <2>4, <2>5, <3>1, <3>2, <3>4, <4>1, <4>2
        <4>3. CASE ~Belongs(r, id)
          BY <1>3, <2>2, <2>3, <2>4, <2>5, <3>1, <3>2, <3>4, <4>1, <4>3
        <4> QED BY <4>2, <4>3
      <3>5. CASE id = i /\ r # p
        <4>1. ~Belongs(r, id) /\ Count(r, id)' = Count(r, id)
          BY <1>3, <2>3, <2>5, <3>1, <3>5
        <4> QED BY <1>3, <3>1, <3>2, <3>5, <4>1
      <3>6. CASE id # i
        <4>1. Count(r, id)' = Count(r, id) /\ Due(id)' = Due(id)
          BY <2>3, <2>4, <2>5, <3>6
        <4> QED BY <1>3, <2>2, <3>1, <3>2, <4>1
      <3> QED BY <3>4, <3>5, <3>6
    <2> QED BY <1>5, <2>6, <2>7, <2>8 DEF Referenced
  <1> QED BY <1>1, <1>7, <1>9, <1>10, <1>14, <1>15 DEF ReportsInv

LEMMA ReadNextKeeps == ReportsInv /\ ReadNext => ReportsInv'
  <1> SUFFICES ASSUME ReportsInv, ReadNext PROVE ReportsInv'
    OBVIOUS
  <1>1. /\ UNCHANGED <<asked, stored, docs, milestones, environments, changed>>
        /\ walk.phase \in {"projects", "references"} /\ walk.list # <<>>
        /\ asked.kind \notin {"whole", "ids"}
    BY DEF ReadNext
  <1>2. StateOK /\ WalkOK /\ ProjectsWalk
    BY DEF ReportsInv
  <1>3. PICK p \in Projects, i \in Ids : p = walk.at /\ i = Head(walk.list)
    BY <1>1, <1>2, TailFacts DEF WalkOK
  <1>4. CASE Answer("missing") \/ Answer("invalid")
    BY <1>1, <1>4, AnswerError DEF Errors
  <1>5. CASE ~(Answer("missing") \/ Answer("invalid"))
    <2> DEFINE d == docs[p][i]
               e == [home |-> p, id |-> i, doc |-> d]
    <2>1. \/ /\ d.readable /\ Counts(asked, d, p, i, walk.runs)
             /\ walk' = [walk EXCEPT !.list = Tail(walk.list), !.seen = Append(walk.seen, e)]
          \/ /\ ~(d.readable /\ Counts(asked, d, p, i, walk.runs))
             /\ walk' = [walk EXCEPT !.list = Tail(walk.list)]
      <3>1. walk \in [phase : {"asked", "projects", "references", "answered"},
                 todo : Seq(Projects \union Ids), at : Projects \union {None}, list : Seq(Ids),
                 runs : SUBSET (Projects \union Ids), seen : Seq(Entries),
                 outcome : {"none", "report", "forbidden", "missing", "empty", "conflict", "invalid"}]
        BY <1>2 DEF WalkOK
      <3> QED BY <1>3, <1>5, <3>1 DEF ReadNext
    <2>2. asked.kind # "progress" => InScope(p)
      <3>1. Alive
        BY <1>1 DEF Alive
      <3> QED BY <1>1, <1>2, <1>3, <3>1 DEF ProjectsWalk, ScopeLeft
    <2>3. asked.kind # "progress" =>
              (Belongs(p, i) <=> d.readable /\ Counts(asked, d, p, i, walk.runs))
      BY <1>1, <1>2, <2>2, BelongsMeans DEF Belonging
    <2>4. asked.kind = "progress" =>
              Counts(asked, d, p, i, walk.runs) /\ (Belongs(p, i) => d.readable)
      BY BelongsProgress DEF BelongingToProgress, Counts
    <2>5. CASE /\ d.readable /\ Counts(asked, d, p, i, walk.runs)
               /\ walk' = [walk EXCEPT !.list = Tail(walk.list), !.seen = Append(walk.seen, e)]
      <3>1. /\ asked.kind # "ids" => docs[p][i].readable
            /\ asked.kind # "progress" /\ <<p, i>> \notin changed => Belongs(p, i)
        BY <2>3, <2>5
      <3> QED BY <1>1, <1>3, <2>5, <3>1, ReadKeeps
    <2>6. CASE /\ ~(d.readable /\ Counts(asked, d, p, i, walk.runs))
               /\ walk' = [walk EXCEPT !.list = Tail(walk.list)]
      <3>1. walk' = [walk EXCEPT !.list = Tail(walk.list), !.seen = walk.seen]
        BY <1>2, <2>6 DEF WalkOK
      <3>2. ~Belongs(p, i) /\ (asked.kind = "progress" => ~docs[p][i].readable)
        BY <2>3, <2>4, <2>6
      <3> QED BY <1>1, <1>3, <3>1, <3>2, ReadKeeps
    <2> QED BY <2>1, <2>5, <2>6
  <1> QED BY <1>4, <1>5

LEMMA HydrateKeeps == ReportsInv /\ Hydrate => ReportsInv'
  <1> SUFFICES ASSUME ReportsInv, Hydrate PROVE ReportsInv'
    OBVIOUS
  <1>1. /\ UNCHANGED <<asked, stored, docs, milestones, environments, changed>>
        /\ walk.phase = "projects" /\ walk.list # <<>>
        /\ asked.kind \in {"whole", "ids"}
    BY DEF Hydrate
  <1>2. StateOK /\ WalkOK /\ ProjectsWalk
    BY DEF ReportsInv
  <1>3. PICK p \in Projects, i \in Ids : p = walk.at /\ i = Head(walk.list) /\ i \in Spread(walk.list)
    BY <1>1, <1>2, TailFacts DEF WalkOK
  <1>4. CASE Answer("missing") \/ Answer("invalid")
    BY <1>1, <1>4, AnswerError DEF Errors
  <1>5. CASE ~(Answer("missing") \/ Answer("invalid"))
    <2> DEFINE d == docs[p][i]
               e == [home |-> p, id |-> i, doc |-> d]
    <2>1. /\ asked.kind = "whole" => d.readable
          /\ walk' = [walk EXCEPT !.list = Tail(walk.list), !.seen = Append(walk.seen, e)]
      <3>1. walk \in [phase : {"asked", "projects", "references", "answered"},
                 todo : Seq(Projects \union Ids), at : Projects \union {None}, list : Seq(Ids),
                 runs : SUBSET (Projects \union Ids), seen : Seq(Entries),
                 outcome : {"none", "report", "forbidden", "missing", "empty", "conflict", "invalid"}]
        BY <1>2 DEF WalkOK
      <3> QED BY <1>1, <1>3, <1>5, <3>1 DEF Hydrate
    <2>2. InScope(p) /\ (<<p, i>> \notin changed => d # Absent)
      <3>1. Alive /\ Listed(p, i)
        BY <1>1, <1>3 DEF Alive, Listed
      <3> QED BY <1>1, <1>2, <1>3, <3>1 DEF ProjectsWalk, ScopeLeft, Accounted
    <2>3. <<p, i>> \notin changed => Belongs(p, i)
      <3>1. Counts(asked, d, p, i, walk.runs)
        BY <1>1 DEF Counts
      <3> QED BY <1>1, <1>2, <2>1, <2>2, <3>1, BelongsMeans DEF Belonging
    <2>4. asked.kind # "ids" => docs[p][i].readable
      BY <1>1, <2>1
    <2> QED BY <1>1, <1>3, <2>1, <2>3, <2>4, ReadKeeps
  <1> QED BY <1>4, <1>5

LEMMA ReportKeeps == ReportsInv /\ Report => ReportsInv'
  <1> SUFFICES ASSUME ReportsInv, Report PROVE ReportsInv'
    OBVIOUS
  <1>1. /\ UNCHANGED <<asked, stored, docs, milestones, environments, changed>>
        /\ walk.phase \in {"projects", "references"} /\ walk.todo = <<>> /\ walk.list = <<>>
        /\ Answer("report")
    BY DEF Report
  <1>2. StateOK /\ WalkOK /\ StateOK' /\ SeenOnce /\ ProjectsWalk /\ ReferencesWalk /\ SeenReadable
    BY <1>1, StateKept DEF ReportsInv
  <1>3. /\ walk'.phase = "answered" /\ walk'.todo = <<>> /\ walk'.at = None /\ walk'.list = <<>>
        /\ walk'.runs = walk.runs /\ walk'.seen = walk.seen /\ walk'.outcome = "report"
    BY <1>1, <1>2 DEF Answer, WalkOK
  <1>4. Alive /\ Alive'
    BY <1>1, <1>3 DEF Alive, Reported
  <1>5. WalkOK'
    <2>1. walk' \in [phase : {"asked", "projects", "references", "answered"},
                 todo : Seq(Projects \union Ids), at : Projects \union {None}, list : Seq(Ids),
                 runs : SUBSET (Projects \union Ids), seen : Seq(Entries),
                 outcome : {"none", "report", "forbidden", "missing", "empty", "conflict", "invalid"}]
      <3>1. <<>> \in Seq(Projects \union Ids) /\ <<>> \in Seq(Ids)
        OBVIOUS
      <3> QED BY <1>1, <1>2, <3>1 DEF Answer, WalkOK
    <2> QED BY <1>1, <1>2, <1>3, <1>4, <2>1, EmptySpread DEF WalkOK
  <1>6. SeenOnce' /\ SeenReadable'
    BY <1>1, <1>2, <1>3 DEF SeenOnce, SeenReadable
  <1>7. \A p \in Projects, id \in Ids : Belongs(p, id)' <=> Belongs(p, id)
    BY <1>1, <1>3, BelongsKept
  <1>8. \A p \in Projects, id \in Ids : /\ SeenAt(p, id)' <=> SeenAt(p, id)
                                        /\ Held(p, id)' <=> Held(p, id)
                                        /\ ~Listed(p, id) /\ ~Listed(p, id)'
    BY <1>1, <1>3, EmptySpread DEF SeenAt, Held, Listed
  <1>9. ProjectsWalk'
    BY <1>1, <1>2, <1>3, <1>4, <1>7, <1>8, EmptySpread DEF ProjectsWalk, ScopeLeft, Accounted
  <1>10. ReferencesWalk'
    <2> SUFFICES ASSUME asked.kind = "progress", NEW p \in Projects, NEW id \in Ids
                 PROVE  Referenced(p, id)'
      BY <1>1 DEF ReferencesWalk
    <2>1. Referenced(p, id)
      BY <1>2, <1>4 DEF ReferencesWalk
    <2>2. Times(id)' = Times(id)
      BY <1>1, <1>3, TimesKept
    <2>3. Count(p, id)' = Count(p, id) /\ Due(id)' = Due(id) /\ (Untouched(id)' <=> Untouched(id))
      BY <1>1, <1>3 DEF Count, Due, Untouched
    <2> QED BY <1>3, <1>7, <2>1, <2>2, <2>3, EmptySpread DEF Referenced
  <1> QED BY <1>2, <1>5, <1>6, <1>9, <1>10 DEF ReportsInv

LEMMA NextReferenceKeeps == ReportsInv /\ NextReference => ReportsInv'
  <1> SUFFICES ASSUME ReportsInv, NextReference PROVE ReportsInv'
    OBVIOUS
  <1>1. /\ UNCHANGED <<asked, stored, docs, milestones, environments, changed>>
        /\ walk.phase = "references" /\ walk.todo # <<>> /\ walk.list = <<>>
    BY DEF NextReference
  <1>2. StateOK /\ WalkOK /\ StateOK' /\ SeenOnce /\ ReferencesWalk /\ SeenReadable
    BY <1>1, StateKept DEF ReportsInv
  <1>3. walk.todo \in Seq(Ids) /\ asked.kind = "progress" /\ walk.outcome = "none"
    BY <1>1, <1>2 DEF WalkOK
  <1>4. PICK i \in Ids : i = Head(walk.todo) /\ Tail(walk.todo) \in Seq(Ids)
    BY <1>1, <1>3, TailSpread
  <1>5. Tail(walk.todo) \in Seq(Projects \union Ids)
    BY <1>4, SeqMonotonic
  <1>6. Alive
    BY <1>1 DEF Alive
  <1>7. PICK home \in Projects : walk.runs = {home}
    BY <1>2, <1>3, <1>6 DEF WalkOK
  <1> DEFINE found == IF HeldAt(i) \intersect {home} # {} THEN {home} ELSE HeldAt(i)
  <1>8. /\ HeldAt(i) \in SUBSET Projects
        /\ \A r \in Projects : docs[r][i].readable => r \in HeldAt(i)
    BY <1>2, Documented DEF HeldAt, StateOK
  <1>9. \A r \in Projects : Belongs(r, i) <=> docs[r][i].readable /\ r \in found
                /\ (home \in HeldAt(i) => r = home)
    <2> SUFFICES ASSUME NEW r \in Projects
                 PROVE  Belongs(r, i) <=> docs[r][i].readable /\ r \in found
                            /\ (home \in HeldAt(i) => r = home)
      OBVIOUS
    <2>1. Belongs(r, i) <=>
              docs[r][i].readable /\ {home} \intersect HeldAt(i) = (IF r \in {home} THEN {r} ELSE {})
      BY <1>3, <1>7, BelongsProgress DEF BelongingToProgress
    <2>2. CASE home \in HeldAt(i)
      <3>1. {home} \intersect HeldAt(i) = {home} /\ found = {home}
        BY <2>2
      <3> QED BY <2>1, <2>2, <3>1
    <2>3. CASE home \notin HeldAt(i)
      <3>1. {home} \intersect HeldAt(i) = {} /\ found = HeldAt(i)
        BY <2>3
      <3> QED BY <1>8, <2>1, <2>3, <3>1
    <2> QED BY <2>2, <2>3
  <1>10. found \in SUBSET Projects /\ IsFiniteSet(found)
    BY <1>8, FiniteParts
  <1>11. home \in HeldAt(i) => found = {home}
    OBVIOUS
  <1>13. ASSUME Answer("conflict") PROVE ReportsInv'
    BY <1>1, <1>13, AnswerError DEF Errors
  <1>14. ASSUME NEW A, NEW L, A \in Projects \union {None},
                \/ found = {} /\ A = walk.at /\ L = <<>>
                \/ A \in Projects /\ found = {A} /\ L = <<i>>,
                walk' = [walk EXCEPT !.todo = Tail(walk.todo), !.at = A, !.list = L]
         PROVE  ReportsInv'
    <2>1. L \in Seq(Ids) /\ Distinct(L) /\ Spread(L) \subseteq {i} /\ (L # <<>> => Spread(L) = {i} /\ found = {A} /\ A \in Projects)
      <3>1. CASE L = <<>>
        BY <3>1, EmptySpread
      <3>2. CASE L = <<i>> /\ A \in Projects /\ found = {A}
        BY <3>2 DEF Spread, Distinct
      <3> QED BY <1>14, <3>1, <3>2
    <2>2. /\ walk'.phase = "references" /\ walk'.todo = Tail(walk.todo) /\ walk'.at = A
          /\ walk'.list = L /\ walk'.runs = walk.runs /\ walk'.seen = walk.seen
          /\ walk'.outcome = "none"
      BY <1>1, <1>2, <1>3, <1>14 DEF WalkOK
    <2>3. WalkOK'
      <3>1. walk' \in [phase : {"asked", "projects", "references", "answered"},
                 todo : Seq(Projects \union Ids), at : Projects \union {None}, list : Seq(Ids),
                 runs : SUBSET (Projects \union Ids), seen : Seq(Entries),
                 outcome : {"none", "report", "forbidden", "missing", "empty", "conflict", "invalid"}]
        BY <1>2, <1>5, <1>14, <2>1 DEF WalkOK
      <3> QED BY <1>1, <1>3, <1>4, <1>7, <2>1, <2>2, <3>1 DEF WalkOK
    <2>4. SeenOnce' /\ SeenReadable'
      BY <1>1, <1>2, <1>3, <2>2 DEF SeenOnce, SeenReadable
    <2>5. \A r \in Projects, id \in Ids : Belongs(r, id)' <=> Belongs(r, id)
      BY <1>1, <2>2, BelongsKept
    <2>6. ReferencesWalk'
      <3> SUFFICES ASSUME NEW r \in Projects, NEW id \in Ids PROVE Referenced(r, id)'
        BY <1>1 DEF ReferencesWalk
      <3>1. ASSUME Untouched(id), id \in Spread(L) PROVE Belongs(r, id) <=> r = A /\ docs[r][id].readable
        <4>1. id = i /\ found = {A}
          BY <2>1, <3>1, EmptySpread
        <4> HIDE DEF found
        <4>2. home \in HeldAt(i) => A = home
          BY <1>11, <4>1
        <4> QED BY <1>9, <4>1, <4>2
      <3>2. Referenced(r, id) /\ Times(id)' = Times(id) /\ Times(id) \in Nat
        BY <1>1, <1>2, <1>3, <1>6, <2>2, TimesKept, TimesNat DEF ReferencesWalk
      <3>3. Count(r, id)' = Count(r, id) /\ (Untouched(id)' <=> Untouched(id))
        BY <1>1, <2>2 DEF Count, Untouched
      <3>4. /\ Count(r, id) \in Nat /\ Due(id) \in Nat
            /\ Occurrences(L, id) \in Nat /\ Occurrences(Tail(walk.todo), id) \in Nat
        BY <1>2, <1>4, <2>1, OccursNat, DueNat
      <3>5. Due(id) = Occurrences(Tail(walk.todo), id) + (IF i = id THEN 1 ELSE 0)
        <4>1. Occurrences(walk.todo, id) = Occurrences(Tail(walk.todo), id) + (IF i = id THEN 1 ELSE 0)
          BY <1>1, <1>3, <1>4, OccursTail
        <4>2. Occurrences(walk.list, id) = 0
          BY <1>1, OccursShort
        <4> QED BY <3>4, <4>1, <4>2 DEF Due
      <3>6. Due(id)' = Occurrences(L, id) + Occurrences(Tail(walk.todo), id)
        BY <2>2 DEF Due
      <3>7. CASE L = <<i>>
        <4>1. Occurrences(L, id) = IF id = i THEN 1 ELSE 0
          BY <3>7, OccursShort
        <4>2. Due(id)' = Due(id)
          BY <3>4, <3>5, <3>6, <4>1
        <4>3. Belongs(r, id)' <=> Belongs(r, id)
          BY <2>5
        <4> HIDE DEF found
        <4> QED BY <1>1, <2>2, <3>1, <3>2, <3>3, <4>2, <4>3 DEF Referenced
      <3>8. CASE L = <<>> /\ found = {}
        <4>1. Due(id)' = Occurrences(Tail(walk.todo), id)
          BY <3>4, <3>6, <3>8, OccursShort
        <4>2. id = i => ~Belongs(r, id)
          <5> HIDE DEF found
          <5> QED BY <1>9, <3>8
        <4>3. Belongs(r, id)' <=> Belongs(r, id)
          BY <2>5
        <4> HIDE DEF found
        <4>4. Count(r, id)' + Due(id)' <= Times(id)'
          BY <3>2, <3>3, <3>4, <3>5, <4>1 DEF Referenced
        <4>5. Untouched(id) /\ Belongs(r, id) => Count(r, id)' + Due(id)' = Times(id)'
          BY <3>2, <3>3, <3>4, <3>5, <4>1, <4>2 DEF Referenced
        <4>6. Untouched(id) /\ ~Belongs(r, id) => Count(r, id)' = 0
          BY <3>2, <3>3 DEF Referenced
        <4> QED BY <2>2, <3>3, <3>8, <4>3, <4>4, <4>5, <4>6, EmptySpread DEF Referenced
      <3> QED BY <1>14, <3>7, <3>8
    <2>7. ProjectsWalk'
      BY <1>1, <1>3 DEF ProjectsWalk
    <2> QED BY <1>2, <2>3, <2>4, <2>6, <2>7 DEF ReportsInv
  <1>15. \/ found = {} /\ walk' = [walk EXCEPT !.todo = Tail(walk.todo)]
         \/ found # {} /\ Cardinality(found) > 1 /\ Answer("conflict")
         \/ /\ found # {} /\ ~(Cardinality(found) > 1)
            /\ \E p \in found : walk' = [walk EXCEPT !.todo = Tail(walk.todo), !.at = p, !.list = <<i>>]
    <2>1. Cardinality({}) = 0
      BY FS_EmptySet
    <2>2. HeldAt(i) \intersect walk.runs = HeldAt(i) \intersect {home}
      BY <1>7
    <2>3. found = {} => ~(Cardinality(found) > 1)
      BY <2>1
    <2>4. CASE found = {}
      BY <1>4, <1>7, <2>2, <2>3, <2>4 DEF NextReference
    <2>5. CASE found # {} /\ Cardinality(found) > 1
      BY <1>4, <1>7, <2>2, <2>5 DEF NextReference
    <2>6. CASE found # {} /\ ~(Cardinality(found) > 1)
      BY <1>4, <1>7, <2>2, <2>6 DEF NextReference
    <2> QED BY <2>4, <2>5, <2>6
  <1>16. CASE found = {} /\ walk' = [walk EXCEPT !.todo = Tail(walk.todo)]
    <2>1. walk' = [walk EXCEPT !.todo = Tail(walk.todo), !.at = walk.at, !.list = <<>>]
      BY <1>1, <1>2, <1>16 DEF WalkOK
    <2>2. walk.at \in Projects \union {None}
      BY <1>2, WalkFields
    <2> QED BY <1>14, <1>16, <2>1, <2>2
  <1>17. CASE /\ found # {} /\ ~(Cardinality(found) > 1)
              /\ \E p \in found : walk' = [walk EXCEPT !.todo = Tail(walk.todo), !.at = p, !.list = <<i>>]
    <2>1. PICK p \in found : walk' = [walk EXCEPT !.todo = Tail(walk.todo), !.at = p, !.list = <<i>>]
      BY <1>17
    <2>2. found = {p} /\ p \in Projects
      <3> HIDE DEF found
      <3>1. Cardinality(found) \in Nat /\ Cardinality(found) # 0
        BY <1>10, <1>17, FS_CardinalityType, FS_EmptySet
      <3>2. Cardinality(found) = 1
        BY <1>17, <3>1
      <3> QED BY <1>10, <3>2, FS_Singleton
    <2> HIDE DEF found
    <2> QED BY <1>14, <2>1, <2>2
  <1> QED BY <1>13, <1>15, <1>16, <1>17

\* A write concerns its own address, and the names held there.
LEMMA WriteKeeps ==
    ASSUME ReportsInv, UNCHANGED <<asked, milestones, walk>>, StateOK', changed \subseteq changed',
           walk.phase \in {"projects", "references"},
           \A p \in Projects, id \in Ids : <<p, id>> \notin changed' =>
               docs'[p][id] = docs[p][id] /\ (p \in stored' <=> p \in stored)
    PROVE  ReportsInv'
  <1>1. StateOK /\ WalkOK /\ SeenOnce /\ ProjectsWalk /\ ReferencesWalk /\ SeenReadable
    BY DEF ReportsInv
  <1>2. WalkOK' /\ SeenOnce' /\ SeenReadable' /\ (Alive' <=> Alive)
    BY <1>1 DEF WalkOK, SeenOnce, SeenReadable, Alive, Reported
  <1>3. \A p \in Projects, id \in Ids : /\ SeenAt(p, id)' <=> SeenAt(p, id)
                                        /\ Listed(p, id)' <=> Listed(p, id)
                                        /\ <<p, id>> \notin changed' /\ Held(p, id) => Held(p, id)'
    BY DEF SeenAt, Listed, Held
  <1>4. ProjectsWalk'
    <2> SUFFICES ASSUME NEW p \in Projects, asked.kind # "progress", Alive
                 PROVE  ScopeLeft(p)' /\ \A id \in Ids : Accounted(p, id)'
      BY <1>2 DEF ProjectsWalk
    <2>1. ScopeLeft(p)'
      BY <1>1 DEF ProjectsWalk, ScopeLeft, InScope
    <2>2. ASSUME NEW id \in Ids, <<p, id>> \notin changed' PROVE Accounted(p, id)'
      <3>1. Accounted(p, id) /\ <<p, id>> \notin changed
        BY <1>1, <2>2 DEF ProjectsWalk
      <3>2. docs'[p][id] = docs[p][id]
        BY <2>2
      <3>3. Belonging /\ Belonging'
        BY <1>1, BelongsMeans, PTL
      <3>4. Belongs(p, id)' <=> Belongs(p, id)
        BY <3>2, <3>3 DEF Belonging, InScope
      <3> QED BY <1>3, <2>2, <3>1, <3>2, <3>4 DEF Accounted
    <2>3. ASSUME NEW id \in Ids, <<p, id>> \in changed' PROVE Accounted(p, id)'
      BY <2>3 DEF Accounted
    <2> QED BY <2>1, <2>2, <2>3
  <1>5. ReferencesWalk'
    <2> SUFFICES ASSUME NEW p \in Projects, NEW id \in Ids, asked.kind = "progress", Alive
                 PROVE  Referenced(p, id)'
      BY <1>2 DEF ReferencesWalk
    <2>1. Referenced(p, id)
      BY <1>1 DEF ReferencesWalk
    <2>2. Count(p, id)' = Count(p, id) /\ Due(id)' = Due(id) /\ Times(id)' = Times(id)
      BY DEF Count, Due, Times, Occurrences
    <2>3. CASE ~Untouched(id)'
      BY <2>1, <2>2, <2>3 DEF Referenced
    <2>4. CASE Untouched(id)'
      <3>1. \A q \in Projects : <<q, id>> \notin changed' /\ <<q, id>> \notin changed
                  /\ docs'[q][id] = docs[q][id] /\ (q \in stored' <=> q \in stored)
        BY <2>4 DEF Untouched
      <3>2. HeldAt(id)' = HeldAt(id)
        BY <1>1, <3>1 DEF HeldAt, StateOK
      <3>3. BelongingToProgress /\ BelongingToProgress'
        BY BelongsProgress, PTL
      <3>4. Belongs(p, id)' <=> Belongs(p, id)
        BY <3>1, <3>2, <3>3, ZenonT(60) DEF BelongingToProgress
      <3>5. Untouched(id) /\ docs'[p][id] = docs[p][id]
        BY <3>1 DEF Untouched
      <3> QED BY <2>1, <2>2, <3>4, <3>5 DEF Referenced
    <2> QED BY <2>3, <2>4
  <1> QED BY <1>2, <1>4, <1>5 DEF ReportsInv

LEMMA NextKeeps == ReportsInv /\ [ReportsNext]_reportsVars => ReportsInv'
  <1> SUFFICES ASSUME ReportsInv, [ReportsNext]_reportsVars PROVE ReportsInv'
    OBVIOUS
  <1>1. StateOK
    BY DEF ReportsInv
  <1>2. ASSUME NEW p \in Projects, NEW id \in Ids, NEW d \in Documents \union {Absent}, Write(p, id, d)
        PROVE  ReportsInv'
    <2>1. /\ UNCHANGED <<asked, stored, milestones, environments, walk>> /\ p \in stored
          /\ docs' = [docs EXCEPT ![p][id] = d] /\ changed' = changed \union {<<p, id>>}
          /\ walk.phase \in {"projects", "references"}
      BY <1>2 DEF Write, Walking
    <2>2. StateOK'
      BY <1>1, <2>1 DEF StateOK
    <2>3. \A r \in Projects, i \in Ids : <<r, i>> \notin changed' => docs'[r][i] = docs[r][i]
      BY <1>1, <2>1 DEF StateOK
    <2> QED BY <2>1, <2>2, <2>3, WriteKeeps
  <1>3. ASSUME NEW p \in Projects, RemoveProject(p) PROVE ReportsInv'
    <2>1. /\ UNCHANGED <<asked, milestones, environments, walk>>
          /\ stored' = stored \ {p} /\ docs' = [docs EXCEPT ![p] = [id \in Ids |-> Absent]]
          /\ changed' = changed \union ({p} \X Ids)
          /\ walk.phase \in {"projects", "references"}
      BY <1>3 DEF RemoveProject, Walking
    <2>2. StateOK'
      BY <1>1, <2>1 DEF StateOK
    <2>3. \A r \in Projects, i \in Ids : <<r, i>> \notin changed' =>
              docs'[r][i] = docs[r][i] /\ (r \in stored' <=> r \in stored)
      BY <1>1, <2>1 DEF StateOK
    <2> QED BY <2>1, <2>2, <2>3, WriteKeeps
  <1>4. CASE UNCHANGED reportsVars
    <2>1. UNCHANGED <<asked, stored, docs, milestones, environments, changed, walk>>
      BY <1>4 DEF reportsVars
    <2>2. \A p \in Projects, id \in Ids : Belongs(p, id)' <=> Belongs(p, id)
      BY <2>1, BelongsKept
    <2>3. \A p \in Projects, id \in Ids : Referenced(p, id)' <=> Referenced(p, id)
      <3> SUFFICES ASSUME NEW p \in Projects, NEW id \in Ids PROVE Referenced(p, id)' <=> Referenced(p, id)
        OBVIOUS
      <3>1. Count(p, id)' = Count(p, id) /\ Due(id)' = Due(id) /\ Times(id)' = Times(id)
        BY <2>1 DEF Count, Due, Times, Occurrences
      <3>2. Untouched(id)' <=> Untouched(id)
        BY <2>1 DEF Untouched
      <3>3. Belongs(p, id)' <=> Belongs(p, id)
        BY <2>2
      <3> QED BY <2>1, <3>1, <3>2, <3>3 DEF Referenced
    <2>4. (Alive' <=> Alive) /\ StateOK' /\ WalkOK' /\ SeenOnce' /\ SeenReadable'
      BY <2>1 DEF ReportsInv, StateOK, WalkOK, SeenOnce, SeenReadable, Alive, Reported
    <2>5. ReferencesWalk'
      BY <2>1, <2>3, <2>4 DEF ReportsInv, ReferencesWalk
    <2>6. ProjectsWalk'
      BY <2>1, <2>2, <2>4 DEF ReportsInv, ProjectsWalk, ScopeLeft, Accounted, Listed, Held, SeenAt, InScope
    <2> QED BY <2>4, <2>5, <2>6 DEF ReportsInv
  <1> QED BY <1>2, <1>3, <1>4, StartKeeps, GetKeeps, StartProgressKeeps, NextProjectKeeps, ReadNextKeeps,
            HydrateKeeps, NextReferenceKeeps, ReportKeeps DEF ReportsNext

\* Every step of a report and of a writer keeps the invariant of the walk: what
\* has been read and what is left to read make up what belongs, and of a run that
\* a milestone names several times as many readings as it is named.
THEOREM ReportsInvariant == ReportsSpec => []ReportsInv
  BY InitHolds, NextKeeps, PTL DEF ReportsSpec

(* ----------------------------- what it shows ----------------------------- *)

\* A walk over projects counts each document once at most.
LEMMA CountOnce ==
    ASSUME ReportsInv, asked.kind # "progress", NEW p \in Projects, NEW id \in Ids
    PROVE  Count(p, id) = IF SeenAt(p, id) THEN 1 ELSE 0
  <1> DEFINE C == {n \in DOMAIN walk.seen : walk.seen[n].home = p /\ walk.seen[n].id = id}
  <1>1. CASE SeenAt(p, id)
    <2>1. PICK n \in DOMAIN walk.seen : walk.seen[n].home = p /\ walk.seen[n].id = id
      BY <1>1 DEF SeenAt
    <2>2. C = {n}
      BY <2>1 DEF ReportsInv, SeenOnce
    <2>3. Cardinality({n}) = 1
      BY FS_Singleton
    <2> QED BY <1>1, <2>2, <2>3 DEF Count
  <1>2. CASE ~SeenAt(p, id)
    <2>1. C = {}
      BY <1>2 DEF SeenAt
    <2> QED BY <1>2, <2>1, FS_EmptySet DEF Count
  <1> QED BY <1>1, <1>2

LEMMA CountsRight == ReportsInv => CountsWhatStayed
  <1> SUFFICES ASSUME ReportsInv, Reported, NEW p \in Projects, NEW id \in Ids
               PROVE  /\ Count(p, id) <= Times(id)
                      /\ Stayed(p, id) => Count(p, id) = IF Belongs(p, id) THEN Times(id) ELSE 0
    BY DEF CountsWhatStayed
  <1>1. /\ WalkOK /\ StateOK /\ Alive /\ walk.todo = <<>> /\ walk.list = <<>>
        /\ Spread(walk.todo) = {} /\ Spread(walk.list) = {}
    BY EmptySpread DEF ReportsInv, WalkOK, Reported, Alive
  <1>2. CASE asked.kind = "progress"
    <2>1. Referenced(p, id) /\ Count(p, id) \in Nat /\ Times(id) \in Nat
      BY <1>1, <1>2, DueNat, TimesNat DEF ReportsInv, ReferencesWalk
    <2>2. Due(id) = 0
      BY <1>1, OccursShort DEF Due
    <2>3. Stayed(p, id) => Untouched(id)
      BY <1>2 DEF Stayed, Untouched
    <2> QED BY <2>1, <2>2, <2>3 DEF Referenced
  <1>3. CASE asked.kind # "progress"
    <2>1. Count(p, id) = (IF SeenAt(p, id) THEN 1 ELSE 0) /\ Times(id) = 1
      BY <1>3, CountOnce DEF Times
    <2>2. ASSUME Stayed(p, id) PROVE SeenAt(p, id) <=> Belongs(p, id)
      <3>1. Accounted(p, id) /\ <<p, id>> \notin changed /\ ~Listed(p, id)
        BY <1>1, <1>3, <2>2 DEF ReportsInv, ProjectsWalk, Listed, Stayed
      <3>2. Held(p, id) => SeenAt(p, id)
        BY DEF Held, SeenAt
      <3> QED BY <1>1, <3>1, <3>2 DEF Accounted
    <2> QED BY <2>1, <2>2
  <1> QED BY <1>2, <1>3

\* Every report is made of what stayed, each document as often as it should be
\* (CountsWhatStayed).
THEOREM CountsStayed == ReportsSpec => []CountsWhatStayed
  BY ReportsInvariant, CountsRight, PTL

\* The dates by which runs are filtered are the calendar's (DatesFollowCalendar).
THEOREM Calendar == ReportsSpec => []DatesFollowCalendar
  <1>1. ReportsInv => DatesFollowCalendar
    BY DatesRight DEF DatesFollowCalendar
  <1> QED BY <1>1, ReportsInvariant, PTL

(* ------------------------------ the buckets ------------------------------ *)

\* The sizes of five disjoint parts add up.
Splits(S, A, B) == S = A \union B /\ A \intersect B = {}

LEMMA TwoParts ==
    ASSUME NEW S, IsFiniteSet(S), NEW A, NEW B, Splits(S, A, B)
    PROVE  /\ IsFiniteSet(A) /\ IsFiniteSet(B) /\ Cardinality(A) \in Nat /\ Cardinality(B) \in Nat
           /\ Cardinality(S) = Cardinality(A) + Cardinality(B)
  <1>1. A \in SUBSET S /\ B \in SUBSET S /\ S = A \union B
    BY DEF Splits
  <1>2. IsFiniteSet(A) /\ IsFiniteSet(B)
    BY <1>1, FS_Subset
  <1>3. Cardinality(A) \in Nat /\ Cardinality(B) \in Nat
    BY <1>2, FS_CardinalityType
  <1>4. Cardinality(S) = Cardinality(A) + Cardinality(B) - Cardinality(A \intersect B)
    BY <1>1, <1>2, FS_Union
  <1>5. Cardinality(A \intersect B) = 0
    BY FS_EmptySet DEF Splits
  <1> QED BY <1>2, <1>3, <1>4, <1>5, SMT

LEMMA FiveParts ==
    ASSUME NEW S, IsFiniteSet(S), NEW A, NEW B, NEW C, NEW D, NEW E, NEW S1, NEW S2, NEW S3,
           Splits(S, A, S1), Splits(S1, B, S2), Splits(S2, C, S3), Splits(S3, D, E)
    PROVE  Cardinality(S) = Cardinality(A) + Cardinality(B) + Cardinality(C) + Cardinality(D) + Cardinality(E)
  <1>3. IsFiniteSet(S1) /\ Cardinality(S) = Cardinality(A) + Cardinality(S1) /\ Cardinality(A) \in Nat
    BY TwoParts
  <1>4. IsFiniteSet(S2) /\ Cardinality(S1) = Cardinality(B) + Cardinality(S2) /\ Cardinality(B) \in Nat
    BY <1>3, TwoParts
  <1>5. IsFiniteSet(S3) /\ Cardinality(S2) = Cardinality(C) + Cardinality(S3) /\ Cardinality(C) \in Nat
    BY <1>4, TwoParts
  <1>6. Cardinality(S3) = Cardinality(D) + Cardinality(E) /\ Cardinality(D) \in Nat /\ Cardinality(E) \in Nat
    BY <1>5, TwoParts
  <1> QED BY <1>3, <1>4, <1>5, <1>6, SMT

\* A document that can be decoded names finitely many cases.
LEMMA FiniteCases ==
    ASSUME NEW d \in Documents, d.readable
    PROVE  IsFiniteSet(d.holds \union ResultCases(d))
  <1>1. IsFiniteSet(d.holds) /\ d.results \in Seq({d.results[m] : m \in DOMAIN d.results})
    BY DocumentsAssumption
  <1>2. Len(d.results) \in Nat /\ DOMAIN d.results = 1..Len(d.results)
    BY <1>1, LenProperties
  <1>3. IsFiniteSet(DOMAIN d.results)
    BY <1>2, FS_Interval
  <1> DEFINE f == [m \in DOMAIN d.results |-> d.results[m].case]
  <1>4. f \in Surjection(DOMAIN d.results, ResultCases(d))
    BY DEF Surjection, ResultCases
  <1>5. IsFiniteSet(ResultCases(d))
    BY <1>3, <1>4, FS_Surjection
  <1> QED BY <1>1, <1>5, FS_Union

\* A progress counts each case of each run once, in one of its five buckets.
LEMMA ProgressAddsUp ==
    ASSUME NEW N \in Nat, NEW seen, DOMAIN seen = 1..N,
           \A n \in 1..N : seen[n].doc \in Documents /\ seen[n].doc.readable
    PROVE  LET r == Progress(seen) IN
           /\ r.passed + r.failed + r.blocked + r.retest + r.untested = r.total
           /\ r.total = Cardinality(UNION {{n} \X (seen[n].doc.holds \union
                              ResultCases(seen[n].doc)) : n \in DOMAIN seen})
  <1> DEFINE H(n) == seen[n].doc.holds \union ResultCases(seen[n].doc)
             T == UNION {{n} \X H(n) : n \in DOMAIN seen}
             cases == UNION {{<<n, x[1], x[2]>> : x \in Population(seen[n].doc)} : n \in DOMAIN seen}
             with(status) == {x \in cases : StatusOf(seen[x[1]].doc, x[2]) = status}
  <1>1. IsFiniteSet(T)
    <2> DEFINE g == [n \in 1..N |-> {n} \X H(n)]
               U == {{n} \X H(n) : n \in DOMAIN seen}
    <2>1. g \in Surjection(1..N, U)
      BY DEF Surjection
    <2>2. IsFiniteSet(1..N)
      BY FS_Interval
    <2>3. IsFiniteSet(U)
      BY <2>1, <2>2, FS_Surjection
    <2>4. ASSUME NEW n \in 1..N PROVE IsFiniteSet({n} \X H(n))
      <3>1. IsFiniteSet(H(n))
        BY FiniteCases
      <3> HIDE DEF H
      <3> QED BY <3>1, FS_Singleton, FS_Product
    <2>5. \A V \in U : IsFiniteSet(V)
      BY <2>4, Zenon
    <2> HIDE DEF U
    <2>6. IsFiniteSet(UNION U)
      BY <2>3, <2>5, FS_UNION
    <2> QED BY <2>6 DEF U
  <1>2. IsFiniteSet(cases) /\ Cardinality(cases) = Cardinality(T)
    <2>1. \A y : y \in T <=> \E n \in 1..N : \E c \in H(n) : y = <<n, c>>
      BY SMT
    <2>2. \A x : x \in cases <=> \E n \in 1..N : \E c \in H(n) : x = <<n, c, "held">>
      <3>1. \A n \in 1..N : \A x : x \in Population(seen[n].doc) <=> \E c \in H(n) : x = <<c, "held">>
        BY SMT DEF Population
      <3> SUFFICES ASSUME NEW x
                   PROVE  x \in cases <=> \E n \in 1..N : \E c \in H(n) : x = <<n, c, "held">>
        BY Zenon
      <3>2. x \in cases <=>
                \E n \in DOMAIN seen : x \in {<<n, z[1], z[2]>> : z \in Population(seen[n].doc)}
        BY SMT
      <3>3. ASSUME NEW n \in 1..N
            PROVE  x \in {<<n, z[1], z[2]>> : z \in Population(seen[n].doc)} <=>
                       \E c \in H(n) : x = <<n, c, "held">>
        <4> HIDE DEF H
        <4>1. ASSUME NEW z \in Population(seen[n].doc), x = <<n, z[1], z[2]>>
              PROVE  \E c \in H(n) : x = <<n, c, "held">>
          <5>1. PICK c \in H(n) : z = <<c, "held">>
            BY <3>1
          <5> QED BY <4>1, <5>1
        <4>2. ASSUME NEW c \in H(n), x = <<n, c, "held">>
              PROVE  \E z \in Population(seen[n].doc) : x = <<n, z[1], z[2]>>
          <5>1. <<c, "held">> \in Population(seen[n].doc)
            BY <3>1
          <5> QED BY <4>2, <5>1
        <4> QED BY <4>1, <4>2, SMT
      <3> HIDE DEF H, cases
      <3> QED BY <3>2, <3>3, SMT
    <2> DEFINE f == [y \in T |-> <<y[1], y[2], "held">>]
    <2> HIDE DEF T, cases, H
    <2>3. f \in [T -> cases]
      <3> SUFFICES ASSUME NEW y \in T PROVE <<y[1], y[2], "held">> \in cases
        OBVIOUS
      <3>1. PICK n \in 1..N : \E c \in H(n) : y = <<n, c>>
        BY <2>1
      <3>2. PICK c \in H(n) : y = <<n, c>>
        BY <3>1
      <3> QED BY <2>2, <3>2
    <2>4. \A y, z \in T : f[y] = f[z] => y = z
      <3> SUFFICES ASSUME NEW y \in T, NEW z \in T, f[y] = f[z] PROVE y = z
        OBVIOUS
      <3>1. y[1] = z[1] /\ y[2] = z[2]
        OBVIOUS
      <3>2. y = <<y[1], y[2]>> /\ z = <<z[1], z[2]>>
        BY <2>1
      <3> QED BY <3>1, <3>2
    <2>5. \A x \in cases : \E y \in T : f[y] = x
      <3> SUFFICES ASSUME NEW x \in cases PROVE \E y \in T : f[y] = x
        OBVIOUS
      <3>1. PICK n \in 1..N : \E c \in H(n) : x = <<n, c, "held">>
        BY <2>2
      <3>2. PICK c \in H(n) : x = <<n, c, "held">>
        BY <3>1
      <3>3. <<n, c>> \in T
        BY <2>1
      <3> QED BY <3>2, <3>3
    <2>6. f \in Bijection(T, cases)
      BY <2>3, <2>4, <2>5 DEF Bijection, Injection, Surjection, IsInjective
    <2>7. ExistsBijection(T, cases)
      BY <2>6 DEF ExistsBijection
    <2> QED BY <1>1, <2>7, FS_Bijection
  <1>3. \A x : StatusOf(seen[x[1]].doc, x[2]) \in {"Passed", "Failed", "Blocked", "Retest", "Untested"}
    BY DEF StatusOf
  <1>4. Cardinality(cases) = Cardinality(with("Passed")) + Cardinality(with("Failed")) +
            Cardinality(with("Blocked")) + Cardinality(with("Retest")) + Cardinality(with("Untested"))
    <2> HIDE DEF cases
    <2> DEFINE S3 == {x \in cases : StatusOf(seen[x[1]].doc, x[2]) \in {"Retest", "Untested"}}
               S2 == {x \in cases : StatusOf(seen[x[1]].doc, x[2]) \in {"Blocked", "Retest", "Untested"}}
               S1 == {x \in cases : StatusOf(seen[x[1]].doc, x[2]) \in {"Failed", "Blocked", "Retest", "Untested"}}
    <2>1. Splits(cases, with("Passed"), S1)
      BY <1>3 DEF Splits
    <2>2. Splits(S1, with("Failed"), S2)
      BY DEF Splits
    <2>3. Splits(S2, with("Blocked"), S3)
      BY DEF Splits
    <2>4. Splits(S3, with("Retest"), with("Untested"))
      BY DEF Splits
    <2> HIDE DEF with, S1, S2, S3
    <2> QED BY <1>2, <2>1, <2>2, <2>3, <2>4, FiveParts
  <1>5. Progress(seen) = [total |-> Cardinality(cases), passed |-> Cardinality(with("Passed")),
            failed |-> Cardinality(with("Failed")), blocked |-> Cardinality(with("Blocked")),
            retest |-> Cardinality(with("Retest")), untested |-> Cardinality(with("Untested"))]
    BY Zenon DEF Progress
  <1>6. Cardinality(T) = Cardinality(UNION {{n} \X (seen[n].doc.holds \union
                              ResultCases(seen[n].doc)) : n \in DOMAIN seen})
    OBVIOUS
  <1> DEFINE r == Progress(seen)
             W == Cardinality(UNION {{n} \X (seen[n].doc.holds \union
                              ResultCases(seen[n].doc)) : n \in DOMAIN seen})
  <1>7. /\ r.total = Cardinality(cases) /\ r.passed = Cardinality(with("Passed"))
        /\ r.failed = Cardinality(with("Failed")) /\ r.blocked = Cardinality(with("Blocked"))
        /\ r.retest = Cardinality(with("Retest")) /\ r.untested = Cardinality(with("Untested"))
    <2> HIDE DEF cases, with
    <2> QED BY <1>5
  <1>8. r.passed + r.failed + r.blocked + r.retest + r.untested = r.total
    BY ONLY <1>4, <1>7, Zenon
  <1>9. r.total = W
    BY ONLY <1>2, <1>6, <1>7, Zenon
  <1> QED BY ONLY <1>8, <1>9, Zenon

(* ---------------------- the results of what was seen --------------------- *)

\* The recursive function by which FlattenSeq is defined exists.
LEMMA FlattenExists ==
    ASSUME NEW S, NEW N \in Nat \ {0}, NEW ss \in [1..N -> Seq(S)]
    PROVE  \E g : g = [i \in 1..N |-> IF i = 1 THEN ss[i] ELSE g[i - 1] \o ss[i]]
  <1> DEFINE Good(n) == \E g \in [1..n -> Seq(S)] :
                            \A i \in 1..n : g[i] = (IF i = 1 THEN ss[i] ELSE g[i - 1] \o ss[i])
             Bad == {n \in 1..N : ~Good(n)}
  <1>1. ASSUME Bad # {} PROVE FALSE
    <2>1. Bad \in SUBSET Nat
      <3>1. 1..N \in SUBSET Nat
        BY SMT
      <3> QED BY <3>1, Zenon
    <2>2. PICK n \in Bad : \A k \in Bad : n <= k
      <3> HIDE DEF Bad
      <3> QED BY <1>1, <2>1, Least
    <2>3. n \in 1..N /\ ~Good(n)
      BY Zenon
    <2>4. CASE n = 1
      <3> DEFINE f == [i \in 1..n |-> ss[i]]
      <3>1. f \in [1..n -> Seq(S)] /\ \A i \in 1..n : f[i] = (IF i = 1 THEN ss[i] ELSE f[i - 1] \o ss[i])
        BY <2>4, SMT
      <3> HIDE DEF f
      <3> QED BY <2>3, <3>1, Zenon
    <2>5. CASE n # 1
      <3>1. n - 1 \in 1..N /\ ~(n <= n - 1)
        BY <2>3, <2>5, SMT
      <3>2. Good(n - 1)
        <4>1. n - 1 \notin Bad
          <5> HIDE DEF Bad
          <5> QED BY <2>2, <3>1
        <4> QED BY <3>1, <4>1, Zenon
      <3>3. PICK g \in [1..(n - 1) -> Seq(S)] :
                \A i \in 1..(n - 1) : g[i] = (IF i = 1 THEN ss[i] ELSE g[i - 1] \o ss[i])
        BY <3>2, Zenon
      <3> DEFINE f == [i \in 1..n |-> IF i = n THEN g[n - 1] \o ss[n] ELSE g[i]]
      <3>4. g[n - 1] \in Seq(S) /\ ss[n] \in Seq(S)
        BY <2>3, <2>5, <3>3, SMT
      <3>5. g[n - 1] \o ss[n] \in Seq(S)
        BY <3>4, ConcatProperties
      <3>6. \A i \in 1..n : i # n => i \in 1..(n - 1)
        BY <2>3, SMT
      <3>7. f \in [1..n -> Seq(S)]
        BY <3>3, <3>5, <3>6
      <3>8. ASSUME NEW i \in 1..n PROVE f[i] = (IF i = 1 THEN ss[i] ELSE f[i - 1] \o ss[i])
        <4>1. CASE i = n
          <5>1. f[n] = g[n - 1] \o ss[n] /\ f[n - 1] = g[n - 1]
            BY <2>3, <2>5, SMT
          <5> QED BY <2>5, <4>1, <5>1
        <4>2. CASE i # n /\ i = 1
          BY <3>3, <3>6, <4>2
        <4>3. CASE i # n /\ i # 1
          <5>1. i \in 1..(n - 1) /\ i - 1 \in 1..n /\ i - 1 # n
            BY <2>3, <4>3, SMT
          <5>2. f[i] = g[i] /\ f[i - 1] = g[i - 1]
            BY <4>3, <5>1
          <5> QED BY <3>3, <4>3, <5>1, <5>2
        <4> QED BY <4>1, <4>2, <4>3
      <3> HIDE DEF f
      <3> QED BY <2>3, <3>7, <3>8, Zenon
    <2> QED BY <2>4, <2>5
  <1>2. Good(N)
    <2>1. N \in 1..N
      BY SMT
    <2> QED BY <1>1, <2>1, Zenon
  <1>3. PICK g \in [1..N -> Seq(S)] : \A i \in 1..N : g[i] = (IF i = 1 THEN ss[i] ELSE g[i - 1] \o ss[i])
    BY <1>2, Zenon
  <1>4. g = [i \in 1..N |-> IF i = 1 THEN ss[i] ELSE g[i - 1] \o ss[i]]
    BY <1>3
  <1> QED BY <1>4, Zenon

\* The elements of sequences joined are in the whole.
Joined(f, ss, S, i) ==
    /\ f[i] \in Seq(S)
    /\ \A n \in 1..i : \A m \in DOMAIN ss[n] : \E k \in DOMAIN f[i] : f[i][k] = ss[n][m]

Flattened(ss, N, S) ==
    /\ FlattenSeq(ss) \in Seq(S)
    /\ \A n \in 1..N : \A m \in DOMAIN ss[n] :
          \E k \in DOMAIN FlattenSeq(ss) : FlattenSeq(ss)[k] = ss[n][m]

LEMMA FlattenFacts ==
    ASSUME NEW S, NEW N \in Nat, NEW ss, ss \in [1..N -> Seq(S)]
    PROVE  Flattened(ss, N, S)
  <1>0. ss \in Seq(Seq(S)) /\ Len(ss) = N
    BY SeqDef
  <1>1. CASE N = 0
    <2>1. ss = <<>> /\ \A n \in 1..N : FALSE
      BY <1>0, <1>1
    <2>2. FlattenSeq(ss) = ss
      BY <1>0, <1>1 DEF FlattenSeq
    <2>3. FlattenSeq(ss) \in Seq(S)
      BY <2>1, <2>2, EmptySeq, Zenon
    <2> QED BY <2>1, <2>3, Zenon DEF Flattened
  <1>2. CASE N # 0
    <2> DEFINE F == CHOOSE f : f = [i \in 1..Len(ss) |-> IF i = 1 THEN ss[i] ELSE f[i - 1] \o ss[i]]
    <2>1. \E g : g = [i \in 1..Len(ss) |-> IF i = 1 THEN ss[i] ELSE g[i - 1] \o ss[i]]
      <3>1. N \in Nat \ {0}
        BY <1>2
      <3>2. \E g : g = [i \in 1..N |-> IF i = 1 THEN ss[i] ELSE g[i - 1] \o ss[i]]
        BY <3>1, FlattenExists, ZenonT(60)
      <3> QED BY <1>0, <3>2, Zenon
    <2>2. F = [i \in 1..Len(ss) |-> IF i = 1 THEN ss[i] ELSE F[i - 1] \o ss[i]]
      BY <2>1, Zenon
    <2>3. FlattenSeq(ss) = F[Len(ss)]
      BY <1>0, <1>2 DEF FlattenSeq
    <2> HIDE DEF F
    <2>4. \A i \in 1..N : F[i] = (IF i = 1 THEN ss[i] ELSE F[i - 1] \o ss[i])
      BY <1>0, <2>2, Zenon
    <2> DEFINE Bad == {i \in 1..N : ~Joined(F, ss, S, i)}
    <2>5. ASSUME Bad # {} PROVE FALSE
      <3>1. Bad \in SUBSET Nat
        BY SMT
      <3>2. PICK i \in Bad : \A k \in Bad : i <= k
        <4> HIDE DEF Bad
        <4> QED BY <2>5, <3>1, Least
      <3>3. i \in 1..N /\ ~Joined(F, ss, S, i)
        OBVIOUS
      <3>4. CASE i = 1
        <4>1. F[i] = ss[i] /\ ss[i] \in Seq(S) /\ \A n \in 1..i : n = i
          BY <2>4, <3>3, <3>4
        <4> QED BY <3>3, <4>1 DEF Joined
      <3>5. CASE i # 1
        <4>1. i - 1 \in 1..N /\ ~(i <= i - 1)
          BY <3>3, <3>5, SMT
        <4>2. Joined(F, ss, S, i - 1)
          <5>1. i - 1 \notin Bad
            <6> HIDE DEF Bad
            <6> QED BY <3>2, <4>1
          <5> QED BY <4>1, <5>1
        <4>3. F[i] = F[i - 1] \o ss[i] /\ F[i - 1] \in Seq(S) /\ ss[i] \in Seq(S)
          BY <2>4, <3>3, <3>5, <4>2 DEF Joined
        <4> DEFINE a == F[i - 1]
                   b == ss[i]
        <4>4. /\ F[i] \in Seq(S) /\ Len(a) \in Nat /\ Len(b) \in Nat
              /\ DOMAIN a = 1..Len(a) /\ DOMAIN b = 1..Len(b) /\ DOMAIN F[i] = 1..(Len(a) + Len(b))
              /\ \A k \in 1..Len(a) + Len(b) : F[i][k] = IF k <= Len(a) THEN a[k] ELSE b[k - Len(a)]
          <5>1. /\ a \o b \in Seq(S) /\ Len(a \o b) = Len(a) + Len(b)
                /\ \A k \in 1..Len(a) + Len(b) : (a \o b)[k] = IF k <= Len(a) THEN a[k] ELSE b[k - Len(a)]
            BY <4>3, ConcatProperties
          <5>2. DOMAIN (a \o b) = 1..Len(a \o b)
            BY <5>1, LenProperties
          <5> QED BY <4>3, <5>1, <5>2, LenProperties
        <4> HIDE DEF a, b
        <4>5. ASSUME NEW n \in 1..i, NEW m \in DOMAIN ss[n] PROVE \E k \in DOMAIN F[i] : F[i][k] = ss[n][m]
          <5>1. CASE n = i
            <6>1. m \in 1..Len(b) /\ ss[n][m] = b[m]
              BY <4>4, <4>5, <5>1 DEF b
            <6>2. PICK j \in 1..(Len(a) + Len(b)) : ~(j <= Len(a)) /\ j - Len(a) = m
              <7>1. m + Len(a) \in 1..(Len(a) + Len(b)) /\ ~(m + Len(a) <= Len(a)) /\ m + Len(a) - Len(a) = m
                BY <4>4, <6>1, SMTT(40)
              <7> QED BY <7>1
            <6>3. F[i][j] = b[m]
              BY <4>4, <6>2
            <6> QED BY <4>4, <6>1, <6>2, <6>3
          <5>2. CASE n # i
            <6>1. n \in 1..(i - 1)
              BY <3>3, <4>5, <5>2, SMT
            <6>2. PICK k \in DOMAIN a : a[k] = ss[n][m]
              BY <4>2, <4>5, <6>1 DEF Joined, a
            <6>3. k \in 1..(Len(a) + Len(b)) /\ k <= Len(a)
              BY <4>4, <6>2, SMT
            <6>4. F[i][k] = a[k]
              BY <4>4, <6>3
            <6> QED BY <4>4, <6>2, <6>3, <6>4
          <5> QED BY <5>1, <5>2
        <4> QED BY <3>3, <4>4, <4>5 DEF Joined
      <3> QED BY <3>4, <3>5
    <2>6. Joined(F, ss, S, N)
      BY <1>2, <2>5
    <2> QED BY <1>0, <2>3, <2>6 DEF Joined, Flattened
  <1> QED BY <1>1, <1>2

\* What a report may observe.
Recorded == UNION {{d.results[m] : m \in DOMAIN d.results} : d \in {x \in Documents : x.readable}}
Observed == {[run |-> id, result |-> r] : id \in Ids, r \in Recorded}

LEMMA ResultsFacts ==
    ASSUME ReportsInv, asked.kind # "ids"
    PROVE  /\ Results(walk.seen) \in Seq(Observed)
           /\ \A n \in DOMAIN walk.seen : \A m \in DOMAIN walk.seen[n].doc.results :
                 \E k \in DOMAIN Results(walk.seen) :
                    Results(walk.seen)[k] = [run |-> walk.seen[n].id, result |-> walk.seen[n].doc.results[m]]
  <1> DEFINE N == Len(walk.seen)
             One(n) == [m \in DOMAIN walk.seen[n].doc.results |->
                            [run |-> walk.seen[n].id, result |-> walk.seen[n].doc.results[m]]]
             ss == [n \in DOMAIN walk.seen |-> One(n)]
  <1>1. walk.seen \in Seq(Entries)
    BY WalkFields DEF ReportsInv
  <1>2. N \in Nat /\ DOMAIN walk.seen = 1..N /\ \A n \in 1..N : walk.seen[n].id \in Ids
    <2>1. N \in Nat /\ DOMAIN walk.seen = 1..N /\ \A n \in 1..N : walk.seen[n] \in Entries
      BY <1>1, LenProperties, ElementOfSeq
    <2> QED BY <2>1 DEF Entries
  <1>3. ASSUME NEW n \in 1..N PROVE One(n) \in Seq(Observed)
    <2> DEFINE d == walk.seen[n].doc
    <2>1. d \in Documents /\ d.readable
      BY <1>2, <1>3 DEF ReportsInv, SeenReadable
    <2>2. d.results \in Seq({d.results[m] : m \in DOMAIN d.results})
      BY <2>1, DocumentsAssumption
    <2>3. Len(d.results) \in Nat /\ DOMAIN d.results = 1..Len(d.results)
      BY <2>2, LenProperties
    <2>4. \A m \in DOMAIN d.results : d.results[m] \in Recorded
      <3> SUFFICES ASSUME NEW m \in DOMAIN d.results PROVE d.results[m] \in Recorded
        OBVIOUS
      <3> HIDE DEF d
      <3>1. d \in {x \in Documents : x.readable} /\ d.results[m] \in {d.results[k] : k \in DOMAIN d.results}
        BY <2>1
      <3> QED BY <3>1, Zenon DEF Recorded
    <2>5. \A m \in DOMAIN d.results : [run |-> walk.seen[n].id, result |-> d.results[m]] \in Observed
      <3> HIDE DEF d
      <3> QED BY <1>2, <1>3, <2>4 DEF Observed
    <2>6. One(n) \in [1..Len(d.results) -> Observed]
      BY <2>3, <2>5
    <2> QED BY <2>3, <2>6, SeqDef
  <1>4. ss \in [1..N -> Seq(Observed)]
    BY <1>2, <1>3
  <1>5. Results(walk.seen) = FlattenSeq(ss)
    BY DEF Results
  <1>6. /\ FlattenSeq(ss) \in Seq(Observed)
        /\ \A n \in 1..N : \A m \in DOMAIN ss[n] :
                 \E k \in DOMAIN FlattenSeq(ss) : FlattenSeq(ss)[k] = ss[n][m]
    <2>1. N \in Nat
      BY <1>2
    <2> HIDE DEF ss, N, One
    <2>2. Flattened(ss, N, Observed)
      BY <2>1, <1>4, FlattenFacts
    <2> QED BY <2>2, Zenon DEF Flattened
  <1>7. \A n \in 1..N : DOMAIN ss[n] = DOMAIN walk.seen[n].doc.results
            /\ \A m \in DOMAIN ss[n] : ss[n][m] = [run |-> walk.seen[n].id, result |-> walk.seen[n].doc.results[m]]
    BY <1>2
  <1> HIDE DEF ss
  <1>8. ASSUME NEW n \in DOMAIN walk.seen, NEW m \in DOMAIN walk.seen[n].doc.results
        PROVE  \E k \in DOMAIN Results(walk.seen) :
                    Results(walk.seen)[k] = [run |-> walk.seen[n].id, result |-> walk.seen[n].doc.results[m]]
    <2>1. m \in DOMAIN ss[n] /\ ss[n][m] = [run |-> walk.seen[n].id, result |-> walk.seen[n].doc.results[m]]
      BY <1>2, <1>7
    <2>2. PICK k \in DOMAIN FlattenSeq(ss) : FlattenSeq(ss)[k] = ss[n][m]
      BY <1>2, <1>6, <2>1
    <2> QED BY <1>5, <2>1, <2>2
  <1> QED BY <1>5, <1>6, <1>8

\* The buckets of a summary, and what is in none.
LEMMA SummaryAddsUp ==
    ASSUME NEW S, NEW observed \in Seq(S)
    PROVE  LET r == Summary(observed) IN
           r.total = r.passed + r.failed + r.blocked + r.untested + Cardinality(Unbucketed(observed))
  <1> DEFINE D == DOMAIN observed
             is(set) == {n \in D : observed[n].result.status \in set}
             S1 == {n \in D : observed[n].result.status # "Passed"}
             S2 == {n \in D : observed[n].result.status \notin {"Passed", "Failed"}}
             S3 == {n \in D : observed[n].result.status \notin {"Passed", "Failed", "Blocked"}}
  <1>1. Len(observed) \in Nat /\ D = 1..Len(observed)
    BY LenProperties
  <1>2. IsFiniteSet(D) /\ Cardinality(D) = Len(observed)
    BY <1>1, FS_Interval, SMTT(40)
  <1>3. Splits(D, Having(observed, "Passed"), S1)
    BY DEF Splits, Having
  <1>4. Splits(S1, Having(observed, "Failed"), S2)
    BY DEF Splits, Having
  <1>5. Splits(S2, Having(observed, "Blocked"), S3)
    BY DEF Splits, Having
  <1>6. Splits(S3, Having(observed, "Untested"), Unbucketed(observed))
    BY DEF Splits, Having, Unbucketed
  <1> HIDE DEF D, S1, S2, S3
  <1>7. Cardinality(D) = Cardinality(Having(observed, "Passed")) + Cardinality(Having(observed, "Failed")) +
           Cardinality(Having(observed, "Blocked")) + Cardinality(Having(observed, "Untested")) +
           Cardinality(Unbucketed(observed))
    BY <1>2, <1>3, <1>4, <1>5, <1>6, FiveParts
  <1> QED BY <1>2, <1>7 DEF Summary

LEMMA BucketsRight == ReportsInv => BucketsAddUp
  <1> SUFFICES ASSUME ReportsInv, Reported PROVE BucketsAddUp
    BY DEF BucketsAddUp
  <1>1. Len(walk.seen) \in Nat /\ DOMAIN walk.seen = 1..Len(walk.seen)
    BY WalkFields, LenProperties DEF ReportsInv
  <1>2. asked.kind # "ids" =>
          \A n \in 1..Len(walk.seen) : walk.seen[n].doc \in Documents /\ walk.seen[n].doc.readable
    BY <1>1 DEF ReportsInv, SeenReadable
  <1>3. asked.kind = "progress" =>
              LET r == Progress(walk.seen) IN
              /\ r.passed + r.failed + r.blocked + r.retest + r.untested = r.total
              /\ r.total = Cardinality(UNION {{n} \X (walk.seen[n].doc.holds \union
                                 ResultCases(walk.seen[n].doc)) : n \in DOMAIN walk.seen})
    BY <1>1, <1>2, ProgressAddsUp
  <1>4. asked.kind = "summary" => Results(walk.seen) \in Seq(Observed)
    BY ResultsFacts
  <1>5. asked.kind = "summary" =>
              LET r == Summary(Results(walk.seen)) IN
              r.total = r.passed + r.failed + r.blocked + r.untested +
                  Cardinality(Unbucketed(Results(walk.seen)))
    BY <1>4, SummaryAddsUp
  <1> QED BY <1>3, <1>5 DEF BucketsAddUp

\* The buckets of a progress and of a summary add up (BucketsAddUp).
THEOREM Buckets == ReportsSpec => []BucketsAddUp
  BY ReportsInvariant, BucketsRight, PTL

(* --------------------------- the latest result --------------------------- *)

\* y is later than x: seconds beat a text, then the time, then the run.
Later(x, y) ==
    LET s == x.result.at.seconds t == y.result.at.seconds
        a == x.result.at.at b == y.result.at.at IN
    \/ ~s /\ t
    \/ (s <=> t) /\ (a < b \/ (a = b /\ x.run < y.run))

LEMMA ObservedType ==
    ASSUME NEW x \in Observed
    PROVE  x.run \in Nat /\ x.result.at.seconds \in BOOLEAN /\ x.result.at.at \in Int
  <1>1. PICK id \in Ids, r \in Recorded : x = [run |-> id, result |-> r]
    BY DEF Observed
  <1>2. PICK d \in {y \in Documents : y.readable} : r \in {d.results[m] : m \in DOMAIN d.results}
    BY <1>1, Zenon DEF Recorded
  <1>3. r.at.seconds \in BOOLEAN /\ r.at.at \in Int
    BY <1>2, DocumentsAssumption
  <1>4. id \in Nat
    BY ReportsAssumption
  <1> QED BY <1>1, <1>3, <1>4

\* Rank and Precedes order results so.
LEMMA RankOrder ==
    ASSUME NEW x \in Observed, NEW y \in Observed
    PROVE  Precedes(Rank(x), Rank(y)) <=> Later(x, y)
  <1>1. ASSUME NEW z \in Observed
        PROVE  Rank(z) = IF z.result.at.seconds THEN <<1, z.result.at.at, 0, z.run>>
                         ELSE <<0, 0, z.result.at.at, z.run>>
    <2>1. z.run \in Int /\ z.result.at.at \in Int /\ z.result.at.seconds \in BOOLEAN
      BY ObservedType
    <2>2. ASSUME NEW a \in Int, NEW b \in Int, NEW c \in Int, NEW d \in Int
          PROVE  <<a, b, c>> \o <<d>> = <<a, b, c, d>>
      <3> DEFINE s == <<a, b, c>>
                 t == <<d>>
                 u == <<a, b, c, d>>
      <3>1. /\ s \in Seq(Int) /\ Len(s) = 3 /\ t \in Seq(Int) /\ Len(t) = 1 /\ u \in Seq(Int) /\ Len(u) = 4
            /\ s[1] = a /\ s[2] = b /\ s[3] = c /\ t[1] = d
            /\ u[1] = a /\ u[2] = b /\ u[3] = c /\ u[4] = d
        OBVIOUS
      <3> HIDE DEF s, t, u
      <3>2. s \o t \in Seq(Int) /\ Len(s \o t) = 4
            /\ \A i \in 1..4 : (s \o t)[i] = IF i <= 3 THEN s[i] ELSE t[i - 3]
        <4>1. /\ s \o t \in Seq(Int) /\ Len(s \o t) = Len(s) + Len(t)
              /\ \A i \in 1..Len(s) + Len(t) : (s \o t)[i] = IF i <= Len(s) THEN s[i] ELSE t[i - Len(s)]
          BY <3>1, ConcatProperties
        <4>2. Len(s) = 3 /\ Len(s) + Len(t) = 4
          BY <3>1
        <4> QED BY <4>1, <4>2, Zenon
      <3>8. \A i \in 1..4 : i <= 3 => (s \o t)[i] = s[i]
        BY <3>2
      <3>9. 1 \in 1..4 /\ 1 <= 3 /\ 2 \in 1..4 /\ 2 <= 3 /\ 3 \in 1..4 /\ 3 <= 3
        OBVIOUS
      <3>10. (s \o t)[1] = s[1] /\ (s \o t)[2] = s[2] /\ (s \o t)[3] = s[3]
        BY <3>8, <3>9, Zenon
      <3>5. (s \o t)[1] = u[1] /\ (s \o t)[2] = u[2] /\ (s \o t)[3] = u[3]
        BY <3>1, <3>10, Zenon
      <3>6. (s \o t)[4] = u[4]
        BY <3>1, <3>2
      <3>7. \A i \in 1..4 : i = 1 \/ i = 2 \/ i = 3 \/ i = 4
        OBVIOUS
      <3>3. \A i \in 1..4 : (s \o t)[i] = u[i]
        BY <3>5, <3>6, <3>7, Zenon
      <3>4. s \o t = u
        BY <3>1, <3>2, <3>3, SeqEqual
      <3> QED BY <3>4 DEF s, t, u
    <2> QED BY <2>1, <2>2 DEF Rank, ResultRecency
  <1>2. ASSUME NEW a1, NEW a2, NEW a3, NEW a4, NEW b1, NEW b2, NEW b3, NEW b4
        PROVE  Precedes(<<a1, a2, a3, a4>>, <<b1, b2, b3, b4>>) <=>
                 \/ a1 < b1
                 \/ a1 = b1 /\ a2 < b2
                 \/ a1 = b1 /\ a2 = b2 /\ a3 < b3
                 \/ a1 = b1 /\ a2 = b2 /\ a3 = b3 /\ a4 < b4
    <2> DEFINE a == <<a1, a2, a3, a4>>
               b == <<b1, b2, b3, b4>>
    <2>1. DOMAIN a = {1, 2, 3, 4} /\ a[1] = a1 /\ a[2] = a2 /\ a[3] = a3 /\ a[4] = a4
          /\ b[1] = b1 /\ b[2] = b2 /\ b[3] = b3 /\ b[4] = b4
      BY SMT
    <2>2. 1..0 = {} /\ 1..1 = {1} /\ 1..2 = {1, 2} /\ 1..3 = {1, 2, 3}
      BY SMT
    <2>3. 1..1-1 = {} /\ 1..2-1 = {1} /\ 1..3-1 = {1, 2} /\ 1..4-1 = {1, 2, 3}
      BY SMT
    <2> HIDE DEF a, b
    <2>4. Precedes(a, b) <=> \/ a[1] < b[1] /\ \A j \in 1..1-1 : a[j] = b[j]
                             \/ a[2] < b[2] /\ \A j \in 1..2-1 : a[j] = b[j]
                             \/ a[3] < b[3] /\ \A j \in 1..3-1 : a[j] = b[j]
                             \/ a[4] < b[4] /\ \A j \in 1..4-1 : a[j] = b[j]
      BY <2>1 DEF Precedes
    <2>5. Precedes(a, b) <=> \/ a1 < b1
                             \/ a1 = b1 /\ a2 < b2
                             \/ a1 = b1 /\ a2 = b2 /\ a3 < b3
                             \/ a1 = b1 /\ a2 = b2 /\ a3 = b3 /\ a4 < b4
      BY <2>1, <2>3, <2>4
    <2> QED BY <2>5 DEF a, b
  <1>3. /\ x.run \in Int /\ x.result.at.seconds \in BOOLEAN /\ x.result.at.at \in Int
        /\ y.run \in Int /\ y.result.at.seconds \in BOOLEAN /\ y.result.at.at \in Int
    BY ObservedType
  <1>4. CASE x.result.at.seconds /\ y.result.at.seconds
    <2>1. Rank(x) = <<1, x.result.at.at, 0, x.run>> /\ Rank(y) = <<1, y.result.at.at, 0, y.run>>
      BY <1>1, <1>4
    <2>2. Precedes(<<1, x.result.at.at, 0, x.run>>, <<1, y.result.at.at, 0, y.run>>) <=>
                 \/ 1 < 1
                 \/ 1 = 1 /\ x.result.at.at < y.result.at.at
                 \/ 1 = 1 /\ x.result.at.at = y.result.at.at /\ 0 < 0
                 \/ 1 = 1 /\ x.result.at.at = y.result.at.at /\ 0 = 0 /\ x.run < y.run
      BY <1>2, <1>3
    <2> QED BY <1>3, <1>4, <2>1, <2>2 DEF Later
  <1>5. CASE x.result.at.seconds /\ ~y.result.at.seconds
    <2>1. Rank(x) = <<1, x.result.at.at, 0, x.run>> /\ Rank(y) = <<0, 0, y.result.at.at, y.run>>
      BY <1>1, <1>5
    <2>2. Precedes(<<1, x.result.at.at, 0, x.run>>, <<0, 0, y.result.at.at, y.run>>) <=>
                 \/ 1 < 0
                 \/ 1 = 0 /\ x.result.at.at < 0
                 \/ 1 = 0 /\ x.result.at.at = 0 /\ 0 < y.result.at.at
                 \/ 1 = 0 /\ x.result.at.at = 0 /\ 0 = y.result.at.at /\ x.run < y.run
      BY <1>2, <1>3
    <2> QED BY <1>3, <1>5, <2>1, <2>2 DEF Later
  <1>6. CASE ~x.result.at.seconds /\ y.result.at.seconds
    <2>1. Rank(x) = <<0, 0, x.result.at.at, x.run>> /\ Rank(y) = <<1, y.result.at.at, 0, y.run>>
      BY <1>1, <1>6
    <2>2. Precedes(<<0, 0, x.result.at.at, x.run>>, <<1, y.result.at.at, 0, y.run>>) <=>
                 \/ 0 < 1
                 \/ 0 = 1 /\ 0 < y.result.at.at
                 \/ 0 = 1 /\ 0 = y.result.at.at /\ x.result.at.at < 0
                 \/ 0 = 1 /\ 0 = y.result.at.at /\ x.result.at.at = 0 /\ x.run < y.run
      BY <1>2, <1>3
    <2> QED BY <1>3, <1>6, <2>1, <2>2 DEF Later
  <1>7. CASE ~x.result.at.seconds /\ ~y.result.at.seconds
    <2>1. Rank(x) = <<0, 0, x.result.at.at, x.run>> /\ Rank(y) = <<0, 0, y.result.at.at, y.run>>
      BY <1>1, <1>7
    <2>2. Precedes(<<0, 0, x.result.at.at, x.run>>, <<0, 0, y.result.at.at, y.run>>) <=>
                 \/ 0 < 0
                 \/ 0 = 0 /\ 0 < 0
                 \/ 0 = 0 /\ 0 = 0 /\ x.result.at.at < y.result.at.at
                 \/ 0 = 0 /\ 0 = 0 /\ x.result.at.at = y.result.at.at /\ x.run < y.run
      BY <1>2, <1>3
    <2> QED BY <1>3, <1>7, <2>1, <2>2 DEF Later
  <1> QED BY <1>3, <1>4, <1>5, <1>6, <1>7

\* What is not later than the old winner is not later than a later one.
LEMMA LaterOrder ==
    ASSUME NEW x \in Observed, NEW y \in Observed, NEW z \in Observed, Later(x, y), ~Later(x, z)
    PROVE  ~Later(y, z)
  BY ObservedType DEF Later

LEMMA NotLaterThanItself == ASSUME NEW x \in Observed PROVE ~Later(x, x)
  BY ObservedType DEF Later

\* The recursive function by which Winner is defined exists.
Beats(observed, c, n, w) ==
    observed[n].result.case = c /\ (w = 0 \/ Precedes(Rank(observed[w]), Rank(observed[n])))

Winning(g, N, observed, c) ==
    g = [n \in 0..N |-> IF n = 0 THEN 0 ELSE IF Beats(observed, c, n, g[n - 1]) THEN n ELSE g[n - 1]]

LEMMA WinnerExists ==
    ASSUME NEW N, N \in Nat, NEW observed, NEW c
    PROVE  \E g : Winning(g, N, observed, c)
  <1> DEFINE Step(g, n) == IF n = 0 THEN 0 ELSE IF Beats(observed, c, n, g[n - 1]) THEN n ELSE g[n - 1]
             Good(n) == \E g \in [0..n -> Nat] : \A i \in 0..n : g[i] = Step(g, i)
             Bad == {n \in Nat : ~Good(n)}
  <1>1. ASSUME Bad # {} PROVE FALSE
    <2>1. Bad \in SUBSET Nat
      BY Zenon
    <2>2. PICK n \in Bad : \A k \in Bad : n <= k
      <3> HIDE DEF Bad
      <3> QED BY <1>1, <2>1, Least
    <2>3. n \in Nat /\ ~Good(n)
      BY Zenon
    <2>4. CASE n = 0
      <3> DEFINE f == [i \in 0..n |-> 0]
      <3>1. f \in [0..n -> Nat] /\ \A i \in 0..n : f[i] = Step(f, i)
        BY <2>4, SMT
      <3> HIDE DEF f, Step
      <3> QED BY <2>3, <3>1, Zenon
    <2>5. CASE n # 0
      <3>1. n - 1 \in Nat /\ ~(n <= n - 1)
        BY <2>3, <2>5, SMT
      <3>2. Good(n - 1)
        <4>1. n - 1 \notin Bad
          <5> HIDE DEF Bad
          <5> QED BY <2>2, <3>1
        <4> HIDE DEF Good
        <4> QED BY <3>1, <4>1, Zenon
      <3>3. PICK g \in [0..(n - 1) -> Nat] : \A i \in 0..(n - 1) : g[i] = Step(g, i)
        <4> HIDE DEF Step
        <4> QED BY <3>2, Zenon
      <3> DEFINE f == [i \in 0..n |-> IF i = n THEN Step(g, n) ELSE g[i]]
      <3>4. \A i \in 0..n : i # n => i \in 0..(n - 1)
        BY <2>3, SMT
      <3>5. n - 1 \in 0..(n - 1) /\ g[n - 1] \in Nat
        BY <2>3, <2>5, <3>3, SMT
      <3>6. Step(g, n) \in Nat
        BY <2>3, <2>5, <3>5
      <3>7. f \in [0..n -> Nat]
        <4> HIDE DEF Step
        <4> QED BY <3>3, <3>4, <3>6
      <3>8. ASSUME NEW i \in 0..n PROVE f[i] = Step(f, i)
        <4>1. CASE i = n
          <5>1. f[n] = Step(g, n) /\ f[n - 1] = g[n - 1]
            <6> HIDE DEF Step
            <6> QED BY <2>3, <2>5, <3>5, SMT
          <5> HIDE DEF f
          <5> QED BY <4>1, <5>1
        <4>2. CASE i # n /\ i = 0
          <5>1. f[i] = g[i] /\ g[i] = Step(g, i)
            <6> HIDE DEF Step
            <6> QED BY <3>3, <3>4, <4>2
          <5> HIDE DEF f
          <5> QED BY <4>2, <5>1
        <4>3. CASE i # n /\ i # 0
          <5>1. i \in 0..(n - 1) /\ i - 1 \in 0..n /\ i - 1 # n
            BY <2>3, <4>3, SMT
          <5>2. f[i] = g[i] /\ f[i - 1] = g[i - 1] /\ g[i] = Step(g, i)
            <6> HIDE DEF Step
            <6> QED BY <3>3, <4>3, <5>1
          <5> HIDE DEF f
          <5> QED BY <4>3, <5>2
        <4> QED BY <4>1, <4>2, <4>3
      <3> HIDE DEF f, Step
      <3> QED BY <2>3, <3>7, <3>8, Zenon
    <2> QED BY <2>4, <2>5
  <1>2. Good(N)
    <2> HIDE DEF Good
    <2> QED BY <1>1, Zenon
  <1>3. PICK g \in [0..N -> Nat] : \A i \in 0..N : g[i] = Step(g, i)
    <2> HIDE DEF Step
    <2> QED BY <1>2, Zenon
  <1>4. g = [n \in 0..N |-> Step(g, n)]
    <2> HIDE DEF Step
    <2> QED BY <1>3
  <1> QED BY <1>4, Zenon DEF Winning

\* Of the first n results, that of case c that no other is later than.
WinsSoFar(observed, c, n, w) ==
    /\ w \in 0..n
    /\ w # 0 => observed[w].result.case = c
    /\ \A k \in 1..n : observed[k].result.case = c => w # 0 /\ ~Later(observed[w], observed[k])

LEMMA WinnerFacts ==
    ASSUME NEW observed, observed \in Seq(Observed), NEW c
    PROVE  WinsSoFar(observed, c, Len(observed), Winner(observed, c))
  <1> DEFINE N == Len(observed)
             F == CHOOSE g : g = [n \in 0..N |-> IF n = 0 THEN 0
                       ELSE IF observed[n].result.case = c
                               /\ (g[n - 1] = 0 \/ Precedes(Rank(observed[g[n - 1]]), Rank(observed[n])))
                            THEN n ELSE g[n - 1]]
  <1>0. N \in Nat /\ \A n \in 1..N : observed[n] \in Observed
    BY LenProperties, ElementOfSeq
  <1>1. \E g : g = [n \in 0..N |-> IF n = 0 THEN 0
                       ELSE IF observed[n].result.case = c
                               /\ (g[n - 1] = 0 \/ Precedes(Rank(observed[g[n - 1]]), Rank(observed[n])))
                            THEN n ELSE g[n - 1]]
    <2>1. \E g : g = [n \in 0..N |-> IF n = 0 THEN 0
                                     ELSE IF Beats(observed, c, n, g[n - 1]) THEN n ELSE g[n - 1]]
      <3>1. N \in Nat
        BY <1>0
      <3> HIDE DEF N
      <3>2. \E g : Winning(g, N, observed, c)
        BY <3>1, WinnerExists, Zenon
      <3> QED BY <3>2, Zenon DEF Winning
    <2> QED BY <2>1, Zenon DEF Beats
  <1>2. F = [n \in 0..N |-> IF n = 0 THEN 0
                       ELSE IF observed[n].result.case = c
                               /\ (F[n - 1] = 0 \/ Precedes(Rank(observed[F[n - 1]]), Rank(observed[n])))
                            THEN n ELSE F[n - 1]]
    BY <1>1, Zenon
  <1>3. Winner(observed, c) = F[N]
    BY DEF Winner
  <1> HIDE DEF F
  <1>4. \A n \in 0..N : F[n] = IF n = 0 THEN 0 ELSE IF Beats(observed, c, n, F[n - 1]) THEN n ELSE F[n - 1]
    BY <1>2, Zenon DEF Beats
  <1> DEFINE Bad == {n \in 0..N : ~WinsSoFar(observed, c, n, F[n])}
  <1>5. ASSUME Bad # {} PROVE FALSE
    <2>1. Bad \in SUBSET Nat
      BY <1>0, SMT
    <2>2. PICK n \in Bad : \A k \in Bad : n <= k
      <3> HIDE DEF Bad
      <3> QED BY <1>5, <2>1, Least
    <2>3. n \in 0..N /\ ~WinsSoFar(observed, c, n, F[n])
      OBVIOUS
    <2>4. CASE n = 0
      <3>1. F[n] = 0
        BY <1>4, <2>3, <2>4
      <3> QED BY <2>3, <2>4, <3>1 DEF WinsSoFar
    <2>5. CASE n # 0
      <3>1. n - 1 \in 0..N /\ ~(n <= n - 1) /\ n \in 1..N
        BY <1>0, <2>3, <2>5, SMT
      <3>2. WinsSoFar(observed, c, n - 1, F[n - 1])
        <4>1. n - 1 \notin Bad
          <5> HIDE DEF Bad
          <5> QED BY <2>2, <3>1
        <4> QED BY <3>1, <4>1
      <3> HIDE DEF Bad
      <3>3. PICK w : w = F[n - 1]
        OBVIOUS
      <3>4. /\ w \in 0..(n - 1) /\ (w # 0 => w \in 1..N /\ observed[w].result.case = c)
            /\ \A k \in 1..(n - 1) : observed[k].result.case = c => w # 0 /\ ~Later(observed[w], observed[k])
        BY <1>0, <2>3, <3>2, <3>3 DEF WinsSoFar
      <3>5. \A k \in 1..n : k # n => k \in 1..(n - 1) /\ k \in 1..N
        BY <1>0, <2>3, SMT
      <3>6. CASE Beats(observed, c, n, w)
        <4>1. F[n] = n
          BY <1>4, <2>3, <2>5, <3>3, <3>6
        <4>2. ASSUME NEW k \in 1..n, observed[k].result.case = c PROVE ~Later(observed[n], observed[k])
          <5>1. CASE k = n
            BY <1>0, <3>1, <5>1, NotLaterThanItself
          <5>2. CASE k # n
            <6>1. w # 0 /\ ~Later(observed[w], observed[k]) /\ w \in 1..N /\ k \in 1..N
              BY <3>4, <3>5, <4>2, <5>2
            <6>2. Later(observed[w], observed[n])
              BY <1>0, <3>1, <3>6, <6>1, RankOrder DEF Beats
            <6> QED BY <1>0, <3>1, <6>1, <6>2, LaterOrder
          <5> QED BY <5>1, <5>2
        <4>3. n \in 0..n /\ n # 0 /\ observed[n].result.case = c
          BY <2>3, <2>5, <3>6, SMT DEF Beats
        <4> QED BY <2>3, <4>1, <4>2, <4>3 DEF WinsSoFar
      <3>7. CASE ~Beats(observed, c, n, w)
        <4>1. F[n] = w /\ w \in 0..n
          <5>1. F[n] = w
            BY <1>4, <2>3, <2>5, <3>3, <3>7
          <5> QED BY <2>3, <3>4, <5>1, SMT
        <4>2. ASSUME NEW k \in 1..n, observed[k].result.case = c
              PROVE  w # 0 /\ ~Later(observed[w], observed[k])
          <5>1. CASE k = n
            <6>1. w # 0 /\ ~Precedes(Rank(observed[w]), Rank(observed[n]))
              BY <3>7, <4>2, <5>1 DEF Beats
            <6> QED BY <1>0, <3>1, <3>4, <5>1, <6>1, RankOrder
          <5>2. CASE k # n
            BY <3>4, <3>5, <4>2, <5>2
          <5> QED BY <5>1, <5>2
        <4> QED BY <2>3, <3>4, <4>1, <4>2 DEF WinsSoFar
      <3> QED BY <3>6, <3>7
    <2> QED BY <2>4, <2>5
  <1>6. WinsSoFar(observed, c, N, F[N])
    BY <1>0, <1>5
  <1> QED BY <1>3, <1>6

LEMMA LatestRight == ReportsInv => LatestIsLatest
  <1> DEFINE report == LastResults(Results(walk.seen))
             obs == Results(walk.seen)
  <1> SUFFICES ASSUME ReportsInv, Reported, asked.kind = "last", NEW p \in Projects, NEW id \in Ids,
                      <<p, id>> \notin changed, Belongs(p, id), NEW m \in DOMAIN docs[p][id].results
               PROVE  LET r == docs[p][id].results[m] won == report[r.case] IN
                      /\ r.at.seconds => won.result.at.seconds
                      /\ r.at.seconds = won.result.at.seconds =>
                          \/ won.result.at.at > r.at.at
                          \/ won.result.at.at = r.at.at /\ won.run >= id
    BY Zenon DEF LatestIsLatest
  <1> DEFINE r == docs[p][id].results[m]
             x == [run |-> id, result |-> r]
             w == Winner(obs, r.case)
  <1>1. Held(p, id)
    <2>1. Alive /\ Spread(walk.todo) = {} /\ Spread(walk.list) = {}
      BY EmptySpread DEF ReportsInv, WalkOK, Reported, Alive
    <2>2. Accounted(p, id) /\ ~Listed(p, id)
      BY <2>1 DEF ReportsInv, ProjectsWalk, Listed
    <2> QED BY <2>1, <2>2 DEF Accounted
  <1>2. PICK n \in DOMAIN walk.seen : walk.seen[n] = [home |-> p, id |-> id, doc |-> docs[p][id]]
    BY <1>1 DEF Held
  <1>3. obs \in Seq(Observed) /\ \E k \in DOMAIN obs : obs[k] = x
    <2>1. walk.seen[n].id = id /\ walk.seen[n].doc = docs[p][id]
      BY <1>2
    <2>2. m \in DOMAIN walk.seen[n].doc.results
      BY <2>1
    <2> QED BY <1>2, <2>1, <2>2, ResultsFacts
  <1> HIDE DEF obs, r
  <1>4. PICK k \in DOMAIN obs : obs[k] = x
    BY <1>3
  <1>5. DOMAIN obs = 1..Len(obs) /\ Len(obs) \in Nat /\ \A i \in 1..Len(obs) : obs[i] \in Observed
    BY <1>3, LenProperties, ElementOfSeq
  <1>6. WinsSoFar(obs, r.case, Len(obs), w)
    BY <1>3, WinnerFacts
  <1> HIDE DEF w
  <1>7. x.result.case = r.case /\ x.run = id /\ x.result = r
    OBVIOUS
  <1>8. w \in 1..Len(obs) /\ ~Later(obs[w], obs[k])
    BY <1>4, <1>5, <1>6, <1>7 DEF WinsSoFar
  <1>9. report[r.case] = obs[w]
    <2>1. r.case \in {obs[i].result.case : i \in DOMAIN obs}
      BY <1>4, <1>7
    <2> QED BY <2>1 DEF LastResults, obs, w
  <1>10. /\ obs[w].run \in Nat /\ obs[w].result.at.seconds \in BOOLEAN /\ obs[w].result.at.at \in Int
         /\ x.run \in Nat /\ x.result.at.seconds \in BOOLEAN /\ x.result.at.at \in Int
    BY <1>4, <1>5, <1>8, ObservedType
  <1> HIDE DEF x, report
  <1>11. /\ x.result.at.seconds => obs[w].result.at.seconds
         /\ x.result.at.seconds = obs[w].result.at.seconds =>
               \/ obs[w].result.at.at > x.result.at.at
               \/ obs[w].result.at.at = x.result.at.at /\ obs[w].run >= x.run
    BY <1>4, <1>8, <1>10, SMT DEF Later
  <1> QED BY <1>7, <1>9, <1>11 DEF r

\* No result of a run that stayed is later than the one reported (LatestIsLatest).
THEOREM Latest == ReportsSpec => []LatestIsLatest
  BY ReportsInvariant, LatestRight, PTL

(* ---------------------------- the cache's keys --------------------------- *)

\* What keys are made of.
Tokens ==
    {":", "|", "-", "*", ",", "summary", "last-results", "names", "project", "projects", "all"}
    \union {ToString(Len(a)) : a \in Names} \union UNION {{a[i] : i \in DOMAIN a} : a \in Names}

\* A name behind its length.
LEMMA TextFacts ==
    ASSUME NEW a \in Names
    PROVE  /\ a \in Seq(Tokens) /\ Len(a) \in Nat
           /\ Text(a) \in Seq(Tokens) /\ Len(Text(a)) = Len(a) + 2
           /\ Text(a)[1] = ToString(Len(a))
           /\ \A i \in 1..Len(a) : Text(a)[i + 2] = a[i]
  <1> DEFINE h == <<ToString(Len(a)), ":">>
  <1>1. a \in Seq({a[i] : i \in DOMAIN a}) /\ Len(a) \in Nat
    <2>1. a \in Seq({a[i] : i \in DOMAIN a})
      BY NamesAssumption
    <2> QED BY <2>1, LenProperties, Zenon
  <1>2. a \in Seq(Tokens)
    <2>1. {a[i] : i \in DOMAIN a} \subseteq Tokens
      BY Zenon DEF Tokens
    <2> QED BY <1>1, <2>1, SeqMonotonic, Zenon
  <1>3. h \in Seq(Tokens) /\ Len(h) = 2 /\ h[1] = ToString(Len(a))
    <2>1. ToString(Len(a)) \in Tokens
      BY Zenon DEF Tokens
    <2>2. ":" \in Tokens
      BY Zenon DEF Tokens
    <2> QED BY <2>1, <2>2
  <1>4. Text(a) = h \o a
    BY DEF Text
  <1> HIDE DEF h
  <1>5. /\ h \o a \in Seq(Tokens) /\ Len(h \o a) = Len(h) + Len(a)
        /\ \A i \in 1 .. Len(h) + Len(a) : (h \o a)[i] = IF i <= Len(h) THEN h[i] ELSE a[i - Len(h)]
    BY <1>2, <1>3, ConcatProperties, Zenon
  <1>6. Text(a)[1] = ToString(Len(a))
    BY <1>1, <1>3, <1>4, <1>5
  <1>7. ASSUME NEW i \in 1..Len(a) PROVE Text(a)[i + 2] = a[i]
    BY <1>1, <1>3, <1>4, <1>5
  <1>8. Text(a) \in Seq(Tokens) /\ Len(Text(a)) = Len(a) + 2
    BY <1>1, <1>3, <1>4, <1>5
  <1> QED BY <1>1, <1>2, <1>6, <1>7, <1>8

\* Sequences joined one by one.
Joins(F, ss, N, S) ==
    /\ F \in [0..N -> Seq(S)]
    /\ F[0] = <<>>
    /\ \A i \in 1..N : F[i] = F[i - 1] \o ss[i]

\* Joining goes one sequence at a time.
LEMMA FlattenSteps ==
    ASSUME NEW S, NEW N \in Nat, NEW ss, ss \in [1..N -> Seq(S)]
    PROVE  \E F : Joins(F, ss, N, S) /\ FlattenSeq(ss) = F[N]
  <1>0. ss \in Seq(Seq(S)) /\ Len(ss) = N
    BY SeqDef
  <1>1. CASE N = 0
    <2> DEFINE F == [i \in 0..0 |-> <<>>]
    <2>1. ss = <<>>
      BY <1>0, <1>1
    <2>2. FlattenSeq(ss) = <<>>
      BY <1>0, <1>1, <2>1 DEF FlattenSeq
    <2>3. F[0] = <<>> /\ F \in [0..0 -> Seq(S)] /\ \A i \in 1..0 : FALSE
      BY EmptySeq
    <2> HIDE DEF F
    <2> QED BY <1>1, <2>2, <2>3 DEF Joins
  <1>2. CASE N # 0
    <2> DEFINE G == CHOOSE f : f = [i \in 1..Len(ss) |-> IF i = 1 THEN ss[i] ELSE f[i - 1] \o ss[i]]
               F == [i \in 0..N |-> IF i = 0 THEN <<>> ELSE G[i]]
    <2>1. \E g : g = [i \in 1..Len(ss) |-> IF i = 1 THEN ss[i] ELSE g[i - 1] \o ss[i]]
      <3>1. N \in Nat \ {0}
        BY <1>2
      <3>2. \E g : g = [i \in 1..N |-> IF i = 1 THEN ss[i] ELSE g[i - 1] \o ss[i]]
        BY <3>1, FlattenExists, ZenonT(60)
      <3> QED BY <1>0, <3>2, Zenon
    <2>2. G = [i \in 1..Len(ss) |-> IF i = 1 THEN ss[i] ELSE G[i - 1] \o ss[i]]
      BY <2>1, Zenon
    <2>3. FlattenSeq(ss) = G[Len(ss)]
      BY <1>0, <1>2 DEF FlattenSeq
    <2> HIDE DEF G
    <2>4. \A i \in 1..N : G[i] = (IF i = 1 THEN ss[i] ELSE G[i - 1] \o ss[i])
      BY <1>0, <2>2, Zenon
    <2>5. F[0] = <<>> /\ F[N] = G[N] /\ DOMAIN F = 0..N
      BY <1>2
    <2>6. \A i \in 1..N : F[i] = F[i - 1] \o ss[i]
      <3> SUFFICES ASSUME NEW i \in 1..N PROVE F[i] = F[i - 1] \o ss[i]
        OBVIOUS
      <3>1. F[i] = G[i] /\ i - 1 \in 0..N /\ (i # 1 => F[i - 1] = G[i - 1]) /\ ss[i] \in Seq(S)
        OBVIOUS
      <3>2. CASE i = 1
        <4>1. F[i - 1] = <<>> /\ F[i] = ss[i]
          BY <2>4, <2>5, <3>1, <3>2
        <4> QED BY <3>1, <4>1, ConcatEmptySeq
      <3>3. CASE i # 1
        BY <2>4, <3>1, <3>3
      <3> QED BY <3>2, <3>3
    <2> HIDE DEF F
    <2> DEFINE Bad == {i \in 0..N : F[i] \notin Seq(S)}
    <2>7. ASSUME Bad # {} PROVE FALSE
      <3>1. Bad \in SUBSET Nat
        OBVIOUS
      <3>2. PICK i \in Bad : \A k \in Bad : i <= k
        <4> HIDE DEF Bad
        <4> QED BY <2>7, <3>1, Least
      <3>3. i # 0
        BY <2>5, EmptySeq
      <3>4. i \in 1..N /\ i - 1 \in 0..N /\ i - 1 \notin Bad
        BY <3>2, <3>3
      <3>5. F[i - 1] \in Seq(S) /\ ss[i] \in Seq(S)
        BY <3>4
      <3>6. F[i - 1] \o ss[i] \in Seq(S)
        BY <3>5, ConcatProperties
      <3> QED BY <2>6, <3>2, <3>4, <3>6
    <2>8. F = [i \in 0..N |-> F[i]]
      BY DEF F
    <2>9. F \in [0..N -> Seq(S)]
      BY <2>7, <2>8
    <2> QED BY <1>0, <2>3, <2>5, <2>6, <2>9 DEF Joins
  <1> QED BY <1>1, <1>2

\* A sequence begins with another.
Leads(s, z) == Len(s) <= Len(z) /\ \A j \in 1..Len(s) : z[j] = s[j]

\* A sequence leads what it goes on to lead with more behind it.
LEMMA BeginsStep ==
    ASSUME NEW S, NEW s \in Seq(S), NEW t \in Seq(S), NEW z \in Seq(S), Leads(s \o t, z)
    PROVE  Leads(s, z)
  <1>1. /\ Len(s \o t) = Len(s) + Len(t)
        /\ \A i \in 1 .. Len(s) + Len(t) : (s \o t)[i] = IF i <= Len(s) THEN s[i] ELSE t[i - Len(s)]
    BY ConcatProperties, Zenon
  <1>2. Len(s) \in Nat /\ Len(t) \in Nat /\ Len(z) \in Nat
    BY LenProperties, Zenon
  <1>3. \A j \in 1..Len(s) : j \in 1..Len(s) + Len(t) /\ (s \o t)[j] = s[j]
    BY <1>1, <1>2
  <1>4. Len(s) <= Len(z)
    BY <1>1, <1>2 DEF Leads
  <1> QED BY <1>1, <1>3, <1>4 DEF Leads

\* What is joined so far stays in front.
LEMMA JoinedPrefix ==
    ASSUME NEW S, NEW N \in Nat, NEW ss \in [1..N -> Seq(S)], NEW F, Joins(F, ss, N, S), NEW k \in 0..N
    PROVE  Leads(F[k], F[N])
  <1> DEFINE Good(i) == Leads(F[i], F[N])
             Bad == {m \in 0..N : ~Good(N - m)}
  <1>1. \A i \in 0..N : F[i] \in Seq(S) /\ Len(F[i]) \in Nat
    BY LenProperties DEF Joins
  <1>2. ASSUME Bad # {} PROVE FALSE
    <2>1. Bad \in SUBSET Nat
      OBVIOUS
    <2>2. PICK m \in Bad : \A n \in Bad : m <= n
      <3> HIDE DEF Bad
      <3> QED BY <1>2, <2>1, Least
    <2>3. m \in 0..N /\ ~Good(N - m)
      OBVIOUS
    <2>4. m # 0
      <3>1. Good(N)
        BY <1>1 DEF Leads
      <3> HIDE DEF Good
      <3> QED BY <2>3, <3>1
    <2> DEFINE i == N - m
    <2>5. i \in 0..N /\ i + 1 \in 1..N /\ m - 1 \in 0..N /\ N - (m - 1) = i + 1
      BY <2>3, <2>4
    <2>6. Good(i + 1)
      <3>1. m - 1 \notin Bad
        <4> HIDE DEF Bad
        <4> QED BY <2>2, <2>3, <2>5
      <3> HIDE DEF Good
      <3> QED BY <2>5, <3>1
    <2> HIDE DEF i
    <2>7. F[i + 1] = F[i] \o ss[i + 1] /\ ss[i + 1] \in Seq(S) /\ F[i] \in Seq(S)
      <3>1. (i + 1) - 1 = i
        BY <2>5
      <3> QED BY <1>1, <2>5, <3>1 DEF Joins
    <2>8. Leads(F[i] \o ss[i + 1], F[N])
      BY <2>6, <2>7, Zenon
    <2>9. Good(i)
      <3>1. F[N] \in Seq(S)
        BY <1>1
      <3> QED BY <2>7, <2>8, <3>1, BeginsStep, Zenon
    <2> QED BY <2>3, <2>9 DEF i
  <1>3. Good(N - (N - k))
    <2>1. N - k \in 0..N
      OBVIOUS
    <2>2. N - k \notin Bad
      <3> HIDE DEF Bad
      <3> QED BY <1>2
    <2> HIDE DEF Good
    <2> QED BY <2>1, <2>2
  <1>4. N - (N - k) = k
    OBVIOUS
  <1> QED BY <1>3, <1>4, Zenon

\* What leads a sequence leads it with more behind it.
LEMMA BeginsWhole ==
    ASSUME NEW S, NEW t \in Seq(S), NEW s \in Seq(S), NEW x \in Seq(S), Leads(t, s)
    PROVE  Leads(t, s \o x)
  <1>1. /\ Len(s \o x) = Len(s) + Len(x)
        /\ \A i \in 1 .. Len(s) + Len(x) : (s \o x)[i] = IF i <= Len(s) THEN s[i] ELSE x[i - Len(s)]
    BY ConcatProperties, Zenon
  <1>2. Len(s) \in Nat /\ Len(t) \in Nat /\ Len(x) \in Nat
    BY LenProperties, Zenon
  <1>3. Len(t) <= Len(s) /\ \A j \in 1..Len(t) : s[j] = t[j]
    BY DEF Leads
  <1>4. \A j \in 1..Len(t) : j \in 1..Len(s) + Len(x) /\ j <= Len(s)
    BY <1>2, <1>3
  <1>5. \A j \in 1..Len(t) : (s \o x)[j] = t[j]
    BY <1>1, <1>3, <1>4
  <1>6. Len(t) <= Len(s \o x)
    BY <1>1, <1>2, <1>3
  <1> QED BY <1>5, <1>6 DEF Leads

\* Where a text stands in a key that begins with what was before it and it.
LEMMA Placed ==
    ASSUME NEW p \in Seq(Tokens), NEW a \in Names, NEW z \in Seq(Tokens), Leads(p \o Text(a), z)
    PROVE  /\ z[Len(p) + 1] = ToString(Len(a)) /\ Len(p) + 1 <= Len(z)
           /\ \A i \in 1..Len(a) : z[Len(p) + (i + 2)] = a[i]
  <1> DEFINE t == Text(a)
             L == Len(p)
  <1>1. /\ Len(a) \in Nat /\ t \in Seq(Tokens) /\ Len(t) = Len(a) + 2 /\ t[1] = ToString(Len(a))
        /\ \A i \in 1..Len(a) : t[i + 2] = a[i]
    BY TextFacts
  <1> HIDE DEF t
  <1>2. L \in Nat /\ Len(z) \in Nat
    BY LenProperties
  <1>3. /\ Len(p \o t) = L + Len(t)
        /\ \A i \in 1 .. L + Len(t) : (p \o t)[i] = IF i <= L THEN p[i] ELSE t[i - L]
    BY <1>1, ConcatProperties, Zenon
  <1>4. L + Len(t) <= Len(z) /\ \A j \in 1..(L + Len(t)) : z[j] = (p \o t)[j]
    BY <1>3, Zenon DEF Leads, t
  <1> HIDE DEF L
  <1>5. \A i \in 1..Len(t) : z[L + i] = t[i]
    <2> SUFFICES ASSUME NEW i \in 1..Len(t) PROVE z[L + i] = t[i]
      OBVIOUS
    <2>1. L + i \in 1..(L + Len(t)) /\ ~(L + i <= L) /\ (L + i) - L = i
      BY <1>1, <1>2
    <2> QED BY <1>3, <1>4, <2>1
  <1>6. z[L + 1] = t[1] /\ L + 1 <= Len(z)
    <2>1. 1 \in 1..Len(t)
      BY <1>1
    <2> QED BY <1>1, <1>2, <1>4, <1>5, <2>1
  <1>7. ASSUME NEW i \in 1..Len(a) PROVE z[L + (i + 2)] = a[i]
    <2>1. i + 2 \in 1..Len(t)
      BY <1>1
    <2> QED BY <1>1, <1>5, <2>1
  <1> QED BY <1>1, <1>6, <1>7 DEF L

\* What follows a scope in a key: nothing, or a separator.
Ends(x) == x = <<>> \/ x[1] = "|"

\* The key of a scope, whatever it holds.
Flat(r) == FlattenSeq([n \in DOMAIN r |-> Text(r[n])])

\* Two keys that begin with a scope and go on with a separator have the names of
\* the first scope in common: the length of the next name is where the other key
\* has a length too, and as many characters follow.
LEMMA ScopeLeads ==
    ASSUME NEW r, r \in Seq(Names), NEW s, s \in Seq(Names), NEW x \in Seq(Tokens), NEW y \in Seq(Tokens), Ends(y),
           NEW z, z = Flat(r) \o x, z = Flat(s) \o y
    PROVE  Len(r) <= Len(s) /\ \A j \in 1..Len(r) : r[j] = s[j]
  <1> DEFINE N == Len(r)
             M == Len(s)
             rt == [n \in DOMAIN r |-> Text(r[n])]
             st == [n \in DOMAIN s |-> Text(s[n])]
  <1>1. /\ N \in Nat /\ M \in Nat /\ DOMAIN r = 1..N /\ DOMAIN s = 1..M
        /\ \A n \in 1..N : r[n] \in Names
        /\ \A n \in 1..M : s[n] \in Names
    BY LenProperties, ElementOfSeq
  <1>2. rt \in [1..N -> Seq(Tokens)] /\ st \in [1..M -> Seq(Tokens)]
    <2>1. \A n \in 1..N : Text(r[n]) \in Seq(Tokens)
      BY <1>1, TextFacts
    <2>2. \A n \in 1..M : Text(s[n]) \in Seq(Tokens)
      BY <1>1, TextFacts
    <2> QED BY <1>1, <2>1, <2>2
  <1>3. \A n \in 1..N : rt[n] = Text(r[n])
    BY <1>1
  <1>4. \A n \in 1..M : st[n] = Text(s[n])
    BY <1>1
  <1>5. Flat(r) = FlattenSeq(rt) /\ Flat(s) = FlattenSeq(st)
    BY DEF Flat
  <1> HIDE DEF rt, st, N, M
  <1>6. PICK F : Joins(F, rt, N, Tokens) /\ FlattenSeq(rt) = F[N]
    BY <1>1, <1>2, FlattenSteps
  <1>7. PICK G : Joins(G, st, M, Tokens) /\ FlattenSeq(st) = G[M]
    BY <1>1, <1>2, FlattenSteps
  <1>8. z = F[N] \o x /\ z = G[M] \o y
    BY <1>5, <1>6, <1>7
  <1>9. /\ \A k \in 0..N : F[k] \in Seq(Tokens)
        /\ \A k \in 0..M : G[k] \in Seq(Tokens)
        /\ F[0] = <<>> /\ G[0] = <<>>
        /\ \A k \in 1..N : F[k] = F[k - 1] \o rt[k]
        /\ \A k \in 1..M : G[k] = G[k - 1] \o st[k]
    BY <1>6, <1>7 DEF Joins
  <1>10. z \in Seq(Tokens) /\ \A k \in 0..N : Leads(F[k], z)
    <2>1. F[N] \in Seq(Tokens)
      BY <1>1, <1>9
    <2>2. z \in Seq(Tokens)
      BY <1>8, <2>1, ConcatProperties, Zenon
    <2>3. ASSUME NEW k \in 0..N PROVE Leads(F[k], z)
      <3>1. Leads(F[k], F[N])
        BY <1>1, <1>2, <1>6, JoinedPrefix
      <3>2. F[k] \in Seq(Tokens)
        BY <1>9
      <3> QED BY <1>8, <2>1, <3>1, <3>2, BeginsWhole, Zenon
    <2> QED BY <2>2, <2>3
  <1>11. \A k \in 0..M : Leads(G[k], z)
    <2>1. G[M] \in Seq(Tokens)
      BY <1>1, <1>9
    <2>2. ASSUME NEW k \in 0..M PROVE Leads(G[k], z)
      <3>1. Leads(G[k], G[M])
        BY <1>1, <1>2, <1>7, JoinedPrefix
      <3>2. G[k] \in Seq(Tokens)
        BY <1>9
      <3> QED BY <1>8, <2>1, <3>1, <3>2, BeginsWhole, Zenon
    <2> QED BY <2>2
  <1> DEFINE Same(k) == k <= M /\ F[k] = G[k] /\ \A j \in 1..k : r[j] = s[j]
             Bad == {k \in 0..N : ~Same(k)}
  <1>12. ASSUME Bad # {} PROVE FALSE
    <2>1. Bad \in SUBSET Nat
      BY <1>1
    <2>2. PICK k \in Bad : \A i \in Bad : k <= i
      <3> HIDE DEF Bad
      <3> QED BY <1>12, <2>1, Least
    <2>3. k \in 0..N /\ ~Same(k)
      OBVIOUS
    <2>4. k # 0
      <3>1. Same(0)
        BY <1>1, <1>9
      <3> HIDE DEF Same
      <3> QED BY <2>3, <3>1
    <2>5. k \in 1..N /\ k - 1 \in 0..N
      BY <1>1, <2>3, <2>4
    <2>6. Same(k - 1)
      <3>1. k - 1 \notin Bad
        <4> HIDE DEF Bad
        <4> QED BY <2>2, <2>3, <2>5
      <3> HIDE DEF Same
      <3> QED BY <2>5, <3>1
    <2> DEFINE a == r[k]
               p == F[k - 1]
               L == Len(p)
    <2>7. a \in Names /\ p \in Seq(Tokens) /\ L \in Nat /\ Text(a) \in Seq(Tokens)
      BY <1>1, <1>9, <2>5, TextFacts, LenProperties
    <2>8. F[k] = p \o Text(a) /\ p = G[k - 1] /\ Leads(F[k], z)
      BY <1>3, <1>9, <1>10, <2>3, <2>5, <2>6
    <2>9. k - 1 <= M /\ k - 1 \in 0..M
      BY <1>1, <2>5, <2>6
    <2> HIDE DEF a, p, L
    <2>10. z[L + 1] = ToString(Len(a)) /\ L + 1 <= Len(z)
           /\ \A i \in 1..Len(a) : z[L + (i + 2)] = a[i]
      <3>1. Leads(p \o Text(a), z)
        BY <2>8, Zenon
      <3> QED BY <1>10, <2>7, <3>1, Placed, Zenon DEF L
    <2>11. k <= M
      <3> SUFFICES ASSUME k - 1 = M PROVE FALSE
        BY <1>1, <2>5, <2>9
      <3>1. z = p \o y
        BY <1>8, <2>8
      <3>2. Len(z) = L + Len(y) /\ Len(y) \in Nat /\ (y # <<>> => z[L + 1] = y[1])
        <4>1. Len(y) \in Nat /\ (y # <<>> => Len(y) # 0)
          BY LenProperties, EmptySeq
        <4>2. /\ Len(p \o y) = Len(p) + Len(y)
              /\ \A i \in 1 .. Len(p) + Len(y) : (p \o y)[i] = IF i <= Len(p) THEN p[i] ELSE y[i - Len(p)]
          BY <2>7, ConcatProperties, Zenon
        <4>3. y # <<>> => (p \o y)[L + 1] = y[1]
          BY <2>7, <4>1, <4>2, SMT DEF L
        <4> QED BY <3>1, <4>1, <4>2, <4>3 DEF L
      <3>3. y # <<>>
        <4> SUFFICES ASSUME y = <<>> PROVE FALSE
          OBVIOUS
        <4>1. Len(y) = 0
          BY EmptySeq
        <4> QED BY <2>7, <2>10, <3>2, <4>1
      <3>4. z[L + 1] = "|"
        BY <3>2, <3>3 DEF Ends
      <3> QED BY <2>7, <2>10, <3>4, NamesAssumption
    <2> DEFINE b == s[k]
    <2>12. b \in Names /\ Text(b) \in Seq(Tokens) /\ G[k] = p \o Text(b) /\ Leads(G[k], z)
      <3>1. k \in 1..M /\ k \in 0..M
        BY <1>1, <2>5, <2>11
      <3> QED BY <1>1, <1>4, <1>9, <1>11, <2>8, <3>1, TextFacts
    <2> HIDE DEF b
    <2>13. z[L + 1] = ToString(Len(b)) /\ \A i \in 1..Len(b) : z[L + (i + 2)] = b[i]
      <3>1. Leads(p \o Text(b), z)
        BY <2>12, Zenon
      <3> QED BY <1>10, <2>7, <2>12, <3>1, Placed, ZenonT(60) DEF L
    <2>14. Len(a) = Len(b)
      BY <2>7, <2>10, <2>12, <2>13, NamesAssumption
    <2>15. a = b
      <3>1. \A i \in 1..Len(a) : a[i] = b[i]
        BY <2>10, <2>13, <2>14, Zenon
      <3>2. a \in Seq(Tokens) /\ b \in Seq(Tokens)
        BY <2>7, <2>12, TextFacts
      <3> QED BY <2>14, <3>1, <3>2, SeqEqual, Zenon
    <2>16. \A j \in 1..k : r[j] = s[j]
      <3>1. \A j \in 1..k : j = k \/ j \in 1..(k - 1)
        BY <2>5
      <3> QED BY <2>6, <2>15, <3>1 DEF a, b
    <2> QED BY <2>3, <2>8, <2>11, <2>12, <2>15, <2>16
  <1>13. N \in 0..N /\ N \notin Bad
    <2> HIDE DEF Bad
    <2> QED BY <1>1, <1>12
  <1>14. Same(N)
    <2> HIDE DEF Same
    <2> QED BY <1>13
  <1> QED BY <1>14 DEF N, M

\* The parts of a key are sequences of tokens.
LEMMA FlatType ==
    ASSUME NEW r, r \in Seq(Names)
    PROVE  Flat(r) \in Seq(Tokens)
  <1> DEFINE rt == [n \in DOMAIN r |-> Text(r[n])]
  <1>1. Len(r) \in Nat /\ DOMAIN r = 1..Len(r) /\ \A n \in 1..Len(r) : r[n] \in Names
    BY LenProperties, ElementOfSeq
  <1>2. rt \in [1..Len(r) -> Seq(Tokens)]
    <2>1. \A n \in 1..Len(r) : Text(r[n]) \in Seq(Tokens)
      BY <1>1, TextFacts
    <2> QED BY <1>1, <2>1
  <1> HIDE DEF rt
  <1>3. PICK F : Joins(F, rt, Len(r), Tokens) /\ FlattenSeq(rt) = F[Len(r)]
    BY <1>1, <1>2, FlattenSteps
  <1> QED BY <1>1, <1>3 DEF Joins, Flat, rt

\* So is an optional name.
LEMMA OptionalType ==
    ASSUME NEW p \in Names \union {<<>>}
    PROVE  OptionalKey(p) \in Seq(Tokens)
  <1>1. <<"-">> \in Seq(Tokens)
    <2>1. "-" \in Tokens
      BY Zenon DEF Tokens
    <2> QED BY <2>1
  <1> QED BY <1>1, TextFacts DEF OptionalKey

\* What is joined behind the same sequence is the same.
LEMMA CancelLeft ==
    ASSUME NEW S, NEW s \in Seq(S), NEW t \in Seq(S), NEW v \in Seq(S), s \o t = s \o v
    PROVE  t = v
  BY ConcatSimplifications, Zenon

\* A scope's key can be told from what follows it, and names one scope.
LEMMA ScopeApart ==
    ASSUME NEW r, r \in Seq(Names), NEW s, s \in Seq(Names), NEW x \in Seq(Tokens), NEW y \in Seq(Tokens),
           Ends(x), Ends(y), Flat(r) \o x = Flat(s) \o y
    PROVE  r = s /\ x = y
  <1>1. Len(r) <= Len(s) /\ \A j \in 1..Len(r) : r[j] = s[j]
    BY ScopeLeads
  <1>2. Len(s) <= Len(r)
    BY ScopeLeads
  <1>3. Len(r) \in Nat /\ Len(s) \in Nat
    BY LenProperties
  <1>4. r = s
    BY <1>1, <1>2, <1>3, SeqEqual
  <1>5. Flat(r) \in Seq(Tokens)
    BY FlatType
  <1> QED BY <1>4, <1>5, CancelLeft

\* The laws of joining, over names the provers need not look into.
IsText(x) == x \in Seq(Tokens)
IsOption(p) == p \in Names \union {<<>>}
Cat(a, b) == a \o b
Bar == <<"|">>

\* An optional name can be told from what follows it.
LEMMA OptionalApart ==
    ASSUME NEW p, NEW q, IsOption(p), IsOption(q),
           NEW x \in Seq(Tokens), NEW y \in Seq(Tokens), OptionalKey(p) \o x = OptionalKey(q) \o y
    PROVE  p = q /\ x = y
  <1> DEFINE k == OptionalKey(p)
             l == OptionalKey(q)
  <1>0. p \in Names \union {<<>>} /\ q \in Names \union {<<>>}
    BY DEF IsOption
  <1>1. k \in Seq(Tokens) /\ l \in Seq(Tokens)
    BY <1>0, OptionalType
  <1>2. Leads(k, k \o x) /\ Leads(l, k \o x)
    <2>1. Leads(k, k) /\ Leads(l, l)
      BY <1>1, LenProperties DEF Leads
    <2>2. Leads(k, k \o x) /\ Leads(l, l \o y)
      BY <1>1, <2>1, BeginsWhole
    <2> QED BY <2>2
  <1>3. k \o x \in Seq(Tokens)
    BY <1>1, ConcatProperties, Zenon
  <1> DEFINE z == k \o x
             e == <<>>
  <1>4. e \in Seq(Tokens) /\ Len(e) = 0
    BY EmptySeq
  <1>5. ASSUME NEW a \in Names, Leads(Text(a), z)
        PROVE  z[1] = ToString(Len(a)) /\ \A i \in 1..Len(a) : z[i + 2] = a[i]
    <2>1. e \o Text(a) = Text(a)
      BY TextFacts, ConcatEmptySeq
    <2> HIDE DEF e, z
    <2>2. z \in Seq(Tokens)
      BY <1>3 DEF z
    <2>3. Leads(e \o Text(a), z)
      BY <1>5, <2>1
    <2>4. /\ z[Len(e) + 1] = ToString(Len(a))
          /\ \A i \in 1..Len(a) : z[Len(e) + (i + 2)] = a[i]
      BY <1>4, <2>2, <2>3, Placed
    <2>5. Len(e) + 1 = 1 /\ \A i \in 1..Len(a) : Len(e) + (i + 2) = i + 2
      BY <1>4
    <2> QED BY <2>4, <2>5
  <1>6. ASSUME Leads(<<"-">>, z) PROVE z[1] = "-"
    BY <1>6 DEF Leads
  <1>7. CASE p = <<>> /\ q = <<>>
    BY <1>1, <1>7, CancelLeft
  <1> HIDE DEF z
  <1>8. CASE p = <<>> /\ q # <<>>
    <2>1. k = <<"-">> /\ l = Text(q) /\ q \in Names
      BY <1>0, <1>8 DEF OptionalKey
    <2>2. z[1] = "-" /\ z[1] = ToString(Len(q))
      BY <1>2, <1>5, <1>6, <2>1 DEF z
    <2> QED BY <2>1, <2>2, NamesAssumption
  <1>9. CASE p # <<>> /\ q = <<>>
    <2>1. l = <<"-">> /\ k = Text(p) /\ p \in Names
      BY <1>0, <1>9 DEF OptionalKey
    <2>2. z[1] = "-" /\ z[1] = ToString(Len(p))
      BY <1>2, <1>5, <1>6, <2>1 DEF z
    <2> QED BY <2>1, <2>2, NamesAssumption
  <1>10. CASE p # <<>> /\ q # <<>>
    <2>1. l = Text(q) /\ k = Text(p) /\ p \in Names /\ q \in Names
      BY <1>0, <1>10 DEF OptionalKey
    <2>2. /\ z[1] = ToString(Len(p)) /\ \A i \in 1..Len(p) : z[i + 2] = p[i]
          /\ z[1] = ToString(Len(q)) /\ \A i \in 1..Len(q) : z[i + 2] = q[i]
      BY <1>2, <1>5, <2>1 DEF z
    <2>3. Len(p) = Len(q)
      BY <2>1, <2>2, NamesAssumption
    <2>4. p \in Seq(Tokens) /\ q \in Seq(Tokens)
      BY <2>1, TextFacts
    <2>5. p = q
      BY <2>2, <2>3, <2>4, SeqEqual
    <2> QED BY <1>1, <2>5, CancelLeft
  <1> QED BY <1>7, <1>8, <1>9, <1>10

\* The requests a key is made for: whose projects, and two optional filters.
IsReach(q) == (q.limited = TRUE /\ q.reach \in Seq(Names)) \/ (q.limited = FALSE /\ q.reach = <<>>)
Filtered(q) ==
    /\ IsReach(q)
    /\ q.project \in Names \union {<<>>} /\ q.milestone \in Names \union {<<>>}

\* A word and a separator lead every key.
LEMMA LeadFacts ==
    /\ <<"|">> \in Seq(Tokens) /\ <<"*">> \in Seq(Tokens) /\ <<"all">> \in Seq(Tokens) /\ <<"summary", "|">> \in Seq(Tokens)
    /\ <<"last-results", "|">> \in Seq(Tokens) /\ <<"names", "|">> \in Seq(Tokens)
    /\ <<"project", "|">> \in Seq(Tokens) /\ <<"projects", "|">> \in Seq(Tokens)
  <1>1. /\ "|" \in Tokens /\ "summary" \in Tokens /\ "last-results" \in Tokens /\ "names" \in Tokens
        /\ "*" \in Tokens /\ "all" \in Tokens /\ "project" \in Tokens /\ "projects" \in Tokens
    BY Zenon DEF Tokens
  <1> QED BY <1>1

\* What begins with a separator ends a scope.
LEMMA BarEnds ==
    ASSUME NEW x \in Seq(Tokens)
    PROVE  <<"|">> \o x \in Seq(Tokens) /\ Ends(<<"|">> \o x)
  <1> DEFINE b == <<"|">>
  <1>1. b \in Seq(Tokens) /\ Len(b) = 1 /\ b[1] = "|"
    BY LeadFacts
  <1> HIDE DEF b
  <1>2. /\ b \o x \in Seq(Tokens) /\ Len(x) \in Nat
        /\ \A i \in 1 .. Len(b) + Len(x) : (b \o x)[i] = IF i <= Len(b) THEN b[i] ELSE x[i - Len(b)]
    BY <1>1, ConcatProperties, LenProperties, Zenon
  <1>3. (b \o x)[1] = "|"
    BY <1>1, <1>2
  <1> QED BY <1>2, <1>3 DEF Ends, b

\* Texts join to a text.
LEMMA CatText ==
    ASSUME NEW a, NEW b, IsText(a), IsText(b)
    PROVE  IsText(Cat(a, b))
  BY ConcatProperties, Zenon DEF IsText, Cat

\* How joins are grouped does not matter.
LEMMA CatAssociates ==
    ASSUME NEW a, NEW b, NEW c, IsText(a), IsText(b), IsText(c)
    PROVE  Cat(Cat(a, b), c) = Cat(a, Cat(b, c))
  <1>1. a \in Seq(Tokens) /\ b \in Seq(Tokens) /\ c \in Seq(Tokens)
    BY DEF IsText
  <1>2. (a \o b) \o c = a \o (b \o c)
    BY <1>1, ConcatAssociative
  <1> QED BY <1>2 DEF Cat

\* What two texts begin with can be dropped.
LEMMA CatCancels ==
    ASSUME NEW a, NEW b, NEW c, IsText(a), IsText(b), IsText(c), Cat(a, b) = Cat(a, c)
    PROVE  b = c
  <1>1. a \in Seq(Tokens) /\ b \in Seq(Tokens) /\ c \in Seq(Tokens)
    BY DEF IsText
  <1>2. a \o b = a \o c
    BY DEF Cat
  <1> QED BY <1>1, <1>2, CancelLeft

\* A separator ends a scope.
LEMMA CatBar ==
    /\ IsText(Bar)
    /\ \A x : IsText(x) => IsText(Cat(Bar, x)) /\ Ends(Cat(Bar, x))
  <1>1. IsText(Bar)
    BY LeadFacts DEF IsText, Bar
  <1>2. ASSUME NEW x, IsText(x) PROVE IsText(Cat(Bar, x)) /\ Ends(Cat(Bar, x))
    BY <1>2, BarEnds DEF IsText, Cat, Bar
  <1> QED BY <1>1, <1>2

\* The key of a scope is not the mark of a caller who reaches every project.
LEMMA StarApart ==
    ASSUME NEW r, r \in Seq(Names), NEW x \in Seq(Tokens), NEW y \in Seq(Tokens), Ends(x),
           NEW z, z = Flat(r) \o x, z = <<"*">> \o y
    PROVE  FALSE
  <1> DEFINE N == Len(r)
             rt == [n \in DOMAIN r |-> Text(r[n])]
             star == <<"*">>
  <1>1. N \in Nat /\ DOMAIN r = 1..N /\ \A n \in 1..N : r[n] \in Names
    BY LenProperties, ElementOfSeq
  <1>2. rt \in [1..N -> Seq(Tokens)] /\ \A n \in 1..N : rt[n] = Text(r[n])
    <2>1. \A n \in 1..N : Text(r[n]) \in Seq(Tokens)
      BY <1>1, TextFacts
    <2> QED BY <1>1, <2>1
  <1>3. star \in Seq(Tokens) /\ Len(star) = 1 /\ star[1] = "*"
    BY LeadFacts
  <1>4. Flat(r) = FlattenSeq(rt)
    BY DEF Flat
  <1>5. z = star \o y
    OBVIOUS
  <1> HIDE DEF rt, N, star
  <1>6. PICK F : Joins(F, rt, N, Tokens) /\ FlattenSeq(rt) = F[N]
    BY <1>1, <1>2, FlattenSteps
  <1>7. F[0] = <<>> /\ F[N] \in Seq(Tokens) /\ z = F[N] \o x
    <2>1. F[0] = <<>> /\ F \in [0..N -> Seq(Tokens)] /\ N \in 0..N
      BY <1>1, <1>6 DEF Joins
    <2>2. F[N] \in Seq(Tokens)
      BY <2>1
    <2>3. z = F[N] \o x
      BY <1>4, <1>6, Zenon
    <2> QED BY <2>1, <2>2, <2>3
  <1>8. z \in Seq(Tokens) /\ Len(z) = 1 + Len(y) /\ Len(y) \in Nat /\ z[1] = "*"
    <2>1. /\ star \o y \in Seq(Tokens) /\ Len(star \o y) = Len(star) + Len(y) /\ Len(y) \in Nat
          /\ \A i \in 1 .. Len(star) + Len(y) : (star \o y)[i] = IF i <= Len(star) THEN star[i] ELSE y[i - Len(star)]
      BY <1>3, ConcatProperties, LenProperties, Zenon
    <2>2. (star \o y)[1] = "*"
      BY <1>3, <2>1
    <2> QED BY <1>3, <1>5, <2>1, <2>2
  <1>9. CASE N = 0
    <2>1. z = x
      BY <1>7, <1>9, ConcatEmptySeq
    <2>2. x # <<>>
      BY <1>8, <2>1, EmptySeq
    <2> QED BY <1>8, <2>1, <2>2 DEF Ends
  <1>10. CASE N # 0
    <2> DEFINE a == r[1]
               e == <<>>
    <2>1. 1 \in 1..N /\ 1 \in 0..N /\ a \in Names
      BY <1>1, <1>10
    <2>2. F[1] = e \o Text(a)
      <3>1. F[1] = F[1 - 1] \o rt[1]
        BY <1>6, <2>1 DEF Joins
      <3>2. 1 - 1 = 0
        OBVIOUS
      <3> QED BY <1>2, <1>7, <2>1, <3>1, <3>2
    <2>3. F[1] \in Seq(Tokens)
      BY <1>6, <2>1 DEF Joins
    <2>4. e \in Seq(Tokens) /\ Len(e) = 0
      BY EmptySeq
    <2> HIDE DEF a, e
    <2>5. Leads(F[1], F[N])
      BY <1>1, <1>2, <1>6, <2>1, JoinedPrefix
    <2>6. Leads(F[1], z)
      BY <1>7, <2>3, <2>5, BeginsWhole
    <2>7. z[Len(e) + 1] = ToString(Len(a))
      BY <1>8, <2>1, <2>2, <2>4, <2>6, Placed
    <2>8. z[1] = ToString(Len(a))
      BY <2>4, <2>7
    <2> QED BY <1>8, <2>1, <2>8, NamesAssumption
  <1> QED BY <1>9, <1>10

\* The scope of a key, and what follows it, can be read off the key.
LEMMA CatScope ==
    ASSUME NEW q, NEW u, NEW x, NEW y, IsReach(q), IsReach(u), IsText(x), IsText(y), Ends(x), Ends(y),
           Cat(ScopeKey(q), x) = Cat(ScopeKey(u), y)
    PROVE  q.limited = u.limited /\ q.reach = u.reach /\ x = y
  <1> DEFINE star == <<"*">>
             r == q.reach
             s == u.reach
  <1>1. x \in Seq(Tokens) /\ y \in Seq(Tokens)
    BY DEF IsText
  <1>2. ScopeKey(q) \o x = ScopeKey(u) \o y
    BY DEF Cat
  <1>3. /\ q.limited = TRUE => r \in Seq(Names) /\ ScopeKey(q) = Flat(r)
        /\ q.limited # TRUE => q.limited = FALSE /\ r = <<>> /\ ScopeKey(q) = star
    BY DEF IsReach, ScopeKey, Flat
  <1>4. /\ u.limited = TRUE => s \in Seq(Names) /\ ScopeKey(u) = Flat(s)
        /\ u.limited # TRUE => u.limited = FALSE /\ s = <<>> /\ ScopeKey(u) = star
    BY DEF IsReach, ScopeKey, Flat
  <1>5. star \in Seq(Tokens)
    BY LeadFacts
  <1>6. CASE q.limited = TRUE /\ u.limited = TRUE
    <2>1. r \in Seq(Names) /\ s \in Seq(Names) /\ Flat(r) \o x = Flat(s) \o y
      BY <1>2, <1>3, <1>4, <1>6
    <2> HIDE DEF r, s
    <2>2. r = s /\ x = y
      BY <1>1, <2>1, ScopeApart
    <2> QED BY <1>6, <2>2 DEF r, s
  <1>7. CASE q.limited = TRUE /\ u.limited # TRUE
    <2>1. r \in Seq(Names) /\ Flat(r) \o x = star \o y
      BY <1>2, <1>3, <1>4, <1>7
    <2> HIDE DEF r
    <2> QED BY <1>1, <2>1, StarApart
  <1>8. CASE q.limited # TRUE /\ u.limited = TRUE
    <2>1. s \in Seq(Names) /\ Flat(s) \o y = star \o x
      BY <1>2, <1>3, <1>4, <1>8
    <2> HIDE DEF s
    <2> QED BY <1>1, <2>1, StarApart
  <1>9. CASE q.limited # TRUE /\ u.limited # TRUE
    <2>1. star \o x = star \o y
      BY <1>2, <1>3, <1>4, <1>9
    <2>2. x = y
      <3> HIDE DEF star
      <3> QED BY <1>1, <1>5, <2>1, CancelLeft
    <2> QED BY <1>3, <1>4, <1>9, <2>2
  <1> QED BY <1>6, <1>7, <1>8, <1>9

\* So can an optional name.
LEMMA CatOption ==
    ASSUME NEW p, NEW q, NEW x, NEW y, IsOption(p), IsOption(q), IsText(x), IsText(y),
           Cat(OptionalKey(p), x) = Cat(OptionalKey(q), y)
    PROVE  p = q /\ x = y
  <1>1. x \in Seq(Tokens) /\ y \in Seq(Tokens)
    BY DEF IsText
  <1>2. OptionalKey(p) \o x = OptionalKey(q) \o y
    BY DEF Cat
  <1> QED BY <1>1, <1>2, OptionalApart, ZenonT(60)

\* The parts of a key are texts.
LEMMA CatParts ==
    /\ \A q : IsReach(q) => IsText(ScopeKey(q))
    /\ \A p : IsOption(p) => IsText(OptionalKey(p))
  <1>1. ASSUME NEW q, IsReach(q) PROVE IsText(ScopeKey(q))
    <2>1. CASE q.limited = TRUE
      <3>1. q.reach \in Seq(Names) /\ ScopeKey(q) = Flat(q.reach)
        BY <1>1, <2>1 DEF IsReach, ScopeKey, Flat
      <3> QED BY <3>1, FlatType DEF IsText
    <2>2. CASE q.limited # TRUE
      <3>1. ScopeKey(q) = <<"*">>
        BY <1>1, <2>2 DEF IsReach, ScopeKey
      <3> QED BY <3>1, LeadFacts DEF IsText
    <2> QED BY <2>1, <2>2
  <1>2. ASSUME NEW p, IsOption(p) PROVE IsText(OptionalKey(p))
    BY <1>2, OptionalType DEF IsText, IsOption
  <1> QED BY <1>1, <1>2

\* A key that holds a word, a scope, a separator and more is told apart by the scope
\* and by the rest.
LEMMA ScopedApart ==
    ASSUME NEW w, NEW q, NEW u, NEW x, NEW y, IsText(w), IsReach(q), IsReach(u), IsText(x), IsText(y),
           Cat(Cat(Cat(w, ScopeKey(q)), Bar), x) = Cat(Cat(Cat(w, ScopeKey(u)), Bar), y)
    PROVE  q.limited = u.limited /\ q.reach = u.reach /\ x = y
  <1> DEFINE m == Cat(Bar, x)
             n == Cat(Bar, y)
  <1>1. /\ IsText(ScopeKey(q)) /\ IsText(ScopeKey(u)) /\ IsText(Bar)
        /\ IsText(m) /\ IsText(n) /\ Ends(m) /\ Ends(n)
    BY CatParts, CatBar
  <1>2. /\ IsText(Cat(w, ScopeKey(q))) /\ IsText(Cat(w, ScopeKey(u)))
        /\ IsText(Cat(ScopeKey(q), m)) /\ IsText(Cat(ScopeKey(u), n))
    BY <1>1, CatText
  <1>3. Cat(Cat(Cat(w, ScopeKey(q)), Bar), x) = Cat(w, Cat(ScopeKey(q), m))
    <2>1. Cat(Cat(Cat(w, ScopeKey(q)), Bar), x) = Cat(Cat(w, ScopeKey(q)), m)
      BY <1>1, <1>2, CatAssociates
    <2> QED BY <1>1, <2>1, CatAssociates
  <1>4. Cat(Cat(Cat(w, ScopeKey(u)), Bar), y) = Cat(w, Cat(ScopeKey(u), n))
    <2>1. Cat(Cat(Cat(w, ScopeKey(u)), Bar), y) = Cat(Cat(w, ScopeKey(u)), n)
      BY <1>1, <1>2, CatAssociates
    <2> QED BY <1>1, <2>1, CatAssociates
  <1>5. Cat(ScopeKey(q), m) = Cat(ScopeKey(u), n)
    BY <1>2, <1>3, <1>4, CatCancels
  <1>6. q.limited = u.limited /\ q.reach = u.reach /\ m = n
    BY <1>1, <1>5, CatScope
  <1> QED BY <1>1, <1>6, CatCancels

\* The same key of a summary is the same request.
LEMMA SummaryApart ==
    ASSUME NEW q, NEW u, Filtered(q), Filtered(u), SummaryKey(q) = SummaryKey(u)
    PROVE  q.limited = u.limited /\ q.reach = u.reach /\ q.project = u.project /\ q.milestone = u.milestone
  <1> DEFINE lead == <<"summary", "|">>
             p == OptionalKey(q.project)
             k == OptionalKey(u.project)
             m == OptionalKey(q.milestone)
             n == OptionalKey(u.milestone)
             a == Cat(Cat(lead, ScopeKey(q)), Bar)
             b == Cat(Cat(lead, ScopeKey(u)), Bar)
             x == Cat(p, Cat(Bar, m))
             y == Cat(k, Cat(Bar, n))
  <1>1. /\ IsReach(q) /\ IsReach(u) /\ IsOption(q.project) /\ IsOption(u.project)
        /\ IsOption(q.milestone) /\ IsOption(u.milestone)
    BY DEF Filtered, IsOption
  <1>2. IsText(lead)
    BY LeadFacts DEF IsText
  <1>3. Cat(Cat(Cat(a, p), Bar), m) = Cat(Cat(Cat(b, k), Bar), n)
    BY DEF SummaryKey, Cat, Bar
  <1> HIDE DEF lead
  <1>4. /\ IsText(ScopeKey(q)) /\ IsText(ScopeKey(u)) /\ IsText(Bar)
        /\ IsText(p) /\ IsText(k) /\ IsText(m) /\ IsText(n)
        /\ IsText(Cat(Bar, m)) /\ IsText(Cat(Bar, n))
    BY <1>1, CatParts, CatBar
  <1>5. IsText(a) /\ IsText(b) /\ IsText(x) /\ IsText(y)
    <2>1. IsText(Cat(lead, ScopeKey(q))) /\ IsText(Cat(lead, ScopeKey(u)))
      BY <1>2, <1>4, CatText
    <2> QED BY <1>4, <2>1, CatText
  <1>6. Cat(a, x) = Cat(b, y)
    <2> HIDE DEF a, b, p, k, m, n
    <2>1. IsText(Cat(a, p)) /\ IsText(Cat(b, k))
      BY <1>4, <1>5, CatText
    <2>2. Cat(Cat(Cat(a, p), Bar), m) = Cat(Cat(a, p), Cat(Bar, m))
      BY <1>4, <2>1, CatAssociates
    <2>3. Cat(Cat(a, p), Cat(Bar, m)) = Cat(a, x)
      BY <1>4, <1>5, CatAssociates
    <2>4. Cat(Cat(Cat(b, k), Bar), n) = Cat(Cat(b, k), Cat(Bar, n))
      BY <1>4, <2>1, CatAssociates
    <2>5. Cat(Cat(b, k), Cat(Bar, n)) = Cat(b, y)
      BY <1>4, <1>5, CatAssociates
    <2> QED BY <1>3, <2>2, <2>3, <2>4, <2>5
  <1>7. q.limited = u.limited /\ q.reach = u.reach /\ x = y
    <2> HIDE DEF x, y
    <2> QED BY <1>1, <1>2, <1>5, <1>6, ScopedApart
  <1>8. q.project = u.project /\ Cat(Bar, m) = Cat(Bar, n)
    <2> HIDE DEF m, n
    <2> QED BY <1>1, <1>4, <1>7, CatOption
  <1>9. m = n
    <2> HIDE DEF m, n
    <2> QED BY <1>4, <1>8, CatCancels
  <1>10. q.milestone = u.milestone
    <2> DEFINE e == <<>>
    <2>1. IsText(e)
      BY EmptySeq DEF IsText
    <2> HIDE DEF e
    <2>2. Cat(OptionalKey(q.milestone), e) = Cat(OptionalKey(u.milestone), e)
      BY <1>9
    <2> QED BY <1>1, <2>1, <2>2, CatOption
  <1> QED BY <1>7, <1>8, <1>10

\* A key of last results names the project, or joins the scope behind another word.
Rest(q) == IF q.project # <<>> THEN <<"project", "|">> \o q.project
           ELSE IF ~q.limited THEN <<"all">>
           ELSE <<"projects", "|">> \o FlattenSeq([n \in DOMAIN q.reach |->
                    (IF n = 1 THEN <<>> ELSE <<",">>) \o q.reach[n]])

\* One token is a text.
LEMMA OneToken == ASSUME NEW S, NEW a \in S PROVE <<a>> \in Seq(S)
  OBVIOUS

\* So is the comma between identifiers.
LEMMA CommaText == <<",">> \in Seq(Tokens)
  <1>1. "," \in Tokens
    BY Zenon DEF Tokens
  <1> QED BY <1>1, OneToken, Zenon

\* Identifiers joined by commas are a text.
LEMMA JoinedText ==
    ASSUME NEW r, r \in Seq(Names)
    PROVE  IsText(FlattenSeq([n \in DOMAIN r |-> (IF n = 1 THEN <<>> ELSE <<",">>) \o r[n]]))
  <1> DEFINE rt == [n \in DOMAIN r |-> (IF n = 1 THEN <<>> ELSE <<",">>) \o r[n]]
  <1>1. Len(r) \in Nat /\ DOMAIN r = 1..Len(r) /\ \A n \in 1..Len(r) : r[n] \in Names
    BY LenProperties, ElementOfSeq
  <1>2. rt \in [1..Len(r) -> Seq(Tokens)]
    <2>1. ASSUME NEW n \in 1..Len(r) PROVE (IF n = 1 THEN <<>> ELSE <<",">>) \o r[n] \in Seq(Tokens)
      <3> DEFINE c == IF n = 1 THEN <<>> ELSE <<",">>
      <3>1. r[n] \in Seq(Tokens)
        BY <1>1, TextFacts
      <3>2. <<",">> \in Seq(Tokens)
        BY CommaText
      <3>3. c \in Seq(Tokens)
        <4>1. <<>> \in Seq(Tokens)
          BY EmptySeq
        <4> QED BY <3>2, <4>1, Zenon
      <3> HIDE DEF c
      <3>4. c \o r[n] \in Seq(Tokens)
        BY <3>1, <3>3, ConcatProperties
      <3> QED BY <3>4 DEF c
    <2> QED BY <1>1, <2>1, Zenon
  <1> HIDE DEF rt
  <1>3. PICK F : Joins(F, rt, Len(r), Tokens) /\ FlattenSeq(rt) = F[Len(r)]
    BY <1>1, <1>2, FlattenSteps
  <1>4. FlattenSeq(rt) \in Seq(Tokens)
    BY <1>1, <1>3 DEF Joins
  <1> QED BY <1>4 DEF rt, IsText

\* A word and a separator begin with the word.
LEMMA FirstWord ==
    ASSUME NEW a, NEW x, <<a, "|">> \in Seq(Tokens), IsText(x)
    PROVE  (<<a, "|">> \o x)[1] = a
  <1> DEFINE b == <<a, "|">>
  <1>1. b \in Seq(Tokens) /\ Len(b) = 2 /\ b[1] = a /\ x \in Seq(Tokens)
    BY DEF IsText
  <1> HIDE DEF b
  <1>2. /\ Len(x) \in Nat
        /\ \A i \in 1 .. Len(b) + Len(x) : (b \o x)[i] = IF i <= Len(b) THEN b[i] ELSE x[i - Len(b)]
    BY <1>1, ConcatProperties, LenProperties, Zenon
  <1>3. (b \o x)[1] = a
    BY <1>1, <1>2
  <1> QED BY <1>3 DEF b

\* With a project the rest of the key begins with another word than without one.
LEMMA RestFacts ==
    ASSUME NEW q, Filtered(q)
    PROVE  /\ IsText(Rest(q))
           /\ q.project # <<>> => Rest(q)[1] = "project" /\ IsText(q.project)
           /\ q.project = <<>> => Rest(q)[1] # "project"
  <1> DEFINE j == FlattenSeq([n \in DOMAIN q.reach |-> (IF n = 1 THEN <<>> ELSE <<",">>) \o q.reach[n]])
  <1>1. CASE q.project # <<>>
    <2> DEFINE p == q.project
    <2>1. p \in Names
      BY <1>1 DEF Filtered
    <2>2. IsText(p)
      BY <2>1, TextFacts DEF IsText
    <2>3. Rest(q) = <<"project", "|">> \o p
      BY <1>1 DEF Rest
    <2> HIDE DEF p
    <2>4. (<<"project", "|">> \o p)[1] = "project"
      BY <2>2, LeadFacts, FirstWord
    <2>5. <<"project", "|">> \o p \in Seq(Tokens)
      BY <2>2, LeadFacts, ConcatProperties DEF IsText
    <2> QED BY <1>1, <2>2, <2>3, <2>4, <2>5 DEF IsText, p
  <1>2. CASE q.project = <<>> /\ q.limited = TRUE
    <2>1. IsText(j)
      BY <1>2, JoinedText DEF Filtered, IsReach
    <2>2. Rest(q) = <<"projects", "|">> \o j
      BY <1>2 DEF Rest
    <2> HIDE DEF j
    <2>3. (<<"projects", "|">> \o j)[1] = "projects"
      BY <2>1, LeadFacts, FirstWord
    <2>4. <<"projects", "|">> \o j \in Seq(Tokens)
      BY <2>1, LeadFacts, ConcatProperties DEF IsText
    <2> QED BY <1>2, <2>2, <2>3, <2>4 DEF IsText
  <1>3. CASE q.project = <<>> /\ q.limited # TRUE
    <2>1. Rest(q) = <<"all">>
      BY <1>3 DEF Rest, Filtered, IsReach
    <2> QED BY <1>3, <2>1, LeadFacts DEF IsText
  <1> QED BY <1>1, <1>2, <1>3

\* The same key of last results is the same request.
LEMMA LastResultsApart ==
    ASSUME NEW q, NEW u, Filtered(q), Filtered(u), LastResultsKey(q) = LastResultsKey(u)
    PROVE  q.limited = u.limited /\ q.reach = u.reach /\ q.project = u.project
  <1> DEFINE lead == <<"last-results", "|">>
             x == Rest(q)
             y == Rest(u)
  <1>1. IsReach(q) /\ IsReach(u)
    BY DEF Filtered
  <1>2. IsText(lead)
    BY LeadFacts DEF IsText
  <1>3. Cat(Cat(Cat(lead, ScopeKey(q)), Bar), x) = Cat(Cat(Cat(lead, ScopeKey(u)), Bar), y)
    BY DEF LastResultsKey, Cat, Bar, Rest
  <1>4. IsText(x) /\ IsText(y)
    BY RestFacts
  <1>5. q.limited = u.limited /\ q.reach = u.reach /\ x = y
    <2> HIDE DEF lead, x, y
    <2> QED BY <1>1, <1>2, <1>3, <1>4, ScopedApart
  <1>6. q.project = <<>> <=> u.project = <<>>
    BY <1>5, RestFacts
  <1>7. CASE q.project # <<>>
    <2> DEFINE w == <<"project", "|">>
    <2>1. Cat(w, q.project) = Cat(w, u.project)
      BY <1>5, <1>6, <1>7 DEF Rest, Cat
    <2>2. IsText(q.project) /\ IsText(u.project)
      BY <1>6, <1>7, RestFacts
    <2>3. IsText(w)
      BY LeadFacts DEF IsText
    <2> HIDE DEF w
    <2> QED BY <1>5, <2>1, <2>2, <2>3, CatCancels
  <1> QED BY <1>5, <1>6, <1>7

\* The same key of a listing is the same request.
LEMMA NamesApart ==
    ASSUME NEW q, NEW u, Filtered(q), Filtered(u), NamesKey(q) = NamesKey(u)
    PROVE  q.limited = u.limited /\ q.reach = u.reach
  <1> DEFINE lead == <<"names", "|">>
             e == <<>>
  <1>1. IsReach(q) /\ IsReach(u)
    BY DEF Filtered
  <1>2. IsText(lead) /\ IsText(e) /\ Ends(e)
    BY LeadFacts, EmptySeq DEF IsText, Ends
  <1>3. Cat(lead, ScopeKey(q)) = Cat(lead, ScopeKey(u))
    BY DEF NamesKey, Cat
  <1> HIDE DEF lead, e
  <1>4. IsText(ScopeKey(q)) /\ IsText(ScopeKey(u))
    BY <1>1, CatParts
  <1>5. ScopeKey(q) = ScopeKey(u)
    BY <1>2, <1>3, <1>4, CatCancels
  <1>6. Cat(ScopeKey(q), e) = Cat(ScopeKey(u), e)
    BY <1>5
  <1> QED BY <1>1, <1>2, <1>6, CatScope

\* A pair of identifiers in some order is a scope.
LEMMA PairScope ==
    ASSUME NEW a \in Names, NEW b \in Names
    PROVE  SetToSeq({a, b}) \in Seq(Names)
  <1> DEFINE T == {a, b}
  <1>1. IsFiniteSet(T)
    <2>1. IsFiniteSet({a}) /\ IsFiniteSet({b})
      BY FS_Singleton
    <2>2. IsFiniteSet({a} \cup {b})
      BY <2>1, FS_Union
    <2> QED BY <2>2
  <1>2. T \subseteq Names
    OBVIOUS
  <1> HIDE DEF T
  <1>3. Cardinality(T) \in Nat /\ ExistsBijection(1..Cardinality(T), T)
    BY <1>1, FS_CardinalityType
  <1>4. PICK f \in Bijection(1..Cardinality(T), T) : TRUE
    BY <1>3 DEF ExistsBijection
  <1>5. f \in [1..Cardinality(T) -> T] /\ IsInjective(f)
    BY <1>4 DEF Bijection, Injection, IsInjective
  <1>6. SetToSeq(T) \in [1..Cardinality(T) -> T]
    BY <1>5, Zenon DEF SetToSeq
  <1>7. SetToSeq(T) \in Seq(T)
    BY <1>3, <1>6, SeqDef
  <1>8. SetToSeq(T) \in Seq(Names)
    BY <1>2, <1>7, SeqMonotonic, Zenon
  <1> QED BY <1>8 DEF T

\* Two identifiers in some order.
TwoNames(a, b) == SetToSeq({a, b})

\* The scopes, with the pair named.
LEMMA ScopesAre ==
    Scopes = {<<>>} \union {<<a>> : a \in Names} \union {TwoNames(a, b) : a, b \in Names}
  BY DEF Scopes, TwoNames

\* Every scope is a sequence of identifiers.
LEMMA ScopesAreScopes == Scopes \subseteq Seq(Names)
  <1> SUFFICES ASSUME NEW r \in Scopes PROVE r \in Seq(Names)
    OBVIOUS
  <1>1. CASE r = <<>>
    BY <1>1, EmptySeq
  <1>2. ASSUME NEW a \in Names, r = <<a>> PROVE r \in Seq(Names)
    BY <1>2
  <1>3. ASSUME NEW a \in Names, NEW b \in Names, r = TwoNames(a, b) PROVE r \in Seq(Names)
    BY <1>3, PairScope DEF TwoNames
  <1>4. r = <<>> \/ (\E a \in Names : r = <<a>>) \/ \E a, b \in Names : r = TwoNames(a, b)
    BY ScopesAre
  <1> QED BY <1>1, <1>2, <1>3, <1>4, Zenon

\* What a finite set is mapped onto is finite, and as large where nothing coincides.
LEMMA AsMany ==
    ASSUME NEW S, IsFiniteSet(S), NEW T, NEW f \in [S -> T], \A t \in T : \E q \in S : f[q] = t
    PROVE  /\ IsFiniteSet(T)
           /\ (\A q, u \in S : f[q] = f[u] => q = u) => Cardinality(T) = Cardinality(S)
  <1>1. f \in Surjection(S, T)
    BY DEF Surjection
  <1>2. (\A q, u \in S : f[q] = f[u] => q = u) => f \in Injection(S, T)
    BY DEF Injection, IsInjective
  <1>3. IsFiniteSet(T) /\ (Cardinality(T) = Cardinality(S) <=> f \in Injection(S, T))
    BY <1>1, FS_Surjection
  <1> QED BY <1>2, <1>3

\* There are finitely many scopes,
LEMMA ScopesFinite == IsFiniteSet(Scopes)
  <1> DEFINE A == {<<a>> : a \in Names}
             B == {TwoNames(a, b) : a, b \in Names}
             f == [a \in Names |-> <<a>>]
             g == [c \in Names \X Names |-> TwoNames(c[1], c[2])]
  <1>1. IsFiniteSet(Names) /\ IsFiniteSet(Names \X Names) /\ IsFiniteSet({<<>>})
    BY NamesAssumption, FS_Product, FS_Singleton
  <1>2. f \in [Names -> A] /\ \A t \in A : \E q \in Names : f[q] = t
    OBVIOUS
  <1>3. g \in [Names \X Names -> B] /\ \A t \in B : \E q \in Names \X Names : g[q] = t
    <2>1. \A c \in Names \X Names : TwoNames(c[1], c[2]) \in B
      <3> TAKE c \in Names \X Names
      <3>1. c[1] \in Names /\ c[2] \in Names
        OBVIOUS
      <3> DEFINE a == c[1]
                 b == c[2]
      <3> HIDE DEF a, b
      <3>2. a \in Names /\ b \in Names
        BY <3>1 DEF a, b
      <3>3. TwoNames(a, b) \in B
        BY <3>2
      <3> QED BY <3>3 DEF a, b
    <2>2. ASSUME NEW t \in B PROVE \E q \in Names \X Names : g[q] = t
      <3>1. PICK a \in Names, b \in Names : t = TwoNames(a, b)
        BY <2>2
      <3>2. <<a, b>> \in Names \X Names /\ g[<<a, b>>] = t
        BY <3>1
      <3> QED BY <3>2
    <2> HIDE DEF B
    <2> QED BY <2>1, <2>2
  <1> HIDE DEF f, g
  <1>4. Scopes = ({<<>>} \union A) \union B
    BY ScopesAre
  <1> HIDE DEF A, B
  <1>5. IsFiniteSet(A)
    BY <1>1, <1>2, AsMany
  <1>6. IsFiniteSet(B)
    <2> DEFINE P == Names \X Names
    <2>1. IsFiniteSet(P) /\ g \in [P -> B] /\ \A t \in B : \E q \in P : g[q] = t
      BY <1>1, <1>3
    <2> HIDE DEF P
    <2> QED BY <2>1, AsMany
  <1>7. IsFiniteSet({<<>>} \union A)
    BY <1>1, <1>5, FS_Union
  <1> QED BY <1>4, <1>6, <1>7, FS_Union

\* and finitely many requests,
LEMMA KeyedFinite ==
    ASSUME NEW A, NEW B, IsFiniteSet(A), IsFiniteSet(B)
    PROVE  IsFiniteSet(Keyed(A, B))
  <1> DEFINE Whose == {<<TRUE, r>> : r \in Scopes} \union {<<FALSE, <<>>>>}
             P == Whose \X (A \X B)
             K == Keyed(A, B)
             Of(c) == [limited |-> c[1][1], reach |-> c[1][2], project |-> c[2][1], milestone |-> c[2][2]]
             f == [c \in P |-> Of(c)]
  <1>1. IsFiniteSet(P)
    <2> DEFINE Q == A \X B
               W == {<<TRUE, r>> : r \in Scopes}
               V == {<<FALSE, <<>>>>}
               g == [r \in Scopes |-> <<TRUE, r>>]
    <2>1. IsFiniteSet(Q)
      BY FS_Product
    <2>2. g \in [Scopes -> W] /\ \A t \in W : \E r \in Scopes : g[r] = t
      OBVIOUS
    <2>3. IsFiniteSet(V)
      BY FS_Singleton
    <2>4. Whose = W \union V
      OBVIOUS
    <2> HIDE DEF g, W, V, Q, Whose
    <2>5. IsFiniteSet(W)
      BY <2>2, ScopesFinite, AsMany
    <2>6. IsFiniteSet(Whose)
      BY <2>3, <2>4, <2>5, FS_Union
    <2>7. IsFiniteSet(Whose \X Q)
      BY <2>1, <2>6, FS_Product
    <2> QED BY <2>7 DEF Q
  <1>2. f \in [P -> K]
    <2>1. ASSUME NEW c \in P PROVE Of(c) \in K
      <3>1. c[1] \in Whose /\ c[2][1] \in A /\ c[2][2] \in B
        OBVIOUS
      <3>2. CASE c[1] = <<FALSE, <<>>>>
        BY <3>1, <3>2 DEF Keyed
      <3>3. ASSUME NEW r \in Scopes, c[1] = <<TRUE, r>> PROVE Of(c) \in K
        BY <3>1, <3>3 DEF Keyed
      <3> QED BY <3>1, <3>2, <3>3
    <2> QED BY <2>1
  <1>3. ASSUME NEW t \in K PROVE \E c \in P : f[c] = t
    <2> DEFINE c == <<<<t.limited, t.reach>>, <<t.project, t.milestone>>>>
    <2>1. c \in P /\ Of(c) = t
      <3>1. t.project \in A /\ t.milestone \in B
        BY DEF Keyed
      <3>2. <<t.limited, t.reach>> \in Whose
        <4>1. CASE t \in [limited : {TRUE}, reach : Scopes, project : A, milestone : B]
          BY <4>1
        <4>2. CASE t \in [limited : {FALSE}, reach : {<<>>}, project : A, milestone : B]
          BY <4>2
        <4> QED BY <4>1, <4>2 DEF Keyed
      <3>3. t = [limited |-> t.limited, reach |-> t.reach, project |-> t.project, milestone |-> t.milestone]
        BY DEF Keyed
      <3> HIDE DEF Whose, K
      <3> QED BY <3>1, <3>2, <3>3
    <2> HIDE DEF c, P, Of
    <2>2. f[c] = t
      BY <2>1
    <2> QED BY <2>1, <2>2
  <1> HIDE DEF f, P, K
  <1>4. IsFiniteSet(K)
    BY <1>1, <1>2, <1>3, AsMany
  <1> QED BY <1>4 DEF K

\* each of which is one a key is made for.
LEMMA KeyedFiltered ==
    ASSUME NEW A, NEW B, A \subseteq Names \union {<<>>}, B \subseteq Names \union {<<>>}, NEW q \in Keyed(A, B)
    PROVE  /\ Filtered(q) /\ q.project \in A /\ q.milestone \in B
           /\ q = [limited |-> q.limited, reach |-> q.reach, project |-> q.project, milestone |-> q.milestone]
  <1>1. CASE q \in [limited : {TRUE}, reach : Scopes, project : A, milestone : B]
    <2>1. /\ q.limited = TRUE /\ q.reach \in Scopes /\ q.project \in A /\ q.milestone \in B
          /\ q = [limited |-> q.limited, reach |-> q.reach, project |-> q.project, milestone |-> q.milestone]
      BY <1>1
    <2> QED BY <2>1, ScopesAreScopes DEF Filtered, IsReach
  <1>2. CASE q \in [limited : {FALSE}, reach : {<<>>}, project : A, milestone : B]
    <2>1. /\ q.limited = FALSE /\ q.reach = <<>> /\ q.project \in A /\ q.milestone \in B
          /\ q = [limited |-> q.limited, reach |-> q.reach, project |-> q.project, milestone |-> q.milestone]
      BY <1>2
    <2> QED BY <2>1 DEF Filtered, IsReach
  <1> QED BY <1>1, <1>2 DEF Keyed

\* As many keys as requests.
LEMMA KeysAreApart == KeysApart
  <1> DEFINE O == Names \union {<<>>}
             E == {<<>>}
             L == {<<>>} \union {n \in Names : Len(n) = 1}
             summaries == Keyed(O, L)
             latest == Keyed(O, E)
             listings == Keyed(E, E)
  <1>1. IsFiniteSet(O) /\ IsFiniteSet(E) /\ IsFiniteSet(L)
    <2>1. IsFiniteSet(Names) /\ IsFiniteSet(E)
      BY NamesAssumption, FS_Singleton
    <2>2. IsFiniteSet(O)
      BY <2>1, FS_Union
    <2>3. L \in SUBSET O
      OBVIOUS
    <2> HIDE DEF L, O
    <2> QED BY <2>1, <2>2, <2>3, FS_Subset
  <1>2. O \subseteq Names \union {<<>>} /\ E \subseteq Names \union {<<>>} /\ L \subseteq Names \union {<<>>}
    OBVIOUS
  <1>3. E = {<<>>}
    OBVIOUS
  <1>4. KeysApart = (/\ Cardinality({SummaryKey(q) : q \in summaries}) = Cardinality(summaries)
                     /\ Cardinality({LastResultsKey(q) : q \in latest}) = Cardinality(latest)
                     /\ Cardinality({NamesKey(q) : q \in listings}) = Cardinality(listings))
    BY Zenon DEF KeysApart
  <1> HIDE DEF O, E, L
  <1>5. Cardinality({SummaryKey(q) : q \in summaries}) = Cardinality(summaries)
    <2> DEFINE S == summaries
               f == [q \in S |-> SummaryKey(q)]
               T == {SummaryKey(q) : q \in S}
    <2>1. IsFiniteSet(S)
      BY <1>1, KeyedFinite
    <2>2. \A q \in S : /\ Filtered(q) /\ q.project \in O /\ q.milestone \in L
                       /\ q = [limited |-> q.limited, reach |-> q.reach, project |-> q.project, milestone |-> q.milestone]
      BY <1>2, KeyedFiltered
    <2> HIDE DEF S
    <2>3. ASSUME NEW q \in S, NEW u \in S, SummaryKey(q) = SummaryKey(u) PROVE q = u
      <3>1. q.limited = u.limited /\ q.reach = u.reach /\ q.project = u.project /\ q.milestone = u.milestone
        BY <2>2, <2>3, SummaryApart
      <3> QED BY <2>2, <3>1
    <2>4. f \in [S -> T] /\ (\A t \in T : \E q \in S : f[q] = t) /\ \A q, u \in S : f[q] = f[u] => q = u
      BY <2>3
    <2> HIDE DEF f, T
    <2>5. Cardinality(T) = Cardinality(S)
      BY <2>1, <2>4, AsMany
    <2> QED BY <2>5 DEF T, S
  <1>6. Cardinality({LastResultsKey(q) : q \in latest}) = Cardinality(latest)
    <2> DEFINE S == latest
               f == [q \in S |-> LastResultsKey(q)]
               T == {LastResultsKey(q) : q \in S}
    <2>1. IsFiniteSet(S)
      BY <1>1, KeyedFinite
    <2>2. \A q \in S : /\ Filtered(q) /\ q.project \in O /\ q.milestone \in E
                       /\ q = [limited |-> q.limited, reach |-> q.reach, project |-> q.project, milestone |-> q.milestone]
      BY <1>2, KeyedFiltered
    <2> HIDE DEF S
    <2>3. ASSUME NEW q \in S, NEW u \in S, LastResultsKey(q) = LastResultsKey(u) PROVE q = u
      <3>1. q.limited = u.limited /\ q.reach = u.reach /\ q.project = u.project
        BY <2>2, <2>3, LastResultsApart
      <3>2. q.milestone = u.milestone
        BY <1>3, <2>2
      <3> QED BY <2>2, <3>1, <3>2
    <2>4. f \in [S -> T] /\ (\A t \in T : \E q \in S : f[q] = t) /\ \A q, u \in S : f[q] = f[u] => q = u
      BY <2>3
    <2> HIDE DEF f, T
    <2>5. Cardinality(T) = Cardinality(S)
      BY <2>1, <2>4, AsMany
    <2> QED BY <2>5 DEF T, S
  <1>7. Cardinality({NamesKey(q) : q \in listings}) = Cardinality(listings)
    <2> DEFINE S == listings
               f == [q \in S |-> NamesKey(q)]
               T == {NamesKey(q) : q \in S}
    <2>1. IsFiniteSet(S)
      BY <1>1, KeyedFinite
    <2>2. \A q \in S : /\ Filtered(q) /\ q.project \in E /\ q.milestone \in E
                       /\ q = [limited |-> q.limited, reach |-> q.reach, project |-> q.project, milestone |-> q.milestone]
      BY <1>2, KeyedFiltered
    <2> HIDE DEF S
    <2>3. ASSUME NEW q \in S, NEW u \in S, NamesKey(q) = NamesKey(u) PROVE q = u
      <3>1. q.limited = u.limited /\ q.reach = u.reach
        BY <2>2, <2>3, NamesApart
      <3>2. q.milestone = u.milestone /\ q.project = u.project
        BY <1>3, <2>2
      <3> QED BY <2>2, <3>1, <3>2
    <2>4. f \in [S -> T] /\ (\A t \in T : \E q \in S : f[q] = t) /\ \A q, u \in S : f[q] = f[u] => q = u
      BY <2>3
    <2> HIDE DEF f, T
    <2>5. Cardinality(T) = Cardinality(S)
      BY <2>1, <2>4, AsMany
    <2> QED BY <2>5 DEF T, S
  <1> QED BY <1>4, <1>5, <1>6, <1>7

\* The key under which the answer to a report is cached is that of no request with
\* another scope or other filters: a name is written behind its length, so that no
\* character in it can be taken for a separator.
THEOREM Keys == ReportsSpec => []KeysTellApart
  <1>1. KeysTellApart
    BY KeysAreApart DEF KeysTellApart
  <1> QED BY <1>1, PTL

=============================================================================
