---------------------------- MODULE Attachments ----------------------------
(***************************************************************************)
(* The files attached to one case and to its structured steps: each is a   *)
(* file in the case folder, or in its steps/<index> folder, and a record   *)
(* in the case document (src/src/storage/fs/attachments.rs,                *)
(* src/src/domain/service/attachments.rs, src/src/api/cases.rs).           *)
(*                                                                         *)
(* An upload writes the file and then the record, a deletion removes the   *)
(* file and then the record, both under the lock; a request is cut short   *)
(* between the two by a crash or by a failing write.  A deletion of the     *)
(* case unlinks its entries one at a time, in no order of its own, and may *)
(* be cut short too.  Meanwhile the case is edited and created again, by   *)
(* bodies that may list any names; those writes hold the lock for one      *)
(* publication, and CaseStore has their steps.                             *)
(***************************************************************************)
EXTENDS Integers, SequencesExt

CONSTANTS
    Requests,   \* request threads; an upload stores its file under a unique name: its own
    MaxSteps,   \* bound on the steps of the case
    MaxEdits,   \* bound on the edits and creations of the case
    Claims,     \* the lists of names a client's body may carry
    NoOne, NoCase,
    Kinds,      \* the operations this instance exercises
    Faults      \* {"crash", "io"} or less

AllKinds == {"upload", "remove", "read", "list", "edit", "delete", "create"}

ASSUME AttachmentsAssumption ==
    /\ NoOne \notin Requests /\ MaxSteps \in Nat /\ MaxEdits \in Nat
    /\ Claims \subseteq SUBSET Requests
    /\ Kinds \subseteq AllKinds /\ Faults \subseteq {"crash", "io"}

\* Place 0 is the case itself; place i > 0 its step of index i - 1.
Places == 0 .. MaxSteps

Names == Requests

Steps == [kind : {"plain", "structured"}, files : SUBSET Names]

ASSUME NoCaseAssumption == NoCase \notin [attachments : SUBSET Names, steps : Seq(Steps)]

VARIABLES
    lock,      \* the request holding .tatu.lock
    doc,       \* the case document: [attachments, steps], or NoCase
    stored,    \* the files in each folder of the case
    pc, op,    \* where each request is, and what it was asked: [kind, place, name]
    next,      \* the document a request is about to publish
    answer,    \* what each request was answered
    disturbed, \* a body changed what the case lists, or a request was cut short
    claimed,   \* the names a body was the first to list
    edits      \* how often the case was edited or created

vars == <<lock, doc, stored, pc, op, next, answer, disturbed, claimed, edits>>

NoOp == [kind |-> "read", place |-> 0, name |-> NoOne]

\* The steps a client may send: none, a plain one, a structured one, or one of
\* each.  Nobody compares the attachments a body lists with the files there are.
PlainStep == [kind |-> "plain", files |-> {}]
StructuredStep(files) == [kind |-> "structured", files |-> files]
Bodies ==
    {s \in {<<>>, <<PlainStep>>}
           \union {<<StructuredStep(c)>> : c \in Claims}
           \union {<<StructuredStep(c), PlainStep>> : c \in Claims} : Len(s) <= MaxSteps}

NewCases == [attachments : Claims, steps : Bodies]

(* ------------------------------ the document ----------------------------- *)

\* The step exists and can carry metadata; the case always can.
Structured(document, place) ==
    place \in {0} \union {i \in 1 .. Len(document.steps) : document.steps[i].kind = "structured"}

Listed(document, place) ==
    IF place = 0 THEN document.attachments
    ELSE IF place <= Len(document.steps) THEN document.steps[place].files ELSE {}

\* What a client that reads the case is shown at a place.
Shown(document, place) == IF document = NoCase THEN {} ELSE Listed(document, place)

\* Every name the case lists, at any place.
AllListed(document) == UNION {Shown(document, p) : p \in Places}

WithListed(document, place, names) ==
    IF place = 0 THEN [document EXCEPT !.attachments = names]
    ELSE [document EXCEPT !.steps[place].files = names]

(* ------------------------- lockless beginnings ------------------------- *)

Goto(r, phase) == pc' = [pc EXCEPT ![r] = phase]

\* The locals of an answered request are gone; what an upload was asked is kept
\* for the properties.
Finish(r, status) ==
    /\ Goto(r, "done")
    /\ answer' = [answer EXCEPT ![r] = status]
    /\ next' = [next EXCEPT ![r] = NoCase]
    /\ op' = [op EXCEPT ![r] = IF @.kind = "upload" THEN @ ELSE NoOp]

\* A request resolves the case before anything else, and goes on at phase.
Ask(r, kind, place, name, phase) ==
    /\ pc[r] = "idle" /\ kind \in Kinds
    /\ \/ doc = NoCase /\ Finish(r, "missing")
       \/ /\ doc # NoCase
          /\ op' = [op EXCEPT ![r] = [kind |-> kind, place |-> place, name |-> name]]
          /\ Goto(r, phase) /\ UNCHANGED <<next, answer>>
    /\ UNCHANGED <<lock, doc, stored, disturbed, claimed, edits>>

UploadCaseFile(r) == Ask(r, "upload", 0, r, "body")

UploadStepFile(r, step) == Ask(r, "upload", step, r, "body")

DeleteCaseFile(r, name) == Ask(r, "remove", 0, name, "waiting")

DeleteStepFile(r, step, name) == Ask(r, "remove", step, name, "waiting")

DownloadCaseFile(r, name) == Ask(r, "read", 0, name, "opening")

DownloadStepFile(r, step, name) == Ask(r, "read", step, name, "opening")

ListStepFiles(r, step) == Ask(r, "list", step, NoOne, "opening")

DeleteCase(r) == Ask(r, "delete", 0, NoOne, "waiting")

\* The parts a multipart body may begin with, and how uploaded_file refuses them.
Parts == {"file", "oversized", "nameless", "unreadable", "none"}

UploadedFile(part) ==
    CASE part = "file" -> "ok"
      [] part = "oversized" -> "too_large"
      [] OTHER -> "invalid"

\* The body of an upload is read and its size checked; for a step, the document
\* is read to see that the step is there and structured.
ReadUpload(r) ==
    /\ pc[r] = "body"
    /\ \/ \E part \in Parts : UploadedFile(part) # "ok" /\ Finish(r, UploadedFile(part))
       \/ op[r].place > 0 /\ doc = NoCase /\ Finish(r, "missing")
       \/ doc # NoCase /\ ~Structured(doc, op[r].place) /\ Finish(r, "invalid")
       \/ /\ op[r].place = 0 \/ (doc # NoCase /\ Structured(doc, op[r].place))
          /\ Goto(r, "waiting") /\ UNCHANGED <<op, next, answer>>
    /\ UNCHANGED <<lock, doc, stored, disturbed, claimed, edits>>

\* A download opens the file without the lock.
ReadAttachment(r) ==
    /\ pc[r] = "opening" /\ op[r].kind = "read"
    /\ Finish(r, IF op[r].name \in stored[op[r].place] THEN "ok" ELSE "missing")
    /\ UNCHANGED <<lock, doc, stored, disturbed, claimed, edits>>

\* A listing reads the document again; the step may be gone by then, or plain.
ListStepAttachments(r) ==
    /\ pc[r] = "opening" /\ op[r].kind = "list"
    /\ Finish(r, IF doc = NoCase THEN "missing"
                 ELSE IF Structured(doc, op[r].place) THEN "ok" ELSE "invalid")
    /\ UNCHANGED <<lock, doc, stored, disturbed, claimed, edits>>

(* ------------------------- steps under the lock ------------------------- *)

AcquireLock(r) ==
    /\ pc[r] = "waiting" /\ lock = NoOne
    /\ lock' = r
    /\ Goto(r, "locked")
    /\ UNCHANGED <<doc, stored, op, next, answer, disturbed, claimed, edits>>

LockTimeout(r) ==
    /\ pc[r] = "waiting" /\ lock # NoOne
    /\ Finish(r, "busy")
    /\ UNCHANGED <<lock, doc, stored, disturbed, claimed, edits>>

Add(r) == [stored EXCEPT ![op[r].place] = @ \union {op[r].name}]
Drop(r) == [stored EXCEPT ![op[r].place] = @ \ {op[r].name}]

\* Answer and unlock, leaving the given files.
Release(r, status, files) ==
    /\ Finish(r, status) /\ lock' = NoOne
    /\ stored' = files
    /\ UNCHANGED doc

\* The case has to be there; the file is created, written and synced, and the
\* document read.
CreateFile(r) ==
    /\ pc[r] = "locked" /\ op[r].kind = "upload"
    /\ \/ doc = NoCase /\ Release(r, "missing", stored)
       \/ /\ doc # NoCase
          /\ stored' = Add(r) /\ Goto(r, "record")
          /\ next' = [next EXCEPT ![r] = doc]
          /\ UNCHANGED <<lock, doc, op, answer>>
    /\ UNCHANGED <<disturbed, claimed, edits>>

Advertise(r) ==
    /\ doc' = WithListed(next[r], op[r].place,
                         Listed(next[r], op[r].place) \union {op[r].name})
    /\ Finish(r, "ok") /\ lock' = NoOne
    /\ UNCHANGED stored

\* A fault of save_step_attachment: the file left behind when it is not recorded.
RecordAttachmentLeaving(r) ==
    /\ pc[r] = "record"
    /\ \/ ~Structured(next[r], op[r].place) /\ Release(r, "failed", stored)
       \/ Structured(next[r], op[r].place) /\ Advertise(r)
    /\ UNCHANGED <<disturbed, claimed, edits>>

\* The record is published, or the step is not there any more and the file goes
\* again.
RecordAttachment(r) ==
    /\ pc[r] = "record"
    /\ \/ ~Structured(next[r], op[r].place) /\ Release(r, "failed", Drop(r))
       \/ Structured(next[r], op[r].place) /\ Advertise(r)
    /\ UNCHANGED <<disturbed, claimed, edits>>

\* A file that is not there is a 404; otherwise it goes first.
RemoveFile(r) ==
    /\ pc[r] = "locked" /\ op[r].kind = "remove"
    /\ \/ op[r].name \notin stored[op[r].place] /\ Release(r, "missing", stored)
       \/ /\ op[r].name \in stored[op[r].place]
          /\ stored' = Drop(r) /\ Goto(r, "forget")
          /\ next' = [next EXCEPT ![r] = doc]
          /\ UNCHANGED <<lock, doc, op, answer>>
    /\ UNCHANGED <<disturbed, claimed, edits>>

\* The record goes, if its step is still there to carry it; a file left over from
\* a case whose document is gone has none.
ForgetAttachment(r) ==
    /\ pc[r] = "forget"
    /\ \/ next[r] = NoCase /\ Release(r, "missing", stored)
       \/ /\ next[r] # NoCase
          /\ doc' = IF Structured(next[r], op[r].place)
                    THEN WithListed(next[r], op[r].place,
                                    Listed(next[r], op[r].place) \ {op[r].name})
                    ELSE doc
          /\ Finish(r, "ok") /\ lock' = NoOne
          /\ UNCHANGED stored
    /\ UNCHANGED <<disturbed, claimed, edits>>

NothingLeft == doc = NoCase /\ \A p \in Places : stored[p] = {}

\* The folder of the case has to be there to be removed.
RemoveDirAll(r) ==
    /\ pc[r] = "locked" /\ op[r].kind = "delete"
    /\ \/ NothingLeft /\ Release(r, "missing", stored)
       \/ /\ ~NothingLeft /\ Goto(r, "removing")
          /\ UNCHANGED <<lock, doc, stored, op, next, answer>>
    /\ UNCHANGED <<disturbed, claimed, edits>>

\* The document or one of the files is unlinked, or everything is gone.
RemoveEntry(r) ==
    /\ pc[r] = "removing"
    /\ \/ /\ doc # NoCase /\ doc' = NoCase
          /\ UNCHANGED <<lock, stored, pc, op, next, answer, disturbed>>
       \/ /\ \E p \in Places : \E name \in stored[p] :
               stored' = [stored EXCEPT ![p] = @ \ {name}]
          /\ UNCHANGED <<lock, doc, pc, op, next, answer, disturbed>>
       \/ NothingLeft /\ Release(r, "ok", stored) /\ disturbed' = FALSE
    /\ UNCHANGED <<claimed, edits>>

\* A write fails.  The file stays behind as far as it was written ("torn": to the
\* client a 500 like the others); an upload whose record cannot be written removes
\* its file again; a deletion has removed its file already, and one of the case
\* whatever it came to.
WriteFails(r) ==
    /\ "io" \in Faults
    /\ \/ /\ pc[r] = "locked" /\ op[r].kind = "upload" /\ doc # NoCase
          /\ Release(r, "torn", Add(r))
       \/ pc[r] = "record" /\ Release(r, "failed", Drop(r))
       \/ pc[r] \in {"forget", "removing"} /\ Release(r, "failed", stored)
    /\ disturbed' = TRUE
    /\ UNCHANGED <<claimed, edits>>

\* The process dies; the lock goes with it.
Crash(r) ==
    /\ "crash" \in Faults
    /\ pc[r] \in {"body", "opening", "waiting", "locked", "record", "forget", "removing"}
    /\ Finish(r, "lost")
    /\ lock' = IF lock = r THEN NoOne ELSE lock
    /\ disturbed' = (disturbed \/ pc[r] \in {"record", "forget", "removing"})
    /\ UNCHANGED <<doc, stored, claimed, edits>>

(* ------------------------ the case, under the lock ----------------------- *)

Edited == edits < MaxEdits /\ edits' = edits + 1

\* What the body of the new document lists, and the old one did not, is the
\* client's word for it.
Sent ==
    /\ disturbed' = (disturbed \/ \E p \in Places : Shown(doc', p) # Shown(doc, p))
    /\ claimed' = claimed \union (AllListed(doc') \ AllListed(doc))

\* A fault of update: the files the new document does not list removed with it.
EditCaseSweeping ==
    /\ "edit" \in Kinds /\ lock = NoOne /\ doc # NoCase /\ Edited
    /\ \E names \in Claims \union {doc.attachments},
          steps \in Bodies \union {doc.steps, Reverse(doc.steps)} :
         doc' = [attachments |-> names, steps |-> steps]
    /\ Sent
    /\ stored' = [p \in Places |-> stored[p] \intersect Shown(doc', p)]
    /\ UNCHANGED <<lock, pc, op, next, answer>>

\* A PUT replaces the list of attachments and the steps as a whole, each by what
\* the body carries if it carries any: new ones, or the steps the client read,
\* also in another order, with what they list.
EditCase ==
    /\ "edit" \in Kinds /\ lock = NoOne /\ doc # NoCase /\ Edited
    /\ \E names \in Claims \union {doc.attachments},
          steps \in Bodies \union {doc.steps, Reverse(doc.steps)} :
         doc' = [attachments |-> names, steps |-> steps]
    /\ Sent
    /\ UNCHANGED <<lock, stored, pc, op, next, answer>>

\* A case is created where no document is; files a deletion left behind stay.
CreateCase ==
    /\ "create" \in Kinds /\ lock = NoOne /\ doc = NoCase /\ Edited
    /\ doc' \in NewCases
    /\ Sent
    /\ UNCHANGED <<lock, stored, pc, op, next, answer>>

(* ----------------------------- specification ----------------------------- *)

Init ==
    /\ lock = NoOne
    /\ doc \in NewCases \union {NoCase}
    /\ stored = [p \in Places |-> {}]
    /\ pc = [r \in Requests |-> "idle"]
    /\ op = [r \in Requests |-> NoOp]
    /\ next = [r \in Requests |-> NoCase]
    /\ answer = [r \in Requests |-> "none"]
    /\ disturbed = (AllListed(doc) # {})
    /\ claimed = AllListed(doc)
    /\ edits = 0

Client(r) ==
    \/ UploadCaseFile(r)
    \/ \E step \in Places \ {0} : UploadStepFile(r, step) \/ ListStepFiles(r, step)
    \/ \E name \in Names : DeleteCaseFile(r, name) \/ DownloadCaseFile(r, name)
    \/ \E step \in Places \ {0}, name \in Names :
         DeleteStepFile(r, step, name) \/ DownloadStepFile(r, step, name)
    \/ DeleteCase(r)

Server(r) ==
    ReadUpload(r) \/ ReadAttachment(r) \/ ListStepAttachments(r) \/ AcquireLock(r) \/ LockTimeout(r) \/ CreateFile(r)
    \/ RecordAttachment(r) \/ RemoveFile(r) \/ ForgetAttachment(r) \/ RemoveDirAll(r) \/ RemoveEntry(r)

\* Every request has been answered.
AllAnswered == (\A r \in Requests : pc[r] = "done") /\ UNCHANGED vars

Next ==
    \/ \E r \in Requests : Client(r) \/ Server(r) \/ WriteFails(r) \/ Crash(r)
    \/ EditCase \/ CreateCase
    \/ AllAnswered

Spec == Init /\ [][Next]_vars

(* ------------------------------ properties ------------------------------ *)

IsCase(document) ==
    /\ document.attachments \subseteq Names
    /\ document.steps \in Seq(Steps)
    /\ \A i \in 1 .. Len(document.steps) :
         document.steps[i].kind = "plain" => document.steps[i].files = {}

\* A plain step never carries attachment metadata, in the stored case and in one
\* about to be written (structured_step).
TypeOK ==
    /\ lock \in Requests \union {NoOne}
    /\ doc = NoCase \/ IsCase(doc)
    /\ stored \in [Places -> SUBSET Names]
    /\ pc \in [Requests -> {"idle", "body", "opening", "waiting", "locked", "record", "forget",
                           "removing", "done"}]
    /\ op \in [Requests -> [kind : AllKinds, place : Places, name : Names \union {NoOne}]]
    /\ \A r \in Requests : next[r] = NoCase \/ IsCase(next[r])
    /\ answer \in [Requests -> {"none", "ok", "missing", "invalid", "too_large", "busy",
                                "failed", "torn", "lost"}]
    /\ disturbed \in BOOLEAN /\ claimed \subseteq Names
    /\ edits \in 0 .. MaxEdits

\* Whatever uploads, deletions and re-creations of the case race, what the case
\* lists is what is stored, folder by folder, whenever nobody holds the lock;
\* only a body that lists something else or a request cut short can part the two,
\* until the case is deleted to its last entry (save_attachment,
\* delete_attachment, their step variants and delete_at).
ListedIsStored ==
    lock = NoOne /\ ~disturbed => \A p \in Places : stored[p] = Shown(doc, p)

\* What a case lists without a client's body having been the first to say so is an
\* upload that was answered with success, in a case created over what a deletion
\* left behind too (record_attachment, record_step_attachment).
ListedWasUploaded ==
    \A r \in AllListed(doc) \ claimed : op[r].kind = "upload" /\ answer[r] = "ok"

\* An upload that was answered with success stays readable, through crashes,
\* failing writes and edits, until a deletion that holds the lock names it or is
\* of the whole case (save_attachment syncs the file before it is advertised).
UploadsStay ==
    [][\A r \in Requests :
          /\ op[r].kind = "upload" /\ answer[r] = "ok"
          /\ r \in stored[op[r].place] /\ r \notin stored'[op[r].place]
          => \E q \in Requests :
               /\ lock = q
               /\ \/ op[q].kind = "remove" /\ op[q].name = r /\ op[q].place = op[r].place
                  \/ op[q].kind = "delete"]_stored

\* A name no body listed first is listed by a case only once the file it names is
\* stored where the record says: a client that reads the case is never pointed at
\* an upload still under way, nor at one that was refused (save_attachment,
\* save_step_attachment).
AdvertisedWhenStored ==
    [][\A r \in Requests \ claimed' :
           r \notin AllListed(doc) =>
               \A p \in Places : r \in Shown(doc', p) => r \in stored[p]]_doc

\* An upload that is refused leaves no file behind, also when the step it was
\* checked against was replaced while it waited for the lock, and when its record
\* cannot be written (save_step_attachment).
RefusedLeavesNothing ==
    \A r \in Requests :
        op[r].kind = "upload" /\ answer[r] \in {"missing", "invalid", "too_large", "busy", "failed"}
        => \A p \in Places : r \notin stored[p]

\* What the case says of its files is so, but for the names a client's body listed
\* first: a listed name was uploaded, and stored before it was listed; list and
\* folder agree while no body changed the list and no request was cut short; a
\* refused upload leaves nothing and a plain step lists nothing (the four above,
\* and TypeOK).
FilesMatchCase ==
    /\ [](TypeOK /\ ListedIsStored /\ ListedWasUploaded /\ RefusedLeavesNothing)
    /\ AdvertisedWhenStored
=============================================================================
