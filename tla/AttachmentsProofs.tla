------------------------- MODULE AttachmentsProofs -------------------------
(***************************************************************************)
(* Theorems about Attachments for any number of requests, steps and edits  *)
(* of the case, crashes and failing writes included.                       *)
(***************************************************************************)
EXTENDS Attachments, TLAPS

(* ------------------------ the inductive invariant ----------------------- *)

\* A case has its two fields and no more steps than there are places.
CaseOK(d) ==
    /\ d = [attachments |-> d.attachments, steps |-> d.steps]
    /\ IsCase(d) /\ Len(d.steps) <= MaxSteps

Phases == {"idle", "body", "opening", "waiting", "locked", "record", "forget", "removing", "done"}
Answers == {"ok", "missing", "invalid", "too_large", "busy", "failed", "torn", "lost"}
Ops == [kind : AllKinds, place : Places, name : Names \union {NoOne}]

ShapeInv ==
    /\ TypeOK
    /\ doc = NoCase \/ CaseOK(doc)
    /\ next = [r \in Requests |-> next[r]]

\* A request is between its read and its unlock exactly while it holds the lock.
LockInv == \A r \in Requests : pc[r] \in {"locked", "record", "forget", "removing"} <=> lock = r

\* An upload stores under its own name, at one place, from the moment it is
\* about to be recorded; it is kept if it was answered with success, and it may
\* be if it was cut short.  What is about to be published was made of the case
\* as it is now.
RequestOK(r) ==
    /\ op[r].kind = "upload" => op[r].name = r
    /\ answer[r] # "none" => pc[r] = "done"
    /\ pc[r] = "record" => op[r].kind = "upload" /\ r \in stored[op[r].place] /\ doc # NoCase
    /\ pc[r] = "forget" => op[r].kind = "remove"
    /\ pc[r] = "removing" => op[r].kind = "delete"
    /\ pc[r] \in {"record", "forget"} => next[r] = doc
    /\ \A p \in Places : r \in stored[p] =>
          /\ op[r].kind = "upload" /\ op[r].place = p
          /\ pc[r] = "record" \/ answer[r] \in {"ok", "torn", "lost"}

\* The phases in which the lock's holder has changed something and not everything.
Between == {"record", "forget", "removing"}

\* While no body changed the list and nothing was cut short, folder and list
\* differ only by the one file the lock's holder is about to record or to forget,
\* or by what a deletion of the case has unlinked.
SyncInv ==
    ~disturbed =>
        /\ (\A r \in Requests : pc[r] \notin Between) =>
              \A p \in Places : stored[p] = Shown(doc, p)
        /\ \A r \in Requests : pc[r] = "record" =>
              \A p \in Places : stored[p] = IF p = op[r].place THEN Shown(doc, p) \union {r} ELSE Shown(doc, p)
        /\ \A r \in Requests : pc[r] = "forget" =>
              \A p \in Places : stored[p] = IF p = op[r].place THEN Shown(doc, p) \ {op[r].name} ELSE Shown(doc, p)

IInv ==
    /\ ShapeInv /\ LockInv /\ SyncInv /\ ListedWasUploaded
    /\ \A r \in Requests : RequestOK(r)

(* --------------------------------- frames -------------------------------- *)

\* A step of one request leaves the locals of the others alone.
OthersKept(r) ==
    \A q \in Requests \ {r} :
        pc'[q] = pc[q] /\ op'[q] = op[q] /\ next'[q] = next[q] /\ answer'[q] = answer[q]

\* The locals of all requests have their shape after a step.
LocalsShaped ==
    /\ pc' \in [Requests -> Phases] /\ op' \in [Requests -> Ops]
    /\ answer' \in [Requests -> Answers \union {"none"}]
    /\ next' = [r \in Requests |-> next'[r]]
    /\ \A r \in Requests : next'[r] = NoCase \/ IsCase(next'[r])

\* A request without a task has the shape of one that has.
LEMMA NoOpShape == NoOp \in Ops /\ NoOp.kind = "read" /\ 0 \in Places
  BY AttachmentsAssumption DEF NoOp, Ops, AllKinds, Places

\* An answered request has no locals left but what an upload was asked.
LEMMA Finished ==
    ASSUME ShapeInv, NEW r \in Requests, NEW status \in Answers, Finish(r, status)
    PROVE  /\ LocalsShaped /\ OthersKept(r)
           /\ pc'[r] = "done" /\ answer'[r] = status
           /\ op'[r] = IF op[r].kind = "upload" THEN op[r] ELSE NoOp
  <1>1. pc' \in [Requests -> Phases] /\ pc'[r] = "done" /\ \A q \in Requests \ {r} : pc'[q] = pc[q]
    BY DEF ShapeInv, TypeOK, Finish, Goto, Phases
  <1>2. /\ op' \in [Requests -> Ops] /\ op'[r] = IF op[r].kind = "upload" THEN op[r] ELSE NoOp
        /\ \A q \in Requests \ {r} : op'[q] = op[q]
    <2>1. op \in [Requests -> Ops] /\ op' = [op EXCEPT ![r] = IF op[r].kind = "upload" THEN op[r] ELSE NoOp]
      BY DEF ShapeInv, TypeOK, Finish, Ops
    <2> QED BY <2>1, NoOpShape
  <1>3. /\ answer' \in [Requests -> Answers \union {"none"}] /\ answer'[r] = status
        /\ \A q \in Requests \ {r} : answer'[q] = answer[q]
    <2>1. answer \in [Requests -> Answers \union {"none"}]
      BY DEF ShapeInv, TypeOK, Answers
    <2> QED BY <2>1 DEF Finish
  <1>4. /\ next' = [q \in Requests |-> next'[q]] /\ next'[r] = NoCase
        /\ \A q \in Requests \ {r} : next'[q] = next[q]
    BY DEF ShapeInv, Finish
  <1>5. \A q \in Requests : next'[q] = NoCase \/ IsCase(next'[q])
    BY <1>4 DEF ShapeInv, TypeOK
  <1> QED BY <1>1, <1>2, <1>3, <1>4, <1>5 DEF LocalsShaped, OthersKept

\* What a step has to keep for the shape to stay.
LEMMA ShapeKept ==
    ASSUME ShapeInv, LocalsShaped, lock' \in Requests \union {NoOne},
           doc' = NoCase \/ CaseOK(doc'), stored' \in [Places -> SUBSET Names],
           disturbed' \in BOOLEAN, claimed' \subseteq Names, edits' \in 0 .. MaxEdits
    PROVE  ShapeInv'
  <1>1. doc' = NoCase \/ IsCase(doc')
    BY DEF CaseOK
  <1>2. TypeOK'
    BY <1>1 DEF TypeOK, LocalsShaped, Phases, Ops, Answers, IsCase
  <1> QED BY <1>2 DEF ShapeInv, LocalsShaped, CaseOK, IsCase

\* A request that has not created its file has none.
LEMMA NotStored ==
    ASSUME IInv, NEW r \in Requests, pc[r] \notin {"record", "done"}
    PROVE  answer[r] = "none" /\ \A p \in Places : r \notin stored[p]
  BY DEF IInv, RequestOK

\* A case lists names, and is one.
LEMMA CaseFacts ==
    ASSUME NEW d, CaseOK(d)
    PROVE  d # NoCase /\ \A p \in Places : Listed(d, p) \in SUBSET Names
  <1>1. d.attachments \in SUBSET Names /\ d.steps \in Seq(Steps)
    BY DEF CaseOK, IsCase
  <1>2. d # NoCase
    BY <1>1, NoCaseAssumption DEF CaseOK
  <1>3. ASSUME NEW p \in Places PROVE Listed(d, p) \in SUBSET Names
    <2>1. CASE p # 0 /\ p <= Len(d.steps)
      <3>1. d.steps[p] \in Steps
        BY <1>1, <2>1 DEF Places
      <3> QED BY <3>1, <2>1 DEF Listed, Steps
    <2> QED BY <1>1, <2>1 DEF Listed
  <1> QED BY <1>2, <1>3

\* What is shown at any place is listed, and is a name.
LEMMA AllFacts ==
    ASSUME NEW d, d = NoCase \/ CaseOK(d)
    PROVE  /\ AllListed(d) \subseteq Names
           /\ \A n : n \in AllListed(d) <=> \E p \in Places : n \in Shown(d, p)
           /\ \A p \in Places : Shown(d, p) \in SUBSET Names
  <1>1. \A p \in Places : Shown(d, p) \in SUBSET Names
    BY CaseFacts DEF Shown
  <1>2. \A n : n \in AllListed(d) <=> \E p \in Places : n \in Shown(d, p)
    BY DEF AllListed
  <1> QED BY <1>1, <1>2

\* What was uploaded stays so: the steps of a request change nothing of those
\* that have been answered.
LEMMA UploadedKept ==
    ASSUME IInv, NEW r \in Requests, pc[r] # "done", OthersKept(r),
           \A n \in AllListed(doc') \ claimed' :
               \/ n \in AllListed(doc) \ claimed
               \/ n = r /\ op'[r].kind = "upload" /\ answer'[r] = "ok"
    PROVE  ListedWasUploaded'
  <1> SUFFICES ASSUME NEW n \in AllListed(doc') \ claimed'
               PROVE  op'[n].kind = "upload" /\ answer'[n] = "ok"
    BY DEF ListedWasUploaded
  <1>1. CASE n \in AllListed(doc) \ claimed
    <2>1. n \in Requests /\ op[n].kind = "upload" /\ answer[n] = "ok"
      BY <1>1, AllFacts DEF IInv, ShapeInv, ListedWasUploaded, Names
    <2>2. n # r
      BY <2>1 DEF IInv, RequestOK
    <2> QED BY <2>1, <2>2 DEF OthersKept
  <1> QED BY <1>1

\* A step that touches neither the case nor its files: the others are where they
\* were, and so is what a request about to publish made.
LEMMA QuietInv ==
    ASSUME IInv, NEW r \in Requests, pc[r] # "done", UNCHANGED <<doc, stored, claimed, edits>>,
           disturbed' \in BOOLEAN, disturbed => disturbed',
           LocalsShaped, OthersKept(r), lock' \in Requests \union {NoOne}, LockInv',
           pc[r] \in Between => disturbed', pc'[r] \notin {"record", "forget"},
           RequestOK(r)'
    PROVE  IInv'
  <1>1. ShapeInv'
    BY ShapeKept DEF IInv, ShapeInv, TypeOK
  <1>2. ListedWasUploaded'
    BY UploadedKept
  <1>3. \A p \in Places : Shown(doc', p) = Shown(doc, p)
    OBVIOUS
  <1>4. SyncInv'
    <2> SUFFICES ASSUME ~disturbed' PROVE SyncInv'
      BY DEF SyncInv
    <2>1. ~disturbed /\ pc[r] \notin Between /\ SyncInv
      BY DEF IInv
    <2>2. (\A q \in Requests : pc'[q] \notin Between) => \A q \in Requests : pc[q] \notin Between
      BY <2>1 DEF OthersKept
    <2>3. \A q \in Requests : pc'[q] \in {"record", "forget"} => pc'[q] = pc[q] /\ op'[q] = op[q]
      BY DEF OthersKept
    <2> QED BY <1>3, <2>1, <2>2, <2>3, SMTT(40) DEF SyncInv
  <1>5. ASSUME NEW q \in Requests, q # r PROVE RequestOK(q)'
    BY <1>5 DEF OthersKept, IInv, RequestOK
  <1> QED BY <1>1, <1>2, <1>4, <1>5 DEF IInv

\* A request that did nothing to the files yet is answered.
LEMMA FinishInv ==
    ASSUME IInv, NEW r \in Requests, pc[r] \notin Between \union {"done"},
           NEW status \in Answers, Finish(r, status), UNCHANGED <<doc, stored, claimed, edits, disturbed>>,
           lock' = IF lock = r THEN NoOne ELSE lock
    PROVE  IInv'
  <1>1. /\ LocalsShaped /\ OthersKept(r) /\ pc'[r] = "done" /\ answer'[r] = status
        /\ op'[r] = IF op[r].kind = "upload" THEN op[r] ELSE NoOp
    BY Finished DEF IInv
  <1>2. RequestOK(r)'
    BY <1>1, NotStored, NoOpShape DEF IInv, RequestOK, Between
  <1>3. LockInv' /\ lock' \in Requests \union {NoOne}
    BY <1>1, AttachmentsAssumption DEF IInv, ShapeInv, TypeOK, LockInv, OthersKept, Between
  <1>4. disturbed' \in BOOLEAN
    BY DEF IInv, ShapeInv, TypeOK
  <1> QED BY <1>1, <1>2, <1>3, <1>4, QuietInv DEF Between

(* ------------------------ steps without the files ------------------------ *)

\* A request resolves the case and goes on.
LEMMA AskInv ==
    ASSUME IInv, NEW r \in Requests, NEW kind \in {"upload", "remove", "read", "list", "delete"},
           NEW place \in Places, NEW name \in Names \union {NoOne}, kind = "upload" => name = r,
           NEW phase \in {"body", "waiting", "opening"}, Ask(r, kind, place, name, phase)
    PROVE  IInv'
  <1>1. pc[r] = "idle" /\ UNCHANGED <<lock, doc, stored, disturbed, claimed, edits>>
    BY DEF Ask
  <1>2. lock # r
    BY <1>1 DEF IInv, LockInv
  <1>3. CASE Finish(r, "missing")
    BY <1>1, <1>2, <1>3, FinishInv DEF Answers, Between
  <1>4. CASE ~Finish(r, "missing")
    <2> DEFINE o == [kind |-> kind, place |-> place, name |-> name]
    <2>1. /\ op' = [op EXCEPT ![r] = o] /\ pc' = [pc EXCEPT ![r] = phase]
          /\ UNCHANGED <<next, answer>>
      BY <1>4 DEF Ask, Goto
    <2>2. o \in Ops /\ o.kind = kind /\ o.name = name
      BY DEF Ops, AllKinds
    <2> HIDE DEF o
    <2>3. LocalsShaped /\ OthersKept(r) /\ pc'[r] = phase /\ op'[r] = o /\ answer'[r] = answer[r]
      BY <2>1, <2>2 DEF IInv, ShapeInv, TypeOK, LocalsShaped, OthersKept, Phases, Ops, Answers
    <2>4. RequestOK(r)'
      BY <1>1, <2>2, <2>3, NotStored DEF RequestOK
    <2>5. LockInv' /\ lock' \in Requests \union {NoOne} /\ disturbed' \in BOOLEAN
      BY <1>1, <1>2, <2>3 DEF IInv, ShapeInv, TypeOK, LockInv, OthersKept
    <2> QED BY <1>1, <2>3, <2>4, <2>5, QuietInv DEF Between
  <1> QED BY <1>3, <1>4

\* Every request a client may send preserves the invariant.
LEMMA ClientInv ==
    ASSUME IInv, NEW r \in Requests, Client(r)
    PROVE  IInv'
  <1>1. CASE UploadCaseFile(r) \/ \E step \in Places \ {0} : UploadStepFile(r, step)
    BY <1>1, AskInv, NoOpShape DEF UploadCaseFile, UploadStepFile, Names
  <1>2. CASE \E step \in Places \ {0} : ListStepFiles(r, step)
    BY <1>2, AskInv DEF ListStepFiles
  <1>3. CASE \E name \in Names : DeleteCaseFile(r, name) \/ DownloadCaseFile(r, name)
    BY <1>3, AskInv, NoOpShape DEF DeleteCaseFile, DownloadCaseFile
  <1>4. CASE \E step \in Places \ {0}, name \in Names :
               DeleteStepFile(r, step, name) \/ DownloadStepFile(r, step, name)
    BY <1>4, AskInv DEF DeleteStepFile, DownloadStepFile
  <1>5. CASE DeleteCase(r)
    BY <1>5, AskInv, NoOpShape DEF DeleteCase
  <1> QED BY <1>1, <1>2, <1>3, <1>4, <1>5 DEF Client

\* A request moves on to another phase, and does nothing else.
LEMMA MoveInv ==
    ASSUME IInv, NEW r \in Requests, pc[r] \notin Between \union {"done"},
           NEW phase \in Phases \ {"record", "forget"}, Goto(r, phase),
           phase = "removing" => op[r].kind = "delete",
           UNCHANGED <<doc, stored, op, next, answer, disturbed, claimed, edits>>,
           lock' \in Requests \union {NoOne}, LockInv'
    PROVE  IInv'
  <1>1. pc' = [pc EXCEPT ![r] = phase]
    BY DEF Goto
  <1>2. LocalsShaped /\ OthersKept(r) /\ pc'[r] = phase
    BY <1>1 DEF IInv, ShapeInv, TypeOK, LocalsShaped, OthersKept, Phases, Ops, Answers
  <1>3. RequestOK(r)'
    BY <1>2, NotStored DEF IInv, RequestOK, Between
  <1>4. disturbed' \in BOOLEAN
    BY DEF IInv, ShapeInv, TypeOK
  <1> QED BY <1>2, <1>3, <1>4, QuietInv DEF Between

\* ReadUpload preserves the invariant.
LEMMA ReadUploadInv ==
    ASSUME IInv, NEW r \in Requests, ReadUpload(r)
    PROVE  IInv'
  <1>1. pc[r] = "body" /\ UNCHANGED <<lock, doc, stored, disturbed, claimed, edits>>
    BY DEF ReadUpload
  <1>2. lock # r
    BY <1>1 DEF IInv, LockInv
  <1>3. CASE \E status \in Answers : Finish(r, status)
    BY <1>1, <1>2, <1>3, FinishInv DEF Between
  <1>4. CASE ~\E status \in Answers : Finish(r, status)
    <2>1. Goto(r, "waiting") /\ UNCHANGED <<op, next, answer>>
      BY <1>4 DEF ReadUpload, UploadedFile, Parts, Answers
    <2>2. LockInv' /\ lock' \in Requests \union {NoOne}
      BY <1>1, <1>2, <2>1 DEF IInv, ShapeInv, TypeOK, LockInv, Goto
    <2> QED BY <1>1, <2>1, <2>2, MoveInv DEF Phases, Between
  <1> QED BY <1>3, <1>4

\* A download and a listing answer, and preserve the invariant.
LEMMA ReaderInv ==
    ASSUME IInv, NEW r \in Requests, ReadAttachment(r) \/ ListStepAttachments(r)
    PROVE  IInv'
  <1>1. pc[r] = "opening" /\ UNCHANGED <<lock, doc, stored, disturbed, claimed, edits>>
    BY DEF ReadAttachment, ListStepAttachments
  <1>2. lock # r
    BY <1>1 DEF IInv, LockInv
  <1>3. PICK status \in Answers : Finish(r, status)
    BY DEF ReadAttachment, ListStepAttachments, Answers
  <1> QED BY <1>1, <1>2, <1>3, FinishInv DEF Between

\* AcquireLock preserves the invariant.
LEMMA AcquireLockInv ==
    ASSUME IInv, NEW r \in Requests, AcquireLock(r)
    PROVE  IInv'
  <1>1. LockInv' /\ lock' \in Requests \union {NoOne}
    BY AttachmentsAssumption DEF IInv, ShapeInv, TypeOK, LockInv, AcquireLock, Goto
  <1> QED BY <1>1, MoveInv DEF AcquireLock, Phases, Between

\* LockTimeout preserves the invariant.
LEMMA LockTimeoutInv ==
    ASSUME IInv, NEW r \in Requests, LockTimeout(r)
    PROVE  IInv'
  <1>1. lock # r
    BY DEF IInv, LockInv, LockTimeout
  <1> QED BY <1>1, FinishInv DEF LockTimeout, Answers, Between

\* Crash preserves the invariant: a request cut short between its two steps has
\* disturbed the case.
LEMMA CrashInv ==
    ASSUME IInv, NEW r \in Requests, Crash(r)
    PROVE  IInv'
  <1>1. /\ LocalsShaped /\ OthersKept(r) /\ pc'[r] = "done" /\ answer'[r] = "lost"
        /\ op'[r] = IF op[r].kind = "upload" THEN op[r] ELSE NoOp
    BY Finished DEF IInv, Crash, Answers
  <1>2. RequestOK(r)'
    BY <1>1, NotStored, NoOpShape DEF IInv, RequestOK, Crash
  <1>3. LockInv' /\ lock' \in Requests \union {NoOne}
    BY <1>1, AttachmentsAssumption DEF IInv, ShapeInv, TypeOK, LockInv, OthersKept, Crash
  <1>4. /\ UNCHANGED <<doc, stored, claimed, edits>> /\ pc[r] # "done"
        /\ disturbed' = (disturbed \/ pc[r] \in Between)
    BY DEF Crash, Between
  <1>5. disturbed' \in BOOLEAN /\ (disturbed => disturbed') /\ (pc[r] \in Between => disturbed')
    BY <1>4
  <1> QED BY <1>1, <1>2, <1>3, <1>4, <1>5, QuietInv DEF Between

(* ---------------------- steps that change the files ---------------------- *)

\* A plain step, or one that is not there, lists nothing.
LEMMA NothingListed ==
    ASSUME NEW d, CaseOK(d), NEW p \in Places, ~Structured(d, p)
    PROVE  Listed(d, p) = {}
  <1>1. d.steps \in Seq(Steps) /\ Len(d.steps) \in Nat /\ p \in Nat /\ p # 0
    BY DEF CaseOK, IsCase, Structured, Places
  <1>2. CASE p <= Len(d.steps)
    <2>1. p \in 1 .. Len(d.steps) /\ d.steps[p].kind # "structured" /\ d.steps[p] \in Steps
      BY <1>1, <1>2 DEF Structured
    <2>2. d.steps[p].kind = "plain"
      BY <2>1 DEF Steps
    <2> QED BY <1>1, <1>2, <2>1, <2>2 DEF CaseOK, IsCase, Listed
  <1>3. CASE ~(p <= Len(d.steps))
    BY <1>1, <1>3 DEF Listed
  <1> QED BY <1>2, <1>3

\* A list is replaced at one place, and the others are as they were.
LEMMA ListedFacts ==
    ASSUME NEW d, CaseOK(d), NEW p \in Places, Structured(d, p), NEW names \in SUBSET Names
    PROVE  LET e == WithListed(d, p, names) IN
           /\ CaseOK(e)
           /\ \A q \in Places : Listed(e, q) = IF q = p THEN names ELSE Listed(d, q)
  <1> DEFINE e == WithListed(d, p, names)
  <1>1. d = [attachments |-> d.attachments, steps |-> d.steps] /\ d.steps \in Seq(Steps)
    BY DEF CaseOK, IsCase
  <1>2. CASE p = 0
    <2>1. e = [attachments |-> names, steps |-> d.steps]
      BY <1>1, <1>2 DEF WithListed
    <2>2. e.attachments = names /\ e.steps = d.steps
      BY <2>1
    <2> HIDE DEF e
    <2> QED BY <1>2, <2>1, <2>2 DEF CaseOK, IsCase, Listed, e
  <1>3. CASE p # 0
    <2> DEFINE f == [d.steps EXCEPT ![p].files = names]
    <2>1. p \in 1 .. Len(d.steps) /\ d.steps[p].kind = "structured" /\ d.steps[p] \in Steps
      BY <1>1, <1>3 DEF Structured
    <2>2. [d.steps[p] EXCEPT !.files = names] = [kind |-> "structured", files |-> names]
      BY <2>1 DEF Steps
    <2>3. f = [d.steps EXCEPT ![p] = [kind |-> "structured", files |-> names]]
      BY <2>2
    <2>4. [kind |-> "structured", files |-> names] \in Steps
      BY DEF Steps
    <2>5. f \in Seq(Steps) /\ Len(f) = Len(d.steps)
          /\ \A i \in 1 .. Len(f) : f[i] = IF i = p THEN [kind |-> "structured", files |-> names] ELSE d.steps[i]
      BY <1>1, <2>1, <2>3, <2>4
    <2>6. e = [attachments |-> d.attachments, steps |-> f]
      BY <1>1, <1>3 DEF WithListed
    <2> HIDE DEF f
    <2>7. e.attachments = d.attachments /\ e.steps = f
      BY <2>6
    <2> HIDE DEF e
    <2>8. CaseOK(e)
      BY <2>5, <2>6, <2>7 DEF CaseOK, IsCase
    <2>9. \A q \in Places : Listed(e, q) = IF q = p THEN names ELSE Listed(d, q)
      BY <1>1, <1>3, <2>1, <2>5, <2>7 DEF Listed, Places
    <2> QED BY <2>8, <2>9 DEF e
  <1> QED BY <1>2, <1>3

\* The holder of the lock is answered and unlocks, with the case and its files as
\* given: only its own file may be new, and they agree unless disturbed.
LEMMA HolderDoneInv ==
    ASSUME IInv, NEW r \in Requests, lock = r, NEW status \in Answers, Finish(r, status),
           lock' = NoOne, UNCHANGED <<claimed, edits>>, disturbed' \in BOOLEAN,
           doc' = NoCase \/ CaseOK(doc'),
           stored' \in [Places -> SUBSET Names],
           \A p \in Places : stored'[p] \subseteq stored[p] \union {r},
           \A n \in AllListed(doc') \ claimed :
               n \in AllListed(doc) \/ (n = r /\ op'[r].kind = "upload" /\ answer'[r] = "ok"),
           RequestOK(r)', ~disturbed' => \A p \in Places : stored'[p] = Shown(doc', p)
    PROVE  IInv'
  <1>1. LocalsShaped /\ OthersKept(r) /\ pc'[r] = "done"
    BY Finished DEF IInv
  <1>2. ShapeInv'
    BY <1>1, ShapeKept DEF IInv, ShapeInv, TypeOK
  <1>3. \A q \in Requests : pc'[q] \notin {"locked", "record", "forget", "removing"}
    BY <1>1 DEF IInv, LockInv, OthersKept
  <1>4. LockInv' /\ SyncInv'
    BY <1>3, AttachmentsAssumption DEF LockInv, SyncInv
  <1>5. pc[r] # "done"
    BY DEF IInv, LockInv
  <1>6. ListedWasUploaded'
    BY <1>1, <1>5, UploadedKept
  <1>7. ASSUME NEW q \in Requests, q # r PROVE RequestOK(q)'
    <2>1. pc[q] \notin Between /\ RequestOK(q)
      BY <1>7 DEF IInv, LockInv, Between
    <2>2. \A p \in Places : q \in stored'[p] => q \in stored[p]
      BY <1>7
    <2> QED BY <1>1, <1>7, <2>1, <2>2 DEF OthersKept, RequestOK, Between
  <1> QED BY <1>2, <1>4, <1>6, <1>7 DEF IInv

\* The holder of the lock changed the files and is about to publish the case.
LEMMA HolderMovesInv ==
    ASSUME IInv, NEW r \in Requests, pc[r] = "locked", NEW phase \in {"record", "forget"},
           Goto(r, phase), next' = [next EXCEPT ![r] = doc],
           UNCHANGED <<lock, doc, op, answer, disturbed, claimed, edits>>,
           stored' \in [Places -> SUBSET Names],
           \A p \in Places : stored'[p] \subseteq stored[p] \union {r},
           RequestOK(r)', SyncInv'
    PROVE  IInv'
  <1>1. pc' = [pc EXCEPT ![r] = phase] /\ (doc = NoCase \/ IsCase(doc))
    BY DEF Goto, IInv, ShapeInv, TypeOK
  <1>2. LocalsShaped /\ OthersKept(r) /\ pc'[r] = phase
    BY <1>1 DEF IInv, ShapeInv, TypeOK, LocalsShaped, OthersKept, Phases, Ops, Answers
  <1>3. ShapeInv'
    BY <1>2, ShapeKept DEF IInv, ShapeInv, TypeOK
  <1>4. LockInv' /\ ListedWasUploaded'
    BY <1>2, UploadedKept DEF IInv, LockInv, OthersKept
  <1>5. ASSUME NEW q \in Requests, q # r PROVE RequestOK(q)'
    <2>1. pc[q] \notin Between /\ RequestOK(q)
      BY <1>5 DEF IInv, LockInv, Between
    <2>2. \A p \in Places : q \in stored'[p] => q \in stored[p]
      BY <1>5
    <2> QED BY <1>2, <1>5, <2>1, <2>2 DEF OthersKept, RequestOK, Between
  <1> QED BY <1>3, <1>4, <1>5 DEF IInv

\* While its holder has done nothing yet, or nobody holds it, list and folder agree.
LEMMA InStep ==
    ASSUME IInv, ~disturbed, \A r \in Requests : pc[r] \notin Between
    PROVE  \A p \in Places : stored[p] = Shown(doc, p)
  BY DEF IInv, SyncInv

\* What a task's place and name are.
LEMMA TaskShape ==
    ASSUME IInv, NEW r \in Requests
    PROVE  /\ op[r].place \in Places /\ op[r].name \in Names \union {NoOne}
           /\ stored \in [Places -> SUBSET Names]
           /\ doc # NoCase => CaseOK(doc)
           /\ pc[r] \in {"locked", "record", "forget", "removing"} => lock = r
           /\ lock = r => \A q \in Requests \ {r} : pc[q] \notin {"locked", "record", "forget", "removing"}
  BY DEF IInv, ShapeInv, TypeOK, LockInv

\* CreateFile preserves the invariant: the file is there before its record is.
LEMMA CreateFileInv ==
    ASSUME IInv, NEW r \in Requests, CreateFile(r)
    PROVE  IInv'
  <1>1. pc[r] = "locked" /\ op[r].kind = "upload" /\ op[r].name = r /\ lock = r
    BY DEF CreateFile, IInv, RequestOK, LockInv
  <1>2. UNCHANGED <<disturbed, claimed, edits>>
    BY DEF CreateFile
  <1>3. CASE Release(r, "missing", stored)
    BY <1>1, <1>2, <1>3, FinishInv DEF Release, Answers, Between
  <1>4. CASE ~Release(r, "missing", stored)
    <2>1. /\ doc # NoCase /\ stored' = Add(r) /\ Goto(r, "record")
          /\ next' = [next EXCEPT ![r] = doc] /\ UNCHANGED <<lock, doc, op, answer>>
      BY <1>4 DEF CreateFile
    <2> USE TaskShape
    <2>2. stored' = [stored EXCEPT ![op[r].place] = stored[op[r].place] \union {r}]
      BY <1>1, <2>1 DEF Add
    <2>3. /\ stored' \in [Places -> SUBSET Names]
          /\ \A p \in Places : stored'[p] = IF p = op[r].place THEN stored[p] \union {r} ELSE stored[p]
      BY <2>2 DEF Names
    <2>4. /\ pc'[r] = "record" /\ next'[r] = doc
          /\ \A q \in Requests \ {r} : pc'[q] \notin Between /\ pc[q] \notin Between
      BY <1>1, <2>1 DEF Goto, IInv, ShapeInv, TypeOK, Between
    <2>5. RequestOK(r)'
      BY <1>1, <2>1, <2>3, <2>4, NotStored DEF RequestOK
    <2>6. \A p \in Places : Shown(doc', p) = Shown(doc, p)
      BY <2>1
    <2>7. SyncInv'
      <3>1. ~disturbed => \A p \in Places : stored[p] = Shown(doc, p)
        BY <1>1, <2>4, InStep DEF Between
      <3> QED BY <1>2, <2>1, <2>3, <2>4, <2>6, <3>1 DEF SyncInv, Between
    <2> QED BY <1>1, <1>2, <2>1, <2>3, <2>5, <2>7, HolderMovesInv
  <1> QED BY <1>3, <1>4

\* RemoveFile preserves the invariant: a file that is there belongs to the case.
LEMMA RemoveFileInv ==
    ASSUME IInv, NEW r \in Requests, RemoveFile(r)
    PROVE  IInv'
  <1>1. pc[r] = "locked" /\ op[r].kind = "remove" /\ lock = r
    BY DEF RemoveFile, IInv, LockInv
  <1>2. UNCHANGED <<disturbed, claimed, edits>>
    BY DEF RemoveFile
  <1>3. CASE Release(r, "missing", stored)
    BY <1>1, <1>2, <1>3, FinishInv DEF Release, Answers, Between
  <1>4. CASE ~Release(r, "missing", stored)
    <2>1. /\ op[r].name \in stored[op[r].place] /\ stored' = Drop(r) /\ Goto(r, "forget")
          /\ next' = [next EXCEPT ![r] = doc] /\ UNCHANGED <<lock, doc, op, answer>>
      BY <1>4 DEF RemoveFile
    <2> USE TaskShape
    <2>3. /\ stored' \in [Places -> SUBSET Names]
          /\ \A p \in Places : stored'[p] = IF p = op[r].place THEN stored[p] \ {op[r].name} ELSE stored[p]
      BY <2>1 DEF Drop
    <2>4. /\ pc'[r] = "forget" /\ next'[r] = doc
          /\ \A q \in Requests \ {r} : pc'[q] \notin Between /\ pc[q] \notin Between
      BY <1>1, <2>1 DEF Goto, IInv, ShapeInv, TypeOK, Between
    <2>5. RequestOK(r)'
      BY <1>1, <2>1, <2>3, <2>4, NotStored DEF RequestOK
    <2>6. \A p \in Places : Shown(doc', p) = Shown(doc, p)
      BY <2>1
    <2>7. SyncInv'
      <3>1. ~disturbed => \A p \in Places : stored[p] = Shown(doc, p)
        BY <1>1, <2>4, InStep DEF Between
      <3> QED BY <1>2, <2>1, <2>3, <2>4, <2>6, <3>1 DEF SyncInv, Between
    <2> QED BY <1>1, <1>2, <2>1, <2>3, <2>5, <2>7, HolderMovesInv
  <1> QED BY <1>3, <1>4

\* A request about to publish made its document of the case as it is.
LEMMA Publishing ==
    ASSUME IInv, NEW r \in Requests, pc[r] \in {"record", "forget"}
    PROVE  /\ lock = r /\ (doc # NoCase => CaseOK(doc)) /\ next[r] = doc
           /\ pc[r] = "record" => /\ doc # NoCase /\ op[r].kind = "upload" /\ op[r].name = r
                                  /\ r \in stored[op[r].place]
           /\ pc[r] = "forget" => op[r].kind = "remove" /\ \A p \in Places : r \notin stored[p]
           /\ \A p \in Places : r \in stored[p] => op[r].place = p
           /\ doc # NoCase => \A p \in Places : Shown(doc, p) = Listed(doc, p)
  BY TaskShape DEF IInv, RequestOK, Shown

\* RecordAttachment preserves the invariant: the step it was checked against may
\* be gone, and then the file goes too.
LEMMA RecordAttachmentInv ==
    ASSUME IInv, NEW r \in Requests, RecordAttachment(r)
    PROVE  IInv'
  <1> USE TaskShape
  <1>1. pc[r] = "record" /\ UNCHANGED <<disturbed, claimed, edits>>
    BY DEF RecordAttachment
  <1>2. /\ lock = r /\ doc # NoCase /\ CaseOK(doc) /\ next[r] = doc
        /\ op[r].kind = "upload" /\ op[r].name = r /\ r \in stored[op[r].place]
        /\ \A p \in Places : r \in stored[p] => op[r].place = p
        /\ \A p \in Places : Shown(doc, p) = Listed(doc, p)
    BY <1>1, Publishing
  <1>3. ~disturbed => \A p \in Places : stored[p] =
            IF p = op[r].place THEN Listed(doc, p) \union {r} ELSE Listed(doc, p)
    BY <1>1, <1>2 DEF IInv, SyncInv
  <1>4. disturbed' \in BOOLEAN
    BY <1>1 DEF IInv, ShapeInv, TypeOK
  <1>5. CASE ~Structured(doc, op[r].place)
    <2>1. Finish(r, "failed") /\ lock' = NoOne /\ stored' = Drop(r) /\ UNCHANGED doc
      BY <1>2, <1>5 DEF RecordAttachment, Release
    <2>2. /\ stored' \in [Places -> SUBSET Names]
          /\ \A p \in Places : stored'[p] = stored[p] \ {r}
      BY <1>2, <2>1 DEF Drop
    <2>3. pc'[r] = "done" /\ answer'[r] = "failed" /\ op'[r] = op[r]
      BY <1>2, <2>1, Finished DEF IInv, Answers
    <2>4. RequestOK(r)'
      BY <1>2, <2>2, <2>3 DEF RequestOK
    <2>5. ~disturbed => \A p \in Places : stored'[p] = Listed(doc, p)
      <3>1. Listed(doc, op[r].place) = {}
        BY <1>2, <1>5, NothingListed
      <3>2. ~disturbed => \A p \in Places : r \in Listed(doc, p) => p = op[r].place
        BY <1>2, <1>3, ZenonT(60)
      <3> SUFFICES ASSUME ~disturbed, NEW p \in Places PROVE stored'[p] = Listed(doc, p)
        OBVIOUS
      <3>3. stored'[p] = stored[p] \ {r}
        BY <2>2
      <3>4. CASE p = op[r].place
        BY <1>3, <3>1, <3>3, <3>4
      <3>5. CASE p # op[r].place
        <4>1. stored[p] = Listed(doc, p) /\ r \notin Listed(doc, p)
          BY <1>3, <3>2, <3>5
        <4> QED BY <3>3, <4>1
      <3> QED BY <3>4, <3>5
    <2>6. ~disturbed' => \A p \in Places : stored'[p] = Shown(doc', p)
      BY <1>1, <1>2, <2>1, <2>5
    <2> QED BY <1>1, <1>2, <1>4, <2>1, <2>2, <2>4, <2>6, HolderDoneInv DEF Answers, CaseOK, IsCase
  <1>6. CASE Structured(doc, op[r].place)
    <2>1. /\ doc' = WithListed(doc, op[r].place, Listed(doc, op[r].place) \union {r})
          /\ Finish(r, "ok") /\ lock' = NoOne /\ UNCHANGED stored
      BY <1>2, <1>6 DEF RecordAttachment, Advertise
    <2>2. /\ CaseOK(doc')
          /\ \A p \in Places : Listed(doc', p) =
                IF p = op[r].place THEN Listed(doc, p) \union {r} ELSE Listed(doc, p)
      <3>1. Listed(doc, op[r].place) \union {r} \in SUBSET Names
        BY <1>2, CaseFacts DEF Names
      <3>2. PICK names \in SUBSET Names : names = Listed(doc, op[r].place) \union {r}
        BY <3>1
      <3>3. doc' = WithListed(doc, op[r].place, names)
        BY <2>1, <3>2
      <3>4. \A p \in Places : Listed(doc', p) = IF p = op[r].place THEN names ELSE Listed(doc, p)
        BY <1>2, <1>6, <3>3, ListedFacts
      <3>5. CaseOK(doc')
        BY <1>2, <1>6, <3>3, ListedFacts
      <3> QED BY <3>2, <3>4, <3>5
    <2>3. pc'[r] = "done" /\ answer'[r] = "ok" /\ op'[r] = op[r]
      BY <1>2, <2>1, Finished DEF IInv, Answers
    <2>4. RequestOK(r)'
      BY <1>2, <2>1, <2>3 DEF RequestOK
    <2>5. doc' # NoCase
      BY <2>2, CaseFacts, SMTT(40)
    <2>6. ~disturbed' => \A p \in Places : stored'[p] = Shown(doc', p)
      BY <1>1, <1>3, <2>1, <2>2, <2>5 DEF Shown
    <2>7. \A n \in AllListed(doc') : n \in AllListed(doc) \/ n = r
      BY <1>2, <2>2, <2>5, AllFacts DEF Shown
    <2> QED BY <1>1, <1>2, <1>4, <2>1, <2>2, <2>3, <2>4, <2>6, <2>7, HolderDoneInv DEF Answers
  <1> QED BY <1>5, <1>6

\* ForgetAttachment preserves the invariant.
LEMMA ForgetAttachmentInv ==
    ASSUME IInv, NEW r \in Requests, ForgetAttachment(r)
    PROVE  IInv'
  <1> USE TaskShape
  <1>a. /\ pc[r] = "forget" /\ UNCHANGED <<stored, disturbed, claimed, edits>>
        /\ lock' = NoOne /\ disturbed' \in BOOLEAN
    BY DEF ForgetAttachment, Release, IInv, ShapeInv, TypeOK
  <1>b. /\ lock = r /\ next[r] = doc /\ op[r].kind = "remove" /\ \A p \in Places : r \notin stored[p]
        /\ doc # NoCase => CaseOK(doc) /\ \A p \in Places : Shown(doc, p) = Listed(doc, p)
    BY <1>a, Publishing
  <1>c. CASE doc = NoCase
    <2>1. Finish(r, "missing") /\ doc' = doc
      BY <1>b, <1>c DEF ForgetAttachment, Release
    <2>2. pc'[r] = "done" /\ answer'[r] = "missing" /\ op'[r] = NoOp
      BY <1>b, <2>1, Finished DEF IInv, Answers
    <2>3. RequestOK(r)'
      BY <1>a, <1>b, <2>2, NoOpShape DEF RequestOK
    <2>4. ~disturbed' => \A p \in Places : stored'[p] = Shown(doc', p)
      BY <1>a, <1>c, <2>1, SMTT(40) DEF IInv, SyncInv, Shown
    <2> QED BY <1>a, <1>b, <1>c, <2>1, <2>3, <2>4, HolderDoneInv DEF Answers
  <1> SUFFICES ASSUME doc # NoCase PROVE IInv'
    BY <1>c
  <1>1. /\ pc[r] = "forget" /\ Finish(r, "ok") /\ lock' = NoOne
        /\ UNCHANGED <<stored, disturbed, claimed, edits>>
    BY <1>a, <1>b DEF ForgetAttachment
  <1>2. /\ lock = r /\ doc # NoCase /\ CaseOK(doc) /\ next[r] = doc
        /\ op[r].kind = "remove" /\ \A p \in Places : r \notin stored[p]
        /\ \A p \in Places : Shown(doc, p) = Listed(doc, p)
    BY <1>b
  <1>3. ~disturbed => \A p \in Places : stored[p] =
            IF p = op[r].place THEN Listed(doc, p) \ {op[r].name} ELSE Listed(doc, p)
    BY <1>1, <1>2, SMTT(40) DEF IInv, SyncInv
  <1>4. /\ CaseOK(doc')
        /\ ~disturbed => \A p \in Places : stored[p] = Listed(doc', p)
        /\ \A p \in Places : Listed(doc', p) \subseteq Listed(doc, p)
    <2>1. CASE Structured(doc, op[r].place)
      <3>1. doc' = WithListed(doc, op[r].place, Listed(doc, op[r].place) \ {op[r].name})
        BY <1>2, <2>1 DEF ForgetAttachment
      <3>2. Listed(doc, op[r].place) \ {op[r].name} \in SUBSET Names
        BY <1>2, CaseFacts
      <3>3. /\ CaseOK(doc')
            /\ \A p \in Places : Listed(doc', p) =
                  IF p = op[r].place THEN Listed(doc, p) \ {op[r].name} ELSE Listed(doc, p)
        <4>1. PICK names \in SUBSET Names : names = Listed(doc, op[r].place) \ {op[r].name}
          BY <3>2
        <4>2. doc' = WithListed(doc, op[r].place, names)
          BY <3>1, <4>1
        <4>3. \A p \in Places : Listed(doc', p) = IF p = op[r].place THEN names ELSE Listed(doc, p)
          BY <1>2, <2>1, <4>2, ListedFacts
        <4>4. CaseOK(doc')
          BY <1>2, <2>1, <4>2, ListedFacts
        <4> QED BY <4>1, <4>3, <4>4
      <3> QED BY <1>3, <3>3
    <2>2. CASE ~Structured(doc, op[r].place)
      <3>1. doc' = doc
        BY <1>2, <2>2 DEF ForgetAttachment
      <3>2. Listed(doc, op[r].place) = {}
        BY <1>2, <2>2, NothingListed
      <3>3. ~disturbed => \A p \in Places : stored[p] = Listed(doc, p)
        BY <1>3, <3>2
      <3> QED BY <1>2, <3>1, <3>3
    <2> QED BY <2>1, <2>2
  <1>5. doc' # NoCase
    BY <1>4, CaseFacts
  <1>6. ~disturbed' => \A p \in Places : stored'[p] = Shown(doc', p)
    BY <1>1, <1>4, <1>5 DEF Shown
  <1>7. pc'[r] = "done" /\ answer'[r] = "ok" /\ op'[r] = NoOp
    BY <1>1, <1>2, Finished DEF IInv, Answers
  <1>8. RequestOK(r)'
    BY <1>1, <1>2, <1>7, NoOpShape DEF RequestOK
  <1>9. \A n \in AllListed(doc') : n \in AllListed(doc)
    BY <1>2, <1>4, <1>5, AllFacts DEF Shown
  <1> QED BY <1>1, <1>2, <1>a, <1>4, <1>6, <1>8, <1>9, HolderDoneInv DEF Answers

\* WriteFails preserves the invariant: the case counts as disturbed from then on.
LEMMA WriteFailsInv ==
    ASSUME IInv, NEW r \in Requests, WriteFails(r)
    PROVE  IInv'
  <1> USE TaskShape
  <1>1. disturbed' = TRUE /\ UNCHANGED <<claimed, edits>>
    BY DEF WriteFails
  <1>2. CASE pc[r] = "locked" /\ op[r].kind = "upload" /\ doc # NoCase /\ Release(r, "torn", Add(r))
    <2>1. op[r].name = r /\ lock = r /\ CaseOK(doc)
      BY <1>2 DEF IInv, RequestOK
    <2>2. Finish(r, "torn") /\ lock' = NoOne /\ stored' = Add(r) /\ UNCHANGED doc
      BY <1>2 DEF Release
    <2>3. /\ stored' \in [Places -> SUBSET Names]
          /\ \A p \in Places : stored'[p] = IF p = op[r].place THEN stored[p] \union {r} ELSE stored[p]
      BY <2>1, <2>2 DEF Add, Names
    <2>4. pc'[r] = "done" /\ answer'[r] = "torn" /\ op'[r] = op[r]
      BY <1>2, <2>2, Finished DEF IInv, Answers
    <2>5. RequestOK(r)'
      BY <1>2, <2>1, <2>3, <2>4, NotStored DEF RequestOK
    <2> QED BY <1>1, <1>2, <2>1, <2>2, <2>3, <2>5, HolderDoneInv DEF Answers, CaseOK, IsCase
  <1>3. CASE pc[r] = "record" /\ Release(r, "failed", Drop(r))
    <2>1. /\ lock = r /\ doc # NoCase /\ CaseOK(doc) /\ op[r].kind = "upload" /\ op[r].name = r
          /\ \A p \in Places : r \in stored[p] => op[r].place = p
      BY <1>3, Publishing
    <2>2. Finish(r, "failed") /\ lock' = NoOne /\ stored' = Drop(r) /\ UNCHANGED doc
      BY <1>3 DEF Release
    <2>3. /\ stored' \in [Places -> SUBSET Names]
          /\ \A p \in Places : stored'[p] = stored[p] \ {r}
      BY <2>1, <2>2 DEF Drop
    <2>4. pc'[r] = "done" /\ answer'[r] = "failed" /\ op'[r] = op[r]
      BY <2>1, <2>2, Finished DEF IInv, Answers
    <2>5. RequestOK(r)'
      BY <2>1, <2>3, <2>4 DEF RequestOK
    <2> QED BY <1>1, <2>1, <2>2, <2>3, <2>5, HolderDoneInv DEF Answers, CaseOK, IsCase
  <1>4. CASE pc[r] \in {"forget", "removing"} /\ Release(r, "failed", stored)
    <2>1. /\ lock = r /\ (doc # NoCase => CaseOK(doc)) /\ op[r].kind \in {"remove", "delete"}
          /\ \A p \in Places : r \notin stored[p]
      BY <1>4 DEF IInv, RequestOK
    <2>2. Finish(r, "failed") /\ lock' = NoOne /\ stored' = stored /\ UNCHANGED doc
      BY <1>4 DEF Release
    <2>3. pc'[r] = "done" /\ answer'[r] = "failed" /\ op'[r] = NoOp
      BY <2>1, <2>2, Finished DEF IInv, Answers
    <2>4. RequestOK(r)'
      BY <2>1, <2>2, <2>3, NoOpShape DEF RequestOK
    <2> QED BY <1>1, <2>1, <2>2, <2>4, HolderDoneInv DEF Answers, CaseOK, IsCase
  <1> QED BY <1>2, <1>3, <1>4 DEF WriteFails

\* RemoveDirAll preserves the invariant.
LEMMA RemoveDirAllInv ==
    ASSUME IInv, NEW r \in Requests, RemoveDirAll(r)
    PROVE  IInv'
  <1> USE TaskShape
  <1>1. /\ pc[r] = "locked" /\ op[r].kind = "delete" /\ lock = r
        /\ UNCHANGED <<disturbed, claimed, edits>>
    BY DEF RemoveDirAll
  <1>2. CASE Release(r, "missing", stored)
    BY <1>1, <1>2, FinishInv DEF Release, Answers, Between
  <1>3. CASE ~Release(r, "missing", stored)
    <2>1. Goto(r, "removing") /\ UNCHANGED <<lock, doc, stored, op, next, answer>>
      BY <1>3 DEF RemoveDirAll
    <2>2. LockInv' /\ lock' \in Requests \union {NoOne}
      BY <1>1, <2>1 DEF IInv, ShapeInv, TypeOK, LockInv, Goto
    <2> QED BY <1>1, <2>1, <2>2, MoveInv DEF Phases, Between
  <1> QED BY <1>2, <1>3

\* RemoveEntry preserves the invariant: whatever order the entries go in, what
\* was about to be published is nobody's, and at the end nothing is left.
LEMMA RemoveEntryInv ==
    ASSUME IInv, NEW r \in Requests, RemoveEntry(r)
    PROVE  IInv'
  <1> USE TaskShape
  <1>1. /\ pc[r] = "removing" /\ op[r].kind = "delete" /\ lock = r /\ UNCHANGED <<claimed, edits>>
        /\ \A q \in Requests \ {r} : pc[q] \notin Between
        /\ \A p \in Places : r \notin stored[p]
    BY DEF RemoveEntry, IInv, RequestOK, Between
  <1>2. ASSUME UNCHANGED <<lock, pc, op, next, answer, disturbed>>, doc' = NoCase \/ doc' = doc,
               stored' \in [Places -> SUBSET Names],
               \A p \in Places : stored'[p] \subseteq stored[p]
        PROVE  IInv'
    <2>1. LocalsShaped
      BY <1>2 DEF IInv, ShapeInv, TypeOK, LocalsShaped, Phases, Ops, Answers
    <2>2. ShapeInv'
      BY <1>1, <1>2, <2>1, ShapeKept DEF IInv, ShapeInv, TypeOK
    <2>3. LockInv' /\ SyncInv'
      BY <1>1, <1>2 DEF IInv, LockInv, SyncInv, Between
    <2>4. \A n \in AllListed(doc') : n \in AllListed(doc)
      BY <1>2 DEF AllListed, Shown
    <2>5. ListedWasUploaded'
      BY <1>1, <1>2, <2>4 DEF IInv, ListedWasUploaded
    <2>6. ASSUME NEW q \in Requests PROVE RequestOK(q)'
      <3>1. pc[q] \notin {"record", "forget"} /\ RequestOK(q)
        BY <1>1 DEF Between, IInv
      <3> QED BY <1>2, <3>1 DEF RequestOK
    <2> QED BY <2>2, <2>3, <2>5, <2>6 DEF IInv
  <1>3. CASE doc' = NoCase /\ UNCHANGED <<lock, stored, pc, op, next, answer, disturbed>>
    BY <1>2, <1>3
  <1>4. CASE /\ \E p \in Places : \E name \in stored[p] : stored' = [stored EXCEPT ![p] = @ \ {name}]
             /\ UNCHANGED <<lock, doc, pc, op, next, answer, disturbed>>
    <2>1. PICK p \in Places : \E name \in stored[p] : stored' = [stored EXCEPT ![p] = @ \ {name}]
      BY <1>4
    <2>2. PICK name \in stored[p] : stored' = [stored EXCEPT ![p] = stored[p] \ {name}]
      BY <2>1
    <2>3. stored' \in [Places -> SUBSET Names] /\ \A q \in Places : stored'[q] \subseteq stored[q]
      BY <2>2
    <2> QED BY <1>2, <1>4, <2>3
  <1>5. CASE NothingLeft /\ Release(r, "ok", stored) /\ disturbed' = FALSE
    <2>1. Finish(r, "ok") /\ lock' = NoOne /\ stored' = stored /\ doc' = doc
      BY <1>5 DEF Release
    <2>2. pc'[r] = "done" /\ answer'[r] = "ok" /\ op'[r] = NoOp
      BY <1>1, <2>1, Finished DEF IInv, Answers
    <2>3. RequestOK(r)'
      BY <1>1, <2>1, <2>2, NoOpShape DEF RequestOK
    <2>4. \A p \in Places : stored'[p] = Shown(doc', p)
      BY <1>5, <2>1 DEF NothingLeft, Shown
    <2> QED BY <1>1, <1>5, <2>1, <2>3, <2>4, HolderDoneInv DEF Answers, NothingLeft
  <1> QED BY <1>3, <1>4, <1>5 DEF RemoveEntry

(* ------------------------------- the case -------------------------------- *)

\* A document is sent while nobody holds the lock: what it lists beyond the old
\* one is the client's claim.
LEMMA CaseStepInv ==
    ASSUME IInv, lock = NoOne, UNCHANGED <<lock, stored, pc, op, next, answer>>,
           CaseOK(doc'), Sent, Edited
    PROVE  IInv'
  <1>1. LocalsShaped
    BY DEF IInv, ShapeInv, TypeOK, LocalsShaped, Phases, Ops, Answers
  <1>2. doc = NoCase \/ CaseOK(doc)
    BY DEF IInv, ShapeInv
  <1>3. /\ AllListed(doc') \subseteq Names /\ claimed' \subseteq Names
        /\ disturbed' \in BOOLEAN /\ edits' \in 0 .. MaxEdits
    BY <1>2, AllFacts, AttachmentsAssumption DEF IInv, ShapeInv, TypeOK, Sent, Edited
  <1>4. ShapeInv'
    BY <1>1, <1>3, ShapeKept DEF IInv, ShapeInv, TypeOK
  <1>5. \A q \in Requests : pc[q] \notin {"locked", "record", "forget", "removing"}
    BY AttachmentsAssumption DEF IInv, LockInv
  <1>6. LockInv'
    BY <1>5 DEF IInv, LockInv
  <1>7. SyncInv'
    <2> SUFFICES ASSUME ~disturbed' PROVE SyncInv'
      BY DEF SyncInv
    <2>1. ~disturbed /\ \A p \in Places : Shown(doc', p) = Shown(doc, p)
      BY DEF Sent
    <2>2. \A p \in Places : stored[p] = Shown(doc, p)
      BY <1>5, <2>1, InStep DEF Between
    <2> QED BY <1>5, <2>1, <2>2 DEF SyncInv
  <1>8. ListedWasUploaded'
    BY DEF IInv, ListedWasUploaded, Sent
  <1>9. ASSUME NEW q \in Requests PROVE RequestOK(q)'
    BY <1>5 DEF IInv, RequestOK
  <1> QED BY <1>4, <1>6, <1>7, <1>8, <1>9 DEF IInv

\* What a client sends as steps is a list of steps, of which a plain one lists no
\* attachment.
LEMMA BodyFacts ==
    ASSUME NEW s \in Bodies
    PROVE  /\ s \in Seq(Steps) /\ Len(s) \in Nat /\ Len(s) <= MaxSteps
           /\ \A i \in 1 .. Len(s) : s[i].kind = "plain" => s[i].files = {}
  <1>1. /\ PlainStep \in Steps /\ PlainStep.files = {}
        /\ \A c \in Claims : StructuredStep(c) \in Steps /\ StructuredStep(c).kind = "structured"
    BY AttachmentsAssumption DEF PlainStep, StructuredStep, Steps, Names
  <1>2. s \in Seq(Steps) /\ Len(s) \in Nat /\ Len(s) <= MaxSteps
    <2>1. /\ <<>> \in Seq(Steps) /\ <<PlainStep>> \in Seq(Steps)
          /\ \A c \in Claims : <<StructuredStep(c)>> \in Seq(Steps)
          /\ \A c \in Claims : <<StructuredStep(c), PlainStep>> \in Seq(Steps)
      BY <1>1
    <2>2. s \in Seq(Steps) /\ Len(s) <= MaxSteps
      BY <2>1, Zenon DEF Bodies
    <2> QED BY <2>2
  <1>3. \A i \in 1 .. Len(s) : s[i].kind = "plain" => s[i].files = {}
    <2>1. CASE s \in {<<>>, <<PlainStep>>}
      BY <1>1, <2>1
    <2>2. CASE \E c \in Claims : s = <<StructuredStep(c)>>
      BY <1>1, <2>2
    <2>3. CASE \E c \in Claims : s = <<StructuredStep(c), PlainStep>>
      BY <1>1, <2>3
    <2> QED BY <2>1, <2>2, <2>3, Zenon DEF Bodies
  <1> QED BY <1>2, <1>3

\* A case made of a list of names and of steps.
LEMMA MadeOf ==
    ASSUME NEW names \in SUBSET Names, NEW s \in Seq(Steps), Len(s) <= MaxSteps,
           \A i \in 1 .. Len(s) : s[i].kind = "plain" => s[i].files = {}
    PROVE  CaseOK([attachments |-> names, steps |-> s])
  <1> DEFINE d == [attachments |-> names, steps |-> s]
  <1>1. d.attachments = names /\ d.steps = s /\ d = [attachments |-> d.attachments, steps |-> d.steps]
    OBVIOUS
  <1> HIDE DEF d
  <1>2. CaseOK(d)
    BY <1>1 DEF CaseOK, IsCase
  <1> QED BY <1>2 DEF d

\* A new case is a case.
LEMMA NewCaseFacts ==
    ASSUME NEW d \in NewCases
    PROVE  CaseOK(d)
  <1>1. PICK names \in Claims, s \in Bodies : d = [attachments |-> names, steps |-> s]
    BY DEF NewCases
  <1>2. names \in SUBSET Names
    BY AttachmentsAssumption DEF Names
  <1> QED BY <1>1, <1>2, BodyFacts, MadeOf

\* Steps in another order are the same steps.
LEMMA ReverseFacts ==
    ASSUME NEW s \in Seq(Steps)
    PROVE  /\ Reverse(s) \in Seq(Steps) /\ Len(Reverse(s)) = Len(s)
           /\ \A i \in 1 .. Len(s) : Len(s) - i + 1 \in 1 .. Len(s) /\ Reverse(s)[i] = s[Len(s) - i + 1]
  <1>1. \A i \in 1 .. Len(s) : (Len(s) - i) + 1 \in 1 .. Len(s) /\ s[(Len(s) - i) + 1] \in Steps
    OBVIOUS
  <1> QED BY <1>1 DEF Reverse

\* What an edit leaves of a case is a case.
LEMMA EditFacts ==
    ASSUME IInv, EditCase
    PROVE  CaseOK(doc')
  <1>1. doc # NoCase /\ CaseOK(doc)
    BY DEF EditCase, IInv, ShapeInv
  <1>2. /\ doc.steps \in Seq(Steps) /\ Len(doc.steps) \in Nat /\ Len(doc.steps) <= MaxSteps
        /\ doc.attachments \in SUBSET Names
        /\ \A i \in 1 .. Len(doc.steps) : doc.steps[i].kind = "plain" => doc.steps[i].files = {}
    BY <1>1 DEF CaseOK, IsCase
  <1>3. PICK names \in Claims \union {doc.attachments},
             s \in Bodies \union {doc.steps, Reverse(doc.steps)} :
                doc' = [attachments |-> names, steps |-> s]
    BY DEF EditCase
  <1>4. names \in SUBSET Names
    BY <1>2, AttachmentsAssumption DEF Names
  <1>5. /\ s \in Seq(Steps) /\ Len(s) <= MaxSteps
        /\ \A i \in 1 .. Len(s) : s[i].kind = "plain" => s[i].files = {}
    <2>1. CASE s \in Bodies
      BY <2>1, BodyFacts
    <2>2. CASE s = doc.steps
      BY <1>2, <2>2
    <2>3. CASE s = Reverse(doc.steps)
      <3>1. /\ s \in Seq(Steps) /\ Len(s) = Len(doc.steps)
            /\ \A i \in 1 .. Len(s) : Len(s) - i + 1 \in 1 .. Len(s) /\ s[i] = doc.steps[Len(s) - i + 1]
        BY <1>2, <2>3, ReverseFacts
      <3> QED BY <1>2, <3>1
    <2> QED BY <2>1, <2>2, <2>3
  <1> QED BY <1>3, <1>4, <1>5, MadeOf

\* EditCase and CreateCase preserve the invariant: where their bodies list
\* something else, list and folder may part from then on.
LEMMA SentInv ==
    ASSUME IInv, EditCase \/ CreateCase
    PROVE  IInv'
  <1>1. CaseOK(doc')
    BY EditFacts, NewCaseFacts DEF CreateCase
  <1> QED BY <1>1, CaseStepInv DEF EditCase, CreateCase

(* ------------------------------ the theorems ----------------------------- *)

\* The invariant holds before any request.
LEMMA InitInv == Init => IInv
  <1> SUFFICES ASSUME Init PROVE IInv
    OBVIOUS
  <1>1. doc = NoCase \/ CaseOK(doc)
    BY NewCaseFacts DEF Init
  <1>2. doc = NoCase \/ IsCase(doc)
    BY <1>1 DEF CaseOK
  <1>3. /\ op \in [Requests -> Ops] /\ 0 \in 0 .. MaxEdits
        /\ \A r \in Requests : op[r].kind = "read"
    BY NoOpShape, AttachmentsAssumption DEF Init
  <1>4. claimed \subseteq Names /\ disturbed \in BOOLEAN
    BY <1>1, AllFacts DEF Init
  <1>5. TypeOK
    BY <1>2, <1>3, <1>4 DEF Init, TypeOK, Ops
  <1>6. ShapeInv
    BY <1>1, <1>5 DEF Init, ShapeInv
  <1>7. LockInv /\ \A r \in Requests : RequestOK(r)
    BY <1>3, AttachmentsAssumption DEF Init, LockInv, RequestOK
  <1>8. SyncInv
    <2>1. ~disturbed => \A p \in Places : Shown(doc, p) = {}
      BY <1>1, AllFacts DEF Init
    <2> QED BY <2>1 DEF Init, SyncInv
  <1>9. ListedWasUploaded
    BY DEF Init, ListedWasUploaded
  <1> QED BY <1>6, <1>7, <1>8, <1>9 DEF IInv

\* Every step preserves the invariant.
LEMMA NextInv == IInv /\ [Next]_vars => IInv'
  <1> SUFFICES ASSUME IInv, [Next]_vars PROVE IInv'
    OBVIOUS
  <1>1. CASE UNCHANGED vars
    BY <1>1 DEF vars, IInv, ShapeInv, TypeOK, LockInv, SyncInv, RequestOK, CaseOK, IsCase,
                ListedWasUploaded
  <1>2. CASE EditCase \/ CreateCase
    BY <1>2, SentInv
  <1>3. ASSUME NEW r \in Requests, Client(r) \/ Server(r) \/ WriteFails(r) \/ Crash(r)
        PROVE  IInv'
    BY <1>3, ClientInv, ReadUploadInv, ReaderInv, AcquireLockInv, LockTimeoutInv, CreateFileInv,
       RecordAttachmentInv, RemoveFileInv, ForgetAttachmentInv, RemoveDirAllInv, RemoveEntryInv,
       WriteFailsInv, CrashInv DEF Server
  <1> QED BY <1>1, <1>2, <1>3 DEF Next, AllAnswered

\* Whatever uploads, deletions, edits, crashes and failing writes interleave, and
\* whatever names the bodies list, the lock's holder is the only request between
\* its two steps; until a body changes the list or a request is cut short, list and
\* folder differ at most by the file the holder is at or by what the deletion of
\* the case it is at has unlinked; and a listed name no body listed first is an
\* upload that was acknowledged.
THEOREM Invariant == Spec => []IInv
  BY InitInv, NextInv, PTL DEF Spec

\* A record that is published, or taken back, adds to no list a name that is not
\* stored there.
LEMMA PublishedFacts ==
    ASSUME IInv, NEW r \in Requests, RecordAttachment(r) \/ ForgetAttachment(r)
    PROVE  \A p \in Places : \A n \in Shown(doc', p) : n \in Shown(doc, p) \/ n \in stored[p]
  <1> USE TaskShape
  <1>a. CASE doc' = doc
    BY <1>a
  <1> SUFFICES ASSUME doc' # doc
               PROVE  \A p \in Places : \A n \in Shown(doc', p) : n \in Shown(doc, p) \/ n \in stored[p]
    BY <1>a
  <1>1. /\ doc # NoCase /\ CaseOK(doc) /\ next[r] = doc
        /\ pc[r] = "record" => op[r].name = r /\ r \in stored[op[r].place]
    BY Publishing DEF RecordAttachment, ForgetAttachment, Release
  <1>2. Listed(doc, op[r].place) \in SUBSET Names
    BY <1>1, CaseFacts
  <1>4. CASE RecordAttachment(r) /\ doc' # doc
    <2>1. pc[r] = "record" /\ Structured(doc, op[r].place)
          /\ doc' = WithListed(doc, op[r].place, Listed(doc, op[r].place) \union {r})
      BY <1>1, <1>4 DEF RecordAttachment, Advertise, Release
    <2>2. PICK names \in SUBSET Names : names = Listed(doc, op[r].place) \union {r}
      BY <1>2 DEF Names
    <2>3. \A p \in Places : Listed(doc', p) = IF p = op[r].place THEN names ELSE Listed(doc, p)
      BY <1>1, <2>1, <2>2, ListedFacts
    <2>4. r \in stored[op[r].place]
      BY <1>1, <2>1
    <2> QED BY <1>1, <2>2, <2>3, <2>4 DEF Shown
  <1>5. CASE ForgetAttachment(r) /\ doc' # doc
    <2>1. Structured(doc, op[r].place)
          /\ doc' = WithListed(doc, op[r].place, Listed(doc, op[r].place) \ {op[r].name})
      BY <1>1, <1>5 DEF ForgetAttachment
    <2>2. PICK names \in SUBSET Names : names = Listed(doc, op[r].place) \ {op[r].name}
      BY <1>2
    <2>3. \A p \in Places : Listed(doc', p) = IF p = op[r].place THEN names ELSE Listed(doc, p)
      BY <1>1, <2>1, <2>2, ListedFacts
    <2> QED BY <1>1, <2>2, <2>3 DEF Shown
  <1> QED BY <1>4, <1>5

\* The steps that change the case.
LEMMA DocWriters ==
    ASSUME [Next]_vars, doc' # doc
    PROVE  \/ \E r \in Requests : RecordAttachment(r) \/ ForgetAttachment(r) \/ RemoveEntry(r)
           \/ EditCase \/ CreateCase
  <1>1. Next
    BY DEF vars
  <1>2. ASSUME NEW r \in Requests, Client(r) PROVE FALSE
    BY <1>2 DEF Client, UploadCaseFile, UploadStepFile, ListStepFiles, DeleteCaseFile,
                DownloadCaseFile, DeleteStepFile, DownloadStepFile, DeleteCase, Ask
  <1>3. ASSUME NEW r \in Requests, Server(r)
        PROVE  RecordAttachment(r) \/ ForgetAttachment(r) \/ RemoveEntry(r)
    BY <1>3 DEF Server, ReadUpload, ReadAttachment, ListStepAttachments, AcquireLock, LockTimeout,
                CreateFile, RemoveFile, RemoveDirAll, Release
  <1>4. ASSUME NEW r \in Requests, WriteFails(r) \/ Crash(r) PROVE FALSE
    BY <1>4 DEF WriteFails, Crash, Release
  <1> QED BY <1>1, <1>2, <1>3, <1>4 DEF Next, AllAnswered, vars

\* The steps that change the files.
LEMMA FileWriters ==
    ASSUME [Next]_vars, stored' # stored
    PROVE  \E r \in Requests : \/ CreateFile(r) \/ RecordAttachment(r) \/ RemoveFile(r)
                              \/ RemoveEntry(r) \/ WriteFails(r)
  <1>1. Next
    BY DEF vars
  <1>2. ASSUME NEW r \in Requests, Client(r) PROVE FALSE
    BY <1>2 DEF Client, UploadCaseFile, UploadStepFile, ListStepFiles, DeleteCaseFile,
                DownloadCaseFile, DeleteStepFile, DownloadStepFile, DeleteCase, Ask
  <1>3. ASSUME NEW r \in Requests, Server(r)
        PROVE  CreateFile(r) \/ RecordAttachment(r) \/ RemoveFile(r) \/ RemoveEntry(r)
    BY <1>3 DEF Server, ReadUpload, ReadAttachment, ListStepAttachments, AcquireLock, LockTimeout,
                ForgetAttachment, RemoveDirAll, Release
  <1>4. ASSUME NEW r \in Requests, Crash(r) PROVE FALSE
    BY <1>4 DEF Crash
  <1> QED BY <1>1, <1>2, <1>3, <1>4 DEF Next, AllAnswered, vars, EditCase, CreateCase

\* What the case says of its files is so but for what clients' bodies claimed, for
\* any number of requests, steps and edits: FilesMatchCase.
THEOREM FilesMatch == Spec => FilesMatchCase
  <1>1. IInv => TypeOK /\ ListedIsStored /\ ListedWasUploaded /\ RefusedLeavesNothing
    <2> SUFFICES ASSUME IInv PROVE ListedIsStored /\ RefusedLeavesNothing
      BY DEF IInv, ShapeInv
    <2>1. ListedIsStored
      <3>1. lock = NoOne => \A r \in Requests : pc[r] \notin Between
        BY AttachmentsAssumption DEF IInv, LockInv, Between
      <3> QED BY <3>1, InStep DEF ListedIsStored
    <2>2. RefusedLeavesNothing
      BY DEF IInv, RequestOK, RefusedLeavesNothing
    <2> QED BY <2>1, <2>2
  <1>2. IInv /\ [Next]_vars =>
          [\A r \in Requests \ claimed' :
               r \notin AllListed(doc) =>
                   \A p \in Places : r \in Shown(doc', p) => r \in stored[p]]_doc
    <2> SUFFICES ASSUME IInv, [Next]_vars, doc' # doc,
                        NEW r \in Requests \ claimed', r \notin AllListed(doc),
                        NEW p \in Places, r \in Shown(doc', p)
                 PROVE  r \in stored[p]
      OBVIOUS
    <2>1. r \in AllListed(doc') /\ r \notin Shown(doc, p)
      BY DEF AllListed
    <2>2. CASE \E q \in Requests : RecordAttachment(q) \/ ForgetAttachment(q)
      BY <2>1, <2>2, PublishedFacts
    <2>3. CASE EditCase \/ CreateCase
      BY <2>1, <2>3 DEF EditCase, CreateCase, Sent
    <2>4. CASE \E q \in Requests : RemoveEntry(q)
      <3>1. doc' = NoCase
        BY <2>4 DEF RemoveEntry, Release
      <3> QED BY <3>1 DEF Shown
    <2> QED BY <2>2, <2>3, <2>4, DocWriters
  <1> QED BY <1>1, <1>2, Invariant, PTL DEF Spec, FilesMatchCase, AdvertisedWhenStored

\* An upload that was answered with success stays until a deletion under the lock
\* names it or is of the whole case, for any number of requests: UploadsStay.
THEOREM Uploads == Spec => UploadsStay
  <1>1. IInv /\ [Next]_vars =>
          [\A r \in Requests :
              /\ op[r].kind = "upload" /\ answer[r] = "ok"
              /\ r \in stored[op[r].place] /\ r \notin stored'[op[r].place]
              => \E q \in Requests :
                   /\ lock = q
                   /\ \/ op[q].kind = "remove" /\ op[q].name = r /\ op[q].place = op[r].place
                      \/ op[q].kind = "delete"]_stored
    <2> SUFFICES ASSUME IInv, [Next]_vars, stored' # stored,
                        NEW r \in Requests, op[r].kind = "upload", answer[r] = "ok",
                        r \in stored[op[r].place], r \notin stored'[op[r].place]
                 PROVE  \E q \in Requests :
                          /\ lock = q
                          /\ \/ op[q].kind = "remove" /\ op[q].name = r /\ op[q].place = op[r].place
                             \/ op[q].kind = "delete"
      OBVIOUS
    <2>1. pc[r] = "done" /\ op[r].place \in Places /\ stored \in [Places -> SUBSET Names]
      BY TaskShape DEF IInv, RequestOK
    <2>2. ASSUME NEW q \in Requests, stored' = Add(q) PROVE FALSE
      BY <2>1, <2>2, TaskShape DEF Add
    <2>3. ASSUME NEW q \in Requests, stored' = Drop(q)
          PROVE  op[q].name = r /\ op[q].place = op[r].place
      <3>1. op[q].place \in Places
        BY TaskShape
      <3>2. \A p \in Places : stored'[p] = IF p = op[q].place THEN stored[p] \ {op[q].name} ELSE stored[p]
        BY <2>1, <2>3, <3>1 DEF Drop
      <3> QED BY <2>1, <3>2
    <2>4. ASSUME NEW q \in Requests, pc[q] = "record", stored' = Drop(q) PROVE FALSE
      BY <2>1, <2>3, <2>4, Publishing
    <2>5. CASE \E q \in Requests : CreateFile(q) \/ RecordAttachment(q) \/ WriteFails(q)
      BY <2>2, <2>4, <2>5 DEF CreateFile, RecordAttachment, WriteFails, Release, Advertise
    <2>6. CASE \E q \in Requests : RemoveFile(q)
      <3>1. PICK q \in Requests : RemoveFile(q)
        BY <2>6
      <3>2. lock = q /\ op[q].kind = "remove" /\ stored' = Drop(q)
        BY <3>1, TaskShape DEF RemoveFile, Release
      <3> QED BY <2>3, <3>2
    <2>7. CASE \E q \in Requests : RemoveEntry(q)
      BY <2>7, TaskShape DEF RemoveEntry, IInv, RequestOK
    <2> QED BY <2>5, <2>6, <2>7, FileWriters
  <1> QED BY <1>1, Invariant, PTL DEF Spec, UploadsStay
=============================================================================
