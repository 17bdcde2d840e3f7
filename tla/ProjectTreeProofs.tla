------------------------- MODULE ProjectTreeProofs -------------------------
(***************************************************************************)
(* Theorems about ProjectTree for any number of requests, projects, names  *)
(* and users, any operations, with crashes or without.                     *)
(***************************************************************************)
EXTENDS ProjectTree, TLAPS

(* ------------------------ the inductive invariant ----------------------- *)

Critical == {"held", "publish", "copied", "emptying"}
Phases == Critical \union {"idle", "waiting", "revoking", "granting", "done"}
Nodes == [kind : NodeKinds, by : Requests \union {NoOne}]
Ops == [act : AllKinds \union {"none"}, kind : NodeKinds, project : Projects \union {NoProject},
        name : Names \union {NoName}, target : Projects \union {NoProject},
        user : Users \union {NoUser}, role : Roles]

TypeOK ==
    /\ lock \in Requests \union {NoOne}
    /\ marker \subseteq Projects
    /\ tree \in [Folders -> SUBSET Nodes]
    /\ grants \in [Projects -> [Users -> Roles]]
    /\ given \in [Projects -> SUBSET Users]
    /\ pc \in [Requests -> Phases]
    /\ op \in [Requests -> Ops]

\* A request is inside the critical section exactly while it holds the lock.
LockInv == \A r \in Requests : pc[r] \in Critical <=> lock = r

\* What a request may be asked: a place in the tree, and a name that fits.
Asked(o) ==
    /\ o \in Ops /\ o.act \in AllKinds /\ o.project \in Projects
    /\ o.act \notin {"createProject", "deleteProject", "grant", "ungrant"} => o.name \in Names
    /\ o.act \in {"grant", "ungrant"} => o.user \in Users
    /\ o.act \in {"copy", "move"} => o.target \in Projects
    /\ o.act = "create" => Fits(o.kind, o.name)

\* What a request was asked, by where it is.
OpOK(r) ==
    /\ pc[r] \notin {"idle", "done"} => Asked(op[r])
    /\ pc[r] = "publish" => op[r].act \in {"createProject", "create", "copy", "move"}
    /\ pc[r] = "copied" => op[r].act = "move"
    /\ pc[r] \in {"emptying", "revoking"} => op[r].act = "deleteProject"
    /\ pc[r] = "granting" => op[r].act \in {"grant", "ungrant"}
    /\ pc[r] \in {"waiting"} \union Critical => op[r].act \notin {"grant", "ungrant"}

\* What the request checked under the lock is still so when it publishes, and a
\* move that copied has the same entry at both ends.
PlaceOK(r) ==
    /\ pc[r] = "publish" /\ op[r].act = "create" => Available(At(r), op[r].kind)
    /\ pc[r] = "publish" /\ op[r].act \in {"copy", "move"} =>
          tree[At(r)] # {} /\ tree[To(r)] = {} /\ op[r].name \notin Reserved
    /\ pc[r] = "copied" => At(r) # To(r) /\ tree[To(r)] = tree[At(r)]

\* Collections have the reserved names, and nothing else has.
ReservedInv ==
    \A f \in Folders : \A n \in tree[f] : n.kind = "collection" <=> f[2] \in Reserved

\* Whoever has a role in a project was given it since its grants were forgotten.
Forgotten(p) == \A u \in Users : grants[p][u] # "none" => u \in given[p]

\* That is so of a project whose removal is past its first transaction ...
RevokedOK(r) ==
    pc[r] \in {"waiting"} \union Critical /\ op[r].act = "deleteProject"
       => Forgotten(op[r].project)

\* ... and of one that is not there.
GrantInv == \A p \in Projects : p \notin marker => Forgotten(p)

RequestInv == \A r \in Requests : OpOK(r) /\ PlaceOK(r) /\ RevokedOK(r)

IInv == TypeOK /\ LockInv /\ RequestInv /\ ReservedInv /\ GrantInv /\ OneKind

(* ----------------------- every action preserves it ---------------------- *)

\* The stored projects as a deployment finds them.
LEMMA InitInv == Init => IInv
  <1> SUFFICES ASSUME Init PROVE IInv
    OBVIOUS
  <1>1. PICK f \in Folders, kind \in {"suite", "case"} :
           tree = [g \in Folders |->
                     IF g = f /\ f[1] \in marker /\ f[2] \notin Reserved
                     THEN {[kind |-> kind, by |-> NoOne]} ELSE {}]
    BY DEF Init
  <1>2. [kind |-> kind, by |-> NoOne] \in Nodes
    BY DEF Nodes, NodeKinds
  <1>3. NoOp \in Ops
    BY DEF NoOp, Ops, NodeKinds, Roles
  <1>4. TypeOK
    BY <1>1, <1>2, <1>3 DEF Init, TypeOK, Phases, Roles
  <1>5. LockInv
    BY TreeAssumption DEF Init, LockInv, Critical
  <1>6. RequestInv
    BY DEF Init, RequestInv, OpOK, PlaceOK, RevokedOK, Forgotten, Critical
  <1>7. ReservedInv /\ OneKind
    BY <1>1 DEF ReservedInv, OneKind
  <1>8. GrantInv
    BY DEF Init, GrantInv, Forgotten
  <1> QED BY <1>4, <1>5, <1>6, <1>7, <1>8 DEF IInv

\* A step of one request.  The entries change only under the lock, where no other
\* request has checked anything, and a forgotten project stays forgotten.
LEMMA StepFrame ==
    ASSUME IInv, NEW r \in Requests, TypeOK', ReservedInv', OneKind', GrantInv',
           \A q \in Requests : q # r => pc'[q] = pc[q] /\ op'[q] = op[q],
           lock' = lock \/ (lock \in {NoOne, r} /\ lock' \in {NoOne, r}),
           pc'[r] \in Critical <=> lock' = r,
           tree' = tree \/ lock = r,
           \A p \in Projects : Forgotten(p) => Forgotten(p)',
           OpOK(r)', PlaceOK(r)', RevokedOK(r)'
    PROVE  IInv'
  <1>1. LockInv'
    BY TreeAssumption DEF IInv, TypeOK, LockInv
  <1>2. ASSUME NEW q \in Requests, q # r
        PROVE  OpOK(q)' /\ PlaceOK(q)' /\ RevokedOK(q)'
    <2>1. OpOK(q)'
      BY <1>2 DEF IInv, RequestInv, OpOK, Asked
    <2>2. PlaceOK(q)'
      <3>1. CASE tree' = tree
        BY <1>2, <3>1 DEF IInv, RequestInv, PlaceOK, Available, At, To
      <3>2. CASE lock = r
        <4>1. pc[q] \notin Critical
          BY <1>2, <3>2 DEF IInv, LockInv
        <4> QED BY <1>2, <4>1 DEF PlaceOK, Critical
      <3> QED BY <3>1, <3>2
    <2>3. RevokedOK(q)'
      <3>1. CASE pc[q] \in {"waiting"} \union Critical /\ op[q].act = "deleteProject"
        <4>1. Forgotten(op[q].project) /\ op[q].project \in Projects
          BY <3>1 DEF IInv, RequestInv, OpOK, RevokedOK, Forgotten, Asked, Critical
        <4> QED BY <1>2, <4>1 DEF RevokedOK, Forgotten
      <3>2. CASE ~(pc[q] \in {"waiting"} \union Critical /\ op[q].act = "deleteProject")
        BY <1>2, <3>2 DEF RevokedOK, Forgotten
      <3> QED BY <3>1, <3>2
    <2> QED BY <2>1, <2>2, <2>3
  <1>3. RequestInv'
    BY <1>2 DEF RequestInv
  <1> QED BY <1>1, <1>3 DEF IInv

\* A request that is answered forgets what it was asked.
LEMMA FinishFacts ==
    ASSUME TypeOK, NEW r \in Requests, NEW status, Finish(r, status)
    PROVE  /\ pc' \in [Requests -> Phases] /\ op' \in [Requests -> Ops]
           /\ pc'[r] = "done" /\ "done" \notin Critical
           /\ \A q \in Requests : q # r => pc'[q] = pc[q] /\ op'[q] = op[q]
           /\ OpOK(r)' /\ PlaceOK(r)' /\ RevokedOK(r)'
  <1>1. NoOp \in Ops
    BY DEF NoOp, Ops, NodeKinds, Roles
  <1>2. /\ pc' \in [Requests -> Phases] /\ op' \in [Requests -> Ops]
        /\ pc'[r] = "done" /\ \A q \in Requests : q # r => pc'[q] = pc[q] /\ op'[q] = op[q]
    BY <1>1 DEF TypeOK, Phases, Finish, Goto
  <1> QED BY <1>2 DEF OpOK, PlaceOK, RevokedOK, Forgotten, Critical

\* A request that is answered and stores nothing.
LEMMA AnsweredInv ==
    ASSUME IInv, NEW r \in Requests, NEW status, Finish(r, status),
           UNCHANGED <<marker, tree, grants, given>>,
           lock' = IF lock = r THEN NoOne ELSE lock
    PROVE  IInv'
  <1>1. TypeOK' /\ ReservedInv' /\ OneKind' /\ GrantInv'
    BY FinishFacts DEF IInv, TypeOK, ReservedInv, OneKind, GrantInv, Forgotten
  <1>2. lock' # r
    BY TreeAssumption
  <1> QED BY <1>1, <1>2, FinishFacts, StepFrame DEF Forgotten, IInv

\* A request that passed its look-ups waits for the lock.
LEMMA SubmitInv ==
    ASSUME IInv, NEW r \in Requests, NEW o, Asked(o),
           NEW phase \in {"waiting", "revoking", "granting"}, Submit(r, o, phase),
           o.act = "deleteProject" <=> phase = "revoking",
           o.act \in {"grant", "ungrant"} <=> phase = "granting"
    PROVE  IInv'
  <1>1. /\ pc[r] = "idle" /\ UNCHANGED <<lock, marker, tree, grants, given>>
        /\ pc' = [pc EXCEPT ![r] = phase] /\ op' = [op EXCEPT ![r] = o]
    BY DEF Submit, Goto
  <1>2. TypeOK'
    BY <1>1 DEF IInv, TypeOK, Phases, Asked
  <1>3. ReservedInv' /\ OneKind' /\ GrantInv'
    BY <1>1 DEF IInv, ReservedInv, OneKind, GrantInv, Forgotten
  <1>4. /\ pc'[r] = phase /\ op'[r] = o
        /\ \A q \in Requests : q # r => pc'[q] = pc[q] /\ op'[q] = op[q]
    BY <1>1 DEF IInv, TypeOK
  <1>5. lock' # r /\ pc'[r] \notin Critical
    BY <1>1, <1>4 DEF IInv, LockInv, Critical
  <1>6. OpOK(r)' /\ PlaceOK(r)' /\ RevokedOK(r)'
    BY <1>4 DEF OpOK, PlaceOK, RevokedOK, Forgotten, Critical, Asked
  <1> QED BY <1>1, <1>2, <1>3, <1>4, <1>5, <1>6, StepFrame DEF Forgotten

\* A request that fails its look-ups is answered at once.
LEMMA RefuseInv ==
    ASSUME IInv, NEW r \in Requests, NEW act, NEW status, Refuse(r, act, status)
    PROVE  IInv'
  <1>1. lock # r
    BY DEF IInv, LockInv, Refuse, Critical
  <1> QED BY <1>1, AnsweredInv DEF Refuse


\* A client's request, whatever it asks, preserves the invariant.
LEMMA ClientInv ==
    ASSUME IInv, NEW r \in Requests, Client(r)
    PROVE  IInv'
  <1>1. ASSUME NEW o, Asked(o), o.act \notin {"deleteProject", "grant", "ungrant"},
               NEW body, CreateFrom(r, o, body)
        PROVE  IInv'
    BY <1>1, SubmitInv, RefuseInv DEF CreateFrom
  <1>2. ASSUME NEW p \in Projects, CreateProject(r, p) PROVE IInv'
    <2> DEFINE o == [NoOp EXCEPT !.act = "createProject", !.project = p]
    <2>1. Asked(o) /\ o.act = "createProject"
      BY DEF NoOp, AllKinds, NodeKinds, Asked, Ops, Roles
    <2> HIDE DEF o
    <2> QED BY <1>1, <1>2, <2>1 DEF CreateProject, o
  <1>3. ASSUME NEW p \in Projects, NEW n \in Names, NEW kind \in NodeKinds, CreateIn(r, p, n, kind)
        PROVE  IInv'
    <2> DEFINE o == [NoOp EXCEPT !.act = "create", !.kind = kind, !.project = p, !.name = n]
    <2>1. Fits(kind, n)
      BY <1>3 DEF CreateIn
    <2>2. Asked(o) /\ o.act = "create"
      BY <2>1 DEF NoOp, AllKinds, Asked, Ops, Roles
    <2> HIDE DEF o
    <2> QED BY <1>1, <1>3, <2>2, RefuseInv DEF CreateIn, o
  <1>4. ASSUME NEW p \in Projects, NEW n \in Names, NEW kind \in NodeKinds, DeleteIn(r, p, n, kind)
        PROVE  IInv'
    <2> DEFINE o == [NoOp EXCEPT !.act = "deleteIn", !.kind = kind, !.project = p, !.name = n]
    <2>1. Asked(o) /\ o.act = "deleteIn"
      BY DEF NoOp, AllKinds, Asked, Ops, Roles
    <2> HIDE DEF o
    <2> QED BY <1>4, <2>1, SubmitInv, RefuseInv DEF DeleteIn, InParent, o
  <1>5. ASSUME NEW p \in Projects, NEW copy \in Projects, DuplicateProject(r, p, copy)
        PROVE  IInv'
    <2> DEFINE o == [NoOp EXCEPT !.act = "createProject", !.project = copy]
    <2>1. Asked(o) /\ o.act = "createProject"
      BY DEF NoOp, AllKinds, NodeKinds, Asked, Ops, Roles
    <2> HIDE DEF o
    <2> QED BY <1>5, <2>1, SubmitInv, RefuseInv DEF DuplicateProject, o
  <1>6. ASSUME NEW p \in Projects, NEW u \in Users, DeleteProject(r, p, u)
        PROVE  IInv'
    <2> DEFINE o == [NoOp EXCEPT !.act = "deleteProject", !.project = p, !.user = u]
    <2>1. Asked(o) /\ o.act = "deleteProject"
      BY DEF NoOp, AllKinds, NodeKinds, Asked, Ops, Roles
    <2> HIDE DEF o
    <2> QED BY <1>6, <2>1, SubmitInv, RefuseInv DEF DeleteProject, o
  <1>7. ASSUME NEW n \in Names, NEW kind \in NodeKinds, Delete(r, n, kind)
        PROVE  IInv'
    <2>1. CASE Unresolved(r, "delete", kind, n)
      BY <2>1, RefuseInv DEF Unresolved
    <2>2. ASSUME NEW p \in Projects,
                 Submit(r, [NoOp EXCEPT !.act = "delete", !.kind = kind, !.name = n, !.project = p],
                        "waiting")
          PROVE  IInv'
      <3> DEFINE o == [NoOp EXCEPT !.act = "delete", !.kind = kind, !.name = n, !.project = p]
      <3>1. Asked(o) /\ o.act = "delete"
        BY DEF NoOp, AllKinds, Asked, Ops, Roles
      <3>2. Submit(r, o, "waiting")
        BY <2>2
      <3> HIDE DEF o
      <3> QED BY <3>1, <3>2, SubmitInv
    <2> QED BY <1>7, <2>1, <2>2 DEF Delete
  <1>8. ASSUME NEW n \in Names, NEW kind \in NodeKinds, NEW copy \in Names,
               Duplicate(r, n, kind, copy)
        PROVE  IInv'
    <2>1. CASE Unresolved(r, "create", kind, n)
      BY <2>1, RefuseInv DEF Unresolved
    <2>2. ASSUME NEW p \in Projects,
                 Submit(r, [NoOp EXCEPT !.act = "create", !.kind = kind, !.name = copy, !.project = p],
                        "waiting")
          PROVE  IInv'
      <3> DEFINE o == [NoOp EXCEPT !.act = "create", !.kind = kind, !.name = copy, !.project = p]
      <3>1. Asked(o) /\ o.act = "create"
        BY <1>8 DEF NoOp, AllKinds, Asked, Ops, Roles, Duplicate, Fits
      <3>2. Submit(r, o, "waiting")
        BY <2>2
      <3> HIDE DEF o
      <3> QED BY <3>1, <3>2, SubmitInv
    <2> QED BY <1>8, <2>1, <2>2 DEF Duplicate
  <1>9. ASSUME NEW n \in Names, NEW kind \in NodeKinds, NEW target \in Projects,
               NEW mode \in {"copy", "move"}, PlaceInto(r, n, kind, target, mode)
        PROVE  IInv'
    <2>1. CASE Unresolved(r, mode, kind, n)
      BY <2>1, RefuseInv DEF Unresolved
    <2>2. CASE Refuse(r, mode, "missing")
      BY <2>2, RefuseInv
    <2>3. ASSUME NEW p \in Projects,
                 Submit(r, [NoOp EXCEPT !.act = mode, !.kind = kind, !.name = n,
                                        !.project = p, !.target = target], "waiting")
          PROVE  IInv'
      <3> DEFINE o == [NoOp EXCEPT !.act = mode, !.kind = kind, !.name = n,
                                   !.project = p, !.target = target]
      <3>1. Asked(o) /\ o.act = mode
        BY DEF NoOp, AllKinds, Asked, Ops, Roles
      <3>2. Submit(r, o, "waiting")
        BY <2>3
      <3> HIDE DEF o
      <3> QED BY <3>1, <3>2, SubmitInv
    <2> QED BY <1>9, <2>1, <2>2, <2>3 DEF PlaceInto
  <1>10. \A p \in Projects, n \in Names :
            CreateProjectSuite(r, p, n) \/ CreateProjectCase(r, p, n)
              \/ CreateProjectDocument(r, p, n) => IInv'
    BY <1>3 DEF CreateProjectSuite, CreateProjectCase, CreateProjectDocument, NodeKinds
  <1>11. \A p \in Projects, n \in Names :
            DeleteProjectSuite(r, p, n) \/ DeleteProjectCase(r, p, n) => IInv'
    BY <1>4 DEF DeleteProjectSuite, DeleteProjectCase, NodeKinds
  <1>12. ASSUME NEW p \in Projects, NEW u \in Users, NEW role \in Roles, SeedGrant(r, p, u, role)
         PROVE  IInv'
    <2> DEFINE o == [NoOp EXCEPT !.act = "grant", !.project = p, !.user = u, !.role = role]
    <2>1. Asked(o) /\ o.act = "grant"
      BY DEF NoOp, AllKinds, NodeKinds, Asked, Ops
    <2> HIDE DEF o
    <2> QED BY <1>12, <2>1, SubmitInv, RefuseInv DEF SeedGrant, o
  <1>13. ASSUME NEW p \in Projects, NEW u \in Users, UnseedGrant(r, p, u)
         PROVE  IInv'
    <2> DEFINE o == [NoOp EXCEPT !.act = "ungrant", !.project = p, !.user = u]
    <2>1. Asked(o) /\ o.act = "ungrant"
      BY DEF NoOp, AllKinds, NodeKinds, Asked, Ops, Roles
    <2> HIDE DEF o
    <2> QED BY <1>13, <2>1, SubmitInv, RefuseInv DEF UnseedGrant, o
  <1> QED
    BY <1>2, <1>5, <1>6, <1>7, <1>8, <1>9, <1>10, <1>11, <1>12, <1>13 DEF Client

\* A request that holds the lock was asked something definite about folders that
\* can be.
LEMMA HolderFacts ==
    ASSUME IInv, NEW r \in Requests, pc[r] \in Critical
    PROVE  /\ lock = r /\ Asked(op[r]) /\ op[r] \in Ops /\ op[r].project \in Projects
           /\ op[r].act \notin {"createProject", "deleteProject"} => At(r) \in Folders
           /\ op[r].act \in {"copy", "move"} => To(r) \in Folders
  <1>1. lock = r /\ Asked(op[r]) /\ op[r].act \notin {"grant", "ungrant"}
    BY DEF IInv, LockInv, RequestInv, OpOK, Critical
  <1> QED BY <1>1 DEF Asked, At, To, Folders

\* Taking the lock preserves the invariant.
LEMMA AcquireLockInv ==
    ASSUME IInv, NEW r \in Requests, AcquireLock(r)
    PROVE  IInv'
  <1>1. /\ pc[r] = "waiting" /\ lock = NoOne /\ lock' = r /\ pc' = [pc EXCEPT ![r] = "held"]
        /\ UNCHANGED <<marker, tree, grants, given, op>>
    BY DEF AcquireLock, Goto
  <1>2. TypeOK' /\ ReservedInv' /\ OneKind' /\ GrantInv'
    BY <1>1 DEF IInv, TypeOK, ReservedInv, OneKind, GrantInv, Forgotten, Phases, Critical
  <1>3. pc'[r] = "held" /\ \A q \in Requests : q # r => pc'[q] = pc[q]
    BY <1>1 DEF IInv, TypeOK
  <1>4. OpOK(r)' /\ PlaceOK(r)' /\ RevokedOK(r)'
    BY <1>1, <1>3 DEF IInv, RequestInv, OpOK, Asked, PlaceOK, RevokedOK, Forgotten, Critical
  <1> QED BY <1>1, <1>2, <1>3, <1>4, StepFrame DEF Forgotten, Critical

\* A lock that was not free in time is answered 503 and changes nothing.
LEMMA LockTimeoutInv ==
    ASSUME IInv, NEW r \in Requests, LockTimeout(r)
    PROVE  IInv'
  <1>1. lock # r
    BY DEF IInv, LockInv, LockTimeout, Critical
  <1> QED BY <1>1, AnsweredInv DEF LockTimeout

\* A process that dies stores nothing more and frees the lock.
LEMMA CrashInv ==
    ASSUME IInv, NEW r \in Requests, Crash(r)
    PROVE  IInv'
  BY AnsweredInv DEF Crash

\* A request that holds the lock goes on to publish, having checked its place.
LEMMA CheckedInv ==
    ASSUME IInv, NEW r \in Requests, pc[r] = "held", Wait(r, "publish"),
           UNCHANGED <<lock, marker, tree, grants, given>>,
           op[r].act \in {"createProject", "create", "copy", "move"},
           op[r].act = "create" => Available(At(r), op[r].kind),
           op[r].act \in {"copy", "move"} =>
              tree[At(r)] # {} /\ tree[To(r)] = {} /\ op[r].name \notin Reserved
    PROVE  IInv'
  <1>1. pc' = [pc EXCEPT ![r] = "publish"] /\ UNCHANGED op
    BY DEF Wait, Goto
  <1>2. TypeOK' /\ ReservedInv' /\ OneKind' /\ GrantInv'
    BY <1>1 DEF IInv, TypeOK, ReservedInv, OneKind, GrantInv, Forgotten, Phases, Critical
  <1>3. pc'[r] = "publish" /\ \A q \in Requests : q # r => pc'[q] = pc[q]
    BY <1>1 DEF IInv, TypeOK
  <1>4. lock = r /\ Asked(op[r])
    BY HolderFacts DEF Critical
  <1>5. OpOK(r)'
    BY <1>1, <1>3, <1>4 DEF OpOK, Asked
  <1>6. PlaceOK(r)'
    BY <1>1, <1>3 DEF PlaceOK, Available, At, To
  <1>7. RevokedOK(r)'
    BY <1>1 DEF RevokedOK, Forgotten
  <1> QED BY <1>1, <1>2, <1>3, <1>4, <1>5, <1>6, <1>7, StepFrame DEF Forgotten, Critical

\* The checks of a create and of a placement preserve the invariant.
LEMMA ChecksInv ==
    ASSUME IInv, NEW r \in Requests, CreateCheck(r) \/ PlaceCheck(r) \/ ProjectMissing(r)
    PROVE  IInv'
  <1>1. pc[r] = "held" /\ lock = r /\ UNCHANGED <<marker, tree, grants, given>>
    BY HolderFacts DEF CreateCheck, PlaceCheck, ProjectMissing, Held, Critical
  <1>2. ASSUME NEW status, Leave(r, status) PROVE IInv'
    BY <1>1, <1>2, AnsweredInv DEF Leave
  <1>3. CASE CreateCheck(r)
    BY <1>1, <1>2, <1>3, CheckedInv DEF CreateCheck, Held
  <1>4. CASE PlaceCheck(r)
    BY <1>1, <1>2, <1>4, CheckedInv DEF PlaceCheck, Held
  <1>5. CASE ProjectMissing(r)
    BY <1>2, <1>5 DEF ProjectMissing
  <1> QED BY <1>3, <1>4, <1>5

\* A request that publishes, is answered and lets the lock go: it suffices to look
\* at what it stored.
LEMMA LeaveInv ==
    ASSUME IInv, NEW r \in Requests, lock = r, NEW status, Leave(r, status),
           marker' \subseteq Projects, tree' \in [Folders -> SUBSET Nodes], UNCHANGED <<grants, given>>,
           ReservedInv', OneKind', GrantInv'
    PROVE  IInv'
  <1>1. Finish(r, status) /\ lock' = NoOne
    BY DEF Leave
  <1>2. TypeOK'
    BY <1>1, FinishFacts DEF IInv, TypeOK
  <1> QED BY <1>1, <1>2, FinishFacts, StepFrame, TreeAssumption DEF Forgotten, IInv

\* A new entry goes into an empty folder, or into its collection's own.
LEMMA CreateWriteInv ==
    ASSUME IInv, NEW r \in Requests, CreateWrite(r)
    PROVE  IInv'
  <1>1. /\ pc[r] = "publish" /\ lock = r /\ Leave(r, "ok") /\ UNCHANGED <<grants, given>>
        /\ Asked(op[r]) /\ op[r] \in Ops /\ op[r].project \in Projects
    BY HolderFacts DEF CreateWrite, Critical
  <1>2. CASE op[r].act = "createProject" /\ marker' = marker \union {op[r].project} /\ UNCHANGED tree
    <2>1. ReservedInv' /\ OneKind' /\ GrantInv' /\ marker' \subseteq Projects
      BY <1>1, <1>2 DEF IInv, TypeOK, ReservedInv, OneKind, GrantInv, Forgotten
    <2> QED BY <1>1, <1>2, <2>1, LeaveInv DEF IInv, TypeOK
  <1>3. CASE /\ op[r].act = "create" /\ UNCHANGED marker
             /\ tree' = [tree EXCEPT ![At(r)] =
                           IF Holds(At(r), "collection") THEN @
                           ELSE @ \union {[kind |-> op[r].kind, by |-> r]}]
    <2> DEFINE node == [kind |-> op[r].kind, by |-> r]
    <2>1. At(r) \in Folders /\ At(r)[2] = op[r].name
      BY <1>1, <1>3, HolderFacts DEF Critical, At
    <2>2. node \in Nodes /\ node.kind = op[r].kind
      BY <1>1 DEF Nodes, Ops
    <2>3. Available(At(r), op[r].kind) /\ Fits(op[r].kind, op[r].name)
      BY <1>1, <1>3 DEF IInv, RequestInv, PlaceOK, Asked
    <2>4. /\ tree' \in [Folders -> SUBSET Nodes]
          /\ \A f \in Folders : f # At(r) => tree'[f] = tree[f]
          /\ tree'[At(r)] = IF Holds(At(r), "collection") THEN tree[At(r)]
                            ELSE tree[At(r)] \union {node}
      BY <1>3, <2>1, <2>2 DEF IInv, TypeOK
    <2> HIDE DEF node
    <2>5. op[r].kind = "collection" <=> op[r].name \in Reserved
      BY <2>1, <2>3 DEF Available, Fits
    <2>6. ~Holds(At(r), "collection") => tree[At(r)] = {}
      BY <2>1, <2>3, <2>5 DEF IInv, ReservedInv, Available, Holds
    <2>7. ReservedInv'
      BY <2>1, <2>2, <2>4, <2>5 DEF IInv, ReservedInv
    <2>8. OneKind'
      BY <2>1, <2>4, <2>6 DEF IInv, OneKind
    <2>9. GrantInv' /\ marker' \subseteq Projects
      BY <1>1, <1>3 DEF IInv, TypeOK, GrantInv, Forgotten
    <2> QED BY <1>1, <2>4, <2>7, <2>8, <2>9, LeaveInv
  <1> QED BY <1>2, <1>3 DEF CreateWrite

\* The folder goes with everything in it.
LEMMA DeleteAtInv ==
    ASSUME IInv, NEW r \in Requests, DeleteAt(r)
    PROVE  IInv'
  <1>1. /\ lock = r /\ At(r) \in Folders /\ UNCHANGED <<marker, grants, given>>
        /\ tree' = [tree EXCEPT ![At(r)] = {}]
    BY HolderFacts DEF DeleteAt, Held, Critical
  <1>2. tree' \in [Folders -> SUBSET Nodes] /\ \A f \in Folders : tree'[f] \in {tree[f], {}}
    BY <1>1 DEF IInv, TypeOK
  <1>3. ReservedInv' /\ OneKind'
    BY <1>2 DEF IInv, ReservedInv, OneKind
  <1>4. GrantInv' /\ marker' \subseteq Projects
    BY <1>1 DEF IInv, TypeOK, GrantInv, Forgotten
  <1> QED BY <1>1, <1>2, <1>3, <1>4, LeaveInv DEF DeleteAt

\* A request that keeps the lock for its next step.
LEMMA KeepsLockInv ==
    ASSUME IInv, NEW r \in Requests, lock = r, pc[r] \in Critical, UNCHANGED lock,
           NEW phase \in {"copied", "emptying"}, Wait(r, phase),
           phase = "copied" => op[r].act = "move" /\ At(r) # To(r) /\ tree'[To(r)] = tree'[At(r)],
           phase = "emptying" => op[r].act = "deleteProject",
           marker' \subseteq Projects, tree' \in [Folders -> SUBSET Nodes], UNCHANGED <<grants, given>>,
           ReservedInv', OneKind', GrantInv'
    PROVE  IInv'
  <1>1. pc' = [pc EXCEPT ![r] = phase] /\ UNCHANGED op
    BY DEF Wait, Goto
  <1>2. TypeOK'
    BY <1>1 DEF IInv, TypeOK, Phases, Critical
  <1>3. /\ pc'[r] = phase /\ phase \in Critical
        /\ \A q \in Requests : q # r => pc'[q] = pc[q]
    BY <1>1 DEF IInv, TypeOK, Critical
  <1>4. OpOK(r)'
    BY <1>1, <1>3, HolderFacts DEF OpOK, Asked
  <1>5. PlaceOK(r)'
    BY <1>1, <1>3 DEF PlaceOK, At, To
  <1>6. RevokedOK(r)'
    BY <1>1, <1>3 DEF IInv, RequestInv, RevokedOK, Forgotten
  <1> QED BY <1>1, <1>2, <1>3, <1>4, <1>5, <1>6, StepFrame DEF Forgotten

\* The two ends of a placement that is about to publish: they differ, and a copy
\* of the one into the other keeps a folder to one entry of a kind that fits.
LEMMA PlaceFacts ==
    ASSUME IInv, NEW r \in Requests, PlaceWrite(r)
    PROVE  /\ lock = r /\ pc[r] \in Critical /\ At(r) \in Folders /\ To(r) \in Folders
           /\ At(r) # To(r) /\ UNCHANGED <<marker, grants, given>>
           /\ tree'[To(r)] = tree[At(r)]
           /\ tree'[At(r)] \in {tree[At(r)], {}}
           /\ \A f \in Folders : f \notin {At(r), To(r)} => tree'[f] = tree[f]
           /\ tree' \in [Folders -> SUBSET Nodes]
           /\ ReservedInv' /\ OneKind' /\ GrantInv'
  <1>1. pc[r] = "publish" /\ op[r].act \in {"copy", "move"} /\ UNCHANGED <<marker, grants, given>>
    BY DEF PlaceWrite
  <1>2. lock = r /\ pc[r] \in Critical /\ At(r) \in Folders /\ To(r) \in Folders
    BY <1>1, HolderFacts DEF Critical
  <1>3. At(r) # To(r) /\ op[r].name \notin Reserved
    BY <1>1 DEF IInv, RequestInv, PlaceOK
  <1>4. \/ tree' = [tree EXCEPT ![To(r)] = tree[At(r)], ![At(r)] = {}]
        \/ tree' = [tree EXCEPT ![To(r)] = tree[At(r)]]
    BY DEF PlaceWrite
  <1>5. /\ tree'[To(r)] = tree[At(r)]
        /\ tree'[At(r)] \in {tree[At(r)], {}}
        /\ \A f \in Folders : f \notin {At(r), To(r)} => tree'[f] = tree[f]
        /\ tree' \in [Folders -> SUBSET Nodes]
    BY <1>2, <1>3, <1>4 DEF IInv, TypeOK
  <1>6. At(r)[2] = To(r)[2]
    BY DEF At, To
  <1>7. ReservedInv'
    <2> SUFFICES ASSUME NEW f \in Folders, NEW n \in tree'[f]
                 PROVE  n.kind = "collection" <=> f[2] \in Reserved
      BY DEF ReservedInv
    <2>1. CASE f = To(r)
      BY <1>2, <1>5, <1>6, <2>1 DEF IInv, ReservedInv
    <2>2. CASE f # To(r)
      BY <1>2, <1>5, <2>2 DEF IInv, ReservedInv
    <2> QED BY <2>1, <2>2
  <1>8. OneKind'
    BY <1>2, <1>5 DEF IInv, OneKind
  <1>9. GrantInv'
    BY <1>1 DEF IInv, GrantInv, Forgotten
  <1> QED BY <1>1, <1>2, <1>3, <1>5, <1>7, <1>8, <1>9

\* A rename, or the copy of one, preserves the invariant.
LEMMA PlaceWriteInv ==
    ASSUME IInv, NEW r \in Requests, PlaceWrite(r)
    PROVE  IInv'
  <1>1. marker' \subseteq Projects
    BY PlaceFacts DEF IInv, TypeOK
  <1>2. CASE Leave(r, "ok")
    BY <1>1, <1>2, PlaceFacts, LeaveInv
  <1>3. CASE /\ op[r].act = "move" /\ Wait(r, "copied") /\ UNCHANGED lock
             /\ tree' = [tree EXCEPT ![To(r)] = tree[At(r)]]
    <2>1. tree'[At(r)] = tree[At(r)]
      BY <1>3, PlaceFacts DEF IInv, TypeOK
    <2> QED BY <1>1, <1>3, <2>1, PlaceFacts, KeepsLockInv
  <1> QED BY <1>2, <1>3 DEF PlaceWrite

\* The removal that ends a move across volumes.
LEMMA PlaceRemoveInv ==
    ASSUME IInv, NEW r \in Requests, PlaceRemove(r)
    PROVE  IInv'
  <1>1. pc[r] = "copied" /\ op[r].act = "move"
    BY DEF PlaceRemove, IInv, RequestInv, OpOK
  <1>2. /\ lock = r /\ At(r) \in Folders /\ UNCHANGED <<marker, grants, given>>
        /\ tree' = [tree EXCEPT ![At(r)] = {}]
    BY <1>1, HolderFacts DEF PlaceRemove, Critical
  <1>3. tree' \in [Folders -> SUBSET Nodes] /\ \A f \in Folders : tree'[f] \in {tree[f], {}}
    BY <1>2 DEF IInv, TypeOK
  <1>4. ReservedInv' /\ OneKind'
    BY <1>3 DEF IInv, ReservedInv, OneKind
  <1>5. GrantInv' /\ marker' \subseteq Projects
    BY <1>2 DEF IInv, TypeOK, GrantInv, Forgotten
  <1> QED BY <1>2, <1>3, <1>4, <1>5, LeaveInv DEF PlaceRemove

\* The grants go in a transaction of their own, before the folder.
LEMMA RevokeProjectGrantsInv ==
    ASSUME IInv, NEW r \in Requests, RevokeProjectGrants(r)
    PROVE  IInv'
  <1>1. /\ pc[r] = "revoking" /\ lock = NoOne /\ UNCHANGED <<lock, marker, tree, op>>
        /\ grants' = [grants EXCEPT ![op[r].project] = [u \in Users |-> "none"]]
        /\ given' = [given EXCEPT ![op[r].project] = {}]
        /\ pc' = [pc EXCEPT ![r] = "waiting"]
    BY DEF RevokeProjectGrants, Wait, Goto
  <1>2. Asked(op[r]) /\ op[r].project \in Projects /\ op[r].act = "deleteProject"
    BY <1>1 DEF IInv, RequestInv, OpOK, Asked
  <1>3. TypeOK'
    BY <1>1, <1>2 DEF IInv, TypeOK, Phases, Roles
  <1>4. Forgotten(op[r].project)'
    BY <1>1, <1>2 DEF IInv, TypeOK, Forgotten
  <1>5. \A p \in Projects : Forgotten(p) => Forgotten(p)'
    BY <1>1, <1>2, <1>4 DEF IInv, TypeOK, Forgotten
  <1>6. ReservedInv' /\ OneKind' /\ GrantInv'
    <2>1. GrantInv'
      BY <1>1, <1>5 DEF IInv, GrantInv
    <2> QED BY <1>1, <2>1 DEF IInv, ReservedInv, OneKind
  <1>7. pc'[r] = "waiting" /\ \A q \in Requests : q # r => pc'[q] = pc[q]
    BY <1>1 DEF IInv, TypeOK
  <1>8. OpOK(r)' /\ PlaceOK(r)' /\ RevokedOK(r)'
    BY <1>1, <1>2, <1>4, <1>7 DEF OpOK, PlaceOK, RevokedOK, Asked, Critical
  <1> QED
    BY <1>1, <1>3, <1>5, <1>6, <1>7, <1>8, StepFrame, TreeAssumption DEF Critical

\* A role that a command writes is one given since; one that it drops is gone.
LEMMA RoleInv ==
    ASSUME IInv, NEW r \in Requests, SetRole(r) \/ RemoveRole(r)
    PROVE  IInv'
  <1>1. /\ pc[r] = "granting" /\ lock = NoOne /\ UNCHANGED <<lock, marker, tree>>
        /\ Finish(r, "ok")
    BY DEF SetRole, RemoveRole
  <1>2. op[r] \in Ops /\ op[r].project \in Projects /\ op[r].user \in Users /\ op[r].role \in Roles
    BY <1>1 DEF IInv, RequestInv, OpOK, Asked, Ops
  <1>3. /\ grants' \in [Projects -> [Users -> Roles]] /\ given' \in [Projects -> SUBSET Users]
        /\ \A p \in Projects : Forgotten(p) => Forgotten(p)'
    <2>1. CASE SetRole(r)
      <3>1. /\ grants' = [grants EXCEPT ![op[r].project][op[r].user] = op[r].role]
            /\ given' = [given EXCEPT ![op[r].project] = @ \union {op[r].user}]
        BY <2>1 DEF SetRole
      <3>2. grants' \in [Projects -> [Users -> Roles]] /\ given' \in [Projects -> SUBSET Users]
        BY <1>2, <3>1 DEF IInv, TypeOK
      <3> QED BY <1>2, <3>1, <3>2 DEF IInv, TypeOK, Forgotten
    <2>2. CASE RemoveRole(r)
      <3>1. grants' = [grants EXCEPT ![op[r].project][op[r].user] = "none"] /\ given' = given
        BY <2>2 DEF RemoveRole
      <3>2. grants' \in [Projects -> [Users -> Roles]]
        BY <1>2, <3>1 DEF IInv, TypeOK, Roles
      <3> QED BY <1>2, <3>1, <3>2 DEF IInv, TypeOK, Forgotten
    <2> QED BY <2>1, <2>2
  <1>4. TypeOK'
    BY <1>1, <1>3, FinishFacts DEF IInv, TypeOK
  <1>5. ReservedInv' /\ OneKind' /\ GrantInv'
    <2>1. GrantInv'
      BY <1>1, <1>3 DEF IInv, GrantInv
    <2> QED BY <1>1, <2>1 DEF IInv, ReservedInv, OneKind
  <1>6. lock' # r
    BY <1>1, TreeAssumption
  <1> QED BY <1>1, <1>3, <1>4, <1>5, <1>6, FinishFacts, StepFrame DEF IInv

\* Removing one entry of a project whose grants are gone preserves the invariant.
LEMMA RemoveProjectEntryInv ==
    ASSUME IInv, NEW r \in Requests, RemoveProjectEntry(r)
    PROVE  IInv'
  <1>1. pc[r] \in Critical /\ op[r].act = "deleteProject" /\ UNCHANGED <<grants, given>>
    BY DEF RemoveProjectEntry, Held, Critical, IInv, RequestInv, OpOK
  <1>2. lock = r /\ op[r].project \in Projects /\ Forgotten(op[r].project)
    BY <1>1, HolderFacts DEF IInv, RequestInv, RevokedOK, Forgotten
  <1>3. /\ marker' \in {marker, marker \ {op[r].project}}
        /\ tree' \in [Folders -> SUBSET Nodes]
        /\ \A f \in Folders : tree'[f] \in {tree[f], {}}
    <2>1. CASE marker' = marker \ {op[r].project} /\ UNCHANGED tree
      BY <2>1 DEF IInv, TypeOK
    <2>2. ASSUME NEW n \in Names, tree' = [tree EXCEPT ![<<op[r].project, n>>] = {}],
                 UNCHANGED marker
          PROVE  <1>3!:
      BY <1>2, <2>2 DEF IInv, TypeOK, Folders
    <2> QED BY <2>1, <2>2 DEF RemoveProjectEntry
  <1>4. ReservedInv' /\ OneKind'
    BY <1>3 DEF IInv, ReservedInv, OneKind
  <1>5. GrantInv' /\ marker' \subseteq Projects
    BY <1>1, <1>2, <1>3 DEF IInv, TypeOK, GrantInv, Forgotten
  <1>6. CASE Leave(r, "ok")
    BY <1>1, <1>2, <1>3, <1>4, <1>5, <1>6, LeaveInv
  <1>7. CASE Wait(r, "emptying") /\ UNCHANGED lock
    BY <1>1, <1>2, <1>3, <1>4, <1>5, <1>7, KeepsLockInv
  <1> QED BY <1>6, <1>7 DEF RemoveProjectEntry

\* Nothing happens: the invariant stays.
LEMMA StutterInv ==
    ASSUME IInv, UNCHANGED vars
    PROVE  IInv'
  BY DEF vars, IInv, TypeOK, LockInv, RequestInv, OpOK, Asked, PlaceOK, RevokedOK, Forgotten, Available, At, To,
         ReservedInv, GrantInv, OneKind

\* Every step preserves the invariant.
LEMMA NextInv == IInv /\ [Next]_vars => IInv'
  <1> SUFFICES ASSUME IInv, [Next]_vars PROVE IInv'
    OBVIOUS
  <1>1. ASSUME NEW r \in Requests, Client(r) PROVE IInv'
    BY <1>1, ClientInv
  <1>2. ASSUME NEW r \in Requests, Crash(r) PROVE IInv'
    BY <1>2, CrashInv
  <1>3. ASSUME NEW r \in Requests, Server(r) PROVE IInv'
    BY <1>3, AcquireLockInv, LockTimeoutInv, ChecksInv, CreateWriteInv, DeleteAtInv, PlaceWriteInv,
       PlaceRemoveInv, RevokeProjectGrantsInv, RoleInv, RemoveProjectEntryInv DEF Server
  <1>4. CASE UNCHANGED vars
    BY <1>4, StutterInv
  <1> QED BY <1>1, <1>2, <1>3, <1>4 DEF Next, AllAnswered

(* -------------------------------- theorems ------------------------------- *)

\* In every reachable state the tree, the grants and the requests fit together as
\* IInv says: acquire_lock excludes, and a location that ensure_kind_available or
\* place_locked found free stays free until the entry is published there.
THEOREM Invariant == Spec => []IInv
  <1> QED BY InitInv, NextInv, PTL DEF Spec

\* The steps that change what is stored: all of them hold the lock.
LEMMA StoringSteps ==
    ASSUME NEW r \in Requests, Client(r) \/ Server(r) \/ Crash(r),
           tree' # tree \/ marker' # marker
    PROVE  CreateWrite(r) \/ DeleteAt(r) \/ PlaceWrite(r) \/ PlaceRemove(r) \/ RemoveProjectEntry(r)
  <1>1. ASSUME NEW o, NEW phase, Submit(r, o, phase) PROVE FALSE
    BY <1>1 DEF Submit
  <1>2. ASSUME NEW act, NEW status, Refuse(r, act, status) PROVE FALSE
    BY <1>2 DEF Refuse
  <1>3. ASSUME NEW o, NEW body, CreateFrom(r, o, body) PROVE FALSE
    BY <1>1, <1>2, <1>3 DEF CreateFrom
  <1>4. ASSUME NEW p, NEW n, NEW kind, CreateIn(r, p, n, kind) \/ DeleteIn(r, p, n, kind)
        PROVE  FALSE
    BY <1>1, <1>2, <1>3, <1>4 DEF CreateIn, DeleteIn, InParent
  <1>5. ASSUME NEW act, NEW kind, NEW n, Unresolved(r, act, kind, n) PROVE FALSE
    BY <1>2, <1>5 DEF Unresolved
  <1>6. ~Client(r)
    <2>1. \A p : ~CreateProject(r, p)
      BY <1>3 DEF CreateProject
    <2>2. \A p, u : ~DeleteProject(r, p, u)
      BY <1>1, <1>2 DEF DeleteProject
    <2>3. \A p, c : ~DuplicateProject(r, p, c)
      BY <1>1, <1>2 DEF DuplicateProject
    <2>4. \A p, n : /\ ~CreateProjectSuite(r, p, n) /\ ~CreateProjectCase(r, p, n)
                    /\ ~CreateProjectDocument(r, p, n)
                    /\ ~DeleteProjectSuite(r, p, n) /\ ~DeleteProjectCase(r, p, n)
      BY <1>4 DEF CreateProjectSuite, CreateProjectCase, CreateProjectDocument, DeleteProjectSuite,
                  DeleteProjectCase
    <2>5. \A n, kind : ~Delete(r, n, kind)
      BY <1>1, <1>5 DEF Delete
    <2>6. \A n, kind, p, mode : ~PlaceInto(r, n, kind, p, mode)
      BY <1>1, <1>2, <1>5 DEF PlaceInto
    <2>7. \A n, kind, c : ~Duplicate(r, n, kind, c)
      BY <1>1, <1>5 DEF Duplicate
    <2>8. \A p, u, role : ~SeedGrant(r, p, u, role) /\ ~UnseedGrant(r, p, u)
      BY <1>1, <1>2 DEF SeedGrant, UnseedGrant
    <2> QED BY <2>1, <2>2, <2>3, <2>4, <2>5, <2>6, <2>7, <2>8 DEF Client
  <1>7. ~Crash(r)
    BY DEF Crash
  <1> QED BY <1>6, <1>7
        DEF Server, AcquireLock, LockTimeout, CreateCheck, PlaceCheck, RevokeProjectGrants,
            SetRole, RemoveRole, ProjectMissing

\* The fate of an entry in one step: it is still somewhere, or the request that
\* holds the lock was asked to delete the folder or the project it was in.
Kept(f, n) ==
    \/ \E g \in Folders : n \in tree'[g]
    \/ \E r \in Requests :
         /\ lock = r /\ op[r].project = f[1]
         /\ \/ op[r].act \in {"deleteIn", "delete"} /\ op[r].name = f[2]
            \/ op[r].act = "deleteProject"

\* No step takes an entry away that was not asked to.
LEMMA EntryKept ==
    ASSUME IInv, NEW r \in Requests, Client(r) \/ Server(r) \/ Crash(r), tree' # tree,
           NEW f \in Folders, NEW n \in tree[f]
    PROVE  Kept(f, n)
  <1>1. CASE CreateWrite(r)
    <2>1. CASE UNCHANGED tree
      BY <2>1 DEF Kept
    <2>2. CASE tree' = [tree EXCEPT ![At(r)] =
                           IF Holds(At(r), "collection") THEN @
                           ELSE @ \union {[kind |-> op[r].kind, by |-> r]}]
      <3>1. n \in tree'[f]
        BY <2>2 DEF IInv, TypeOK
      <3> QED BY <3>1 DEF Kept
    <2> QED BY <1>1, <2>1, <2>2 DEF CreateWrite
  <1>2. CASE DeleteAt(r)
    <2>1. /\ lock = r /\ op[r].act \in {"deleteIn", "delete"} /\ At(r) \in Folders
          /\ tree' = [tree EXCEPT ![At(r)] = {}]
      BY <1>2, HolderFacts DEF DeleteAt, Held, Critical
    <2>2. CASE f = At(r)
      BY <2>1, <2>2 DEF Kept, At
    <2>3. CASE f # At(r)
      <3>1. n \in tree'[f]
        BY <2>1, <2>3 DEF IInv, TypeOK
      <3> QED BY <3>1 DEF Kept
    <2> QED BY <2>2, <2>3
  <1>3. CASE PlaceWrite(r)
    <2>1. tree[To(r)] = {}
      BY <1>3 DEF PlaceWrite, IInv, RequestInv, PlaceOK
    <2>2. CASE f = At(r)
      BY <1>3, <2>2, PlaceFacts DEF Kept
    <2>3. CASE f # At(r)
      <3>1. f # To(r)
        BY <2>1
      <3>2. n \in tree'[f]
        BY <1>3, <2>3, <3>1, PlaceFacts
      <3> QED BY <3>2 DEF Kept
    <2> QED BY <2>2, <2>3
  <1>4. CASE PlaceRemove(r)
    <2>1. pc[r] = "copied" /\ op[r].act = "move" /\ At(r) # To(r) /\ tree[To(r)] = tree[At(r)]
      BY <1>4 DEF PlaceRemove, IInv, RequestInv, OpOK, PlaceOK
    <2>2. At(r) \in Folders /\ To(r) \in Folders /\ tree' = [tree EXCEPT ![At(r)] = {}]
      BY <1>4, <2>1, HolderFacts DEF PlaceRemove, Critical
    <2>3. CASE f = At(r)
      <3>1. n \in tree'[To(r)]
        BY <2>1, <2>2, <2>3 DEF IInv, TypeOK
      <3> QED BY <2>2, <3>1 DEF Kept
    <2>4. CASE f # At(r)
      <3>1. n \in tree'[f]
        BY <2>2, <2>4 DEF IInv, TypeOK
      <3> QED BY <3>1 DEF Kept
    <2> QED BY <2>3, <2>4
  <1>5. CASE RemoveProjectEntry(r)
    <2>1. pc[r] \in Critical /\ op[r].act = "deleteProject"
      BY <1>5 DEF RemoveProjectEntry, Held, Critical, IInv, RequestInv, OpOK
    <2>2. lock = r /\ op[r].project \in Projects
      BY <2>1, HolderFacts
    <2>3. PICK name \in Names : tree' = [tree EXCEPT ![<<op[r].project, name>>] = {}]
      BY <1>5 DEF RemoveProjectEntry
    <2>4. CASE f = <<op[r].project, name>>
      BY <2>1, <2>2, <2>4 DEF Kept
    <2>5. CASE f # <<op[r].project, name>>
      <3>1. n \in tree'[f]
        BY <2>3, <2>5 DEF IInv, TypeOK
      <3> QED BY <3>1 DEF Kept
    <2> QED BY <2>4, <2>5
  <1> QED BY <1>1, <1>2, <1>3, <1>4, <1>5, StoringSteps

\* "A folder holds one kind of node", and nothing stored disappears except in a
\* delete that holds the lock and names it: create_at's check of the location and
\* its write are one lock transaction, and a move across volumes (place_locked)
\* removes the source only once its copy is complete.
THEOREM Entries == Spec => EntriesKept
  <1>1. IInv /\ [Next]_vars =>
          [\A f \in Folders : \A n \in tree[f] :
              \/ \E g \in Folders : n \in tree'[g]
              \/ \E r \in Requests :
                   /\ lock = r /\ op[r].project = f[1]
                   /\ \/ op[r].act \in {"deleteIn", "delete"} /\ op[r].name = f[2]
                      \/ op[r].act = "deleteProject"]_tree
    <2> SUFFICES ASSUME IInv, Next, tree' # tree, NEW f \in Folders, NEW n \in tree[f]
                 PROVE  Kept(f, n)
      BY DEF vars, Kept
    <2> QED BY EntryKept DEF Next, AllAnswered, vars
  <1>2. IInv => OneKind
    BY DEF IInv
  <1> QED BY Invariant, <1>1, <1>2, PTL DEF Spec, EntriesKept, NothingVanishes

\* Whoever has a role in a project that comes into being was given it by a seeding
\* command since the grants of the former project of that identifier were forgotten:
\* revoke_project_grants ran, in a lock transaction of its own, before any entry of
\* the old project went, and only set_role writes a role.
THEOREM AccessLists == Spec => FreshAccessList
  <1>1. IInv /\ [Next]_vars =>
          [\A p \in marker' \ marker, u \in Users : grants'[p][u] # "none" => u \in given[p]]_marker
    <2> SUFFICES ASSUME IInv, Next, NEW p \in marker' \ marker, NEW u \in Users,
                        grants'[p][u] # "none"
                 PROVE  u \in given[p]
      BY DEF vars
    <2>1. PICK r \in Requests : Client(r) \/ Server(r) \/ Crash(r)
      BY DEF Next, AllAnswered, vars
    <2>2. CreateWrite(r)
      <3>1. CreateWrite(r) \/ DeleteAt(r) \/ PlaceWrite(r) \/ PlaceRemove(r) \/ RemoveProjectEntry(r)
        BY <2>1, StoringSteps
      <3> QED BY <3>1 DEF DeleteAt, PlaceWrite, PlaceRemove, RemoveProjectEntry
    <2>3. op[r].project \in Projects
      BY <2>2, HolderFacts DEF CreateWrite, Critical
    <2>4. p \in Projects /\ UNCHANGED <<grants, given>>
      BY <2>2, <2>3 DEF CreateWrite, IInv, TypeOK
    <2> QED BY <2>4 DEF IInv, GrantInv, Forgotten
  <1> QED BY Invariant, <1>1, PTL DEF Spec, FreshAccessList
=============================================================================
