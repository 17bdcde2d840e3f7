---------------------------- MODULE ProjectTree ----------------------------
(***************************************************************************)
(* The folder tree of projects, suites, cases and project-scoped           *)
(* collections, and the grant file of each project, as concurrent requests *)
(* change them (src/src/storage/fs, src/src/domain/service,                *)
(* src/src/api/crud.rs, src/src/api/access.rs, src/src/auth/store.rs,      *)
(* src/src/auth/seed.rs).                                                  *)
(*                                                                         *)
(* A folder of a project is the set of nodes whose marker it holds; a node *)
(* is a suite, a case or a collection, and remembers the request that made *)
(* it.  A folder with no node does not exist.  Cases inside a suite belong *)
(* to the suite's folder and live and die with it; the steps inside one    *)
(* case folder are in CaseStore.                                           *)
(*                                                                         *)
(* A write looks its location up without the lock, waits for the lock,     *)
(* checks the location under it and publishes.  Roles are written by the   *)
(* seeding and teardown commands, one lock transaction for each, on any    *)
(* project identifier, stored or not; a request of the model may be one of *)
(* theirs.                                                                 *)
(***************************************************************************)
EXTENDS Integers

CONSTANTS
    Requests,
    Projects,
    Names,      \* folder names below a project
    Reserved,   \* the names of a project's own collections
    Users, Admins,
    NoOne, NoUser, NoProject, NoName,
    Kinds,      \* the operations this instance exercises
    Faults      \* {"crash"} or {}

AllKinds == {"createProject", "create", "deleteIn", "delete", "copy", "move", "deleteProject",
             "grant", "ungrant"}

ASSUME TreeAssumption ==
    /\ Reserved \subseteq Names
    /\ Admins \subseteq Users /\ NoUser \notin Users /\ NoOne \notin Requests
    /\ NoProject \notin Projects /\ NoName \notin Names
    /\ Kinds \subseteq AllKinds /\ Faults \subseteq {"crash"}

VARIABLES
    lock,     \* the request holding .tatu.lock
    marker,   \* projects whose project.json is stored
    tree,     \* the nodes of each folder of each project
    grants,   \* the role of each user in each project's grant file
    given,    \* users given a role in a project since its grants were last forgotten
    pc, op,   \* where each request is, and what it was asked to do
    answer    \* the status each request was answered with

vars == <<lock, marker, tree, grants, given, pc, op, answer>>

NodeKinds == {"suite", "case", "collection"}
Folders == Projects \X Names

\* What a grant file says of a user: nothing, owner, or a role that is less.
Roles == {"none", "member", "owner"}

NoOp == [act |-> "none", kind |-> "case", project |-> NoProject, name |-> NoName,
         target |-> NoProject, user |-> NoUser, role |-> "none"]

\* The folder a request is about.
At(r) == <<op[r].project, op[r].name>>

Holds(f, kind) == \E n \in tree[f] : n.kind = kind

\* What `kind' may be called: a collection has its reserved name, a suite or a
\* case any name.
Fits(kind, name) == kind = "collection" => name \in Reserved

(* -------------------- before the lock: look-ups, guards ------------------ *)

Goto(r, phase) == pc' = [pc EXCEPT ![r] = phase]

\* Answer a request; what it was about is forgotten.
Finish(r, status) ==
    /\ Goto(r, "done")
    /\ answer' = [answer EXCEPT ![r] = status]
    /\ op' = [op EXCEPT ![r] = NoOp]

Wait(r, phase) == Goto(r, phase) /\ UNCHANGED <<op, answer>>

\* A request that passes its look-ups goes on to `phase' ...
Submit(r, o, phase) ==
    /\ pc[r] = "idle" /\ o.act \in Kinds
    /\ Goto(r, phase)
    /\ op' = [op EXCEPT ![r] = o]
    /\ UNCHANGED <<lock, marker, tree, grants, given, answer>>

\* ... and one that does not is answered at once.
Refuse(r, act, status) ==
    /\ pc[r] = "idle" /\ act \in Kinds
    /\ Finish(r, status)
    /\ UNCHANGED <<lock, marker, tree, grants, given>>

\* What a body may be: a document with a usable identifier, one without, one
\* whose fields are unknown or mistyped, one with more references than allowed.
Bodies == {"usable", "unnamed", "malformed", "overlong"}

ValidatePayload(body) == body \notin {"malformed", "overlong"}

DeriveCreateId(body) == body # "unnamed"

\* create_at of the service: the body is judged, then the create waits.
CreateFrom(r, o, body) ==
    IF ValidatePayload(body) /\ DeriveCreateId(body) THEN Submit(r, o, "waiting")
    ELSE Refuse(r, o.act, "invalid")

CreateProject(r, p) ==
    \E body \in Bodies :
        CreateFrom(r, [NoOp EXCEPT !.act = "createProject", !.project = p], body)

\* require_parent, then a write inside the parent.
InParent(r, o) ==
    IF o.project \in marker THEN Submit(r, o, "waiting") ELSE Refuse(r, o.act, "missing")

CreateIn(r, p, n, kind) ==
    /\ Fits(kind, n)
    /\ IF p \in marker
       THEN \E body \in Bodies :
              CreateFrom(r, [NoOp EXCEPT !.act = "create", !.kind = kind, !.project = p, !.name = n], body)
       ELSE Refuse(r, "create", "missing")

CreateProjectSuite(r, p, n) == CreateIn(r, p, n, "suite")

CreateProjectCase(r, p, n) == CreateIn(r, p, n, "case")

\* A configuration, a milestone or a workflow makes the collection it goes to.
CreateProjectDocument(r, p, n) == CreateIn(r, p, n, "collection")

\* Deleting a child of a parent the caller names.
DeleteIn(r, p, n, kind) ==
    InParent(r, [NoOp EXCEPT !.act = "deleteIn", !.kind = kind, !.project = p, !.name = n])

DeleteProjectSuite(r, p, n) == DeleteIn(r, p, n, "suite")

DeleteProjectCase(r, p, n) == DeleteIn(r, p, n, "case")

\* The projects a bare identifier resolves to.
Locate(kind, n) == {p \in marker : Holds(<<p, n>>, kind)}

\* A bare identifier has to name exactly one occurrence.
Unresolved(r, act, kind, n) ==
    \/ Locate(kind, n) = {} /\ Refuse(r, act, "missing")
    \/ (\E p, q \in Locate(kind, n) : p # q) /\ Refuse(r, act, "conflict")

Delete(r, n, kind) ==
    /\ kind # "collection"
    /\ \/ Unresolved(r, "delete", kind, n)
       \/ \E p \in Projects :
            /\ Locate(kind, n) = {p}
            /\ Submit(r, [NoOp EXCEPT !.act = "delete", !.kind = kind, !.name = n, !.project = p],
                      "waiting")

\* A copy of a suite or a case beside it, under the name the body gives or a
\* fresh one; the source is read, and the parent found, before the lock.
Duplicate(r, n, kind, copy) ==
    /\ kind # "collection"
    /\ \/ Unresolved(r, "create", kind, n)
       \/ \E p \in Projects :
            /\ Locate(kind, n) = {p}
            /\ Submit(r, [NoOp EXCEPT !.act = "create", !.kind = kind, !.name = copy, !.project = p],
                      "waiting")

\* A copy of a project's own document: none of its children come along.
DuplicateProject(r, p, copy) ==
    IF p \in marker
    THEN Submit(r, [NoOp EXCEPT !.act = "createProject", !.project = copy], "waiting")
    ELSE Refuse(r, "createProject", "missing")

\* Copying or moving a suite or a case into another project.
PlaceInto(r, n, kind, target, mode) ==
    /\ kind # "collection"
    /\ \/ Unresolved(r, mode, kind, n)
       \/ \E p \in Projects :
            /\ Locate(kind, n) = {p}
            /\ IF target \in marker
               THEN Submit(r, [NoOp EXCEPT !.act = mode, !.kind = kind, !.name = n,
                                           !.project = p, !.target = target], "waiting")
               ELSE Refuse(r, mode, "missing")

\* A fault of the delete handler: the grants left for later.
DeleteProjectKeepingGrants(r, p, u) ==
    IF u \in Admins \/ grants[p][u] = "owner"
    THEN Submit(r, [NoOp EXCEPT !.act = "deleteProject", !.project = p, !.user = u], "waiting")
    ELSE Refuse(r, "deleteProject", "forbidden")

\* The guard of DELETE /projects/{id}: an owner or an administrator.
DeleteProject(r, p, u) ==
    IF u \in Admins \/ grants[p][u] = "owner"
    THEN Submit(r, [NoOp EXCEPT !.act = "deleteProject", !.project = p, !.user = u], "revoking")
    ELSE Refuse(r, "deleteProject", "forbidden")

\* seed_account reads the role a user has and writes the one asked for when it
\* differs; whether the project is stored is nobody's question.
SeedGrant(r, p, u, role) ==
    IF grants[p][u] = role
    THEN Refuse(r, "grant", "ok")
    ELSE Submit(r, [NoOp EXCEPT !.act = "grant", !.project = p, !.user = u, !.role = role],
                "granting")

\* unseed_account drops the role a user has, if there is one.
UnseedGrant(r, p, u) ==
    IF grants[p][u] = "none"
    THEN Refuse(r, "ungrant", "ok")
    ELSE Submit(r, [NoOp EXCEPT !.act = "ungrant", !.project = p, !.user = u], "granting")

(* --------------------------- the advisory lock --------------------------- *)

\* A fault of acquire_lock: a shared lock where an exclusive one is needed.
AcquireLockShared(r) ==
    /\ pc[r] = "waiting"
    /\ lock' = r
    /\ Goto(r, "held")
    /\ UNCHANGED <<marker, tree, grants, given, op, answer>>

AcquireLock(r) ==
    /\ pc[r] = "waiting" /\ lock = NoOne
    /\ lock' = r
    /\ Goto(r, "held")
    /\ UNCHANGED <<marker, tree, grants, given, op, answer>>

LockTimeout(r) ==
    /\ pc[r] \in {"revoking", "granting", "waiting"} /\ lock # NoOne
    /\ Finish(r, "busy")
    /\ UNCHANGED <<lock, marker, tree, grants, given>>

Leave(r, status) == Finish(r, status) /\ lock' = NoOne

Held(r, acts) == pc[r] = "held" /\ op[r].act \in acts

(* ------------------------- changes under the lock ------------------------ *)

\* The location must be free, of this kind and of any other.
Available(f, kind) ==
    kind # "collection" => tree[f] = {} /\ f[2] \notin Reserved

CreateCheck(r) ==
    /\ Held(r, {"createProject", "create"})
    /\ IF \/ op[r].act = "createProject" /\ op[r].project \notin marker
          \/ op[r].act = "create" /\ Available(At(r), op[r].kind)
       THEN Wait(r, "publish") /\ UNCHANGED lock
       ELSE Leave(r, "conflict")
    /\ UNCHANGED <<marker, tree, grants, given>>

\* Publishing a marker makes every folder above it.
CreateWrite(r) ==
    /\ pc[r] = "publish" /\ op[r].act \in {"createProject", "create"}
    /\ \/ op[r].act = "createProject"
          /\ marker' = marker \union {op[r].project} /\ UNCHANGED tree
       \/ op[r].act = "create"
          /\ tree' = [tree EXCEPT ![At(r)] =
                        IF Holds(At(r), "collection") THEN @
                        ELSE @ \union {[kind |-> op[r].kind, by |-> r]}]
          /\ UNCHANGED marker
    /\ Leave(r, "ok")
    /\ UNCHANGED <<grants, given>>

\* The folder goes with everything in it.
DeleteAt(r) ==
    /\ Held(r, {"deleteIn", "delete"})
    /\ Leave(r, IF tree[At(r)] = {} THEN "missing" ELSE "ok")
    /\ tree' = [tree EXCEPT ![At(r)] = {}]
    /\ UNCHANGED <<marker, grants, given>>

To(r) == <<op[r].target, op[r].name>>

PlaceCheck(r) ==
    /\ Held(r, {"copy", "move"})
    /\ IF At(r) = To(r)
       THEN Leave(r, IF op[r].act = "move" THEN "ok" ELSE "conflict")
       ELSE IF tree[At(r)] = {}
       THEN Leave(r, "missing")
       ELSE IF op[r].name \in Reserved \/ tree[To(r)] # {}
       THEN Leave(r, "conflict")
       ELSE Wait(r, "publish") /\ UNCHANGED lock
    /\ UNCHANGED <<marker, tree, grants, given>>

\* A rename, or, where the volume refuses it, a copy and a removal.
PlaceWrite(r) ==
    /\ pc[r] = "publish" /\ op[r].act \in {"copy", "move"}
    /\ \/ /\ op[r].act = "move"
          /\ tree' = [tree EXCEPT ![To(r)] = tree[At(r)], ![At(r)] = {}]
          /\ Leave(r, "ok")
       \/ /\ tree' = [tree EXCEPT ![To(r)] = tree[At(r)]]
          /\ IF op[r].act = "copy" THEN Leave(r, "ok") ELSE Wait(r, "copied") /\ UNCHANGED lock
    /\ UNCHANGED <<marker, grants, given>>

PlaceRemove(r) ==
    /\ pc[r] = "copied"
    /\ tree' = [tree EXCEPT ![At(r)] = {}]
    /\ Leave(r, "ok")
    /\ UNCHANGED <<marker, grants, given>>

\* Forget the grants, in a lock transaction of its own, before the folder goes.
RevokeProjectGrants(r) ==
    /\ pc[r] = "revoking" /\ lock = NoOne
    /\ grants' = [grants EXCEPT ![op[r].project] = [u \in Users |-> "none"]]
    /\ given' = [given EXCEPT ![op[r].project] = {}]
    /\ Wait(r, "waiting")
    /\ UNCHANGED <<lock, marker, tree>>

\* A command's role goes into the grant file in a lock transaction of its own ...
SetRole(r) ==
    /\ pc[r] = "granting" /\ op[r].act = "grant" /\ lock = NoOne
    /\ grants' = [grants EXCEPT ![op[r].project][op[r].user] = op[r].role]
    /\ given' = [given EXCEPT ![op[r].project] = @ \union {op[r].user}]
    /\ Finish(r, "ok")
    /\ UNCHANGED <<lock, marker, tree>>

\* ... and comes out of it in one.
RemoveRole(r) ==
    /\ pc[r] = "granting" /\ op[r].act = "ungrant" /\ lock = NoOne
    /\ grants' = [grants EXCEPT ![op[r].project][op[r].user] = "none"]
    /\ Finish(r, "ok")
    /\ UNCHANGED <<lock, marker, tree, given>>

\* The project folder still has an entry.
Remains(p, markers, nodes) == p \in markers \/ \E n \in Names : nodes[<<p, n>>] # {}

\* remove_dir_all of the project folder, one entry at a time.
RemoveProjectEntry(r) ==
    /\ Held(r, {"deleteProject"}) \/ pc[r] = "emptying"
    /\ \/ op[r].project \in marker /\ marker' = marker \ {op[r].project} /\ UNCHANGED tree
       \/ \E n \in Names :
            /\ tree[<<op[r].project, n>>] # {}
            /\ tree' = [tree EXCEPT ![<<op[r].project, n>>] = {}]
            /\ UNCHANGED marker
    /\ IF Remains(op[r].project, marker', tree')
       THEN Wait(r, "emptying") /\ UNCHANGED lock
       ELSE Leave(r, "ok")
    /\ UNCHANGED <<grants, given>>

ProjectMissing(r) ==
    /\ Held(r, {"deleteProject"}) /\ ~Remains(op[r].project, marker, tree)
    /\ Leave(r, "missing")
    /\ UNCHANGED <<marker, tree, grants, given>>

\* The process dies, or the volume refuses a write; the lock is freed.
Crash(r) ==
    /\ "crash" \in Faults
    /\ pc[r] \notin {"idle", "done"}
    /\ Finish(r, "lost")
    /\ lock' = IF lock = r THEN NoOne ELSE lock
    /\ UNCHANGED <<marker, tree, grants, given>>

(* ---------------------------- specification ----------------------------- *)

\* A project that is stored has an owner, and may already hold a suite.
Init ==
    /\ lock = NoOne
    /\ marker \in SUBSET Projects
    /\ grants = [p \in Projects |-> [u \in Users |-> IF p \in marker THEN "owner" ELSE "none"]]
    /\ given = [p \in Projects |-> {}]
    /\ \E f \in Folders, kind \in {"suite", "case"} :
         tree = [g \in Folders |->
                   IF g = f /\ f[1] \in marker /\ f[2] \notin Reserved
                   THEN {[kind |-> kind, by |-> NoOne]} ELSE {}]
    /\ pc = [r \in Requests |-> "idle"]
    /\ op = [r \in Requests |-> NoOp]
    /\ answer = [r \in Requests |-> "none"]

Client(r) ==
    /\ pc[r] = "idle"
    /\ \/ \E p \in Projects :
            \/ CreateProject(r, p)
            \/ \E u \in Users :
                 \/ DeleteProject(r, p, u) \/ UnseedGrant(r, p, u)
                 \/ \E role \in Roles \ {"none"} : SeedGrant(r, p, u, role)
            \/ \E copy \in Projects : DuplicateProject(r, p, copy)
            \/ \E n \in Names :
                 \/ CreateProjectSuite(r, p, n) \/ CreateProjectCase(r, p, n)
                 \/ CreateProjectDocument(r, p, n)
                 \/ DeleteProjectSuite(r, p, n) \/ DeleteProjectCase(r, p, n)
       \/ \E n \in Names, kind \in NodeKinds :
            \/ Delete(r, n, kind)
            \/ \E p \in Projects, mode \in {"copy", "move"} : PlaceInto(r, n, kind, p, mode)
            \/ \E copy \in Names : Duplicate(r, n, kind, copy)

Server(r) ==
    AcquireLock(r) \/ LockTimeout(r) \/ CreateCheck(r) \/ CreateWrite(r) \/ DeleteAt(r)
    \/ PlaceCheck(r) \/ PlaceWrite(r) \/ PlaceRemove(r) \/ RevokeProjectGrants(r)
    \/ SetRole(r) \/ RemoveRole(r) \/ RemoveProjectEntry(r) \/ ProjectMissing(r)

AllAnswered == (\A r \in Requests : pc[r] = "done") /\ UNCHANGED vars

Next ==
    \/ \E r \in Requests : Client(r) \/ Server(r) \/ Crash(r)
    \/ AllAnswered

Spec == Init /\ [][Next]_vars

(* ------------------------------ properties ------------------------------ *)

\* "A folder holds one kind of node": however creates, moves and copies race,
\* no folder ever gets a second marker (ensure_kind_available, place_locked).
OneKind == \A f \in Folders : \A m, n \in tree[f] : m = n

\* Nothing stored disappears except in a delete that holds the lock, and that
\* takes only the folder it names: a move leaves the node at one end or at both,
\* wherever it is cut short (place_locked, create_at, delete_at).
NothingVanishes ==
    [][\A f \in Folders : \A n \in tree[f] :
            \/ \E g \in Folders : n \in tree'[g]
            \/ \E r \in Requests :
                 /\ lock = r /\ op[r].project = f[1]
                 /\ \/ op[r].act \in {"deleteIn", "delete"} /\ op[r].name = f[2]
                    \/ op[r].act = "deleteProject"
      ]_tree

\* A project that comes into being inherits nothing from a former project of its
\* identifier: whoever has a role in it was given that role by a seeding command
\* after the grants of the former one were forgotten, wherever the command fell
\* among the delete's two transactions and the create (revoke_project_grants runs
\* before the folder goes, and nothing that ran before it is written again).
FreshAccessList ==
    [][\A p \in marker' \ marker, u \in Users : grants'[p][u] # "none" => u \in given[p]]_marker

\* Every entry keeps its kind and its place until somebody deletes or moves it:
\* the two properties of the tree above.
EntriesKept == []OneKind /\ NothingVanishes
=============================================================================
