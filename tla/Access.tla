------------------------------ MODULE Access ------------------------------
(***************************************************************************)
(* Which projects a request touches, what it takes to touch them           *)
(* (src/src/api/access.rs), and the operation behind each guard.           *)
(*                                                                         *)
(* A guard resolves an identifier, reads the document and judges the       *)
(* caller's roles without any lock; the operation then resolves the        *)
(* identifier again.  So a request is a few steps, and other requests, on  *)
(* this replica or another, write in between (Elsewhere, Grant).           *)
(*                                                                         *)
(* A document is the project it is filed in and the references the guards  *)
(* read; the folders below a project are ProjectTree's.                    *)
(***************************************************************************)
EXTENDS Naturals, FiniteSets, Functions

CONSTANTS
    Requests, Users, Admins, Projects, Ids,
    CopyIds,    \* the identifiers a duplicate may be given
    Kinds,      \* the resources this instance exercises
    MaxDocs,    \* bound: stored documents
    MaxMoves,   \* bound: writes of others while a request is under way
    NoProject, NoId

AllKinds == {"suite", "case", "configuration", "workflow", "run", "milestone"}
Role == [none |-> 0, viewer |-> 1, editor |-> 2, owner |-> 3]
Grantees == Users \ Admins

ASSUME AccessAssumption ==
    /\ Admins \subseteq Users /\ NoProject \notin Projects
    /\ NoId \notin Ids \union CopyIds /\ Ids \intersect CopyIds = {}
    /\ Kinds \subseteq AllKinds /\ MaxDocs \in Nat /\ MaxMoves \in Nat

VARIABLES
    required,   \* TATU_AUTH_REQUIRED
    roles,      \* [Grantees -> [Projects -> a role]]: the grant files
    stored,     \* the projects that exist
    docs,       \* the documents they hold
    pend        \* [Requests -> what the request asks and where it is]

vars == <<required, roles, stored, docs, pend>>

Doc(kind, id, p, projects, suites, runs) ==
    [kind |-> kind, id |-> id, project |-> p,
     projects |-> projects, suites |-> suites, runs |-> runs]

\* The reference fields of a kind: a run names projects, a milestone suites
\* and runs, the steps of a workflow suites.
References(kind) ==
    CASE kind = "run" -> {"projects"}
      [] kind = "workflow" -> {"suites"}
      [] kind = "milestone" -> {"suites", "runs"}
      [] OTHER -> {}

Values(field) == IF field = "projects" THEN SUBSET Projects ELSE SUBSET Ids

\* A body: some of the reference fields of its kind.
NoBody == [f \in {} |-> {}]
Bodies(kind) ==
    UNION {{b \in [F -> UNION {Values(f) : f \in F}] : \A f \in F : b[f] \in Values(f)}
           : F \in SUBSET References(kind)}

Field(body, f) == IF f \in DOMAIN body THEN body[f] ELSE {}
FromBody(kind, id, p, body) ==
    Doc(kind, id, p, Field(body, "projects"), Field(body, "suites"), Field(body, "runs"))

Documents(ids) ==
    UNION {{FromBody(k, i, p, b) : i \in ids, p \in Projects, b \in Bodies(k)} : k \in Kinds}

\* A request of a caller, before it says what it asks.
Idle(user) ==
        [phase |-> "idle", op |-> "none", user |-> user, kind |-> "run", id |-> NoId,
         project |-> NoProject, body |-> NoBody, home |-> NoProject, moved |-> {}, about |-> {}]

-----------------------------------------------------------------------------
(* Resolving.                                                               *)

ListHomes(kind) == {d \in docs : d.kind = kind}
Located(kind, id) == {d \in ListHomes(kind) : d.id = id}
In(kind, id, p) == {d \in Located(kind, id) : d.project = p}

\* resolve: a bare identifier has to name exactly one occurrence.
Resolves(kind, id) == Cardinality(Located(kind, id)) = 1
TheOne(kind, id) == CHOOSE d \in Located(kind, id) : TRUE
ProjectOf(kind, id) == TheOne(kind, id).project

\* The document a reference names: the home's own, else the only one there is.
Preferred(kind, id, home) ==
    IF In(kind, id, home) # {} THEN In(kind, id, home)
    ELSE IF Resolves(kind, id) THEN Located(kind, id) ELSE {}

\* milestone_projects: a reference that does not resolve is skipped.
MilestoneProjects(home, suites, runs) ==
    {d.project : d \in UNION {Preferred("suite", s, home) : s \in suites}}
    \union (UNION {d.projects : d \in UNION {Preferred("run", x, home) : x \in runs}})

\* What a document's own references reach.
Named(d, home) ==
    CASE d.kind = "run" -> d.projects
      [] d.kind = "milestone" -> MilestoneProjects(home, d.suites, d.runs)
      [] OTHER -> {}

WithHome(home, projects) == projects \union {home}

\* projects_of, at a home resolved just before the document was read.
ProjectsOf(d, home) == WithHome(home, Named(d, home))

-----------------------------------------------------------------------------
(* Judging.                                                                 *)

Unrestricted(user) == ~required \/ user \in Admins

RequireRole(user, p, role) == roles[user][p] >= role
Authorize(user, p, role) == IF Unrestricted(user) THEN TRUE ELSE RequireRole(user, p, role)
RequireEvery(user, projects, role) == \A p \in projects : Authorize(user, p, role)
RequireAdmin(user) == Unrestricted(user)

WriteRole(kind) == IF kind = "milestone" THEN Role.owner ELSE Role.editor

\* scope: the projects an account holds any role in.
Scope(user) == {p \in Projects : roles[user][p] > 0}

\* A listing that shows an identifier as soon as one of its homes is in scope.
FilterListAnyHome(user, kind) ==
    {i \in Ids \union CopyIds : \E d \in Located(kind, i) :
        Unrestricted(user) \/ ProjectsOf(d, d.project) \subseteq Scope(user)}

\* filter_list: an identifier of one home, judged at that home; an unrestricted
\* caller sees them all, the ambiguous ones too.
FilterList(user, kind) ==
    IF Unrestricted(user) THEN {d.id : d \in ListHomes(kind)}
    ELSE {i \in Ids \union CopyIds : \E d \in Located(kind, i) :
              /\ Located(kind, i) = {d}
              /\ ProjectsOf(d, d.project) \subseteq Scope(user)}

Allowed(user, p) == IF Unrestricted(user) THEN TRUE ELSE p \in Scope(user)
FilterProjects(user) == {p \in stored : Allowed(user, p)}

\* guard_get on a store nobody else writes.
GuardGet(user, kind, id) ==
    /\ Resolves(kind, id)
    /\ RequireEvery(user, ProjectsOf(TheOne(kind, id), ProjectOf(kind, id)), Role.viewer)

\* What an update is judged by: the body's references where it carries the
\* field, the stored ones where it does not.
Effective(d, body, field) == IF field \in DOMAIN body THEN body[field] ELSE d[field]

GuardUpdate(q) ==
    /\ Resolves(q.kind, q.id)
    /\ LET d == TheOne(q.kind, q.id)
           references ==
               CASE q.kind = "run" -> Effective(d, q.body, "projects")
                 [] q.kind = "milestone" ->
                       MilestoneProjects(q.home, Effective(d, q.body, "suites"),
                                         Effective(d, q.body, "runs"))
                 [] OTHER -> {}
       IN  RequireEvery(q.user, WithHome(q.home, references), WriteRole(q.kind))

\* guard_delete: every project the resource reaches.
GuardDelete(q) ==
    /\ Resolves(q.kind, q.id)
    /\ RequireEvery(q.user, ProjectsOf(TheOne(q.kind, q.id), q.home), WriteRole(q.kind))

\* The copy of a resource lands beside it and reaches what it reaches.
GuardDuplicate(q) == GuardDelete(q)

\* A run's projects are its home and those it names.
RequireRun(q) == GuardDelete(q)

\* The run's projects only.
RequireRunOnly(q) == RequireRun(q) /\ Resolves("suite", q.id)

\* require_run_source: the source's project as well.
RequireRunSource(q) ==
    /\ RequireRun(q)
    /\ Resolves("suite", q.id)
    /\ Authorize(q.user, ProjectOf("suite", q.id), Role.editor)

\* require_run_configuration: the run's home's own configuration, else the
\* only one there is.
RequireRunConfiguration(q) ==
    /\ RequireRun(q)
    /\ Preferred("configuration", q.id, q.home) # {}
    /\ \A c \in Preferred("configuration", q.id, q.home) : Authorize(q.user, c.project, Role.editor)

\* guard_project_create: the target, and whatever the body reaches from there.
GuardProjectCreate(q) ==
    RequireEvery(q.user, WithHome(q.project, Named(FromBody(q.kind, q.id, q.project, q.body), q.project)),
                 WriteRole(q.kind))

\* guard_composition: the target, and the project of a source that exists; an
\* ambiguous source is refused.
GuardComposition(q) ==
    /\ Authorize(q.user, q.project, Role.editor)
    /\ Cardinality(Located(q.kind, q.id)) <= 1
    /\ \A d \in Located(q.kind, q.id) : Authorize(q.user, d.project, Role.editor)

\* Every guard returns at once where nothing is enforced.
Guard(q) ==
    IF ~required THEN TRUE
    ELSE CASE q.op = "update" -> GuardUpdate(q)
         [] q.op = "delete" -> GuardDelete(q)
         [] q.op = "duplicate" -> GuardDuplicate(q)
         [] q.op = "runWrite" -> RequireRun(q)
         [] q.op = "addSource" -> RequireRunSource(q)
         [] q.op = "linkConfiguration" -> RequireRunConfiguration(q)
         [] q.op = "create" -> GuardProjectCreate(q)
         [] q.op \in {"copy", "move"} -> GuardComposition(q)
         [] q.op = "deleteIn" -> Authorize(q.user, q.project, WriteRole(q.kind))
         [] q.op = "startRun" -> Authorize(q.user, q.project, Role.editor)
         [] q.op = "deleteProject" -> Authorize(q.user, q.project, Role.owner)
         [] q.op = "createProject" -> RequireAdmin(q.user)
         [] q.op = "createWorkflow" -> TRUE

-----------------------------------------------------------------------------
(* Requests.                                                                *)

\* All that is left of an answered request is what it was about: nothing, if
\* it was refused.
Answered(r, about) == [Idle(pend[r].user) EXCEPT !.phase = "done", !.about = about]
Answer(r, about) == pend' = [pend EXCEPT ![r] = Answered(r, about)]
Refuse(r) == Answer(r, {})

\* A write goes on under the requests that are under way.
Busy == {r \in Requests : pend[r].phase \notin {"idle", "done"}}
Writes(r, after, what) ==
    pend' = [s \in Requests |->
               IF s = r THEN after
               ELSE IF s \in Busy THEN [pend[s] EXCEPT !.moved = @ \union what] ELSE pend[s]]

\* The routes: those that name a resource by its bare identifier ...
ById ==
    [op : {"get", "delete"}, kind : Kinds, body : {NoBody}]
    \union (UNION {[op : {"update"}, kind : {k}, body : Bodies(k)] : k \in Kinds})
    \union [op : {"duplicate"}, kind : Kinds \ {"configuration"}, body : {NoBody}]
    \union [op : {"runWrite", "addSource", "linkConfiguration"}, kind : {"run"}, body : {NoBody}]

\* ... and those that name a project.
InProject ==
    (UNION {[op : {"create"}, kind : {k}, body : Bodies(k)] : k \in Kinds \ {"workflow"}})
    \union [op : {"copy", "move"}, kind : Kinds \intersect {"suite", "case"}, body : {NoBody}]
    \union [op : {"deleteIn"}, kind : Kinds, body : {NoBody}]
    \union [op : {"createWorkflow"}, kind : {"workflow"}, body : Bodies("workflow")]
    \union [op : {"startRun"}, kind : {"run"}, body : Bodies("run")]
    \union [op : {"createProject", "deleteProject"}, kind : {"run"}, body : {NoBody}]

\* A request by identifier starts by resolving its home (a guard that enforces
\* nothing leaves that to the operation); one that does not resolve is answered
\* there.
ReceiveById(r, q, id) ==
    /\ pend[r].phase = "idle"
    /\ Resolves(q.kind, id)
    /\ pend' = [pend EXCEPT ![r] =
          [@ EXCEPT !.op = q.op, !.kind = q.kind, !.body = q.body, !.id = id,
                    !.home = ProjectOf(q.kind, id),
                    !.phase = IF q.op = "get" THEN "read" ELSE "judge"]]
    /\ UNCHANGED <<required, roles, stored, docs>>

\* A request in a project is judged by the project it names; one that is
\* refused is answered there.
ReceiveInProject(r, q, id, p) ==
    LET asked == [pend[r] EXCEPT !.op = q.op, !.kind = q.kind, !.body = q.body,
                                 !.id = id, !.project = p, !.phase = "act"] IN
    /\ pend[r].phase = "idle"
    /\ Guard(asked)
    /\ pend' = [pend EXCEPT ![r] = asked]
    /\ UNCHANGED <<required, roles, stored, docs>>

\* get_and_etag: the document at the home just resolved.
ReadAtHome(r) ==
    /\ pend[r].phase = "read"
    /\ LET found == In(pend[r].kind, pend[r].id, pend[r].home)
       IN  IF found = {} THEN Refuse(r)
           ELSE pend' = [pend EXCEPT ![r].phase = "judge", ![r].about = found]
    /\ UNCHANGED <<required, roles, stored, docs>>

\* A run or a milestone answering only for what it names.
ReadProjectsNamed(q) ==
    IF q.kind \in {"run", "milestone"}
    THEN Named(TheOne(q.kind, q.id), ProjectOf(q.kind, q.id))
    ELSE {q.home}

\* The projects a read is judged by: a run or a milestone is resolved anew,
\* anything else answers for the home it was read from.
ReadProjects(q) ==
    IF q.kind \in {"run", "milestone"}
    THEN ProjectsOf(TheOne(q.kind, q.id), ProjectOf(q.kind, q.id))
    ELSE {q.home}

\* The rest of guard_get: the document read is served to a viewer of all of it.
Serve(r) ==
    LET q == pend[r] IN
    /\ q.phase = "judge" /\ q.op = "get"
    /\ IF \/ ~required
          \/ /\ q.kind \in {"run", "milestone"} => Resolves(q.kind, q.id)
             /\ RequireEvery(q.user, ReadProjects(q), Role.viewer)
       THEN Answer(r, q.about) ELSE Refuse(r)
    /\ UNCHANGED <<required, roles, stored, docs>>

Judge(r) ==
    /\ pend[r].phase = "judge" /\ pend[r].op # "get"
    /\ IF Guard(pend[r])
       THEN pend' = [pend EXCEPT ![r].phase = "act", ![r].home = NoProject]
       ELSE Refuse(r)
    /\ UNCHANGED <<required, roles, stored, docs>>

-----------------------------------------------------------------------------
(* The operations, each resolving for itself.                               *)

\* What an operation writes and what it only reads; `can' is its own checks.
Perform(r, can, removed, added, used) ==
    /\ pend[r].phase = "act"
    /\ IF can
       THEN /\ docs' = (docs \ removed) \union added
            /\ Cardinality(docs') <= MaxDocs
            /\ Writes(r, Answered(r, removed \union added \union used),
                      {d.kind : d \in removed \union added})
       ELSE Refuse(r) /\ UNCHANGED docs
    /\ UNCHANGED <<required, roles, stored>>

Free(kind, id, p) == p \in stored /\ In(kind, id, p) = {}

\* merged_document: a field the body carries replaces the stored one.
MergedDocument(d, body) ==
    [d EXCEPT !.projects = Effective(d, body, "projects"),
              !.suites = Effective(d, body, "suites"),
              !.runs = Effective(d, body, "runs")]

Update(r) ==
    LET q == pend[r] one == Located(q.kind, q.id) IN
    /\ q.op = "update"
    /\ Perform(r, Resolves(q.kind, q.id), one, {MergedDocument(d, q.body) : d \in one}, {})

Delete(r) ==
    LET q == pend[r] IN
    /\ q.op = "delete"
    /\ Perform(r, Resolves(q.kind, q.id), Located(q.kind, q.id), {}, {})

\* The copy lands in the source's own project.
Duplicate(r, copy) ==
    LET q == pend[r] one == Located(q.kind, q.id) IN
    /\ q.op = "duplicate"
    /\ Perform(r, Resolves(q.kind, q.id) /\ \A d \in one : Free(q.kind, copy, d.project),
               {}, {[d EXCEPT !.id = copy] : d \in one}, one)

\* record_run_result and the other writes of a run by its identifier.
RunWrite(r) ==
    LET q == pend[r] IN
    /\ q.op = "runWrite"
    /\ Perform(r, Resolves("run", q.id), {}, {}, Located("run", q.id))

AddSource(r) ==
    LET q == pend[r] IN
    /\ q.op = "addSource"
    /\ Perform(r, Resolves("run", q.id) /\ Resolves("suite", q.id), {}, {},
               Located("run", q.id) \union Located("suite", q.id))

LinkConfiguration(r) ==
    LET q == pend[r]
        configuration == Preferred("configuration", q.id, ProjectOf("run", q.id)) IN
    /\ q.op = "linkConfiguration"
    /\ IF Resolves("run", q.id)
       THEN Perform(r, configuration # {}, {}, {}, Located("run", q.id) \union configuration)
       ELSE Perform(r, FALSE, {}, {}, {})

CreateIn(r) ==
    LET q == pend[r] IN
    /\ q.op = "create"
    /\ Perform(r, Free(q.kind, q.id, q.project), {}, {FromBody(q.kind, q.id, q.project, q.body)}, {})

\* validate_workflow_steps: every step is in reach of the project.
StepsReachable(q) == \A s \in Field(q.body, "suites") : In("suite", s, q.project) # {}

CreateWorkflow(r) ==
    LET q == pend[r] IN
    /\ q.op = "createWorkflow"
    /\ Perform(r, StepsReachable(q) /\ Free(q.kind, q.id, q.project),
               {}, {FromBody(q.kind, q.id, q.project, q.body)}, {})

\* place_into: a copy, or a move that leaves its old home.
Place(r) ==
    LET q == pend[r] source == Located(q.kind, q.id) IN
    /\ q.op \in {"copy", "move"}
    /\ Perform(r, Resolves(q.kind, q.id) /\ Free(q.kind, q.id, q.project),
               IF q.op = "move" THEN source ELSE {},
               {[d EXCEPT !.project = q.project] : d \in source}, source)

DeleteIn(r) ==
    LET q == pend[r] IN
    /\ q.op = "deleteIn"
    /\ Perform(r, In(q.kind, q.id, q.project) # {}, In(q.kind, q.id, q.project), {}, {})

\* run_from_workflow: the projects the body lists, or the workflow's own.
RunFromWorkflow(r) ==
    LET q == pend[r] workflow == In("workflow", q.id, q.project)
        projects == IF "projects" \in DOMAIN q.body THEN q.body.projects ELSE {q.project} IN
    /\ q.op = "startRun"
    /\ Perform(r, workflow # {} /\ Free("run", q.id, q.project),
               {}, {Doc("run", q.id, q.project, projects, {}, {})}, workflow)

CreateProject(r) ==
    /\ pend[r].op = "createProject" /\ pend[r].phase = "act"
    /\ stored' = stored \union {pend[r].project}
    /\ Answer(r, {})
    /\ UNCHANGED <<required, roles, docs>>

\* delete_project: every grant in the project goes first ...
RevokeProjectGrants(r) ==
    /\ pend[r].op = "deleteProject" /\ pend[r].phase = "act"
    /\ roles' = [u \in Grantees |-> [roles[u] EXCEPT ![pend[r].project] = Role.none]]
    /\ Writes(r, [pend[r] EXCEPT !.phase = "remove"], {"grant"})
    /\ UNCHANGED <<required, stored, docs>>

\* ... then its folder, with all it holds.
DeleteProject(r) ==
    /\ pend[r].phase = "remove"
    /\ stored' = stored \ {pend[r].project}
    /\ docs' = {d \in docs : d.project # pend[r].project}
    /\ Writes(r, Answered(r, {}), {d.kind : d \in docs \ docs'})
    /\ UNCHANGED <<required, roles>>

-----------------------------------------------------------------------------
(* Everybody else.                                                          *)

Moved(what) ==
    /\ \A r \in Busy : Cardinality(pend[r].moved) < MaxMoves
    /\ pend' = [r \in Requests |->
                  IF r \in Busy THEN [pend[r] EXCEPT !.moved = @ \union {what}] ELSE pend[r]]

\* A document another request creates or removes.
Elsewhere ==
    /\ Busy # {}
    /\ \E d \in Documents(Ids) :
          /\ \/ d \in docs /\ docs' = docs \ {d}
             \/ /\ Free(d.kind, d.id, d.project) /\ Cardinality(docs) < MaxDocs
                /\ docs' = docs \union {d}
          /\ Moved(d.kind)
    /\ UNCHANGED <<required, roles, stored>>

\* A grant the seeding command stores or takes back (module Seeding).
Grant ==
    /\ Busy # {}
    /\ \E u \in Grantees, p \in Projects, level \in {Role.none, Role.owner} :
          roles' = [roles EXCEPT ![u][p] = level]
    /\ Moved("grant")
    /\ UNCHANGED <<required, stored, docs>>

-----------------------------------------------------------------------------
Init ==
    /\ required \in BOOLEAN
    /\ roles \in [Grantees -> [Projects -> 0..3]]
    /\ stored \in SUBSET Projects
    /\ docs \in {D \in {{}} \union {Range(f) : f \in [1..MaxDocs -> Documents(Ids)]} :
                   \A d, e \in D : d # e => <<d.kind, d.id, d.project>> # <<e.kind, e.id, e.project>>}
    /\ \A d \in docs : d.project \in stored
    /\ pend \in [Requests -> {Idle(u) : u \in Users}]

Receive(r) ==
    \E id \in Ids :
        \/ \E q \in ById : ReceiveById(r, q, id)
        \/ \E q \in InProject, p \in Projects : ReceiveInProject(r, q, id, p)

Step(r) ==
    \/ Receive(r) \/ ReadAtHome(r) \/ Serve(r) \/ Judge(r)
    \/ Update(r) \/ Delete(r) \/ (\E copy \in CopyIds : Duplicate(r, copy))
    \/ RunWrite(r) \/ AddSource(r) \/ LinkConfiguration(r)
    \/ CreateIn(r) \/ CreateWorkflow(r) \/ Place(r) \/ DeleteIn(r) \/ RunFromWorkflow(r)
    \/ CreateProject(r) \/ RevokeProjectGrants(r) \/ DeleteProject(r)

Next == (\E r \in Requests : Step(r)) \/ Elsewhere \/ Grant

Spec == Init /\ [][Next]_vars

-----------------------------------------------------------------------------
(* Properties.                                                              *)

\* A listing and the reads behind it agree (filter_list judges homes the walk
\* produced, guard_get resolves each identifier): a restricted caller is shown
\* exactly the identifiers whose GET would serve a document, an unrestricted
\* one those and the ambiguous ones, and of the projects exactly those it may
\* view.
ListedIsReadable ==
    \A user \in Users, kind \in Kinds :
        /\ {i \in Ids \union CopyIds : GuardGet(user, kind, i)} =
              {i \in FilterList(user, kind) : Unrestricted(user) => Resolves(kind, i)}
        /\ FilterProjects(user) = {p \in stored : Authorize(user, p, Role.viewer)}

\* A document is served only to a viewer of the project it was read from,
\* whatever was moved meanwhile; a run or a milestone, which is resolved once
\* more for its references, also to a viewer of all it names, unless such
\* documents changed under the request.
ServedWithinReach ==
    [][\A r \in Requests :
          LET q == pend[r] IN
          (q.op = "get" /\ pend'[r].phase = "done" /\ pend'[r].about # {}) =>
              \A d \in q.about :
                  \/ d.kind \in {"run", "milestone"} /\ d.kind \in q.moved
                  \/ /\ Authorize(q.user, d.project, Role.viewer)
                     /\ \/ q.moved \intersect {"run", "suite"} # {}
                        \/ RequireEvery(q.user, Named(d, d.project), Role.viewer)]_vars

\* A request writes, and pulls from, only projects in which its caller holds
\* the role the resource asks for, and leaves a document whose references
\* reach only such projects, unless what its guard resolved, or the grants,
\* changed between the guard and the operation.  Creating a workflow and the
\* projects listed for a run started from one are judged by nothing, and are
\* left out.
WritesWhereEntitled ==
    [][\A r \in Requests :
          LET q == pend[r]
              role == WriteRole(q.kind)
              wrote == pend'[r].about
          IN
          (/\ q.phase = "act" /\ pend'[r].phase = "done" /\ q.op # "createWorkflow"
           /\ q.moved \intersect {q.kind, "run", "suite", "configuration", "grant"} = {}) =>
              /\ (docs \ docs') \union (docs' \ docs) \subseteq wrote
              /\ \A d \in wrote : Authorize(q.user, d.project, role)
              /\ q.op # "startRun" =>
                    \A d \in docs' \ docs : RequireEvery(q.user, Named(d, d.project), role)]_vars
=============================================================================
