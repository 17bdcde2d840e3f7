---------------------------- MODULE AccessProofs ----------------------------
(***************************************************************************)
(* Theorems about Access for any accounts, projects and identifiers, any   *)
(* number of requests under way at once, and any writes of others.         *)
(***************************************************************************)
EXTENDS Access, FiniteSetTheorems, TLAPS

(* ------------------------ the inductive invariant ----------------------- *)

Fields == {"projects", "suites", "runs"}
AllDocs ==
    [kind : AllKinds, id : Ids \union CopyIds, project : Projects,
     projects : SUBSET Projects, suites : SUBSET Ids, runs : SUBSET Ids]
AllBodies == UNION {[F -> (SUBSET Projects) \union (SUBSET Ids)] : F \in SUBSET Fields}

RunOps == {"runWrite", "addSource", "linkConfiguration"}
WritesById == {"update", "delete", "duplicate"} \union RunOps
ProjectOps ==
    {"create", "copy", "move", "deleteIn", "createWorkflow", "startRun",
     "createProject", "deleteProject"}

AllRequests ==
    [phase : {"idle", "read", "judge", "act", "remove", "done"},
     op : WritesById \union ProjectOps \union {"none", "get"},
     user : Users, kind : AllKinds, id : Ids \union {NoId},
     project : Projects \union {NoProject}, body : AllBodies,
     home : Projects \union {NoProject},
     moved : SUBSET (AllKinds \union {"grant"}), about : SUBSET AllDocs]

TypeOK ==
    /\ required \in BOOLEAN
    /\ roles \in [Grantees -> [Projects -> 0..3]]
    /\ stored \subseteq Projects
    /\ docs \subseteq AllDocs /\ IsFiniteSet(docs)
    /\ pend \in [Requests -> AllRequests]

\* The references of a body have the types of the document's.
BodyOK(body) ==
    /\ Field(body, "projects") \subseteq Projects
    /\ Field(body, "suites") \subseteq Ids
    /\ Field(body, "runs") \subseteq Ids

\* What a request may ask, and where that takes it.
AskedOK(q) ==
    /\ BodyOK(q.body)
    /\ q.phase \in {"idle", "done"} => q.op = "none"
    /\ q.phase \notin {"idle", "done"} => q.id \in Ids
    /\ q.phase = "read" => q.op = "get"
    /\ q.phase = "judge" => q.op \in WritesById \union {"get"}
    /\ q.phase = "act" => q.op \in WritesById \union ProjectOps
    /\ q.phase = "remove" => q.op = "deleteProject"
    /\ q.op \in ProjectOps => q.project \in Projects
    /\ q.op \in {"copy", "move"} => q.kind \in {"suite", "case"}
    /\ q.op \in RunOps \union {"startRun"} => q.kind = "run"

\* A document on its way to the caller is the one read at the home resolved
\* first, and still stored unless documents of its kind changed since.
ReadOK(q) ==
    q.phase = "judge" /\ q.op = "get" =>
        \A d \in q.about :
            /\ d.kind = q.kind /\ d.id = q.id /\ d.project = q.home
            /\ q.kind \notin q.moved => d \in docs

\* The home a guard judges is where the identifier still resolves, unless
\* documents of its kind changed since.
HomeOK(q) ==
    q.phase = "judge" /\ q.op # "get" /\ q.kind \notin q.moved =>
        Resolves(q.kind, q.id) /\ q.home = ProjectOf(q.kind, q.id)

\* The kinds a guard looks at.
Relevant(q) == {q.kind, "run", "suite", "configuration"}

\* The request as its guard judged it.
Judged(q) ==
    IF q.op \in WritesById THEN [q EXCEPT !.home = ProjectOf(q.kind, q.id)] ELSE q

\* A guard that was passed would be passed again, unless what it looked at
\* changed since.
EntitledOK(q) ==
    /\ q.phase = "act" /\ q.op # "createWorkflow"
    /\ q.moved \intersect (Relevant(q) \union {"grant"}) = {}
    => \A j \in {Judged(q)} : Guard(j)

RequestOK(q) == AskedOK(q) /\ ReadOK(q) /\ HomeOK(q) /\ EntitledOK(q)

RequestInv == \A r \in Requests : \A q \in {pend[r]} : RequestOK(q)

IInv == TypeOK /\ RequestInv

(* ------------------------- reading and resolving ------------------------ *)

\* Among finitely many documents, an identifier resolves where one document
\* carries it, and then that one is the one resolve picks.
LEMMA ResolvesToOne ==
    ASSUME IsFiniteSet(docs), NEW k, NEW i
    PROVE  /\ IsFiniteSet(Located(k, i))
           /\ Resolves(k, i) <=> \E d : Located(k, i) = {d}
           /\ \A d : Located(k, i) = {d} => TheOne(k, i) = d /\ ProjectOf(k, i) = d.project
<1>1. Located(k, i) \in SUBSET docs
  BY DEF Located, ListHomes
<1>2. IsFiniteSet(Located(k, i))
  BY <1>1, FS_Subset
<1>3. Resolves(k, i) <=> \E d : Located(k, i) = {d}
  BY <1>2, FS_Singleton DEF Resolves
<1>4. ASSUME NEW d, Located(k, i) = {d}
      PROVE  TheOne(k, i) = d /\ ProjectOf(k, i) = d.project
  BY <1>4 DEF TheOne, ProjectOf
<1> QED
  BY <1>2, <1>3, <1>4

\* What a document reaches lies among the projects.
LEMMA ReachIsProjects ==
    ASSUME docs \subseteq AllDocs, NEW d \in AllDocs, NEW home \in Projects
    PROVE  ProjectsOf(d, home) \subseteq Projects
<1>1. \A k, i : Preferred(k, i, home) \subseteq AllDocs
  BY DEF Preferred, In, Located, ListHomes
<1>2. \A S : {e.project : e \in UNION {Preferred("suite", s, home) : s \in S}} \subseteq Projects
  BY <1>1 DEF AllDocs
<1>3. \A S : UNION {e.projects : e \in UNION {Preferred("run", x, home) : x \in S}} \subseteq Projects
  BY <1>1 DEF AllDocs
<1>4. MilestoneProjects(home, d.suites, d.runs) \subseteq Projects
  BY <1>2, <1>3 DEF MilestoneProjects
<1>5. Named(d, home) \subseteq Projects
  BY <1>4 DEF Named, AllDocs
<1> QED
  BY <1>5 DEF ProjectsOf, WithHome

\* The listing of one kind and the reads of its documents, account by account.
LEMMA ListingMatchesReads ==
    ASSUME TypeOK, NEW user \in Users, NEW kind \in Kinds
    PROVE  {i \in Ids \union CopyIds : GuardGet(user, kind, i)} =
              {i \in FilterList(user, kind) : Unrestricted(user) => Resolves(kind, i)}
<1>1. IsFiniteSet(docs) /\ docs \subseteq AllDocs
  BY DEF TypeOK
<1>2. CASE Unrestricted(user)
  <2>1. \A i : GuardGet(user, kind, i) <=> Resolves(kind, i)
    BY <1>2 DEF GuardGet, RequireEvery, Authorize
  <2>2. \A i : Resolves(kind, i) => \E d \in ListHomes(kind) : d.id = i
    <3> SUFFICES ASSUME NEW i, Resolves(kind, i)
                 PROVE  \E d \in ListHomes(kind) : d.id = i
      OBVIOUS
    <3>1. PICK d : Located(kind, i) = {d}
      BY <1>1, ResolvesToOne
    <3> QED
      BY <3>1 DEF Located
  <2>3. \A d \in ListHomes(kind) : d.id \in Ids \union CopyIds
    BY <1>1 DEF ListHomes, AllDocs
  <2>4. FilterList(user, kind) = {d.id : d \in ListHomes(kind)}
    BY <1>2 DEF FilterList
  <2> QED
    BY <1>2, <2>1, <2>2, <2>3, <2>4
<1>3. CASE ~Unrestricted(user)
  <2>1. required /\ user \in Grantees
    BY <1>3 DEF Unrestricted, Grantees, TypeOK
  <2>2. ASSUME NEW d \in AllDocs
        PROVE  RequireEvery(user, ProjectsOf(d, d.project), Role.viewer)
                  <=> ProjectsOf(d, d.project) \subseteq Scope(user)
    <3>1. ProjectsOf(d, d.project) \subseteq Projects
      BY <1>1, <2>2, ReachIsProjects DEF AllDocs
    <3>2. \A p \in Projects : Authorize(user, p, Role.viewer) <=> p \in Scope(user)
      BY <1>3, <2>1 DEF Authorize, RequireRole, Scope, Role, TypeOK
    <3> QED
      BY <3>1, <3>2 DEF RequireEvery
  <2>3. ASSUME NEW i \in Ids \union CopyIds
        PROVE  GuardGet(user, kind, i) <=> i \in FilterList(user, kind)
    <3>1. GuardGet(user, kind, i) <=>
            \E d : /\ Located(kind, i) = {d}
                   /\ RequireEvery(user, ProjectsOf(d, d.project), Role.viewer)
      BY <1>1, ResolvesToOne DEF GuardGet
    <3>2. \A d : Located(kind, i) = {d} => d \in Located(kind, i) /\ d \in AllDocs
      BY <1>1 DEF Located, ListHomes
    <3>3. i \in FilterList(user, kind) <=>
            \E d \in Located(kind, i) :
                /\ Located(kind, i) = {d}
                /\ ProjectsOf(d, d.project) \subseteq Scope(user)
      BY <1>3 DEF FilterList
    <3> QED
      BY <2>2, <3>1, <3>2, <3>3
  <2> QED
    BY <1>3, <2>3 DEF FilterList
<1> QED
  BY <1>2, <1>3

\* The projects listed are those the caller may view.
LEMMA ProjectsMatchReads ==
    ASSUME TypeOK, NEW user \in Users
    PROVE  FilterProjects(user) = {p \in stored : Authorize(user, p, Role.viewer)}
<1>1. CASE Unrestricted(user)
  BY <1>1 DEF FilterProjects, Allowed, Authorize
<1>2. CASE ~Unrestricted(user)
  <2>1. user \in Grantees
    BY <1>2 DEF Unrestricted, Grantees, TypeOK
  <2>2. \A p \in stored : Authorize(user, p, Role.viewer) <=> p \in Scope(user)
    BY <1>2, <2>1 DEF Authorize, RequireRole, Scope, Role, TypeOK
  <2> QED
    BY <1>2, <2>2 DEF FilterProjects, Allowed
<1> QED
  BY <1>1, <1>2
(* ----------------- a guard looks at no more than this ------------------- *)

\* Where the documents of a kind did not change, resolving did not either.
LEMMA SameHomes ==
    ASSUME NEW k, ListHomes(k)' = ListHomes(k), NEW i
    PROVE  /\ Located(k, i)' = Located(k, i)
           /\ Resolves(k, i)' <=> Resolves(k, i)
           /\ TheOne(k, i)' = TheOne(k, i)
           /\ ProjectOf(k, i)' = ProjectOf(k, i)
           /\ \A home : Preferred(k, i, home)' = Preferred(k, i, home)
<1>1. Located(k, i)' = Located(k, i)
  BY DEF Located
<1>2. Resolves(k, i)' <=> Resolves(k, i)
  BY <1>1 DEF Resolves
<1>3. TheOne(k, i)' = TheOne(k, i)
  BY <1>1 DEF TheOne
<1>4. ProjectOf(k, i)' = ProjectOf(k, i)
  BY <1>3 DEF ProjectOf
<1>5. ASSUME NEW home
      PROVE  Preferred(k, i, home)' = Preferred(k, i, home)
  <2>1. In(k, i, home)' = In(k, i, home)
    BY <1>1 DEF In
  <2> QED
    BY <1>1, <1>2, <2>1 DEF Preferred
<1> QED
  BY <1>1, <1>2, <1>3, <1>4, <1>5

\* Where suites and runs did not change, a milestone reaches what it reached.
LEMMA SameMilestone ==
    ASSUME ListHomes("suite")' = ListHomes("suite"), ListHomes("run")' = ListHomes("run"),
           NEW home, NEW S, NEW X
    PROVE  MilestoneProjects(home, S, X)' = MilestoneProjects(home, S, X)
<1>1. \A s : Preferred("suite", s, home)' = Preferred("suite", s, home)
  BY SameHomes
<1>2. \A x : Preferred("run", x, home)' = Preferred("run", x, home)
  BY SameHomes
<1>3. {Preferred("suite", s, home) : s \in S}' = {Preferred("suite", s, home) : s \in S}
  BY <1>1
<1>4. {Preferred("run", x, home) : x \in X}' = {Preferred("run", x, home) : x \in X}
  BY <1>2
<1>5. MilestoneProjects(home, S, X) =
        {d.project : d \in UNION {Preferred("suite", s, home) : s \in S}}
        \union UNION {d.projects : d \in UNION {Preferred("run", x, home) : x \in X}}
  BY DEF MilestoneProjects
<1>6. MilestoneProjects(home, S, X)' =
        {d.project : d \in UNION {Preferred("suite", s, home)' : s \in S}}
        \union UNION {d.projects : d \in UNION {Preferred("run", x, home)' : x \in X}}
  BY DEF MilestoneProjects
<1> QED
  BY <1>3, <1>4, <1>5, <1>6

\* Where the grants did not change, neither did what they allow.
LEMMA SameRoles ==
    ASSUME required' = required, roles' = roles, NEW user, NEW role
    PROVE  /\ \A p : Authorize(user, p, role)' <=> Authorize(user, p, role)
           /\ \A S : RequireEvery(user, S, role)' <=> RequireEvery(user, S, role)
<1>1. ASSUME NEW p
      PROVE  Authorize(user, p, role)' <=> Authorize(user, p, role)
  BY DEF Authorize, Unrestricted, RequireRole
<1>2. ASSUME NEW S
      PROVE  RequireEvery(user, S, role)' <=> RequireEvery(user, S, role)
  BY <1>1 DEF RequireEvery
<1> QED
  BY <1>1, <1>2
\* A document reaches what it reached, where its references lead.
LEMMA SameReach ==
    ASSUME ListHomes("suite")' = ListHomes("suite"), ListHomes("run")' = ListHomes("run"),
           NEW d, NEW home
    PROVE  /\ Named(d, home)' = Named(d, home)
           /\ ProjectsOf(d, home)' = ProjectsOf(d, home)
<1>1. MilestoneProjects(home, d.suites, d.runs)' = MilestoneProjects(home, d.suites, d.runs)
  BY SameMilestone
<1>2. Named(d, home)' = Named(d, home)
  BY <1>1 DEF Named
<1> QED
  BY <1>2 DEF ProjectsOf, WithHome

\* A guard that was passed is passed again where the documents it looks at and
\* the grants did not change.
LEMMA SameGuard ==
    ASSUME NEW q, q.op \in WritesById \union ProjectOps,
           required' = required, roles' = roles,
           \A k \in Relevant(q) : ListHomes(k)' = ListHomes(k)
    PROVE  Guard(q)' <=> Guard(q)
<1>1. /\ ListHomes(q.kind)' = ListHomes(q.kind) /\ ListHomes("run")' = ListHomes("run")
      /\ ListHomes("suite")' = ListHomes("suite")
      /\ ListHomes("configuration")' = ListHomes("configuration")
  BY DEF Relevant
<1>2. /\ Located(q.kind, q.id)' = Located(q.kind, q.id)
      /\ Resolves(q.kind, q.id)' <=> Resolves(q.kind, q.id)
  BY <1>1, SameHomes
<1>3. PICK one : one = TheOne(q.kind, q.id)
  OBVIOUS
<1>4. TheOne(q.kind, q.id)' = one
  BY <1>1, <1>3, SameHomes
<1>5. ASSUME NEW S
      PROVE  RequireEvery(q.user, S, WriteRole(q.kind))' <=> RequireEvery(q.user, S, WriteRole(q.kind))
  <2>1. PICK role : role = WriteRole(q.kind)
    OBVIOUS
  <2>2. RequireEvery(q.user, S, role)' <=> RequireEvery(q.user, S, role)
    BY SameRoles
  <2> QED
    BY <2>1, <2>2 DEF RequireEvery, Authorize, Unrestricted, RequireRole, WriteRole
<1>6. \A p : Authorize(q.user, p, Role.editor)' <=> Authorize(q.user, p, Role.editor)
  BY DEF Authorize, Unrestricted, RequireRole
<1>7. \A p : Authorize(q.user, p, Role.owner)' <=> Authorize(q.user, p, Role.owner)
  BY DEF Authorize, Unrestricted, RequireRole
<1>8. \A p : Authorize(q.user, p, WriteRole(q.kind))' <=> Authorize(q.user, p, WriteRole(q.kind))
  BY DEF Authorize, Unrestricted, RequireRole, WriteRole
<1>9. GuardUpdate(q)' <=> GuardUpdate(q)
  <2>1. \A S, X : MilestoneProjects(q.home, S, X)' = MilestoneProjects(q.home, S, X)
    BY <1>1, SameMilestone
  <2>2. GuardUpdate(q) <=>
          /\ Resolves(q.kind, q.id)
          /\ RequireEvery(q.user, WithHome(q.home,
               CASE q.kind = "run" -> Effective(one, q.body, "projects")
                 [] q.kind = "milestone" ->
                       MilestoneProjects(q.home, Effective(one, q.body, "suites"),
                                         Effective(one, q.body, "runs"))
                 [] OTHER -> {}), WriteRole(q.kind))
    BY <1>3 DEF GuardUpdate
  <2>3. PICK S : S = WithHome(q.home,
               CASE q.kind = "run" -> Effective(one, q.body, "projects")
                 [] q.kind = "milestone" ->
                       MilestoneProjects(q.home, Effective(one, q.body, "suites"),
                                         Effective(one, q.body, "runs"))
                 [] OTHER -> {})
    OBVIOUS
  <2>4. GuardUpdate(q)' <=> Resolves(q.kind, q.id)' /\ RequireEvery(q.user, S, WriteRole(q.kind))'
    BY <1>4, <2>1, <2>3 DEF GuardUpdate, WithHome, RequireEvery
  <2> QED
    BY <1>2, <1>5, <2>2, <2>3, <2>4
<1>10. GuardDelete(q)' <=> GuardDelete(q)
  <2>1. PICK S : S = ProjectsOf(one, q.home)
    OBVIOUS
  <2>2. ProjectsOf(one, q.home)' = S
    BY <1>1, <2>1, SameReach
  <2>3. GuardDelete(q)' <=> Resolves(q.kind, q.id)' /\ RequireEvery(q.user, S, WriteRole(q.kind))'
    BY <1>4, <2>2 DEF GuardDelete, RequireEvery, ProjectsOf, Named, MilestoneProjects, WithHome
  <2> QED
    BY <1>2, <1>3, <1>5, <2>1, <2>3 DEF GuardDelete
<1>11. RequireRunSource(q)' <=> RequireRunSource(q)
  <2>1. Resolves("suite", q.id)' <=> Resolves("suite", q.id)
    BY <1>1, SameHomes
  <2>2. PICK p : p = ProjectOf("suite", q.id)
    OBVIOUS
  <2>3. ProjectOf("suite", q.id)' = p
    BY <1>1, <2>2, SameHomes
  <2>4. RequireRunSource(q)' <=>
          GuardDelete(q)' /\ Resolves("suite", q.id)' /\ Authorize(q.user, p, Role.editor)'
    BY <2>3 DEF RequireRunSource, RequireRun, Authorize, RequireRole
  <2> QED
    BY <1>6, <1>10, <2>1, <2>2, <2>4 DEF RequireRunSource, RequireRun
<1>12. RequireRunConfiguration(q)' <=> RequireRunConfiguration(q)
  <2>1. PICK C : C = Preferred("configuration", q.id, q.home)
    OBVIOUS
  <2>2. Preferred("configuration", q.id, q.home)' = C
    BY <1>1, <2>1, SameHomes
  <2>3. RequireRunConfiguration(q)' <=>
          GuardDelete(q)' /\ C # {} /\ \A c \in C : Authorize(q.user, c.project, Role.editor)'
    BY <2>2 DEF RequireRunConfiguration, RequireRun
  <2> QED
    BY <1>6, <1>10, <2>1, <2>3 DEF RequireRunConfiguration, RequireRun
<1>13. GuardProjectCreate(q)' <=> GuardProjectCreate(q)
  <2>1. PICK d : d = FromBody(q.kind, q.id, q.project, q.body)
    OBVIOUS
  <2>2. PICK S : S = WithHome(q.project, Named(d, q.project))
    OBVIOUS
  <2>3. WithHome(q.project, Named(d, q.project))' = S
    BY <1>1, <2>2, SameReach DEF WithHome
  <2>4. GuardProjectCreate(q)' <=> RequireEvery(q.user, S, WriteRole(q.kind))'
    BY <2>1, <2>3 DEF GuardProjectCreate
  <2> QED
    BY <1>5, <2>1, <2>2, <2>4 DEF GuardProjectCreate
<1>14. GuardComposition(q)' <=> GuardComposition(q)
  BY <1>2, <1>6 DEF GuardComposition
<1>15. RequireAdmin(q.user)' <=> RequireAdmin(q.user)
  BY DEF RequireAdmin, Unrestricted
<1>16. CASE q.op \in WritesById
  BY <1>9, <1>10, <1>11, <1>12, <1>16 DEF Guard, GuardDuplicate, RequireRun, WritesById, RunOps
<1>17. CASE q.op \in ProjectOps
  BY <1>6, <1>7, <1>8, <1>13, <1>14, <1>15, <1>17 DEF Guard, ProjectOps
<1> QED
  BY <1>16, <1>17
(* ------------------------- requests side by side ------------------------ *)

\* A request somebody else's step passes by is as sound as before: what the
\* step changed is noted in it.
LEMMA Bystander ==
    ASSUME NEW q \in AllRequests, RequestOK(q), NEW what, NEW s,
           \/ q.phase \in {"idle", "done"} /\ s = q
           \/ s = [q EXCEPT !.moved = @ \union what],
           required' = required, "grant" \notin what => roles' = roles,
           \A k \in AllKinds : k \notin what => ListHomes(k)' = ListHomes(k)
    PROVE  RequestOK(s)'
<1>1. CASE q.phase \in {"idle", "done"}
  <2>1. s.phase \in {"idle", "done"} /\ AskedOK(s)
    BY <1>1 DEF RequestOK, AskedOK, AllRequests
  <2> QED
    BY <2>1 DEF RequestOK, AskedOK, ReadOK, HomeOK, EntitledOK
<1>2. CASE q.phase \notin {"idle", "done"}
  <2>1. /\ s = [q EXCEPT !.moved = q.moved \union what] /\ s.moved = q.moved \union what
        /\ s.phase = q.phase /\ s.op = q.op /\ s.kind = q.kind /\ s.id = q.id
        /\ s.user = q.user /\ s.project = q.project /\ s.body = q.body /\ s.home = q.home
        /\ s.about = q.about
    BY <1>2 DEF AllRequests
  <2>2. AskedOK(s)'
    BY <2>1 DEF RequestOK, AskedOK
  <2>3. ReadOK(s)'
    <3> SUFFICES ASSUME s.phase = "judge", s.op = "get", NEW d \in s.about
                 PROVE  /\ d.kind = s.kind /\ d.id = s.id /\ d.project = s.home
                        /\ s.kind \notin s.moved => d \in docs'
      BY DEF ReadOK
    <3>1. /\ d.kind = q.kind /\ d.id = q.id /\ d.project = q.home
          /\ q.kind \notin q.moved => d \in docs
      BY <2>1 DEF RequestOK, ReadOK
    <3>2. ASSUME s.kind \notin s.moved PROVE d \in docs'
      <4>1. d \in ListHomes(q.kind)
        BY <2>1, <3>1, <3>2 DEF ListHomes
      <4>2. d \in ListHomes(q.kind)'
        BY <2>1, <3>2, <4>1 DEF AllRequests
      <4> QED
        BY <4>2 DEF ListHomes
    <3> QED
      BY <2>1, <3>1, <3>2
  <2>4. HomeOK(s)'
    <3> SUFFICES ASSUME s.phase = "judge", s.op # "get", s.kind \notin s.moved
                 PROVE  Resolves(s.kind, s.id)' /\ s.home = ProjectOf(s.kind, s.id)'
      BY DEF HomeOK
    <3>1. Resolves(s.kind, s.id) /\ s.home = ProjectOf(s.kind, s.id)
      BY <2>1 DEF RequestOK, HomeOK
    <3>2. ListHomes(s.kind)' = ListHomes(s.kind)
      BY <2>1 DEF AllRequests
    <3> QED
      BY <3>1, <3>2, SameHomes
  <2>5. EntitledOK(s)'
    <3> SUFFICES ASSUME s.phase = "act", s.op # "createWorkflow",
                        s.moved \intersect (Relevant(s) \union {"grant"}) = {},
                        NEW j, j = Judged(s)'
                 PROVE  Guard(j)'
      BY DEF EntitledOK, Relevant
    <3>1. \A k \in Relevant(s) : ListHomes(k)' = ListHomes(k)
      BY <2>1 DEF Relevant, AllRequests, AllKinds
    <3>2. roles' = roles
      BY <2>1
    <3>3. Judged(s)' = Judged(s)
      <4>1. ProjectOf(s.kind, s.id)' = ProjectOf(s.kind, s.id)
        BY <3>1, SameHomes DEF Relevant
      <4> QED
        BY <4>1 DEF Judged
    <3>4. PICK i : i = Judged(q)
      OBVIOUS
    <3>5. Guard(i)
      BY <2>1, <3>4 DEF RequestOK, EntitledOK, Relevant
    <3>6. /\ j.op = i.op /\ j.user = i.user /\ j.kind = i.kind /\ j.id = i.id /\ j.body = i.body
          /\ j.home = i.home /\ j.project = i.project /\ j.op = s.op /\ j.kind = s.kind
      BY <2>1, <3>3, <3>4 DEF Judged, AllRequests
    <3>7. Guard(j)
      BY <3>5, <3>6 DEF Guard, GuardUpdate, GuardDelete, GuardDuplicate, RequireRun,
           RequireRunSource, RequireRunConfiguration, GuardProjectCreate, GuardComposition
    <3>8. j.op \in WritesById \union ProjectOps
      BY <2>1, <2>2, <3>6 DEF AskedOK
    <3>9. \A k \in Relevant(j) : ListHomes(k)' = ListHomes(k)
      BY <3>1, <3>6 DEF Relevant
    <3> QED
      BY <3>2, <3>7, <3>8, <3>9, SameGuard
  <2> QED
    BY <2>2, <2>3, <2>4, <2>5 DEF RequestOK
<1> QED
  BY <1>1, <1>2
\* What the requests a step is not one of find in themselves after it.
Passed(own, what) ==
    \A s \in Requests \ own :
        pend'[s] = IF s \in Busy THEN [pend[s] EXCEPT !.moved = @ \union what] ELSE pend[s]

\* A step keeps every request sound if it keeps its own, and tells the others.
LEMMA OthersKept ==
    ASSUME TypeOK, RequestInv, NEW own, NEW what, Passed(own, what),
           \A r \in own : \A q \in {pend'[r]} : RequestOK(q)',
           required' = required, "grant" \notin what => roles' = roles,
           \A k \in AllKinds : k \notin what => ListHomes(k)' = ListHomes(k)
    PROVE  RequestInv'
<1> SUFFICES ASSUME NEW s \in Requests, NEW q, q = pend'[s]
             PROVE  RequestOK(q)'
  BY DEF RequestInv
<1>1. CASE s \in own
  BY <1>1
<1>2. CASE s \notin own
  <2>1. PICK b \in AllRequests : b = pend[s]
    BY DEF TypeOK
  <2>2. RequestOK(b)
    BY <2>1 DEF RequestInv
  <2>3. \/ b.phase \in {"idle", "done"} /\ q = b
        \/ q = [b EXCEPT !.moved = @ \union what]
    BY <1>2, <2>1 DEF Passed, Busy
  <2> QED
    BY <2>1, <2>2, <2>3, Bystander
<1> QED
  BY <1>1, <1>2

\* A step that changes one request only.
LEMMA OnlyOwn ==
    ASSUME TypeOK, RequestInv, NEW r \in Requests, NEW a \in AllRequests,
           pend' = [pend EXCEPT ![r] = a], RequestOK(a)',
           required' = required, roles' = roles, docs' = docs
    PROVE  RequestInv'
<1>1. \A s \in Requests \ {r} : pend'[s] = pend[s]
  BY DEF TypeOK
<1>2. \A s \in Requests : [pend[s] EXCEPT !.moved = @ \union {}] = pend[s]
  BY DEF TypeOK, AllRequests
<1>3. Passed({r}, {})
  BY <1>1, <1>2 DEF Passed
<1>4. pend'[r] = a
  BY DEF TypeOK
<1>5. \A k : ListHomes(k)' = ListHomes(k)
  BY DEF ListHomes
<1> QED
  BY <1>3, <1>4, <1>5, OthersKept

\* An empty body is one.
LEMMA NoBodyTyped == NoBody \in AllBodies /\ BodyOK(NoBody)
<1>1. {} \in SUBSET Fields /\ NoBody \in [{} -> (SUBSET Projects) \union (SUBSET Ids)]
  BY DEF NoBody
<1>2. BodyOK(NoBody)
  BY DEF NoBody, BodyOK, Field
<1> QED
  BY <1>1, <1>2 DEF AllBodies

\* An answered request asks nothing any more.
LEMMA AnsweredIsSound ==
    ASSUME TypeOK, NEW r \in Requests, NEW about \in SUBSET AllDocs, NEW a, a = Answered(r, about)
    PROVE  a \in AllRequests /\ RequestOK(a)'
<1>1. NoBody \in AllBodies /\ BodyOK(NoBody)
  BY NoBodyTyped
<1>2. pend[r].user \in Users
  BY DEF TypeOK, AllRequests
<1>3. a = [phase |-> "done", op |-> "none", user |-> pend[r].user, kind |-> "run", id |-> NoId,
           project |-> NoProject, body |-> NoBody, home |-> NoProject, moved |-> {}, about |-> about]
  BY DEF Answered, Idle
<1>4. a \in AllRequests
  BY <1>1, <1>2, <1>3 DEF AllRequests, AllKinds
<1>5. AskedOK(a)'
  BY <1>1, <1>3 DEF AskedOK, BodyOK, Field, NoBody, WritesById, ProjectOps, RunOps
<1>6. ReadOK(a)' /\ HomeOK(a)' /\ EntitledOK(a)'
  BY <1>3 DEF ReadOK, HomeOK, EntitledOK
<1> QED
  BY <1>4, <1>5, <1>6 DEF RequestOK

\* Answering, the documents untouched.
LEMMA AnswerKeeps ==
    ASSUME IInv, NEW r \in Requests, NEW about \in SUBSET AllDocs, Answer(r, about),
           required' = required, roles' = roles, docs' = docs, stored' \subseteq Projects
    PROVE  IInv'
<1>1. PICK a : a = Answered(r, about)
  OBVIOUS
<1>2. a \in AllRequests /\ RequestOK(a)'
  BY <1>1, AnsweredIsSound DEF IInv
<1>3. pend' = [pend EXCEPT ![r] = a]
  BY <1>1 DEF Answer
<1>4. RequestInv'
  BY <1>2, <1>3, OnlyOwn DEF IInv
<1>5. TypeOK'
  BY <1>2, <1>3 DEF IInv, TypeOK
<1> QED
  BY <1>4, <1>5 DEF IInv

\* Noting kinds in the requests under way keeps their type.
LEMMA NotedIsTyped ==
    ASSUME TypeOK, NEW what \in SUBSET (AllKinds \union {"grant"}), NEW own,
           Passed(own, what), \A r \in own : pend'[r] \in AllRequests,
           pend' = [s \in Requests |-> pend'[s]]
    PROVE  pend' \in [Requests -> AllRequests]
<1>1. \A q \in AllRequests : [q EXCEPT !.moved = @ \union what] \in AllRequests
  BY DEF AllRequests
<1>2. \A s \in Requests : pend[s] \in AllRequests
  BY DEF TypeOK
<1>3. \A s \in Requests : pend'[s] \in AllRequests
  BY <1>1, <1>2 DEF Passed
<1> QED
  BY <1>3

\* An operation that writes: the answer of its own request, and the kinds it
\* touched noted in every other that is under way.
LEMMA WriteKeeps ==
    ASSUME IInv, NEW r \in Requests, NEW removed, NEW added, NEW about \in SUBSET AllDocs,
           docs' = (docs \ removed) \union added,
           added \subseteq AllDocs, IsFiniteSet(added), removed \subseteq docs,
           Writes(r, Answered(r, about), {d.kind : d \in removed \union added}),
           required' = required, roles' = roles, stored' \subseteq Projects
    PROVE  IInv'
<1> DEFINE what == {d.kind : d \in removed \union added}
<1>1. PICK a : a = Answered(r, about)
  OBVIOUS
<1>2. a \in AllRequests /\ RequestOK(a)'
  BY <1>1, AnsweredIsSound DEF IInv
<1>3. pend'[r] = a
  BY <1>1 DEF Writes
<1>4. Passed({r}, what)
  BY DEF Writes, Passed
<1>5. \A k \in AllKinds : k \notin what => ListHomes(k)' = ListHomes(k)
  BY DEF ListHomes
<1>6. RequestInv'
  <2> HIDE DEF what
  <2> QED
    BY <1>2, <1>3, <1>4, <1>5, OthersKept DEF IInv
<1>7. docs' \subseteq AllDocs /\ IsFiniteSet(docs')
  BY FS_Union, FS_Difference DEF IInv, TypeOK
<1>8. pend' \in [Requests -> AllRequests]
  <2>1. what \in SUBSET (AllKinds \union {"grant"})
    BY DEF IInv, TypeOK, AllDocs
  <2>2. pend' = [s \in Requests |-> pend'[s]]
    BY DEF Writes
  <2> HIDE DEF what
  <2> QED
    BY <1>2, <1>3, <1>4, <2>1, <2>2, NotedIsTyped DEF IInv
<1> QED
  BY <1>6, <1>7, <1>8 DEF IInv, TypeOK
(* ------------------------------ the routes ------------------------------ *)

\* The bodies of a kind carry references of the right types.
LEMMA BodiesTyped ==
    ASSUME NEW k, NEW b \in Bodies(k)
    PROVE  b \in AllBodies /\ BodyOK(b)
<1>1. References(k) \subseteq Fields
  BY DEF References, Fields
<1>2. PICK F \in SUBSET References(k) :
        /\ b \in [F -> UNION {Values(f) : f \in F}]
        /\ \A f \in F : b[f] \in Values(f)
  BY DEF Bodies
<1>3. \A f : Values(f) \subseteq (SUBSET Projects) \union (SUBSET Ids)
  BY DEF Values
<1>4. b \in [F -> (SUBSET Projects) \union (SUBSET Ids)] /\ F \in SUBSET Fields /\ DOMAIN b = F
  BY <1>1, <1>2, <1>3
<1>5. BodyOK(b)
  BY <1>2, <1>4 DEF BodyOK, Field, Values
<1> QED
  BY <1>4, <1>5 DEF AllBodies

\* What a route by identifier may ask.
LEMMA ByIdFacts ==
    ASSUME NEW q \in ById
    PROVE  /\ q.op \in WritesById \union {"get"} /\ q.kind \in AllKinds
           /\ q.body \in AllBodies /\ BodyOK(q.body)
           /\ q.op \in RunOps => q.kind = "run"
<1>0. \/ q \in [op : {"get", "delete"}, kind : Kinds, body : {NoBody}]
      \/ q \in UNION {[op : {"update"}, kind : {k}, body : Bodies(k)] : k \in Kinds}
      \/ q \in [op : {"duplicate"}, kind : Kinds \ {"configuration"}, body : {NoBody}]
      \/ q \in [op : {"runWrite", "addSource", "linkConfiguration"}, kind : {"run"}, body : {NoBody}]
  BY Zenon DEF ById
<1> USE AccessAssumption, NoBodyTyped DEF AllKinds, WritesById, RunOps
<1>1. CASE q \in [op : {"get", "delete"}, kind : Kinds, body : {NoBody}]
  BY <1>1
<1>2. CASE q \in UNION {[op : {"update"}, kind : {k}, body : Bodies(k)] : k \in Kinds}
  <2>1. PICK k \in Kinds : q \in [op : {"update"}, kind : {k}, body : Bodies(k)]
    BY <1>2
  <2> QED
    BY <2>1, BodiesTyped
<1>3. CASE q \in [op : {"duplicate"}, kind : Kinds \ {"configuration"}, body : {NoBody}]
  BY <1>3
<1>4. CASE q \in [op : {"runWrite", "addSource", "linkConfiguration"}, kind : {"run"}, body : {NoBody}]
  BY <1>4
<1> QED
  BY <1>0, <1>1, <1>2, <1>3, <1>4, Zenon

\* What a route in a project may ask.
LEMMA InProjectFacts ==
    ASSUME NEW q \in InProject
    PROVE  /\ q.op \in ProjectOps /\ q.kind \in AllKinds
           /\ q.body \in AllBodies /\ BodyOK(q.body)
           /\ q.op \in {"copy", "move"} => q.kind \in {"suite", "case"}
           /\ q.op = "startRun" => q.kind = "run"
<1>0. \/ q \in UNION {[op : {"create"}, kind : {k}, body : Bodies(k)] : k \in Kinds \ {"workflow"}}
      \/ q \in [op : {"copy", "move"}, kind : Kinds \intersect {"suite", "case"}, body : {NoBody}]
      \/ q \in [op : {"deleteIn"}, kind : Kinds, body : {NoBody}]
      \/ q \in [op : {"createWorkflow"}, kind : {"workflow"}, body : Bodies("workflow")]
      \/ q \in [op : {"startRun"}, kind : {"run"}, body : Bodies("run")]
      \/ q \in [op : {"createProject", "deleteProject"}, kind : {"run"}, body : {NoBody}]
  BY Zenon DEF InProject
<1> USE AccessAssumption, NoBodyTyped DEF AllKinds, ProjectOps
<1>1. CASE q \in UNION {[op : {"create"}, kind : {k}, body : Bodies(k)] : k \in Kinds \ {"workflow"}}
  <2>1. PICK k \in Kinds : q \in [op : {"create"}, kind : {k}, body : Bodies(k)]
    BY <1>1
  <2> QED
    BY <2>1, BodiesTyped
<1>2. CASE q \in [op : {"copy", "move"}, kind : Kinds \intersect {"suite", "case"}, body : {NoBody}]
  BY <1>2
<1>3. CASE q \in [op : {"deleteIn"}, kind : Kinds, body : {NoBody}]
  BY <1>3
<1>4. CASE q \in [op : {"createWorkflow"}, kind : {"workflow"}, body : Bodies("workflow")]
  BY <1>4, BodiesTyped
<1>5. CASE q \in [op : {"startRun"}, kind : {"run"}, body : Bodies("run")]
  BY <1>5, BodiesTyped
<1>6. CASE q \in [op : {"createProject", "deleteProject"}, kind : {"run"}, body : {NoBody}]
  BY <1>6
<1> QED
  BY <1>0, <1>1, <1>2, <1>3, <1>4, <1>5, <1>6, Zenon

(* ----------------------- a request before its write --------------------- *)

\* Resolving the home of a request by identifier.
LEMMA ReceiveByIdKeeps ==
    ASSUME IInv, NEW r \in Requests, NEW q \in ById, NEW id \in Ids, ReceiveById(r, q, id)
    PROVE  IInv'
<1>1. PICK p : p = pend[r]
  OBVIOUS
<1>2. p \in AllRequests /\ AskedOK(p) /\ p.phase = "idle" /\ IsFiniteSet(docs)
  BY <1>1 DEF IInv, TypeOK, RequestInv, RequestOK, ReceiveById
<1>3. PICK home : home = ProjectOf(q.kind, id)
  OBVIOUS
<1>4. home \in Projects /\ Resolves(q.kind, id)
  <2>1. Resolves(q.kind, id)
    BY DEF ReceiveById
  <2>2. PICK d : Located(q.kind, id) = {d}
    BY <1>2, <2>1, ResolvesToOne
  <2>3. d \in docs
    BY <2>2 DEF Located, ListHomes
  <2> QED
    BY <1>2, <1>3, <2>1, <2>2, <2>3, ResolvesToOne DEF IInv, TypeOK, AllDocs
<1>5. PICK a : a = [p EXCEPT !.op = q.op, !.kind = q.kind, !.body = q.body, !.id = id,
                             !.home = home,
                             !.phase = IF q.op = "get" THEN "read" ELSE "judge"]
  OBVIOUS
<1>6. pend' = [pend EXCEPT ![r] = a]
  BY <1>1, <1>3, <1>5 DEF ReceiveById
<1>7. a \in AllRequests
  BY <1>2, <1>4, <1>5, ByIdFacts, ZenonT(60) DEF AllRequests
<1>8. /\ a.op = q.op /\ a.kind = q.kind /\ a.body = q.body /\ a.id = id /\ a.home = home
      /\ a.phase = (IF q.op = "get" THEN "read" ELSE "judge")
  BY <1>2, <1>5 DEF AllRequests
<1>9. AskedOK(a)'
  BY <1>8, ByIdFacts DEF AskedOK, WritesById, RunOps, ProjectOps
<1>10. UNCHANGED <<required, roles, stored, docs>>
  BY DEF ReceiveById
<1>11. ReadOK(a)' /\ EntitledOK(a)'
  BY <1>8 DEF ReadOK, EntitledOK
<1>12. HomeOK(a)'
  <2>1. ListHomes(q.kind)' = ListHomes(q.kind)
    BY <1>10 DEF ListHomes
  <2>2. Resolves(q.kind, id)' /\ home = ProjectOf(q.kind, id)'
    BY <1>3, <1>4, <2>1, SameHomes
  <2> QED
    BY <1>8, <2>2 DEF HomeOK
<1>13. RequestInv'
  BY <1>6, <1>7, <1>9, <1>10, <1>11, <1>12, OnlyOwn DEF IInv, RequestOK
<1>14. TypeOK'
  BY <1>6, <1>7, <1>10 DEF IInv, TypeOK
<1> QED
  BY <1>13, <1>14 DEF IInv

\* Judging a request in a project.
LEMMA ReceiveInProjectKeeps ==
    ASSUME IInv, NEW r \in Requests, NEW q \in InProject, NEW id \in Ids, NEW p \in Projects,
           ReceiveInProject(r, q, id, p)
    PROVE  IInv'
<1>1. PICK b : b = pend[r]
  OBVIOUS
<1>2. b \in AllRequests /\ b.phase = "idle"
  BY <1>1 DEF IInv, TypeOK, ReceiveInProject
<1>3. PICK a : a = [b EXCEPT !.op = q.op, !.kind = q.kind, !.body = q.body,
                             !.id = id, !.project = p, !.phase = "act"]
  OBVIOUS
<1>4. pend' = [pend EXCEPT ![r] = a] /\ Guard(a) /\ UNCHANGED <<required, roles, stored, docs>>
  BY <1>1, <1>3 DEF ReceiveInProject
<1>5. a \in AllRequests
  BY <1>2, <1>3, InProjectFacts DEF AllRequests
<1>6. /\ a.op = q.op /\ a.kind = q.kind /\ a.body = q.body /\ a.id = id /\ a.project = p
      /\ a.phase = "act"
  BY <1>2, <1>3 DEF AllRequests
<1>7. AskedOK(a)'
  BY <1>6, InProjectFacts DEF AskedOK, WritesById, RunOps, ProjectOps
<1>8. ReadOK(a)' /\ HomeOK(a)'
  BY <1>6 DEF ReadOK, HomeOK
<1>9. EntitledOK(a)'
  <2>1. a.op \in ProjectOps /\ a.op \notin WritesById
    BY <1>6, InProjectFacts DEF ProjectOps, WritesById, RunOps
  <2>2. Judged(a)' = a
    BY <2>1 DEF Judged
  <2>3. \A k : ListHomes(k)' = ListHomes(k)
    BY <1>4 DEF ListHomes
  <2>4. Guard(a)'
    BY <1>4, <2>1, <2>3, SameGuard
  <2> QED
    BY <2>2, <2>4 DEF EntitledOK
<1>10. RequestInv'
  BY <1>4, <1>5, <1>7, <1>8, <1>9, OnlyOwn DEF IInv, RequestOK
<1>11. TypeOK'
  BY <1>4, <1>5 DEF IInv, TypeOK
<1> QED
  BY <1>10, <1>11 DEF IInv
\* Refusing, and answering nothing.
LEMMA RefuseKeeps ==
    ASSUME IInv, NEW r \in Requests, Refuse(r), UNCHANGED <<required, roles, stored, docs>>
    PROVE  IInv'
  BY AnswerKeeps DEF Refuse, IInv, TypeOK

\* Reading the document at the home resolved before.
LEMMA ReadAtHomeKeeps ==
    ASSUME IInv, NEW r \in Requests, ReadAtHome(r)
    PROVE  IInv'
<1>1. PICK q : q = pend[r]
  OBVIOUS
<1>2. q \in AllRequests /\ AskedOK(q) /\ q.phase = "read" /\ q.op = "get" /\ docs \subseteq AllDocs
  BY <1>1 DEF IInv, TypeOK, RequestInv, RequestOK, AskedOK, ReadAtHome
<1>3. PICK found : found = In(q.kind, q.id, q.home)
  OBVIOUS
<1>4. \A d \in found : d \in docs /\ d.kind = q.kind /\ d.id = q.id /\ d.project = q.home
  BY <1>3 DEF In, Located, ListHomes
<1>5. UNCHANGED <<required, roles, stored, docs>>
  BY DEF ReadAtHome
<1>6. CASE Refuse(r)
  BY <1>5, <1>6, RefuseKeeps
<1>7. CASE pend' = [pend EXCEPT ![r].phase = "judge", ![r].about = found]
  <2>1. PICK a : a = [q EXCEPT !.phase = "judge", !.about = found]
    OBVIOUS
  <2>2. pend' = [pend EXCEPT ![r] = a]
    BY <1>1, <1>2, <1>7, <2>1 DEF IInv, TypeOK, AllRequests
  <2>3. a \in AllRequests
    BY <1>2, <1>4, <2>1 DEF AllRequests
  <2>4. /\ a.phase = "judge" /\ a.about = found /\ a.op = q.op /\ a.kind = q.kind /\ a.id = q.id
        /\ a.home = q.home /\ a.body = q.body /\ a.project = q.project
    BY <1>2, <2>1 DEF AllRequests
  <2>5. AskedOK(a)'
    BY <1>2, <2>4 DEF AskedOK
  <2>6. ReadOK(a)'
    BY <1>4, <1>5, <2>4 DEF ReadOK
  <2>7. HomeOK(a)' /\ EntitledOK(a)'
    BY <1>2, <2>4 DEF HomeOK, EntitledOK
  <2>8. RequestInv'
    BY <1>5, <2>2, <2>3, <2>5, <2>6, <2>7, OnlyOwn DEF IInv, RequestOK
  <2>9. TypeOK'
    BY <1>5, <2>2, <2>3 DEF IInv, TypeOK
  <2> QED
    BY <2>8, <2>9 DEF IInv
<1> QED
  BY <1>1, <1>3, <1>6, <1>7 DEF ReadAtHome

\* The last step of a read, whichever way it goes.
LEMMA ServeKeeps ==
    ASSUME IInv, NEW r \in Requests, Serve(r)
    PROVE  IInv'
<1>1. pend[r].about \in SUBSET AllDocs
  BY DEF IInv, TypeOK, AllRequests
<1>2. UNCHANGED <<required, roles, stored, docs>>
  BY DEF Serve
<1>3. Answer(r, pend[r].about) \/ Refuse(r)
  BY DEF Serve
<1> QED
  BY <1>1, <1>2, <1>3, AnswerKeeps, RefuseKeeps DEF IInv, TypeOK

\* Passing a guard by identifier: what it judged is where the identifier
\* resolves, if nothing of the kind moved.
LEMMA JudgeKeeps ==
    ASSUME IInv, NEW r \in Requests, Judge(r)
    PROVE  IInv'
<1>1. PICK q : q = pend[r]
  OBVIOUS
<1>2. /\ q \in AllRequests /\ AskedOK(q) /\ HomeOK(q) /\ q.phase = "judge" /\ q.op \in WritesById
  BY <1>1 DEF IInv, TypeOK, RequestInv, RequestOK, AskedOK, Judge
<1>3. UNCHANGED <<required, roles, stored, docs>>
  BY DEF Judge
<1>4. CASE Refuse(r)
  BY <1>3, <1>4, RefuseKeeps
<1>5. CASE Guard(q) /\ pend' = [pend EXCEPT ![r].phase = "act", ![r].home = NoProject]
  <2>1. PICK a : a = [q EXCEPT !.phase = "act", !.home = NoProject]
    OBVIOUS
  <2>2. pend' = [pend EXCEPT ![r] = a]
    BY <1>1, <1>2, <1>5, <2>1 DEF IInv, TypeOK, AllRequests
  <2>3. a \in AllRequests
    BY <1>2, <2>1 DEF AllRequests
  <2>4. /\ a.phase = "act" /\ a.about = q.about /\ a.op = q.op /\ a.kind = q.kind /\ a.id = q.id
        /\ a.body = q.body /\ a.project = q.project /\ a.moved = q.moved /\ a.user = q.user
    BY <1>2, <2>1 DEF AllRequests
  <2>5. AskedOK(a)'
    BY <1>2, <2>4 DEF AskedOK
  <2>6. ReadOK(a)' /\ HomeOK(a)'
    BY <2>4 DEF ReadOK, HomeOK
  <2>7. EntitledOK(a)'
    <3> SUFFICES ASSUME a.moved \intersect (Relevant(a) \union {"grant"}) = {},
                        NEW j, j = Judged(a)'
                 PROVE  Guard(j)'
      BY DEF EntitledOK
    <3>1. Resolves(q.kind, q.id) /\ q.home = ProjectOf(q.kind, q.id)
      BY <1>2, <2>4 DEF HomeOK, Relevant, WritesById, RunOps
    <3>2. \A k : ListHomes(k)' = ListHomes(k)
      BY <1>3 DEF ListHomes
    <3>3. ProjectOf(q.kind, q.id)' = q.home
      BY <3>1, <3>2, SameHomes
    <3>4. j = [a EXCEPT !.home = q.home]
      BY <1>2, <2>4, <3>3 DEF Judged
    <3>5. /\ j.op = q.op /\ j.user = q.user /\ j.kind = q.kind /\ j.id = q.id /\ j.body = q.body
          /\ j.home = q.home /\ j.project = q.project
      BY <2>3, <2>4, <3>4 DEF AllRequests
    <3>6. Guard(j)
      BY <1>5, <3>5 DEF Guard, GuardUpdate, GuardDelete, GuardDuplicate, RequireRun,
           RequireRunSource, RequireRunConfiguration, GuardProjectCreate, GuardComposition
    <3> QED
      BY <1>2, <1>3, <3>2, <3>5, <3>6, SameGuard
  <2>8. RequestInv'
    BY <1>3, <2>2, <2>3, <2>5, <2>6, <2>7, OnlyOwn DEF IInv, RequestOK
  <2>9. TypeOK'
    BY <1>3, <2>2, <2>3 DEF IInv, TypeOK
  <2> QED
    BY <2>8, <2>9 DEF IInv
<1> QED
  BY <1>1, <1>4, <1>5 DEF Judge
(* ------------------------------ operations ------------------------------ *)

\* What an identifier that resolves names.
LEMMA OneDocument ==
    ASSUME TypeOK, NEW k, NEW i, Resolves(k, i)
    PROVE  \E d \in docs : Located(k, i) = {d} /\ d.kind = k /\ d.id = i
<1>1. PICK d : Located(k, i) = {d}
  BY ResolvesToOne DEF TypeOK
<1> QED
  BY <1>1 DEF Located, ListHomes

\* Any operation that writes documents of the right types.
LEMMA PerformKeeps ==
    ASSUME IInv, NEW r \in Requests, NEW can \in BOOLEAN,
           NEW removed, NEW added, NEW used,
           can => /\ removed \subseteq docs /\ used \subseteq docs
                  /\ added \subseteq AllDocs /\ IsFiniteSet(added),
           Perform(r, can, removed, added, used)
    PROVE  IInv'
<1>1. CASE can
  <2>1. removed \union added \union used \in SUBSET AllDocs
    BY <1>1 DEF IInv, TypeOK
  <2>2. /\ docs' = (docs \ removed) \union added
        /\ Writes(r, Answered(r, removed \union added \union used),
                  {d.kind : d \in removed \union added})
        /\ UNCHANGED <<required, roles, stored>>
    BY <1>1 DEF Perform
  <2>3. stored' \subseteq Projects
    BY <2>2 DEF IInv, TypeOK
  <2> QED
    BY <1>1, <2>1, <2>2, <2>3, WriteKeeps
<1>2. CASE ~can
  BY <1>2, RefuseKeeps DEF Perform
<1> QED
  BY <1>1, <1>2

\* A set of one document is finite.
LEMMA OneIsFinite == \A d : IsFiniteSet({d})
  BY FS_Singleton

\* A body makes a document of the right type.
LEMMA FromBodyTyped ==
    ASSUME NEW kind \in AllKinds, NEW id \in Ids, NEW p \in Projects, NEW b, BodyOK(b)
    PROVE  FromBody(kind, id, p, b) \in AllDocs
  BY DEF FromBody, Doc, BodyOK, AllDocs

\* What a request that acts asks.
LEMMA Acting ==
    ASSUME IInv, NEW r \in Requests, pend[r].phase = "act"
    PROVE  /\ pend[r] \in AllRequests /\ AskedOK(pend[r]) /\ pend[r].id \in Ids
           /\ pend[r].op \in ProjectOps => pend[r].project \in Projects
           /\ BodyOK(pend[r].body)
  BY DEF IInv, TypeOK, RequestInv, RequestOK, AskedOK

\* An update replaces the one document by a well-formed one.
LEMMA UpdateKeeps ==
    ASSUME IInv, NEW r \in Requests, Update(r)
    PROVE  IInv'
<1>1. PICK q : q = pend[r]
  OBVIOUS
<1> DEFINE one == Located(q.kind, q.id)
           merged == {MergedDocument(d, q.body) : d \in one}
<1>2. Perform(r, Resolves(q.kind, q.id), one, merged, {})
  BY <1>1 DEF Update
<1>3. BodyOK(q.body)
  BY <1>1, <1>2, Acting DEF Perform
<1>4. ASSUME Resolves(q.kind, q.id)
      PROVE  one \subseteq docs /\ merged \subseteq AllDocs /\ IsFiniteSet(merged)
  <2>1. PICK d \in docs : one = {d}
    BY <1>4, OneDocument DEF IInv
  <2>2. d \in AllDocs
    BY DEF IInv, TypeOK
  <2>3. MergedDocument(d, q.body) \in AllDocs
    BY <1>3, <2>2 DEF MergedDocument, Effective, BodyOK, Field, AllDocs
  <2>4. merged = {MergedDocument(d, q.body)}
    BY <2>1
  <2> QED
    BY <2>1, <2>3, <2>4, OneIsFinite
<1> HIDE DEF one, merged
<1>5. Resolves(q.kind, q.id) \in BOOLEAN
  BY DEF Resolves
<1> QED
  BY <1>2, <1>4, <1>5, PerformKeeps

\* A delete takes documents away.
LEMMA DeleteKeeps ==
    ASSUME IInv, NEW r \in Requests, Delete(r)
    PROVE  IInv'
<1>1. PICK q : q = pend[r]
  OBVIOUS
<1>2. Perform(r, Resolves(q.kind, q.id), Located(q.kind, q.id), {}, {})
  BY <1>1 DEF Delete
<1>3. Located(q.kind, q.id) \subseteq docs
  BY DEF Located, ListHomes
<1>4. Resolves(q.kind, q.id) \in BOOLEAN
  BY DEF Resolves
<1> QED
  BY <1>2, <1>3, <1>4, PerformKeeps, FS_EmptySet

\* A duplicate adds the document under a fresh identifier.
LEMMA DuplicateKeeps ==
    ASSUME IInv, NEW r \in Requests, NEW copy \in CopyIds, Duplicate(r, copy)
    PROVE  IInv'
<1>1. PICK q : q = pend[r]
  OBVIOUS
<1> DEFINE one == Located(q.kind, q.id)
           copies == {[d EXCEPT !.id = copy] : d \in one}
           can == Resolves(q.kind, q.id) /\ \A d \in one : Free(q.kind, copy, d.project)
<1>2. Perform(r, can, {}, copies, one)
  BY <1>1 DEF Duplicate
<1>3. ASSUME can
      PROVE  one \subseteq docs /\ copies \subseteq AllDocs /\ IsFiniteSet(copies)
  <2>1. PICK d \in docs : one = {d}
    BY <1>3, OneDocument DEF IInv
  <2>2. [d EXCEPT !.id = copy] \in AllDocs
    BY DEF IInv, TypeOK, AllDocs
  <2>3. copies = {[d EXCEPT !.id = copy]}
    BY <2>1
  <2> QED
    BY <2>1, <2>2, <2>3, OneIsFinite
<1>4. can \in BOOLEAN
  BY DEF Resolves
<1> HIDE DEF one, copies, can
<1> QED
  BY <1>2, <1>3, <1>4, PerformKeeps
\* An operation of a run that rewrites nothing the guards read.
LEMMA RunWriteKeeps ==
    ASSUME IInv, NEW r \in Requests, RunWrite(r) \/ AddSource(r) \/ LinkConfiguration(r)
    PROVE  IInv'
<1>1. PICK q : q = pend[r]
  OBVIOUS
<1>2. /\ \A k, i : Located(k, i) \subseteq docs /\ Resolves(k, i) \in BOOLEAN
      /\ \A k, i, p : Preferred(k, i, p) \subseteq docs
  BY DEF Preferred, In, Located, ListHomes, Resolves
<1>3. CASE RunWrite(r)
  <2>1. Perform(r, Resolves("run", q.id), {}, {}, Located("run", q.id))
    BY <1>1, <1>3 DEF RunWrite
  <2> QED
    BY <1>2, <2>1, PerformKeeps, FS_EmptySet
<1>4. CASE AddSource(r)
  <2> DEFINE can == Resolves("run", q.id) /\ Resolves("suite", q.id)
             used == Located("run", q.id) \union Located("suite", q.id)
  <2>1. Perform(r, can, {}, {}, used)
    BY <1>1, <1>4 DEF AddSource
  <2>2. used \subseteq docs /\ can \in BOOLEAN
    BY <1>2
  <2> HIDE DEF can, used
  <2> QED
    BY <2>1, <2>2, PerformKeeps, FS_EmptySet
<1>5. CASE LinkConfiguration(r)
  <2>1. PICK c : c = Preferred("configuration", q.id, ProjectOf("run", q.id))
    OBVIOUS
  <2> DEFINE used == Located("run", q.id) \union c
  <2>2. Perform(r, c # {}, {}, {}, used) \/ Perform(r, FALSE, {}, {}, {})
    BY <1>1, <1>5, <2>1 DEF LinkConfiguration
  <2>3. used \subseteq docs
    BY <1>2, <2>1
  <2> HIDE DEF used
  <2> QED
    BY <2>2, <2>3, PerformKeeps, FS_EmptySet
<1> QED
  BY <1>3, <1>4, <1>5

\* Creating a document from a body.
LEMMA CreateKeeps ==
    ASSUME IInv, NEW r \in Requests, CreateIn(r) \/ CreateWorkflow(r)
    PROVE  IInv'
<1>1. PICK q : q = pend[r]
  OBVIOUS
<1>2. PICK d : d = FromBody(q.kind, q.id, q.project, q.body)
  OBVIOUS
<1>3. PICK can \in BOOLEAN : Perform(r, can, {}, {d}, {})
  <2>1. CASE CreateIn(r)
    BY <1>1, <1>2, <2>1 DEF CreateIn, Free
  <2>2. CASE CreateWorkflow(r)
    BY <1>1, <1>2, <2>2 DEF CreateWorkflow, Free, StepsReachable
  <2> QED
    BY <2>1, <2>2
<1>4. d \in AllDocs
  <2>1. q \in AllRequests /\ q.id \in Ids /\ q.project \in Projects /\ BodyOK(q.body)
    BY <1>1, <1>3, Acting DEF Perform, CreateIn, CreateWorkflow, ProjectOps
  <2> QED
    BY <1>2, <2>1, FromBodyTyped DEF AllRequests
<1> QED
  BY <1>3, <1>4, PerformKeeps, OneIsFinite

\* A copy or a move files the document in the target.
LEMMA PlaceKeeps ==
    ASSUME IInv, NEW r \in Requests, Place(r)
    PROVE  IInv'
<1>1. PICK q : q = pend[r]
  OBVIOUS
<1> DEFINE source == Located(q.kind, q.id)
           removed == IF q.op = "move" THEN source ELSE {}
           placed == {[d EXCEPT !.project = q.project] : d \in source}
           can == Resolves(q.kind, q.id) /\ Free(q.kind, q.id, q.project)
<1>2. Perform(r, can, removed, placed, source) /\ q.op \in {"copy", "move"}
  BY <1>1 DEF Place
<1>3. q.project \in Projects
  BY <1>1, <1>2, Acting DEF Perform, ProjectOps
<1>4. ASSUME can
      PROVE  /\ removed \subseteq docs /\ source \subseteq docs
             /\ placed \subseteq AllDocs /\ IsFiniteSet(placed)
  <2>1. PICK d \in docs : source = {d}
    BY <1>4, OneDocument DEF IInv
  <2>2. [d EXCEPT !.project = q.project] \in AllDocs
    BY <1>3 DEF IInv, TypeOK, AllDocs
  <2>3. placed = {[d EXCEPT !.project = q.project]}
    BY <2>1
  <2> QED
    BY <2>1, <2>2, <2>3, OneIsFinite
<1>5. can \in BOOLEAN
  BY DEF Resolves, Free
<1> HIDE DEF source, removed, placed, can
<1> QED
  BY <1>2, <1>4, <1>5, PerformKeeps

\* A delete in a project takes documents away.
LEMMA DeleteInKeeps ==
    ASSUME IInv, NEW r \in Requests, DeleteIn(r)
    PROVE  IInv'
<1>1. PICK gone : gone = In(pend[r].kind, pend[r].id, pend[r].project)
  OBVIOUS
<1>2. Perform(r, gone # {}, gone, {}, {})
  BY <1>1 DEF DeleteIn
<1>3. gone \subseteq docs
  BY <1>1 DEF In, Located, ListHomes
<1> QED
  BY <1>2, <1>3, PerformKeeps, FS_EmptySet

\* A run started from a workflow names projects only.
LEMMA RunFromWorkflowKeeps ==
    ASSUME IInv, NEW r \in Requests, RunFromWorkflow(r)
    PROVE  IInv'
<1>1. PICK q : q = pend[r]
  OBVIOUS
<1>2. PICK projects : projects = IF "projects" \in DOMAIN q.body THEN q.body.projects ELSE {q.project}
  OBVIOUS
<1>3. PICK workflow : workflow = In("workflow", q.id, q.project)
  OBVIOUS
<1>4. PICK d : d = Doc("run", q.id, q.project, projects, {}, {})
  OBVIOUS
<1> DEFINE can == workflow # {} /\ Free("run", q.id, q.project)
<1>5. Perform(r, can, {}, {d}, workflow) /\ q.op = "startRun"
  BY <1>1, <1>2, <1>3, <1>4 DEF RunFromWorkflow
<1>6. q.id \in Ids /\ q.project \in Projects /\ BodyOK(q.body)
  BY <1>1, <1>5, Acting DEF Perform, ProjectOps
<1>7. d \in AllDocs
  BY <1>2, <1>4, <1>6 DEF Doc, BodyOK, Field, AllDocs, AllKinds
<1>8. workflow \subseteq docs /\ can \in BOOLEAN
  BY <1>3 DEF In, Located, ListHomes, Free
<1> HIDE DEF can
<1> QED
  BY <1>5, <1>7, <1>8, PerformKeeps, OneIsFinite

\* A new project holds nothing yet.
LEMMA CreateProjectKeeps ==
    ASSUME IInv, NEW r \in Requests, CreateProject(r)
    PROVE  IInv'
<1>1. pend[r].project \in Projects
  BY Acting DEF CreateProject, ProjectOps
<1>2. Answer(r, {}) /\ stored' \subseteq Projects /\ UNCHANGED <<required, roles, docs>>
  BY <1>1 DEF CreateProject, IInv, TypeOK
<1> QED
  BY <1>2, AnswerKeeps
\* Taking the grants of a project back, its deletion under way.
LEMMA RevokeKeeps ==
    ASSUME IInv, NEW r \in Requests, RevokeProjectGrants(r)
    PROVE  IInv'
<1>1. PICK q : q = pend[r]
  OBVIOUS
<1>2. q \in AllRequests /\ AskedOK(q) /\ q.phase = "act" /\ q.op = "deleteProject" /\ q.project \in Projects
  BY <1>1, Acting DEF RevokeProjectGrants, ProjectOps
<1>3. PICK a : a = [q EXCEPT !.phase = "remove"]
  OBVIOUS
<1>4. a \in AllRequests
  BY <1>2, <1>3 DEF AllRequests
<1>5. /\ a.phase = "remove" /\ a.op = q.op /\ a.kind = q.kind /\ a.id = q.id
      /\ a.body = q.body /\ a.project = q.project
  BY <1>2, <1>3 DEF AllRequests
<1>6. AskedOK(a)'
  BY <1>2, <1>5 DEF AskedOK
<1>7. RequestOK(a)'
  BY <1>5, <1>6 DEF RequestOK, ReadOK, HomeOK, EntitledOK
<1>8. Writes(r, a, {"grant"}) /\ UNCHANGED <<required, stored, docs>>
  BY <1>1, <1>3 DEF RevokeProjectGrants
<1>9. pend'[r] = a /\ Passed({r}, {"grant"}) /\ pend' = [s \in Requests |-> pend'[s]]
  BY <1>8 DEF Writes, Passed
<1>10. \A k : ListHomes(k)' = ListHomes(k)
  BY <1>8 DEF ListHomes
<1>11. RequestInv'
  BY <1>7, <1>8, <1>9, <1>10, OthersKept DEF IInv
<1>12. pend' \in [Requests -> AllRequests]
  BY <1>4, <1>9, NotedIsTyped DEF IInv
<1>13. roles' \in [Grantees -> [Projects -> 0..3]]
  <2>1. \A n \in 0..3, f \in [Projects -> 0..3] : [f EXCEPT ![q.project] = n] \in [Projects -> 0..3]
    OBVIOUS
  <2>2. Role.none \in 0..3
    BY DEF Role
  <2> QED
    BY <1>1, <2>1, <2>2 DEF RevokeProjectGrants, IInv, TypeOK
<1> QED
  BY <1>8, <1>11, <1>12, <1>13 DEF IInv, TypeOK

\* A project goes with all it holds, and every kind it held is noted.
LEMMA DeleteProjectKeeps ==
    ASSUME IInv, NEW r \in Requests, DeleteProject(r)
    PROVE  IInv'
<1>1. PICK gone : gone = docs \ docs'
  OBVIOUS
<1>2. docs' \subseteq docs /\ stored' \subseteq Projects /\ UNCHANGED <<required, roles>>
  BY DEF DeleteProject, IInv, TypeOK
<1>3. Writes(r, Answered(r, {}), {d.kind : d \in gone \union {}}) /\ docs' = (docs \ gone) \union {}
  <2>1. gone \union {} = gone
    OBVIOUS
  <2> QED
    BY <1>1, <1>2, <2>1 DEF DeleteProject
<1>4. {} \in SUBSET AllDocs /\ gone \subseteq docs
  BY <1>1
<1> QED
  BY <1>2, <1>3, <1>4, WriteKeeps, FS_EmptySet

(* ---------------------------- everybody else ---------------------------- *)

\* A document another request may write is one.
LEMMA DocumentsTyped == Documents(Ids) \subseteq AllDocs
<1> SUFFICES ASSUME NEW d \in Documents(Ids) PROVE d \in AllDocs
  OBVIOUS
<1>1. PICK k \in Kinds : d \in {FromBody(k, i, p, b) : i \in Ids, p \in Projects, b \in Bodies(k)}
  BY DEF Documents
<1>2. PICK i \in Ids, p \in Projects, b \in Bodies(k) : d = FromBody(k, i, p, b)
  BY <1>1
<1> QED
  BY <1>2, AccessAssumption, BodiesTyped, FromBodyTyped

\* A document of others comes or goes, and its kind is noted.
LEMMA ElsewhereKeeps ==
    ASSUME IInv, Elsewhere
    PROVE  IInv'
<1>1. PICK d \in Documents(Ids) :
        /\ docs' = docs \ {d} \/ docs' = docs \union {d}
        /\ Moved(d.kind)
  BY DEF Elsewhere
<1>2. d \in AllDocs
  BY DocumentsTyped
<1>3. UNCHANGED <<required, roles, stored>>
  BY DEF Elsewhere
<1>4. Passed({}, {d.kind}) /\ pend' = [s \in Requests |-> pend'[s]]
  BY <1>1 DEF Moved, Passed
<1>5. \A k \in AllKinds : k \notin {d.kind} => ListHomes(k)' = ListHomes(k)
  BY <1>1 DEF ListHomes
<1>6. RequestInv'
  BY <1>3, <1>4, <1>5, OthersKept DEF IInv
<1>7. pend' \in [Requests -> AllRequests]
  <2>1. {d.kind} \in SUBSET (AllKinds \union {"grant"})
    BY <1>2 DEF AllDocs
  <2> QED
    BY <1>4, <2>1, NotedIsTyped DEF IInv
<1>8. docs' \subseteq AllDocs /\ IsFiniteSet(docs')
  BY <1>1, <1>2, FS_AddElement, FS_RemoveElement DEF IInv, TypeOK
<1> QED
  BY <1>3, <1>6, <1>7, <1>8 DEF IInv, TypeOK

\* A grant changes, and that is noted.
LEMMA GrantKeeps ==
    ASSUME IInv, Grant
    PROVE  IInv'
<1>1. PICK u \in Grantees, p \in Projects, level \in {Role.none, Role.owner} :
        roles' = [roles EXCEPT ![u][p] = level]
  BY DEF Grant
<1>2. UNCHANGED <<required, stored, docs>>
  BY DEF Grant
<1>3. Passed({}, {"grant"}) /\ pend' = [s \in Requests |-> pend'[s]]
  BY DEF Grant, Moved, Passed
<1>4. \A k : ListHomes(k)' = ListHomes(k)
  BY <1>2 DEF ListHomes
<1>5. RequestInv'
  BY <1>2, <1>3, <1>4, OthersKept DEF IInv
<1>6. pend' \in [Requests -> AllRequests]
  BY <1>3, NotedIsTyped DEF IInv
<1>7. roles' \in [Grantees -> [Projects -> 0..3]]
  BY <1>1 DEF IInv, TypeOK, Role
<1> QED
  BY <1>2, <1>5, <1>6, <1>7 DEF IInv, TypeOK

(* ---------------------------- the theorems ------------------------------ *)

\* The states the store may be in when the first request arrives.
LEMMA InitEstablishes == Init => IInv
<1> SUFFICES ASSUME Init PROVE IInv
  OBVIOUS
<1>1. docs \subseteq AllDocs /\ IsFiniteSet(docs)
  <2>1. CASE docs = {}
    BY <2>1, FS_EmptySet
  <2>2. CASE docs # {}
    <3>1. PICK f \in [1..MaxDocs -> Documents(Ids)] : docs = Range(f)
      BY <2>2 DEF Init
    <3>2. docs = {f[x] : x \in 1..MaxDocs}
      BY <3>1 DEF Range
    <3>3. docs \subseteq Documents(Ids)
      BY <3>1, <3>2
    <3>4. f \in Surjection(1..MaxDocs, docs)
      BY <3>1, <3>2 DEF Surjection
    <3>5. IsFiniteSet(1..MaxDocs)
      BY FS_Interval, AccessAssumption
    <3> QED
      BY <3>3, <3>4, <3>5, FS_Surjection, DocumentsTyped
  <2> QED
    BY <2>1, <2>2
<1>2. ASSUME NEW u \in Users, NEW a, a = Idle(u)
      PROVE  a \in AllRequests /\ RequestOK(a)
  <2>1. NoBody \in AllBodies /\ BodyOK(NoBody)
    BY NoBodyTyped
  <2>2. a \in AllRequests
    BY <1>2, <2>1 DEF Idle, AllRequests, AllKinds
  <2>3. a.phase = "idle" /\ a.op = "none" /\ a.body = NoBody
    BY <1>2 DEF Idle
  <2>4. AskedOK(a)
    BY <2>1, <2>3 DEF AskedOK, WritesById, ProjectOps, RunOps
  <2> QED
    BY <2>2, <2>3, <2>4 DEF RequestOK, ReadOK, HomeOK, EntitledOK
<1>3. \A r \in Requests : \E u \in Users : pend[r] = Idle(u)
  BY DEF Init
<1>4. RequestInv
  BY <1>2, <1>3 DEF RequestInv
<1>5. pend \in [Requests -> AllRequests]
  <2>1. pend \in [Requests -> {Idle(u) : u \in Users}]
    BY DEF Init
  <2>2. {Idle(u) : u \in Users} \subseteq AllRequests
    BY <1>2
  <2> QED
    BY <2>1, <2>2
<1> QED
  BY <1>1, <1>4, <1>5 DEF Init, IInv, TypeOK

\* Every step of a request, and of everybody else, keeps the invariant.
LEMMA NextKeeps ==
    ASSUME IInv, [Next]_vars
    PROVE  IInv'
<1>1. CASE UNCHANGED vars
  <2>1. \A k : ListHomes(k)' = ListHomes(k)
    BY <1>1 DEF vars, ListHomes
  <2>2. Passed({}, {})
    <3>1. \A s \in Requests : [pend[s] EXCEPT !.moved = @ \union {}] = pend[s]
      BY DEF IInv, TypeOK, AllRequests
    <3> QED
      BY <1>1, <3>1 DEF Passed, vars
  <2>3. RequestInv'
    BY <1>1, <2>1, <2>2, OthersKept DEF IInv, vars
  <2> QED
    BY <1>1, <2>3 DEF IInv, TypeOK, vars
<1>2. ASSUME NEW r \in Requests, Receive(r)
      PROVE  IInv'
  BY <1>2, ReceiveByIdKeeps, ReceiveInProjectKeeps DEF Receive
<1>3. ASSUME NEW r \in Requests, Step(r)
      PROVE  IInv'
  BY <1>2, <1>3, ReadAtHomeKeeps, ServeKeeps, JudgeKeeps, UpdateKeeps, DeleteKeeps,
     DuplicateKeeps, RunWriteKeeps, CreateKeeps, PlaceKeeps, DeleteInKeeps,
     RunFromWorkflowKeeps, CreateProjectKeeps, RevokeKeeps, DeleteProjectKeeps DEF Step
<1> QED
  BY <1>1, <1>3, ElsewhereKeeps, GrantKeeps DEF Next

\* The inductive invariant: what a request asks, what its guard resolved and
\* judged, and for how long that stays true while others write.
THEOREM Invariant == Spec => []IInv
<1>1. Init => IInv
  BY InitEstablishes
<1>2. IInv /\ [Next]_vars => IInv'
  BY NextKeeps
<1> QED
  BY <1>1, <1>2, PTL DEF Spec
\* The listings and the reads agree in every state: the documents are finitely
\* many, and what they reach lies among the projects (filter_list, guard_get).
THEOREM Listing == Spec => []ListedIsReadable
<1>1. IInv => ListedIsReadable
  <2> SUFFICES ASSUME IInv PROVE ListedIsReadable
    OBVIOUS
  <2> QED
    BY ListingMatchesReads, ProjectsMatchReads DEF IInv, ListedIsReadable
<1> QED
  BY <1>1, Invariant, PTL

\* A step of another request moves no request on.
LEMMA PhasesOfOthers ==
    ASSUME TypeOK, NEW r \in Requests, NEW s \in Requests, s # r, Step(s)
    PROVE  pend'[r].phase = pend[r].phase
<1>1. \A a : pend' = [pend EXCEPT ![s] = a] => pend'[r] = pend[r]
  BY DEF TypeOK
<1>2. \A a, what : Writes(s, a, what) => pend'[r].phase = pend[r].phase
  <2> SUFFICES ASSUME NEW a, NEW what, Writes(s, a, what)
               PROVE  pend'[r].phase = pend[r].phase
    OBVIOUS
  <2>1. pend'[r] = pend[r] \/ pend'[r] = [pend[r] EXCEPT !.moved = @ \union what]
    BY DEF Writes
  <2> QED
    BY <2>1 DEF TypeOK, AllRequests
<1>3. \A about : Answer(s, about) => pend'[r] = pend[r]
  BY <1>1 DEF Answer
<1>4. \A can, removed, added, used : Perform(s, can, removed, added, used) => pend'[r].phase = pend[r].phase
  <2> SUFFICES ASSUME NEW can, NEW removed, NEW added, NEW used, Perform(s, can, removed, added, used)
               PROVE  pend'[r].phase = pend[r].phase
    OBVIOUS
  <2>1. CASE can
    <3>1. Writes(s, Answered(s, removed \union added \union used), {d.kind : d \in removed \union added})
      BY <2>1 DEF Perform
    <3> QED
      BY <3>1, <1>2
  <2>2. CASE ~can
    BY <2>2, <1>3 DEF Perform, Refuse
  <2> QED
    BY <2>1, <2>2
<1>5. CASE Receive(s)
  BY <1>5, <1>1 DEF Receive, ReceiveById, ReceiveInProject
<1>6. CASE ReadAtHome(s) \/ Serve(s) \/ Judge(s)
  BY <1>6, <1>3 DEF ReadAtHome, Serve, Judge, Refuse, TypeOK
<1>7. CASE Update(s) \/ Delete(s) \/ (\E copy \in CopyIds : Duplicate(s, copy))
  BY <1>7, <1>4 DEF Update, Delete, Duplicate
<1>8. CASE RunWrite(s) \/ AddSource(s) \/ LinkConfiguration(s)
  BY <1>8, <1>4 DEF RunWrite, AddSource, LinkConfiguration
<1>9. CASE CreateIn(s) \/ CreateWorkflow(s) \/ Place(s) \/ DeleteIn(s) \/ RunFromWorkflow(s)
  BY <1>9, <1>4 DEF CreateIn, CreateWorkflow, Place, DeleteIn, RunFromWorkflow
<1>10. CASE CreateProject(s) \/ RevokeProjectGrants(s) \/ DeleteProject(s)
  BY <1>10, <1>2, <1>3 DEF CreateProject, RevokeProjectGrants, DeleteProject
<1> QED
  BY <1>5, <1>6, <1>7, <1>8, <1>9, <1>10 DEF Step

\* A request that reached another phase took the step itself.
LEMMA OwnStep ==
    ASSUME IInv, [Next]_vars, NEW r \in Requests, pend'[r].phase # pend[r].phase
    PROVE  Step(r)
<1>1. CASE Elsewhere \/ Grant
  <2>1. \E what : Moved(what)
    BY <1>1 DEF Elsewhere, Grant
  <2>2. PICK what : pend'[r] = pend[r] \/ pend'[r] = [pend[r] EXCEPT !.moved = @ \union {what}]
    BY <2>1 DEF Moved
  <2> QED
    BY <2>2 DEF IInv, TypeOK, AllRequests
<1>2. CASE \E s \in Requests : Step(s)
  BY <1>2, PhasesOfOthers DEF IInv
<1>3. CASE UNCHANGED vars
  BY <1>3 DEF vars
<1> QED
  BY <1>1, <1>2, <1>3 DEF Next
\* What serving a document takes, as ServedWithinReach states it.
LEMMA ServedStep ==
    ASSUME IInv, [Next]_vars, NEW r \in Requests, NEW q, q = pend[r], q.op = "get",
           pend'[r].phase = "done", pend'[r].about # {}, NEW d \in q.about
    PROVE  \/ d.kind \in {"run", "milestone"} /\ d.kind \in q.moved
           \/ /\ Authorize(q.user, d.project, Role.viewer)
              /\ \/ q.moved \intersect {"run", "suite"} # {}
                 \/ RequireEvery(q.user, Named(d, d.project), Role.viewer)
<1>1. q \in AllRequests /\ RequestOK(q) /\ q.phase \in {"read", "judge"} /\ TypeOK
  BY DEF IInv, TypeOK, RequestInv, RequestOK, AskedOK, AllRequests, WritesById, ProjectOps, RunOps
<1>2. Step(r)
  BY <1>1, OwnStep
<1>3. Serve(r)
  <2>1. ~Receive(r)
    BY <1>1 DEF Receive, ReceiveById, ReceiveInProject
  <2>2. ~ReadAtHome(r)
    <3> SUFFICES ASSUME ReadAtHome(r) PROVE FALSE
      OBVIOUS
    <3>1. CASE Refuse(r)
      BY <3>1 DEF Refuse, Answer, Answered, Idle, IInv, TypeOK
    <3>2. CASE ~Refuse(r)
      BY <1>1, <3>2 DEF ReadAtHome, TypeOK, AllRequests
    <3> QED
      BY <3>1, <3>2
  <2>3. ~Judge(r)
    BY DEF Judge
  <2>4. q.phase # "act" /\ q.phase # "remove"
    BY <1>1
  <2> QED
    BY <1>2, <2>1, <2>2, <2>3, <2>4 DEF Step, Update, Delete, Duplicate, RunWrite, AddSource,
       LinkConfiguration, CreateIn, CreateWorkflow, Place, DeleteIn, RunFromWorkflow, Perform,
       CreateProject, RevokeProjectGrants, DeleteProject
<1>4. /\ q.phase = "judge"
      /\ \/ ~required
         \/ /\ q.kind \in {"run", "milestone"} => Resolves(q.kind, q.id)
            /\ RequireEvery(q.user, ReadProjects(q), Role.viewer)
  <2>1. ~Refuse(r)
    BY DEF Refuse, Answer, Answered, Idle, IInv, TypeOK
  <2> QED
    BY <1>3, <2>1 DEF Serve
<1>5. /\ d.kind = q.kind /\ d.id = q.id /\ d.project = q.home
      /\ q.kind \notin q.moved => d \in docs
  BY <1>1, <1>4 DEF RequestOK, ReadOK
<1>6. CASE ~required
  BY <1>6 DEF Authorize, RequireEvery, Unrestricted
<1>7. CASE required /\ q.kind \notin {"run", "milestone"}
  <2>1. Authorize(q.user, q.home, Role.viewer)
    BY <1>4, <1>7 DEF RequireEvery, ReadProjects
  <2>2. Named(d, d.project) = {}
    BY <1>5, <1>7 DEF Named
  <2> QED
    BY <1>5, <2>1, <2>2 DEF RequireEvery
<1>8. CASE required /\ q.kind \in {"run", "milestone"} /\ q.kind \notin q.moved
  <2>1. d \in Located(q.kind, q.id)
    BY <1>5, <1>8 DEF Located, ListHomes
  <2>2. Located(q.kind, q.id) = {d}
    BY <1>1, <1>4, <1>8, <2>1, OneDocument
  <2>3. TheOne(q.kind, q.id) = d /\ ProjectOf(q.kind, q.id) = d.project
    BY <1>1, <2>2, ResolvesToOne, SMTT(30) DEF TypeOK
  <2>4. RequireEvery(q.user, ProjectsOf(d, d.project), Role.viewer)
    BY <1>4, <1>8, <2>3 DEF ReadProjects
  <2> QED
    BY <2>4 DEF RequireEvery, ProjectsOf, WithHome
<1> QED
  BY <1>5, <1>6, <1>7, <1>8

\* A document is served only to a viewer of where it was read, and, if nothing
\* of its kind moved, of all it names, however many others read and write
\* (guard_get resolves twice and reads in between, without a lock).
THEOREM Serving == Spec => ServedWithinReach
<1>1. IInv /\ [Next]_vars =>
        [\A r \in Requests :
            LET q == pend[r] IN
            (q.op = "get" /\ pend'[r].phase = "done" /\ pend'[r].about # {}) =>
                \A d \in q.about :
                    \/ d.kind \in {"run", "milestone"} /\ d.kind \in q.moved
                    \/ /\ Authorize(q.user, d.project, Role.viewer)
                       /\ \/ q.moved \intersect {"run", "suite"} # {}
                          \/ RequireEvery(q.user, Named(d, d.project), Role.viewer)]_vars
  BY ServedStep
<1> QED
  BY <1>1, Invariant, PTL DEF Spec, ServedWithinReach
\* What WritesWhereEntitled asks of the step that answers q.
Entitled(q, about) ==
    /\ (docs \ docs') \union (docs' \ docs) \subseteq about
    /\ \A d \in about : Authorize(q.user, d.project, WriteRole(q.kind))
    /\ q.op # "startRun" =>
          \A d \in docs' \ docs : RequireEvery(q.user, Named(d, d.project), WriteRole(q.kind))

\* What an operation writes and pulls from is what its answer is about.
LEMMA PerformWrites ==
    ASSUME TypeOK, NEW r \in Requests, NEW q, NEW can, NEW removed, NEW added, NEW used,
           \A d \in removed \union added \union used : Authorize(q.user, d.project, WriteRole(q.kind)),
           q.op # "startRun" =>
               \A d \in added : RequireEvery(q.user, Named(d, d.project), WriteRole(q.kind)),
           Perform(r, can, removed, added, used)
    PROVE  Entitled(q, pend'[r].about)
<1>1. CASE can
  <2>1. PICK about : about = removed \union added \union used
    OBVIOUS
  <2>2. pend'[r] = Answered(r, about) /\ docs' = (docs \ removed) \union added
    BY <1>1, <2>1 DEF Perform, Writes
  <2>3. pend'[r].about = about
    BY <2>2 DEF Answered, Idle
  <2>4. /\ docs \ docs' \subseteq removed
        /\ docs' \ docs \subseteq added
    BY <2>2
  <2> QED
    BY <1>1, <2>1, <2>3, <2>4 DEF Entitled
<1>2. CASE ~can
  <2>1. docs' = docs /\ pend'[r].about = {}
    BY <1>2 DEF Perform, Refuse, Answer, Answered, Idle, TypeOK
  <2> QED
    BY <2>1 DEF Entitled
<1> QED
  BY <1>1, <1>2

\* Where nothing is enforced every write is entitled.
LEMMA UnenforcedWrites ==
    ASSUME TypeOK, NEW r \in Requests, NEW q, ~required,
           NEW can, NEW removed, NEW added, NEW used, Perform(r, can, removed, added, used)
    PROVE  Entitled(q, pend'[r].about)
<1>1. \A p, role : Authorize(q.user, p, role)
  BY DEF Authorize, Unrestricted
<1>2. \A S : RequireEvery(q.user, S, WriteRole(q.kind))
  BY <1>1 DEF RequireEvery
<1> QED
  BY <1>1, <1>2, PerformWrites

\* What the guard of a request by its identifier established.
LEMMA GuardedById ==
    ASSUME IInv, NEW r \in Requests, NEW q, q = pend[r], required,
           q.phase = "act", q.op \in WritesById,
           q.moved \intersect (Relevant(q) \union {"grant"}) = {}
    PROVE  \E d \in docs :
              /\ Located(q.kind, q.id) = {d} /\ d.kind = q.kind
              /\ q.op # "update" =>
                   RequireEvery(q.user, ProjectsOf(d, d.project), WriteRole(q.kind))
              /\ q.op = "update" =>
                   RequireEvery(q.user, WithHome(d.project,
                       Named(MergedDocument(d, q.body), d.project)), WriteRole(q.kind))
              /\ q.op = "addSource" =>
                   /\ Resolves("suite", q.id)
                   /\ Authorize(q.user, ProjectOf("suite", q.id), Role.editor)
              /\ q.op = "linkConfiguration" =>
                   \A c \in Preferred("configuration", q.id, d.project) :
                       Authorize(q.user, c.project, Role.editor)
<1>1. q \in AllRequests /\ RequestOK(q) /\ TypeOK
  BY DEF IInv, TypeOK, RequestInv
<1>2. PICK j : j = Judged(q)
  OBVIOUS
<1>3. Guard(j)
  BY <1>1, <1>2 DEF RequestOK, EntitledOK, WritesById, RunOps
<1>4. /\ j.op = q.op /\ j.user = q.user /\ j.kind = q.kind /\ j.id = q.id /\ j.body = q.body
      /\ j.home = ProjectOf(q.kind, q.id)
  BY <1>1, <1>2 DEF Judged, AllRequests
<1>5. /\ q.op = "update" => GuardUpdate(j)
      /\ q.op # "update" => GuardDelete(j)
      /\ q.op = "addSource" => RequireRunSource(j)
      /\ q.op = "linkConfiguration" => RequireRunConfiguration(j)
  BY <1>3, <1>4 DEF Guard, GuardDuplicate, RequireRun, RequireRunSource, RequireRunConfiguration,
     WritesById, RunOps
<1>6. Resolves(q.kind, q.id)
  BY <1>4, <1>5 DEF GuardUpdate, GuardDelete
<1>7. PICK d \in docs : Located(q.kind, q.id) = {d} /\ d.kind = q.kind
  BY <1>1, <1>6, OneDocument
<1>8. TheOne(q.kind, q.id) = d /\ j.home = d.project /\ d \in AllDocs
  BY <1>1, <1>4, <1>7, ResolvesToOne DEF TypeOK
<1>9. ASSUME q.op # "update"
      PROVE  RequireEvery(q.user, ProjectsOf(d, d.project), WriteRole(q.kind))
  BY <1>4, <1>5, <1>8, <1>9 DEF GuardDelete
<1>10. ASSUME q.op = "update"
       PROVE  RequireEvery(q.user, WithHome(d.project,
                  Named(MergedDocument(d, q.body), d.project)), WriteRole(q.kind))
  <2>1. PICK m : m = MergedDocument(d, q.body)
    OBVIOUS
  <2>2. /\ m.kind = q.kind /\ m.projects = Effective(d, q.body, "projects")
        /\ m.suites = Effective(d, q.body, "suites") /\ m.runs = Effective(d, q.body, "runs")
    BY <1>7, <1>8, <2>1 DEF MergedDocument, AllDocs
  <2>3. Named(m, d.project) =
          CASE q.kind = "run" -> Effective(d, q.body, "projects")
            [] q.kind = "milestone" ->
                  MilestoneProjects(d.project, Effective(d, q.body, "suites"),
                                    Effective(d, q.body, "runs"))
            [] OTHER -> {}
    BY <2>2 DEF Named
  <2> QED
    BY <1>4, <1>5, <1>8, <1>10, <2>1, <2>3 DEF GuardUpdate
<1>11. ASSUME q.op = "addSource"
       PROVE  Resolves("suite", q.id) /\ Authorize(q.user, ProjectOf("suite", q.id), Role.editor)
  BY <1>4, <1>5, <1>11 DEF RequireRunSource
<1>12. ASSUME q.op = "linkConfiguration", NEW c \in Preferred("configuration", q.id, d.project)
       PROVE  Authorize(q.user, c.project, Role.editor)
  BY <1>4, <1>5, <1>8, <1>12 DEF RequireRunConfiguration
<1> QED
  BY <1>7, <1>9, <1>10, <1>11, <1>12
\* Writes by identifier land where the guard judged, on what it judged.
LEMMA WritesByIdEntitled ==
    ASSUME IInv, NEW r \in Requests, NEW q, q = pend[r], required,
           q.phase = "act", q.op \in WritesById,
           q.moved \intersect (Relevant(q) \union {"grant"}) = {},
           \/ Update(r) \/ Delete(r) \/ (\E copy \in CopyIds : Duplicate(r, copy))
           \/ RunWrite(r) \/ AddSource(r) \/ LinkConfiguration(r)
    PROVE  Entitled(q, pend'[r].about)
<1>1. PICK d \in docs :
              /\ Located(q.kind, q.id) = {d} /\ d.kind = q.kind
              /\ q.op # "update" =>
                   RequireEvery(q.user, ProjectsOf(d, d.project), WriteRole(q.kind))
              /\ q.op = "update" =>
                   RequireEvery(q.user, WithHome(d.project,
                       Named(MergedDocument(d, q.body), d.project)), WriteRole(q.kind))
              /\ q.op = "addSource" =>
                   /\ Resolves("suite", q.id)
                   /\ Authorize(q.user, ProjectOf("suite", q.id), Role.editor)
              /\ q.op = "linkConfiguration" =>
                   \A c \in Preferred("configuration", q.id, d.project) :
                       Authorize(q.user, c.project, Role.editor)
  BY GuardedById
<1>2. PICK role : role = WriteRole(q.kind)
  OBVIOUS
<1>3. /\ Authorize(q.user, d.project, role)
      /\ q.op # "update" => RequireEvery(q.user, Named(d, d.project), role)
  BY <1>1, <1>2 DEF RequireEvery, ProjectsOf, WithHome
<1>4. d \in AllDocs /\ TypeOK
  BY DEF IInv, TypeOK
<1>5. q.op \in RunOps => q.kind = "run" /\ role = Role.editor
  BY <1>2 DEF IInv, RequestInv, RequestOK, AskedOK, WriteRole
<1>6. CASE Update(r)
  <2>1. PICK m : m = MergedDocument(d, q.body)
    OBVIOUS
  <2>2. Perform(r, Resolves(q.kind, q.id), {d}, {m}, {}) /\ q.op = "update"
    <3>1. {MergedDocument(e, q.body) : e \in {d}} = {m}
      BY <2>1
    <3> QED
      BY <1>1, <1>6, <3>1 DEF Update
  <2>3. m.project = d.project
    BY <1>4, <2>1 DEF MergedDocument, AllDocs
  <2>4. RequireEvery(q.user, Named(m, m.project), role)
    BY <1>1, <1>2, <2>1, <2>2, <2>3 DEF RequireEvery, WithHome
  <2>5. \A e \in {d} \union {m} \union {} : Authorize(q.user, e.project, WriteRole(q.kind))
    BY <1>2, <1>3, <2>3, <2>4
  <2>6. \A e \in {m} : RequireEvery(q.user, Named(e, e.project), WriteRole(q.kind))
    BY <1>2, <1>3, <2>3, <2>4
  <2> QED
    BY <1>4, <2>2, <2>5, <2>6, PerformWrites
<1>7. CASE Delete(r)
  <2>1. Perform(r, Resolves(q.kind, q.id), {d}, {}, {})
    BY <1>1, <1>7 DEF Delete
  <2>2. \A e \in {d} \union {} \union {} : Authorize(q.user, e.project, WriteRole(q.kind))
    BY <1>2, <1>3
  <2> QED
    BY <1>4, <2>1, <2>2, PerformWrites
<1>8. CASE \E copy \in CopyIds : Duplicate(r, copy)
  <2>1. PICK copy \in CopyIds : Duplicate(r, copy)
    BY <1>8
  <2>2. PICK c : c = [d EXCEPT !.id = copy]
    OBVIOUS
  <2>3. PICK can : Perform(r, can, {}, {c}, {d}) /\ q.op = "duplicate"
    <3>1. {[e EXCEPT !.id = copy] : e \in {d}} = {c}
      BY <2>2
    <3> QED
      BY <1>1, <2>1, <3>1 DEF Duplicate
  <2>4. c.kind = d.kind /\ c.project = d.project /\ c.projects = d.projects /\ c.suites = d.suites
        /\ c.runs = d.runs
    BY <1>4, <2>2 DEF AllDocs
  <2>5. Named(c, c.project) = Named(d, d.project)
    BY <2>4 DEF Named
  <2>6. \A e \in {} \union {c} \union {d} : Authorize(q.user, e.project, WriteRole(q.kind))
    BY <1>2, <1>3, <2>3, <2>4, <2>5
  <2>7. \A e \in {c} : RequireEvery(q.user, Named(e, e.project), WriteRole(q.kind))
    BY <1>2, <1>3, <2>3, <2>4, <2>5
  <2> QED
    BY <1>4, <2>3, <2>6, <2>7, PerformWrites
<1>9. CASE RunWrite(r)
  <2>1. Perform(r, Resolves("run", q.id), {}, {}, {d})
    BY <1>1, <1>5, <1>9 DEF RunWrite, RunOps
  <2>2. \A e \in {} \union {} \union {d} : Authorize(q.user, e.project, WriteRole(q.kind))
    BY <1>2, <1>3
  <2> QED
    BY <1>4, <2>1, <2>2, PerformWrites
<1>10. CASE AddSource(r)
  <2>1. PICK can : Perform(r, can, {}, {}, {d} \union Located("suite", q.id)) /\ q.op = "addSource"
    BY <1>1, <1>5, <1>10 DEF AddSource, RunOps
  <2>2. PICK source \in docs : Located("suite", q.id) = {source}
    BY <1>1, <1>4, <2>1, OneDocument
  <2>3. Authorize(q.user, source.project, role)
    BY <1>1, <1>4, <1>5, <2>1, <2>2, ResolvesToOne, SMTT(30) DEF TypeOK, RunOps
  <2>4. \A e \in {} \union {} \union ({d} \union Located("suite", q.id)) : Authorize(q.user, e.project, WriteRole(q.kind))
    BY <1>2, <1>3, <2>2, <2>3
  <2> QED
    BY <1>4, <2>1, <2>4, PerformWrites
<1>11. CASE LinkConfiguration(r)
  <2>1. q.op = "linkConfiguration" /\ q.kind = "run"
    BY <1>5, <1>11 DEF LinkConfiguration, RunOps
  <2>2. ProjectOf("run", q.id) = d.project
    BY <1>1, <1>4, <2>1, ResolvesToOne DEF TypeOK
  <2>3. PICK c : c = Preferred("configuration", q.id, d.project)
    OBVIOUS
  <2>4. Perform(r, c # {}, {}, {}, {d} \union c) \/ Perform(r, FALSE, {}, {}, {})
    BY <1>1, <1>11, <2>1, <2>2, <2>3 DEF LinkConfiguration
  <2>5. \A e \in c : Authorize(q.user, e.project, role)
    BY <1>1, <1>5, <2>1, <2>3 DEF RunOps
  <2>6. \A e \in {} \union {} \union ({d} \union c) : Authorize(q.user, e.project, WriteRole(q.kind))
    BY <1>2, <1>3, <2>5
  <2> QED
    BY <1>4, <2>4, <2>6, PerformWrites
<1> QED
  BY <1>6, <1>7, <1>8, <1>9, <1>10, <1>11

\* Writes in a project land in that project, and leave the one judged with it.
LEMMA WritesInProjectEntitled ==
    ASSUME IInv, NEW r \in Requests, NEW q, q = pend[r], required,
           q.phase = "act", q.op \in ProjectOps, q.op # "createWorkflow",
           q.moved \intersect (Relevant(q) \union {"grant"}) = {},
           CreateIn(r) \/ Place(r) \/ DeleteIn(r) \/ RunFromWorkflow(r)
    PROVE  Entitled(q, pend'[r].about)
<1>1. q \in AllRequests /\ RequestOK(q) /\ TypeOK
  BY DEF IInv, TypeOK, RequestInv
<1>2. Guard(q)
  <2>1. Judged(q) = q
    BY DEF Judged, ProjectOps, WritesById, RunOps
  <2> QED
    BY <1>1, <2>1 DEF RequestOK, EntitledOK
<1>3. PICK role : role = WriteRole(q.kind)
  OBVIOUS
<1>4. CASE CreateIn(r)
  <2>1. PICK d : d = FromBody(q.kind, q.id, q.project, q.body)
    OBVIOUS
  <2>2. PICK can : Perform(r, can, {}, {d}, {}) /\ q.op = "create"
    BY <1>4, <2>1 DEF CreateIn
  <2>3. d.project = q.project
    BY <2>1 DEF FromBody, Doc
  <2>4. RequireEvery(q.user, WithHome(q.project, Named(d, q.project)), role)
    BY <1>2, <1>3, <2>1, <2>2 DEF Guard, GuardProjectCreate
  <2>5. Authorize(q.user, d.project, role) /\ RequireEvery(q.user, Named(d, d.project), role)
    BY <2>3, <2>4 DEF RequireEvery, WithHome
  <2>6. \A e \in {} \union {d} \union {} : Authorize(q.user, e.project, WriteRole(q.kind))
    BY <1>3, <2>5
  <2>7. \A e \in {d} : RequireEvery(q.user, Named(e, e.project), WriteRole(q.kind))
    BY <1>3, <2>5
  <2> QED
    BY <1>1, <2>2, <2>6, <2>7, PerformWrites
<1>5. CASE Place(r)
  <2>1. q.op \in {"copy", "move"} /\ q.kind \in {"suite", "case"}
    BY <1>1, <1>5 DEF Place, RequestOK, AskedOK
  <2>2. role = Role.editor
    BY <1>3, <2>1 DEF WriteRole
  <2>3. GuardComposition(q)
    BY <1>2, <2>1 DEF Guard
  <2> DEFINE source == Located(q.kind, q.id)
             removed == IF q.op = "move" THEN source ELSE {}
             placed == {[d EXCEPT !.project = q.project] : d \in source}
  <2>4. PICK can : Perform(r, can, removed, placed, source)
    BY <1>5 DEF Place
  <2>5. \A d \in source : d \in AllDocs /\ d.kind = q.kind
    BY <1>1 DEF Located, ListHomes, TypeOK
  <2>6. \A d \in removed \union placed \union source : Authorize(q.user, d.project, role)
    <3>1. \A d \in source : Authorize(q.user, d.project, role)
      BY <2>2, <2>3 DEF GuardComposition
    <3>2. \A d \in placed : d.project = q.project
      BY <2>5 DEF AllDocs
    <3>3. Authorize(q.user, q.project, role)
      BY <2>2, <2>3 DEF GuardComposition
    <3> QED
      BY <3>1, <3>2, <3>3
  <2>7. \A d \in placed : RequireEvery(q.user, Named(d, d.project), role)
    <3>1. \A d \in placed : d.kind = q.kind
      BY <2>5 DEF AllDocs
    <3>2. \A d \in placed : Named(d, d.project) = {}
      BY <2>1, <3>1 DEF Named
    <3> QED
      BY <3>2 DEF RequireEvery
  <2> HIDE DEF source, removed, placed
  <2> QED
    BY <1>1, <1>3, <2>4, <2>6, <2>7, PerformWrites
<1>6. CASE DeleteIn(r)
  <2>1. PICK gone : gone = In(q.kind, q.id, q.project)
    OBVIOUS
  <2>2. Perform(r, gone # {}, gone, {}, {}) /\ q.op = "deleteIn"
    BY <1>6, <2>1 DEF DeleteIn
  <2>3. \A d \in gone : d.project = q.project
    BY <2>1 DEF In
  <2>4. Authorize(q.user, q.project, role)
    BY <1>2, <1>3, <2>2 DEF Guard
  <2>5. \A e \in gone \union {} \union {} : Authorize(q.user, e.project, WriteRole(q.kind))
    BY <1>3, <2>3, <2>4
  <2> QED
    BY <1>1, <2>2, <2>5, PerformWrites
<1>7. CASE RunFromWorkflow(r)
  <2>1. PICK workflow : workflow = In("workflow", q.id, q.project)
    OBVIOUS
  <2>2. PICK projects, can :
          /\ Perform(r, can, {}, {Doc("run", q.id, q.project, projects, {}, {})}, workflow)
          /\ q.op = "startRun"
    BY <1>7, <2>1 DEF RunFromWorkflow
  <2>3. PICK d : d = Doc("run", q.id, q.project, projects, {}, {})
    OBVIOUS
  <2>4. d.project = q.project /\ \A e \in workflow : e.project = q.project
    BY <2>1, <2>3 DEF In, Doc
  <2>5. role = Role.editor /\ Authorize(q.user, q.project, Role.editor)
    BY <1>1, <1>2, <1>3, <2>2 DEF Guard, WriteRole, RequestOK, AskedOK
  <2>6. \A e \in {} \union {d} \union workflow : Authorize(q.user, e.project, WriteRole(q.kind))
    BY <1>3, <2>4, <2>5
  <2> QED
    BY <1>1, <2>2, <2>3, <2>6, PerformWrites
<1> QED
  BY <1>4, <1>5, <1>6, <1>7

\* Any operation of a request whose guard still holds.
LEMMA WrittenStep ==
    ASSUME IInv, [Next]_vars, NEW r \in Requests, NEW q, q = pend[r],
           q.phase = "act", pend'[r].phase = "done", q.op # "createWorkflow",
           q.moved \intersect {q.kind, "run", "suite", "configuration", "grant"} = {}
    PROVE  Entitled(q, pend'[r].about)
<1>1. Step(r)
  BY OwnStep
<1>2. q.moved \intersect (Relevant(q) \union {"grant"}) = {}
  BY DEF Relevant
<1>3. TypeOK /\ AskedOK(q)
  BY DEF IInv, RequestInv, RequestOK
<1>4. CASE CreateProject(r)
  <2>1. docs' = docs /\ pend'[r].about = {}
    BY <1>3, <1>4 DEF CreateProject, Answer, Answered, Idle, TypeOK
  <2> QED
    BY <2>1 DEF Entitled
<1>5. CASE RevokeProjectGrants(r)
  <2>1. pend'[r] = [pend[r] EXCEPT !.phase = "remove"]
    BY <1>5 DEF RevokeProjectGrants, Writes
  <2> QED
    BY <1>3, <2>1 DEF TypeOK, AllRequests
<1> DEFINE ByIdOp == \/ Update(r) \/ Delete(r) \/ (\E copy \in CopyIds : Duplicate(r, copy))
                     \/ RunWrite(r) \/ AddSource(r) \/ LinkConfiguration(r)
           ProjectOp == CreateIn(r) \/ Place(r) \/ DeleteIn(r) \/ RunFromWorkflow(r)
<1>6. CASE ~required /\ (ByIdOp \/ ProjectOp)
  <2>1. \E can, removed, added, used : Perform(r, can, removed, added, used)
    <3>1. CASE Update(r) \/ Delete(r) \/ (\E copy \in CopyIds : Duplicate(r, copy))
      BY <3>1 DEF Update, Delete, Duplicate
    <3>2. CASE RunWrite(r) \/ AddSource(r) \/ LinkConfiguration(r)
      BY <3>2 DEF RunWrite, AddSource, LinkConfiguration
    <3>3. CASE CreateIn(r) \/ Place(r)
      BY <3>3 DEF CreateIn, Place
    <3>4. CASE DeleteIn(r) \/ RunFromWorkflow(r)
      BY <3>4 DEF DeleteIn, RunFromWorkflow
    <3> QED
      BY <1>6, <3>1, <3>2, <3>3, <3>4
  <2> QED
    BY <1>3, <1>6, <2>1, UnenforcedWrites
<1>7. CASE required /\ ByIdOp
  <2>1. q.op \in WritesById
    BY <1>7 DEF Update, Delete, Duplicate, RunWrite, AddSource, LinkConfiguration, WritesById, RunOps
  <2> QED
    BY <1>2, <1>7, <2>1, WritesByIdEntitled
<1>8. CASE required /\ ProjectOp
  <2>1. q.op \in ProjectOps
    BY <1>8 DEF CreateIn, Place, DeleteIn, RunFromWorkflow, ProjectOps
  <2> QED
    BY <1>2, <1>8, <2>1, WritesInProjectEntitled
<1> QED
  BY <1>1, <1>3, <1>4, <1>5, <1>6, <1>7, <1>8
  DEF Step, Receive, ReceiveById, ReceiveInProject, ReadAtHome, Serve, Judge, CreateWorkflow,
      DeleteProject, TypeOK

\* Whatever a request writes or pulls from lies in projects where its caller
\* holds the role the resource asks for, and what it leaves reaches only such
\* projects, unless what its guard resolved changed before the operation: the
\* guard and the operation resolve the identifier separately, and agree.
THEOREM Writing == Spec => WritesWhereEntitled
<1>1. IInv /\ [Next]_vars =>
        [\A r \in Requests :
            LET q == pend[r]
                role == WriteRole(q.kind)
                wrote == pend'[r].about
            IN
            (/\ q.phase = "act" /\ pend'[r].phase = "done" /\ q.op # "createWorkflow"
             /\ q.moved \intersect {q.kind, "run", "suite", "configuration", "grant"} = {}) =>
                /\ (docs \ docs') \union (docs' \ docs) \subseteq wrote
                /\ \A d \in wrote : Authorize(q.user, d.project, role)
                /\ q.op # "startRun" =>
                      \A d \in docs' \ docs : RequireEvery(q.user, Named(d, d.project), role)]_vars
  BY WrittenStep DEF Entitled
<1> QED
  BY <1>1, Invariant, PTL DEF Spec, WritesWhereEntitled
=============================================================================
