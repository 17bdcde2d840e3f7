------------------------------ MODULE Seeding ------------------------------
(***************************************************************************)
(* The seed-auth and unseed-auth commands: one writes an account and its   *)
(* grants, the other takes both away again (src/src/auth/seed.rs,          *)
(* src/src/main.rs).  Accounts are in users.json, grants in one file per   *)
(* project, keyed by account identifier, so an account and its grants come *)
(* and go in separate transactions of the store (src/src/auth/store.rs).   *)
(*                                                                         *)
(* A command is a process of its own, beside the server, whose only write  *)
(* here is the revocation of a deleted project's grants.  A transaction    *)
(* holds the lock from its read to its rename and is one step; a look-up   *)
(* takes no lock and is a step too.  Between any two steps a command may   *)
(* be cut short: killed, refused the lock, or failing to read or write.    *)
(* Sessions has the refresh tokens of the accounts.                        *)
(***************************************************************************)
EXTENDS Integers, SequencesExt

CONSTANTS
    Commands,   \* the commands run; one that creates an account takes its own name as identifier
    Projects,
    Roles, NoRole,
    Names,      \* login names
    Admin,      \* the bootstrap account: its name and its identifier
    Earlier,    \* the account an earlier seed-auth created
    MaxDeletes  \* bound on the projects deleted

ASSUME SeedingAssumption ==
    /\ NoRole \notin Roles /\ Admin \in Names
    /\ Admin \notin Commands /\ Earlier \notin Commands \union {Admin}
    /\ IsFiniteSet(Projects) /\ MaxDeletes \in Nat

Ids == Commands \union {Admin, Earlier}

VARIABLES
    users,      \* users.json: a set of [id, name, admin]
    grants,     \* grants[p][i]: the role of account i in project p
    pc, cmd,    \* where each command is, and its arguments
    account,    \* the account a command found or created
    todo,       \* the projects a command has still to visit, in order
    outcome,    \* what became of the account a teardown was to remove
    kept,       \* the grants a teardown reports as left in place, or a check as held
    orphans,    \* the grants a check reports that no account answers for: <<p, i>>
    foreign,    \* where someone else changed the account's grant since the
                \* command last read or wrote it, or any grant since a check scanned
    deletes     \* how many projects were deleted

vars == <<users, grants, pc, cmd, account, todo, outcome, kept, orphans, foreign, deletes>>

Working == {"insert", "grant", "set", "revoke", "unset", "drop", "scan", "confirm", "look", "check"}

Answers == {"seeded", "conflict", "removed", "vanished", "kept", "absent", "refused", "checked", "cut"}

\* The projects an invocation names, in the order it names them.
Listings == SetToAllKPermutations(Projects)

\* seed-auth gives one role in all its projects; unseed-auth names at least one
\* project and may keep the account, or with --check only looks.
Arguments ==
    [kind : {"seed"}, name : Names, projects : Listings, role : Roles, keep : {TRUE}]
    \union
    [kind : {"unseed"}, name : Names, projects : Listings \ {<<>>}, role : {NoRole},
     keep : BOOLEAN]
    \union
    [kind : {"check"}, name : Names, projects : Listings \ {<<>>}, role : {NoRole},
     keep : {TRUE}]

NoCommand == [kind |-> "none"]

Named(args, u) == u.name = args.name

Role(p, c) == grants[p][account[c]]

Goto(c, phase) == pc' = [pc EXCEPT ![c] = phase]

\* The first project of the list is dealt with.
Advance(c) == todo' = [todo EXCEPT ![c] = Tail(@)]

\* A command has read its account's grant in p.
Seen(c, p) == foreign' = [foreign EXCEPT ![c] = @ \ {p}]

\* A command writes its account's grant in p, under the eyes of the others that
\* work on that account.
WriteGrant(c, p, role) ==
    /\ grants' = [grants EXCEPT ![p][account[c]] = role]
    /\ foreign' =
         [d \in Commands |->
            CASE d = c -> foreign[d] \ {p}
              [] d # c /\ (account[d] = account[c] \/ cmd[d].kind = "check") -> foreign[d] \union {p}
              [] OTHER -> foreign[d]]

\* The locals of a command that ends without a report are gone.
Forget(c) ==
    /\ cmd' = [cmd EXCEPT ![c] = NoCommand]
    /\ account' = [account EXCEPT ![c] = c]
    /\ todo' = [todo EXCEPT ![c] = <<>>]
    /\ outcome' = [outcome EXCEPT ![c] = "none"]
    /\ kept' = [kept EXCEPT ![c] = {}]
    /\ orphans' = [orphans EXCEPT ![c] = {}]
    /\ foreign' = [foreign EXCEPT ![c] = {}]

Start(c, args) ==
    /\ pc[c] = "idle"
    /\ cmd' = [cmd EXCEPT ![c] = args]
    /\ todo' = [todo EXCEPT ![c] = args.projects]
    /\ UNCHANGED <<grants, outcome, kept, foreign, deletes>>

(* ------------------------------- seed-auth ------------------------------- *)

\* user_by_username, without the lock.
SeedAccount(c, args) ==
    /\ Start(c, args) /\ args.kind = "seed"
    /\ \/ \E u \in users : /\ Named(args, u)
                           /\ account' = [account EXCEPT ![c] = u.id]
                           /\ Goto(c, "grant")
       \/ ~(\E u \in users : Named(args, u)) /\ Goto(c, "insert") /\ UNCHANGED account
    /\ UNCHANGED <<users, orphans>>

\* A name taken since the look-up is a conflict, which ends the command.
InsertUser(c) ==
    /\ pc[c] = "insert"
    /\ \/ /\ \E u \in users : Named(cmd[c], u)
          /\ Goto(c, "conflict") /\ Forget(c) /\ UNCHANGED users
       \/ /\ ~\E u \in users : Named(cmd[c], u)
          /\ users' = users \union {[id |-> c, name |-> cmd[c].name, admin |-> FALSE]}
          /\ account' = [account EXCEPT ![c] = c]
          /\ Goto(c, "grant") /\ UNCHANGED <<cmd, todo, outcome, kept, orphans, foreign>>
    /\ UNCHANGED <<grants, deletes>>

Lacks(c, p) == Role(p, c) # cmd[c].role

\* role_of, without the lock: a grant that is missing or differs is to be set.
ReadGrant(c) ==
    /\ pc[c] = "grant" /\ todo[c] # <<>>
    /\ LET p == Head(todo[c]) IN
         /\ Seen(c, p)
         /\ \/ Lacks(c, p) /\ Goto(c, "set") /\ UNCHANGED todo
            \/ ~Lacks(c, p) /\ Advance(c) /\ UNCHANGED pc
    /\ UNCHANGED <<users, grants, cmd, account, outcome, kept, orphans, deletes>>

SetRole(c) ==
    /\ pc[c] = "set"
    /\ WriteGrant(c, Head(todo[c]), cmd[c].role)
    /\ Advance(c) /\ Goto(c, "grant")
    /\ UNCHANGED <<users, cmd, account, outcome, kept, orphans, deletes>>

Seeded(c) ==
    /\ pc[c] = "grant" /\ todo[c] = <<>>
    /\ Goto(c, "seeded")
    /\ UNCHANGED <<users, grants, cmd, account, todo, outcome, kept, orphans, foreign, deletes>>

(* ------------------------------ unseed-auth ------------------------------ *)

\* A fault of unseed_account: the account removed first, its grants afterwards.
UnseedAccountFirst(c, args) ==
    /\ Start(c, args) /\ args.kind = "unseed"
    /\ \/ /\ ~\E u \in users : Named(args, u)
          /\ Goto(c, "absent") /\ UNCHANGED <<users, account>>
       \/ \E u \in users :
            /\ Named(args, u) /\ ~u.admin
            /\ users' = IF args.keep THEN users ELSE users \ {u}
            /\ account' = [account EXCEPT ![c] = u.id]
            /\ Goto(c, "revoke")
    /\ UNCHANGED orphans

\* user_by_username, without the lock: an account that is not there is reported,
\* and an administrator is not removed.
UnseedAccount(c, args) ==
    /\ Start(c, args) /\ args.kind = "unseed"
    /\ \/ ~(\E u \in users : Named(args, u)) /\ Goto(c, "absent") /\ UNCHANGED account
       \/ \E u \in users : /\ Named(args, u)
                           /\ account' = [account EXCEPT ![c] = u.id]
                           /\ Goto(c, IF u.admin /\ ~args.keep THEN "refused" ELSE "revoke")
    /\ UNCHANGED <<users, orphans>>

\* role_of for the next project named; one without a grant is passed over.
ReadNamed(c) ==
    /\ pc[c] = "revoke" /\ todo[c] # <<>>
    /\ LET p == Head(todo[c]) IN
         /\ Seen(c, p)
         /\ \/ Role(p, c) # NoRole /\ Goto(c, "unset") /\ UNCHANGED todo
            \/ Role(p, c) = NoRole /\ Advance(c) /\ UNCHANGED pc
    /\ UNCHANGED <<users, grants, cmd, account, outcome, kept, orphans, deletes>>

RemoveRole(c) ==
    /\ pc[c] = "unset"
    /\ WriteGrant(c, Head(todo[c]), NoRole)
    /\ Advance(c) /\ Goto(c, "revoke")
    /\ UNCHANGED <<users, cmd, account, outcome, kept, orphans, deletes>>

\* The walk over the grant files meets them in some order.
ScanAll(c) ==
    /\ \E files \in SetToSeqs(Projects) : todo' = [todo EXCEPT ![c] = files]
    /\ Goto(c, "scan")

\* A fault of projects_for_user: only the projects named are looked at.
HeldNamed(c, p) == Role(p, c) # NoRole /\ p \in ToSet(cmd[c].projects)

Held(c, p) == Role(p, c) # NoRole

\* The account goes, unless it is to be kept or is gone already.
RemoveUser(c) ==
    /\ pc[c] = "revoke" /\ todo[c] = <<>>
    /\ users' = IF cmd[c].keep THEN users ELSE {u \in users : u.id # account[c]}
    /\ outcome' = [outcome EXCEPT ![c] =
                     IF cmd[c].keep THEN "kept"
                     ELSE IF users' # users THEN "removed" ELSE "vanished"]
    /\ foreign' = [d \in Commands |->
                     IF users' # users /\ cmd[d].kind = "check"
                     THEN foreign[d] \union {p \in Projects : Held(c, p)} ELSE foreign[d]]
    /\ ScanAll(c)
    /\ UNCHANGED <<grants, cmd, account, kept, orphans, deletes>>

\* projects_for_user, file by file and without the lock.
ScanGrants(c) ==
    /\ pc[c] = "scan"
    /\ \/ /\ todo[c] # <<>>
          /\ LET p == Head(todo[c]) IN
               /\ Seen(c, p)
               /\ kept' = [kept EXCEPT ![c] = IF Held(c, p) THEN @ \union {p} ELSE @]
          /\ Advance(c) /\ UNCHANGED pc
       \/ /\ todo[c] = <<>>
          /\ \E found \in SetToSeqs(kept[c]) : todo' = [todo EXCEPT ![c] = found]
          /\ Goto(c, "confirm") /\ UNCHANGED <<kept, foreign>>
    /\ UNCHANGED <<users, grants, cmd, account, outcome, orphans, deletes>>

\* Each grant found is read once more; one that went meanwhile is not reported.
ConfirmKept(c) ==
    /\ pc[c] = "confirm" /\ todo[c] # <<>>
    /\ LET p == Head(todo[c]) IN
         /\ Seen(c, p)
         /\ kept' = [kept EXCEPT ![c] = IF Held(c, p) THEN @ ELSE @ \ {p}]
    /\ Advance(c)
    /\ UNCHANGED <<users, grants, pc, cmd, account, outcome, orphans, deletes>>

\* What is printed: the account's fate and the grants kept.
Report(c) ==
    /\ pc[c] = "confirm" /\ todo[c] = <<>>
    /\ Goto(c, outcome[c])
    /\ UNCHANGED <<users, grants, cmd, account, todo, outcome, kept, orphans, foreign, deletes>>

(* ------------------------- unseed-auth --check ------------------------- *)

\* orphan_grants, one transaction: accounts and grants in one look.
OrphanGrants(c, args) ==
    /\ Start(c, args) /\ args.kind = "check"
    /\ orphans' = [orphans EXCEPT ![c] =
                     {g \in Projects \X Ids :
                        grants[g[1]][g[2]] # NoRole /\ ~\E u \in users : u.id = g[2]}]
    /\ Goto(c, "look")
    /\ UNCHANGED <<users, account>>

\* Then the account by its name, without the lock.
CheckAccount(c) ==
    /\ pc[c] = "look"
    /\ \/ ~(\E u \in users : Named(cmd[c], u)) /\ Goto(c, "checked") /\ UNCHANGED account
       \/ \E u \in users : /\ Named(cmd[c], u)
                           /\ account' = [account EXCEPT ![c] = u.id]
                           /\ Goto(c, "check")
    /\ UNCHANGED <<users, grants, cmd, todo, outcome, kept, orphans, foreign, deletes>>

\* And its role in each project named.
CheckGrant(c) ==
    /\ pc[c] = "check"
    /\ \/ /\ todo[c] # <<>>
          /\ kept' = [kept EXCEPT ![c] = IF Held(c, Head(todo[c])) THEN @ \union {Head(todo[c])} ELSE @]
          /\ Advance(c) /\ UNCHANGED pc
       \/ todo[c] = <<>> /\ Goto(c, "checked") /\ UNCHANGED <<todo, kept>>
    /\ UNCHANGED <<users, grants, cmd, account, outcome, orphans, foreign, deletes>>

(* ------------------------------ environment ------------------------------ *)

\* The store is busy, cannot be read or written, or the command is killed: what
\* it has done stays.
CutShort(c) ==
    /\ pc[c] \in Working
    /\ Goto(c, "cut") /\ Forget(c)
    /\ UNCHANGED <<users, grants, deletes>>

\* The server deletes a project and with it the project's grants.
RemoveProjectGrants(p) ==
    /\ deletes < MaxDeletes /\ deletes' = deletes + 1
    /\ \E i \in Ids : grants[p][i] # NoRole
    /\ grants' = [grants EXCEPT ![p] = [i \in Ids |-> NoRole]]
    /\ foreign' = [c \in Commands |->
                     IF grants[p][account[c]] # NoRole \/ cmd[c].kind = "check" THEN foreign[c] \union {p} ELSE foreign[c]]
    /\ UNCHANGED <<users, pc, cmd, account, todo, outcome, kept, orphans>>

(* ----------------------------- specification ----------------------------- *)

\* Earlier invocations, complete or cut short, may have left an account, its
\* grants, or grants of an account that is gone.
Init ==
    /\ \E left \in SUBSET [id : {Earlier}, name : Names \ {Admin}, admin : {FALSE}] :
         /\ \A u, v \in left : u = v
         /\ users = {[id |-> Admin, name |-> Admin, admin |-> TRUE]} \union left
    /\ grants \in [Projects -> {[i \in Ids |-> IF i = Earlier THEN role ELSE NoRole] :
                                  role \in Roles \union {NoRole}}]
    /\ pc = [c \in Commands |-> "idle"]
    /\ cmd = [c \in Commands |-> NoCommand]
    /\ account = [c \in Commands |-> c]
    /\ todo = [c \in Commands |-> <<>>]
    /\ outcome = [c \in Commands |-> "none"]
    /\ kept = [c \in Commands |-> {}]
    /\ orphans = [c \in Commands |-> {}]
    /\ foreign = [c \in Commands |-> {}]
    /\ deletes = 0

\* Every command has ended.
AllEnded == (\A c \in Commands : pc[c] \in Answers) /\ UNCHANGED vars

Next ==
    \/ \E c \in Commands :
         \/ \E args \in Arguments : SeedAccount(c, args) \/ UnseedAccount(c, args) \/ OrphanGrants(c, args)
         \/ InsertUser(c) \/ ReadGrant(c) \/ SetRole(c) \/ Seeded(c)
         \/ ReadNamed(c) \/ RemoveRole(c) \/ RemoveUser(c)
         \/ ScanGrants(c) \/ ConfirmKept(c) \/ Report(c) \/ CheckAccount(c) \/ CheckGrant(c)
         \/ CutShort(c)
    \/ \E p \in Projects : RemoveProjectGrants(p)
    \/ AllEnded

Spec == Init /\ [][Next]_vars

(* ------------------------------ properties ------------------------------ *)

Unseeds(c, i, p) ==
    cmd[c].kind = "unseed" /\ account[c] = i /\ p \in ToSet(cmd[c].projects)

\* Whatever commands race, a teardown takes away nothing it was not told to: a
\* grant goes with its project or by a teardown that names the account and the
\* project, an account by a teardown that names it, and an administrator never
\* (unseed_account: "the named account and only the named grants").
TeardownOnlyNamed ==
    [][/\ \A u \in users : u \notin users' =>
             ~u.admin /\ \E c \in Commands : /\ cmd'[c].kind = "unseed" /\ ~cmd'[c].keep
                                             /\ Named(cmd'[c], u)
       /\ \A p \in Projects, i \in Ids :
             grants[p][i] # NoRole /\ grants'[p][i] = NoRole =>
                deletes' # deletes \/ \E c \in Commands : Unseeds(c, i, p)]_<<users, grants>>

\* An account is removed only when its grants on the projects the teardown names
\* are gone, so a teardown cut short leaves an account it can still find by name,
\* never such a grant that nothing answers for; a grant that another command set
\* after the teardown had dealt with it is the one exception (the order of steps
\* in unseed_account).
GrantsGoFirst ==
    [][\A u \in users \ users' : \E c \in Commands :
          /\ account'[c] = u.id /\ cmd'[c].kind = "unseed"
          /\ \A p \in ToSet(cmd'[c].projects) : grants[p][u.id] # NoRole => p \in foreign[c]]_users

\* A teardown that answers has reported every grant still keyed on the account,
\* in whatever project and whoever set it, unless it was set after the teardown
\* looked (projects_for_user and the grants_kept of unseed_account).
TeardownHonest ==
    \A c \in Commands :
        pc[c] \in {"removed", "vanished", "kept"} =>
            \A p \in Projects : Role(p, c) # NoRole => p \in kept[c] \union foreign[c]

\* A seed-auth that answers has left its account the role asked for in every
\* project it names, whatever an earlier invocation that was cut short had
\* written, unless someone changed the grant after it looked (seed_account: "the
\* spec is the authority").
SeedComplete ==
    \A c \in Commands :
        pc[c] = "seeded" =>
            \A p \in ToSet(cmd[c].projects) : Role(p, c) = cmd[c].role \/ p \in foreign[c]

\* A check that answers has seen what a look-up by name cannot reach: every grant
\* no account answers for, wherever it is, and every named grant of the account
\* it found, unless a command or the server changed grants or removed an account
\* there while it looked; it looks twice, and only the first look is atomic
\* (orphan_grants and report_account).
CheckHonest ==
    \A c \in Commands :
        pc[c] = "checked" =>
            /\ \A p \in Projects, i \in Ids :
                 grants[p][i] # NoRole /\ (~\E u \in users : u.id = i)
                    => <<p, i>> \in orphans[c] \/ p \in foreign[c]
            /\ \A p \in ToSet(cmd[c].projects) : Role(p, c) # NoRole => p \in kept[c] \union foreign[c]

\* What a command says it did, left or found is so: the three above.
ReportsHonest == TeardownHonest /\ SeedComplete /\ CheckHonest

\* A teardown takes only what it was told to, and in the order that leaves
\* something to resume from: the two above.
TeardownBounded == TeardownOnlyNamed /\ GrantsGoFirst
=============================================================================
