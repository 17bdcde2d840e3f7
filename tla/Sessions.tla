------------------------------ MODULE Sessions ------------------------------
(***************************************************************************)
(* Accounts and sessions: the file auth/users.json, the advisory lock its  *)
(* writers share with the document repository, and the requests that sign  *)
(* in, rotate and revoke refresh tokens, and add and remove accounts       *)
(* (src/src/auth/session.rs, store.rs, token.rs).                          *)
(*                                                                         *)
(* users.json is a function from the accounts it holds to the refresh      *)
(* tokens each record carries.  A writer takes the lock and reads the file *)
(* in one step and publishes the changed file, by rename, in another;      *)
(* look-ups take no lock and fall anywhere in between.  Every request      *)
(* reads the clock once, when it arrives.                                  *)
(***************************************************************************)
EXTENDS Integers

CONSTANTS
    Requests,    \* request threads, of one replica or of several
    Accounts,    \* account identifiers; random, so never used twice
    Username,    \* the login name each account has, folded to one case
    Founders,    \* the accounts the store starts with
    Tokens,      \* refresh tokens; random, so never minted twice
    FirstToken,  \* the token of the session that is already open
    AccessTtl, RefreshTtl,
    MaxTime,     \* bound on the clock
    NoOne, NoToken,
    Kinds,       \* the operations this instance exercises
    Faults       \* whether a request may be cut short: {"crash"} or {}

AllKinds == {"login", "refresh", "logout", "me", "insert_user", "remove_user"}

ASSUME SessionAssumption ==
    /\ NoOne \notin Requests /\ NoToken \notin Tokens
    /\ Founders \subseteq Accounts /\ Founders # {} /\ FirstToken \in Tokens
    /\ \A u, v \in Founders : Username[u] = Username[v] => u = v
    /\ AccessTtl \in Nat /\ RefreshTtl \in Nat \ {0} /\ MaxTime \in Nat
    /\ Kinds \subseteq AllKinds /\ Faults \subseteq {"crash"}

VARIABLES
    now,      \* Unix seconds
    users,    \* users.json: the tokens of each account it holds
    expires,  \* expires_at of the tokens minted so far
    lock,     \* the request holding .tatu.lock
    pc,       \* where each request is
    op,       \* what each request was asked: [kind, user, token]
    at,       \* the clock reading of each request
    view,     \* users.json as a writer read it under the lock
    answer,   \* what each request was answered
    access,   \* the access tokens clients hold: [subject, exp]
    session,  \* the sign-in each minted token descends from
    gone      \* when each removed account was removed

vars == <<now, users, expires, lock, pc, op, at, view, answer, access, session, gone>>

Transactions == {"prune", "dead", "consume", "signout", "insert", "insert_user", "remove_user"}
Answers == {"none", "ok", "denied", "revoked", "kept", "conflict", "absent", "missing",
            "busy", "lost"}
Ops == [kind : AllKinds, user : Accounts, token : Tokens \union {NoToken}]

NoUsers == [u \in {} |-> {}]

Minted == DOMAIN expires

Live(t) == \E u \in DOMAIN users : t \in users[u]

Extend(f, x, y) == [z \in DOMAIN f \union {x} |-> IF z = x THEN y ELSE f[z]]

(* ------------------------- lockless beginnings ------------------------- *)

Goto(r, phase) == pc' = [pc EXCEPT ![r] = phase]

Finish(r, status) == Goto(r, "done") /\ answer' = [answer EXCEPT ![r] = status]

\* A request arrives, reads the clock, and is remembered.
Arrive(r, kind, u, t) ==
    /\ pc[r] = "idle" /\ kind \in Kinds
    /\ op' = [op EXCEPT ![r] = [kind |-> kind, user |-> u, token |-> t]]
    /\ at' = [at EXCEPT ![r] = now]
    /\ UNCHANGED <<now, users, expires, lock, view, access, session, gone>>

Proceed(r, phase) == Goto(r, phase) /\ UNCHANGED answer

\* The account is looked up by name; an unknown one and a wrong password are
\* the same refusal.
Login(r, u) ==
    /\ Arrive(r, "login", u, NoToken)
    /\ \/ Finish(r, "denied")
       \/ u \in DOMAIN users /\ Proceed(r, "prune")

\* Look the token up; an expired one is refused and its record dropped.
Refresh(r, t) ==
    /\ \/ /\ ~Live(t) /\ Finish(r, "denied")
          /\ \E u \in Founders : Arrive(r, "refresh", u, t)
       \/ \E u \in DOMAIN users :
            /\ t \in users[u]
            /\ Arrive(r, "refresh", u, t)
            /\ Proceed(r, IF expires[t] <= now THEN "dead" ELSE "consume")

\* Stateless verification: the signed claims and the clock decide.
VerifyAccessToken(a) == now < a.exp

\* authenticate: the caller is whom a valid access token names; no account is
\* looked up.
Authenticate(u) == \E a \in access : a.subject = u /\ VerifyAccessToken(a)

\* A refresh token that is not the caller's stays.
Logout(r, u, t) ==
    /\ Arrive(r, "logout", u, t)
    /\ IF ~Authenticate(u) THEN Finish(r, "denied")
       ELSE IF u \in DOMAIN users /\ t \in users[u] THEN Proceed(r, "signout")
       ELSE Finish(r, "kept")

\* GET /auth/me looks the account up again: a removed one is refused even while
\* its access token is valid.
Me(r, u) ==
    /\ Arrive(r, "me", u, NoToken)
    /\ Finish(r, IF Authenticate(u) /\ u \in DOMAIN users THEN "ok" ELSE "denied")

NameTaken(file, u) == \E v \in DOMAIN file : v = u \/ Username[v] = Username[u]

\* Bootstrap and seeding look for the name, then add an account of a new random
\* identifier.
InsertUser(r, u) ==
    /\ ~NameTaken(users, u) /\ u \notin Founders
    /\ \A q \in Requests : op[q].kind = "insert_user" => op[q].user # u
    /\ Arrive(r, "insert_user", u, NoToken) /\ Proceed(r, "insert_user")

\* The teardown command finds the account by name and removes it by identifier.
RemoveUser(r, u) ==
    /\ Arrive(r, "remove_user", u, NoToken)
    /\ IF u \in DOMAIN users THEN Proceed(r, "remove_user") ELSE Finish(r, "absent")

(* ---------------------- transactions under the lock --------------------- *)

\* Take the lock, then read the file.
Begin(r) ==
    /\ pc[r] \in Transactions /\ lock = NoOne
    /\ lock' = r
    /\ view' = [view EXCEPT ![r] = users]
    /\ UNCHANGED <<now, users, expires, pc, op, at, answer, access, session, gone>>

LockTimeout(r) ==
    /\ pc[r] \in Transactions /\ lock \notin {NoOne, r}
    /\ Finish(r, "busy")
    /\ UNCHANGED <<now, users, expires, lock, op, at, view, access, session, gone>>

Holding(r, phase) == lock = r /\ pc[r] = phase

\* Publish the file and release the lock.
Publish(r, file) ==
    /\ users' = file
    /\ lock' = NoOne
    /\ view' = [view EXCEPT ![r] = NoUsers]
    /\ UNCHANGED <<now, op, at>>

\* The record of `t' was there for revoke_refresh_token to drop.
Removes(r) == op[r].user \in DOMAIN view[r] /\ op[r].token \in view[r][op[r].user]

\* The file without the record the request presented.
Revoked(r) ==
    [u \in DOMAIN view[r] |->
        IF u = op[r].user THEN view[r][u] \ {op[r].token} ELSE view[r][u]]

\* Tokens that expired at or before the request's clock reading.
PruneExpired(r) ==
    /\ Holding(r, "prune")
    /\ Publish(r, [u \in DOMAIN view[r] |-> {t \in view[r][u] : expires[t] > at[r]}])
    /\ Proceed(r, "insert")
    /\ UNCHANGED <<expires, access, session, gone>>

DropExpired(r) ==
    /\ Holding(r, "dead")
    /\ Publish(r, Revoked(r))
    /\ Finish(r, "denied")
    /\ UNCHANGED <<expires, access, session, gone>>

\* A fault of refresh: the result of the revocation ignored.
ConsumeUngated(r) ==
    /\ Holding(r, "consume")
    /\ Publish(r, Revoked(r))
    /\ Proceed(r, "insert")
    /\ UNCHANGED <<expires, access, session, gone>>

\* The consumption is the gate: only the request that removed the record goes on.
Consume(r) ==
    /\ Holding(r, "consume")
    /\ Publish(r, Revoked(r))
    /\ IF Removes(r) THEN Proceed(r, "insert") ELSE Finish(r, "denied")
    /\ UNCHANGED <<expires, access, session, gone>>

SignOut(r) ==
    /\ Holding(r, "signout")
    /\ Publish(r, Revoked(r))
    /\ Finish(r, "revoked")
    /\ UNCHANGED <<expires, access, session, gone>>

MintAccessToken(u, time) == [subject |-> u, exp |-> time + AccessTtl]

InsertRefreshToken(file, u, t) == [file EXCEPT ![u] = @ \union {t}]

\* A fault of issue_tokens: the account's record put back when it is not there.
IssueTokensReviving(r) ==
    /\ Holding(r, "insert")
    /\ \E t \in Tokens \ Minted :
         /\ Publish(r, Extend(view[r], op[r].user, {t}))
         /\ expires' = Extend(expires, t, at[r] + RefreshTtl)
         /\ session' = Extend(session, t, t)
         /\ access' = access \union {MintAccessToken(op[r].user, at[r])}
         /\ Finish(r, "ok")
    /\ UNCHANGED gone

\* Record a new token and hand the pair out, unless the account has gone.
IssueTokens(r) ==
    /\ Holding(r, "insert")
    /\ IF op[r].user \in DOMAIN view[r]
       THEN \E t \in Tokens \ Minted :
              /\ Publish(r, InsertRefreshToken(view[r], op[r].user, t))
              /\ expires' = Extend(expires, t, at[r] + RefreshTtl)
              /\ session' = Extend(session, t,
                              IF op[r].kind = "login" THEN t ELSE session[op[r].token])
              /\ access' = access \union {MintAccessToken(op[r].user, at[r])}
              /\ Finish(r, "ok")
       ELSE /\ Publish(r, view[r])
            /\ Finish(r, "missing")
            /\ UNCHANGED <<expires, access, session>>
    /\ UNCHANGED gone

\* A fault of insert_user: the name looked for before the lock only.
CommitInsertUserUnchecked(r) ==
    /\ Holding(r, "insert_user")
    /\ Publish(r, Extend(view[r], op[r].user, {})) /\ Finish(r, "ok")
    /\ UNCHANGED <<expires, access, session, gone>>

\* A taken name is looked for again under the lock.
CommitInsertUser(r) ==
    /\ Holding(r, "insert_user")
    /\ IF NameTaken(view[r], op[r].user)
       THEN Publish(r, view[r]) /\ Finish(r, "conflict")
       ELSE Publish(r, Extend(view[r], op[r].user, {})) /\ Finish(r, "ok")
    /\ UNCHANGED <<expires, access, session, gone>>

\* The tokens live inside the account's record and go with it.
CommitRemoveUser(r) ==
    /\ Holding(r, "remove_user")
    /\ IF op[r].user \in DOMAIN view[r]
       THEN /\ Publish(r, [u \in DOMAIN view[r] \ {op[r].user} |-> view[r][u]])
            /\ gone' = Extend(gone, op[r].user, now)
            /\ Finish(r, "ok")
       ELSE Publish(r, view[r]) /\ Finish(r, "absent") /\ UNCHANGED gone
    /\ UNCHANGED <<expires, access, session>>

\* The process dies, or the write fails before its rename: nothing more is
\* published and the lock is free again.
Crash(r) ==
    /\ "crash" \in Faults
    /\ pc[r] \in Transactions
    /\ Finish(r, "lost")
    /\ lock' = IF lock = r THEN NoOne ELSE lock
    /\ view' = [view EXCEPT ![r] = NoUsers]
    /\ UNCHANGED <<now, users, expires, op, at, access, session, gone>>

Tick ==
    /\ now < MaxTime /\ now' = now + 1
    /\ UNCHANGED <<users, expires, lock, pc, op, at, view, answer, access, session, gone>>

(* ---------------------------- specification ----------------------------- *)

\* One session is open, at some age; the access token of that age may have run
\* out.
Init ==
    /\ now = 0
    /\ lock = NoOne
    /\ \E u \in Founders, exp \in 1 .. RefreshTtl :
         /\ users = [v \in Founders |-> IF v = u THEN {FirstToken} ELSE {}]
         /\ expires = [t \in {FirstToken} |-> exp]
         /\ access = {a \in {MintAccessToken(u, exp - RefreshTtl)} : a.exp > 0}
    /\ session = [t \in {FirstToken} |-> t]
    /\ pc = [r \in Requests |-> "idle"]
    /\ op = [r \in Requests |-> [kind |-> "login", user |-> CHOOSE u \in Founders : TRUE,
                                 token |-> NoToken]]
    /\ at = [r \in Requests |-> 0]
    /\ view = [r \in Requests |-> NoUsers]
    /\ answer = [r \in Requests |-> "none"]
    /\ gone = [u \in {} |-> 0]

Client(r) ==
    \/ \E u \in Accounts : Login(r, u) \/ Me(r, u) \/ InsertUser(r, u) \/ RemoveUser(r, u)
    \/ \E t \in Tokens : Refresh(r, t) \/ \E u \in Accounts : Logout(r, u, t)

Server(r) ==
    Begin(r) \/ LockTimeout(r) \/ PruneExpired(r) \/ DropExpired(r) \/ Consume(r)
    \/ SignOut(r) \/ IssueTokens(r) \/ CommitInsertUser(r) \/ CommitRemoveUser(r)

\* Every request has been answered and the clock has run out.
AllAnswered == now = MaxTime /\ (\A r \in Requests : pc[r] = "done") /\ UNCHANGED vars

Next ==
    \/ \E r \in Requests : Client(r) \/ Server(r) \/ Crash(r)
    \/ Tick
    \/ AllAnswered

Spec == Init /\ [][Next]_vars

(* ------------------------------ properties ------------------------------ *)

\* Accounts hold only tokens that were minted, and every minted token has its
\* expiry and its session (issue_tokens).
TypeOK ==
    /\ now \in Nat
    /\ DOMAIN users \subseteq Accounts /\ \A u \in DOMAIN users : users[u] \subseteq Minted
    /\ Minted \subseteq Tokens /\ \A t \in Minted : expires[t] \in Nat
    /\ lock \in Requests \union {NoOne}
    /\ pc \in [Requests -> Transactions \union {"idle", "done"}]
    /\ op \in [Requests -> Ops]
    /\ at \in [Requests -> Nat]
    /\ \A r \in Requests : /\ DOMAIN view[r] \subseteq Accounts
                           /\ \A u \in DOMAIN view[r] : view[r][u] \subseteq Minted
    /\ answer \in [Requests -> Answers]
    /\ access \subseteq [subject : Accounts, exp : Nat]
    /\ DOMAIN session = Minted /\ \A t \in Minted : session[t] \in Minted
    /\ DOMAIN gone \subseteq Accounts /\ \A u \in DOMAIN gone : gone[u] \in Nat

\* Exactly one caller may exchange a refresh token: of all the rotations that
\* present one token, at most one is answered with a new pair (refresh).
SingleUse ==
    \A r, q \in Requests :
        /\ op[r].kind = "refresh" /\ answer[r] = "ok"
        /\ op[q].kind = "refresh" /\ answer[q] = "ok"
        /\ op[r].token = op[q].token
        => r = q

\* However rotations, sign-outs and crashes interleave, a sign-in never forks:
\* at most one live token descends from it (refresh, issue_tokens).
OneTokenPerSession ==
    \A t, s \in Minted : Live(t) /\ Live(s) /\ session[t] = session[s] => t = s

\* A spent token is never live again, and a removed account never comes back
\* (revoke_refresh_token, remove_user, insert_refresh_token).
NoResurrection ==
    [][/\ \A t \in Minted : ~Live(t) => ~Live(t)'
       /\ \A u \in DOMAIN gone : u \notin DOMAIN users']_vars

\* No writer takes down a session that is not its business: a token disappears
\* because it expired, because its account was removed, or through the request
\* that presented it.
NoSessionLost ==
    [][\A t \in Minted :
          Live(t) /\ ~Live(t)' =>
            \/ expires[t] <= now
            \/ \E u \in DOMAIN users : t \in users[u] /\ u \in DOMAIN gone'
            \/ \E r \in Requests : op[r].token = t /\ pc[r] \in {"dead", "consume", "signout"}
      ]_users

\* "The deliberate bound on how long a deleted account can still act": no
\* access token is accepted once its lifetime has passed since the removal
\* (verify_access_token, issue_tokens).
AuthorityBound ==
    \A a \in access :
        VerifyAccessToken(a) /\ a.subject \in DOMAIN gone => now < gone[a.subject] + AccessTtl

\* However many replicas bootstrap or seed one store at once, a login name
\* belongs to one account (insert_user).
UsernamesUnique ==
    \A u, v \in DOMAIN users : Username[u] = Username[v] => u = v

\* One login name, one account; no authority beyond an access token's lifetime;
\* and every record well formed: the invariants of the account file above.
AccountsSound == TypeOK /\ AuthorityBound /\ UsernamesUnique

\* However rotations race, a refresh token buys one pair and a sign-in has one
\* live token: the two invariants of rotation above.
RotationSound == SingleUse /\ OneTokenPerSession

\* A live session ends only by its own doing, and nothing that ended returns:
\* the two action properties above.
SessionsKept == NoSessionLost /\ NoResurrection
=============================================================================
