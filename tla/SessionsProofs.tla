--------------------------- MODULE SessionsProofs ---------------------------
(***************************************************************************)
(* Theorems about Sessions for any number of requests, accounts and tokens,*)
(* any lifetimes and any operations, with crashes or without.              *)
(***************************************************************************)
EXTENDS Sessions, TLAPS

(* ------------------------ the inductive invariant ----------------------- *)

\* The holder of the lock is in a transaction, and what it read is the file.
LockInv ==
    /\ DOMAIN view = Requests
    /\ \A r \in Requests : lock = r => pc[r] \in Transactions /\ view[r] = users

\* What a request was asked to do, by where it is.
OpInv ==
    \A r \in Requests :
        /\ at[r] <= now
        /\ pc[r] # "done" => answer[r] = "none"
        /\ pc[r] \in {"idle", "prune"} => op[r].kind = "login"
        /\ pc[r] = "insert" => op[r].kind \in {"login", "refresh"}
        /\ pc[r] \in {"consume", "dead"} => op[r].kind = "refresh"
        /\ pc[r] = "signout" => op[r].kind = "logout"
        /\ pc[r] = "insert_user" => op[r].kind = "insert_user"
        /\ pc[r] = "remove_user" => op[r].kind = "remove_user"

\* A refresh token is filed under one account.
OwnerInv ==
    \A u, v \in DOMAIN users : \A t \in users[u] : t \in users[v] => u = v

\* A rotation that has consumed its token, and may have handed out the next.
Spent(r) == op[r].kind = "refresh" /\ (pc[r] = "insert" \/ answer[r] = "ok")

\* A consumed token is not live, and one request consumed it.
SpentInv ==
    /\ \A r \in Requests : Spent(r) => op[r].token \in Minted /\ ~Live(op[r].token)
    /\ \A r, q \in Requests : Spent(r) /\ Spent(q) /\ op[r].token = op[q].token => r = q

\* A rotation between its two transactions.
Pending(r) == op[r].kind = "refresh" /\ pc[r] = "insert"

\* A session is carried either by a live token or by one rotation under way.
PendingInv ==
    /\ \A r \in Requests : Pending(r) =>
          \A t \in Minted : Live(t) => session[t] # session[op[r].token]
    /\ \A r, q \in Requests :
          Pending(r) /\ Pending(q) /\ session[op[r].token] = session[op[q].token] => r = q

\* Where an account came from: it was there, or one request inserted it.
Inserted(u) ==
    \E q \in Requests : op[q].kind = "insert_user" /\ op[q].user = u /\ pc[q] = "done"

AccountInv ==
    /\ \A u \in DOMAIN users : u \notin DOMAIN gone
    /\ \A u \in DOMAIN users \union DOMAIN gone : u \in Founders \/ Inserted(u)
    /\ \A r \in Requests : op[r].kind = "insert_user" => op[r].user \notin Founders
    /\ \A r, q \in Requests :
          op[r].kind = "insert_user" /\ op[q].kind = "insert_user" /\ op[r].user = op[q].user
             => r = q

\* No access token outlives its minting, or the removal of its account, by
\* more than the lifetime of one.
AccessInv ==
    \A a \in access :
        /\ a.exp <= now + AccessTtl
        /\ a.subject \in DOMAIN gone => a.exp <= gone[a.subject] + AccessTtl

IInv ==
    /\ TypeOK /\ LockInv /\ OpInv /\ OwnerInv /\ SpentInv
    /\ OneTokenPerSession /\ PendingInv
    /\ AccountInv /\ AccessInv /\ UsernamesUnique

(* ----------------------- every action preserves it ---------------------- *)

\* The store as a deployment finds it: one open session.
LEMMA InitInv == Init => IInv
  <1> SUFFICES ASSUME Init PROVE IInv
    OBVIOUS
  <1>1. PICK u \in Founders, exp \in 1 .. RefreshTtl :
           /\ users = [v \in Founders |-> IF v = u THEN {FirstToken} ELSE {}]
           /\ expires = [t \in {FirstToken} |-> exp]
           /\ access = {a \in {MintAccessToken(u, exp - RefreshTtl)} : a.exp > 0}
    BY DEF Init
  <1>2. (CHOOSE v \in Founders : TRUE) \in Founders
    BY SessionAssumption
  <1>3. TypeOK
    BY <1>1, <1>2, SessionAssumption
    DEF Init, TypeOK, Minted, Ops, AllKinds, Transactions, Answers, NoUsers, MintAccessToken
  <1>4. LockInv /\ OpInv
    BY SessionAssumption DEF Init, LockInv, OpInv
  <1>5. OwnerInv
    BY <1>1 DEF OwnerInv
  <1>6. SpentInv /\ PendingInv
    BY DEF Init, SpentInv, Spent, PendingInv, Pending
  <1>7. OneTokenPerSession
    BY <1>1 DEF OneTokenPerSession, Minted
  <1>8. AccountInv
    BY <1>1 DEF Init, AccountInv
  <1>9. AccessInv
    BY <1>1, SessionAssumption DEF Init, AccessInv, MintAccessToken
  <1>10. UsernamesUnique
    BY <1>1, SessionAssumption DEF UsernamesUnique
  <1> QED
    BY <1>3, <1>4, <1>5, <1>6, <1>7, <1>8, <1>9, <1>10 DEF IInv

\* An arrival answers its request at once or queues it for a transaction, and
\* leaves the account file alone.
LEMMA ArriveInv ==
    ASSUME IInv, NEW r \in Requests, NEW kind \in AllKinds, NEW u \in Accounts,
           NEW t \in Tokens \union {NoToken}, Arrive(r, kind, u, t),
           \/ /\ kind # "insert_user"
              /\ \E status \in Answers :
                    Finish(r, status) /\ (kind = "refresh" => status # "ok")
           \/ \E phase \in Transactions :
                 /\ Proceed(r, phase)
                 /\ <<kind, phase>> \in {<<"login", "prune">>, <<"refresh", "dead">>,
                                        <<"refresh", "consume">>, <<"logout", "signout">>,
                                        <<"insert_user", "insert_user">>,
                                        <<"remove_user", "remove_user">>},
           kind = "insert_user" =>
              /\ u \notin Founders
              /\ \A q \in Requests : op[q].kind = "insert_user" => op[q].user # u
    PROVE  IInv'
  <1> DEFINE req == [kind |-> kind, user |-> u, token |-> t]
  <1>1. req \in Ops /\ req.kind = kind /\ req.user = u /\ req.token = t
    BY DEF Ops
  <1>2. /\ op' = [op EXCEPT ![r] = req]
        /\ at' = [at EXCEPT ![r] = now]
        /\ pc[r] = "idle"
        /\ UNCHANGED <<now, users, expires, lock, view, access, session, gone>>
    BY DEF Arrive
  <1> HIDE DEF req
  <1>3. PICK phase \in Transactions \union {"done"}, status \in Answers :
           /\ pc' = [pc EXCEPT ![r] = phase]
           /\ answer' = [answer EXCEPT ![r] = status]
           /\ phase # "insert"
           /\ phase # "done" => status = "none"
           /\ kind = "refresh" => status # "ok"
           /\ phase = "prune" => kind = "login"
           /\ phase \in {"consume", "dead"} => kind = "refresh"
           /\ phase = "signout" => kind = "logout"
           /\ phase = "insert_user" => kind = "insert_user"
           /\ phase = "remove_user" => kind = "remove_user"
    BY <1>2 DEF IInv, TypeOK, OpInv, Finish, Proceed, Goto, Transactions
  <1>4. TypeOK'
    BY <1>1, <1>2, <1>3 DEF IInv, TypeOK, Minted
  <1>5. LockInv'
    BY <1>2, <1>3 DEF IInv, TypeOK, LockInv, Transactions
  <1>6. OpInv'
    BY <1>1, <1>2, <1>3 DEF IInv, TypeOK, OpInv, Transactions
  <1>7. OwnerInv' /\ OneTokenPerSession' /\ UsernamesUnique' /\ AccessInv'
    BY <1>2
    DEF IInv, OwnerInv, OneTokenPerSession, UsernamesUnique, AccessInv, Live, Minted
  <1>8. \A q \in Requests :
          /\ Spent(q)' => Spent(q) /\ q # r
          /\ Pending(q)' => Pending(q) /\ q # r
          /\ q # r => op'[q] = op[q]
    BY <1>1, <1>2, <1>3 DEF IInv, TypeOK, Spent, Pending
  <1>9. SpentInv' /\ PendingInv'
    BY <1>2, <1>8 DEF IInv, SpentInv, PendingInv, Live, Minted
  <1>10. \A v \in DOMAIN users \union DOMAIN gone : v \in Founders \/ Inserted(v)'
    BY <1>1, <1>2, <1>3 DEF IInv, TypeOK, AccountInv, Inserted
  <1>11. AccountInv'
    BY <1>1, <1>2, <1>3, <1>10 DEF IInv, TypeOK, OpInv, AccountInv
  <1> QED
    BY <1>4, <1>5, <1>6, <1>7, <1>9, <1>11 DEF IInv

\* A client's request, whatever it asks, preserves the invariant.
LEMMA ClientInv ==
    ASSUME IInv, NEW r \in Requests, Client(r)
    PROVE  IInv'
  <1>1. CASE \E u \in Accounts : Login(r, u)
    BY <1>1, ArriveInv DEF Login, AllKinds, Answers, Transactions
  <1>2. CASE \E u \in Accounts : Me(r, u)
    BY <1>2, ArriveInv DEF Me, AllKinds, Answers
  <1>3. CASE \E u \in Accounts : InsertUser(r, u)
    BY <1>3, ArriveInv DEF InsertUser, AllKinds, Transactions
  <1>4. CASE \E u \in Accounts : RemoveUser(r, u)
    BY <1>4, ArriveInv DEF RemoveUser, AllKinds, Answers, Transactions
  <1>5. CASE \E t \in Tokens : Refresh(r, t)
    <2>1. DOMAIN users \subseteq Accounts
      BY DEF IInv, TypeOK
    <2> QED BY <1>5, <2>1, SessionAssumption, ArriveInv DEF Refresh, AllKinds, Answers, Transactions
  <1>6. CASE \E t \in Tokens : \E u \in Accounts : Logout(r, u, t)
    BY <1>6, ArriveInv DEF Logout, AllKinds, Answers, Transactions
  <1> QED BY <1>1, <1>2, <1>3, <1>4, <1>5, <1>6 DEF Client

\* Steps that touch no account, session or access token: taking the lock, giving
\* up on it, dying, and the passing of time.
LEMMA QuietInv ==
    ASSUME IInv, UNCHANGED <<users, expires, op, at, access, session, gone>>,
           now' \in Nat, now <= now',
           \A q \in Requests :
              \/ pc'[q] = pc[q] /\ answer'[q] = answer[q]
              \/ pc'[q] = "done" /\ pc[q] \in Transactions /\ answer'[q] \in {"busy", "lost"},
           TypeOK', LockInv'
    PROVE  IInv'
  <1>1. OpInv'
    BY DEF IInv, TypeOK, OpInv
  <1>2. OwnerInv' /\ OneTokenPerSession' /\ UsernamesUnique'
    BY DEF IInv, OwnerInv, OneTokenPerSession, UsernamesUnique, Live, Minted
  <1>3. \A q \in Requests : (Spent(q)' => Spent(q)) /\ (Pending(q)' => Pending(q))
    BY DEF IInv, TypeOK, Spent, Pending
  <1>4. SpentInv' /\ PendingInv'
    BY <1>3 DEF IInv, SpentInv, PendingInv, Live, Minted
  <1>5. \A u : Inserted(u) => Inserted(u)'
    BY DEF Inserted, Transactions
  <1>6. AccountInv'
    BY <1>5 DEF IInv, AccountInv
  <1>7. AccessInv'
    BY SessionAssumption DEF IInv, TypeOK, AccessInv
  <1> QED BY <1>1, <1>2, <1>4, <1>6, <1>7 DEF IInv

\* Taking the lock and reading the file preserves the invariant.
LEMMA BeginInv ==
    ASSUME IInv, NEW r \in Requests, Begin(r)
    PROVE  IInv'
  <1>1. TypeOK' /\ LockInv'
    BY SessionAssumption DEF IInv, TypeOK, LockInv, Begin, Minted
  <1> QED BY <1>1, QuietInv DEF Begin, IInv, TypeOK

\* A lock that was not free in time is answered 503 and changes nothing.
LEMMA LockTimeoutInv ==
    ASSUME IInv, NEW r \in Requests, LockTimeout(r)
    PROVE  IInv'
  <1>1. TypeOK' /\ LockInv'
    BY SessionAssumption
    DEF IInv, TypeOK, LockInv, LockTimeout, Finish, Goto, Minted, Transactions, Answers
  <1> QED BY <1>1, QuietInv DEF LockTimeout, Finish, Goto, IInv, TypeOK

\* A process that dies in a transaction publishes nothing.
LEMMA CrashInv ==
    ASSUME IInv, NEW r \in Requests, Crash(r)
    PROVE  IInv'
  <1>1. TypeOK'
    BY SessionAssumption
    DEF IInv, TypeOK, LockInv, Crash, Finish, Goto, Minted, Transactions, Answers, NoUsers
  <1>2. LockInv'
    BY SessionAssumption
    DEF IInv, TypeOK, LockInv, Crash, Finish, Goto
  <1> QED BY <1>1, <1>2, QuietInv DEF Crash, Finish, Goto, IInv, TypeOK

\* Time passes.
LEMMA TickInv ==
    ASSUME IInv, Tick
    PROVE  IInv'
  <1>1. TypeOK' /\ LockInv'
    BY DEF IInv, TypeOK, LockInv, Tick, Minted
  <1> QED BY <1>1, QuietInv DEF Tick, IInv, TypeOK

\* Nothing happens.
LEMMA StutterInv ==
    ASSUME IInv, UNCHANGED vars
    PROVE  IInv'
  <1>1. TypeOK' /\ LockInv'
    BY DEF IInv, TypeOK, LockInv, vars, Minted
  <1> QED BY <1>1, QuietInv DEF vars, IInv, TypeOK

\* A publication that only takes records out: a session already ended stays so,
\* and the one rotation that takes its token out is the one that goes on.
LEMMA ShrinkInv ==
    ASSUME IInv, NEW r \in Requests, lock = r, NEW file, Publish(r, file),
           DOMAIN file \subseteq DOMAIN users,
           \A u \in DOMAIN file : file[u] \subseteq users[u],
           UNCHANGED <<expires, access, session>>,
           NEW phase \in {"insert", "done"}, Goto(r, phase),
           NEW status \in Answers, answer' = [answer EXCEPT ![r] = status],
           phase = "insert" =>
              /\ status = "none"
              /\ op[r].kind \in {"login", "refresh"}
              /\ op[r].kind = "refresh" =>
                    /\ op[r].user \in DOMAIN users /\ op[r].token \in users[op[r].user]
                    /\ \A u \in DOMAIN file : op[r].token \notin file[u],
           op[r].kind = "refresh" => status # "ok",
           \/ UNCHANGED gone
           \/ \E u \in DOMAIN users \ DOMAIN file : gone' = Extend(gone, u, now)
    PROVE  IInv'
  <1>1. /\ users' = file /\ lock' = NoOne /\ UNCHANGED <<now, op, at>>
        /\ view' = [view EXCEPT ![r] = NoUsers]
        /\ pc' = [pc EXCEPT ![r] = phase] /\ pc[r] \in Transactions
    BY DEF IInv, LockInv, Publish, Goto
  <1>2. TypeOK'
    <2>1. DOMAIN users' \subseteq Accounts /\ \A u \in DOMAIN users' : users'[u] \subseteq Minted'
      BY <1>1 DEF IInv, TypeOK, Minted
    <2>2. DOMAIN gone' \subseteq Accounts /\ \A u \in DOMAIN gone' : gone'[u] \in Nat
      BY DEF IInv, TypeOK, Extend
    <2>3. pc' \in [Requests -> Transactions \union {"idle", "done"}]
      BY <1>1 DEF IInv, TypeOK, Transactions
    <2>4. \A q \in Requests : /\ DOMAIN view'[q] \subseteq Accounts
                              /\ \A u \in DOMAIN view'[q] : view'[q][u] \subseteq Minted'
      BY <1>1 DEF IInv, TypeOK, LockInv, NoUsers, Minted
    <2> QED BY <1>1, <2>1, <2>2, <2>3, <2>4 DEF IInv, TypeOK, Minted
  <1>3. LockInv' /\ OpInv'
    BY <1>1, SessionAssumption DEF IInv, TypeOK, LockInv, OpInv, Transactions
  <1>4. \A t : Live(t)' => Live(t)
    BY <1>1 DEF Live
  <1>5. OwnerInv' /\ UsernamesUnique'
    BY <1>1 DEF IInv, OwnerInv, UsernamesUnique
  <1>6. OneTokenPerSession'
    BY <1>4 DEF IInv, OneTokenPerSession, Minted
  <1>7. \A q \in Requests : q # r =>
          (Spent(q)' <=> Spent(q)) /\ (Pending(q)' <=> Pending(q))
    BY <1>1 DEF IInv, TypeOK, Spent, Pending
  <1>8. ASSUME Spent(r)'
        PROVE  /\ op[r].kind = "refresh" /\ phase = "insert"
               /\ op[r].token \in Minted /\ Live(op[r].token) /\ ~Live(op[r].token)'
    <2>1. op[r].kind = "refresh" /\ phase = "insert"
      BY <1>1, <1>8 DEF IInv, TypeOK, Spent
    <2> QED BY <1>1, <2>1 DEF IInv, TypeOK, Live
  <1>9. SpentInv'
    <2>1. \A q \in Requests : Spent(q)' => op'[q].token \in Minted' /\ ~Live(op[q].token)'
      BY <1>1, <1>4, <1>7, <1>8 DEF IInv, SpentInv, Minted
    <2>2. \A q, s \in Requests : Spent(q)' /\ Spent(s)' /\ op'[q].token = op'[s].token => q = s
      BY <1>1, <1>7, <1>8 DEF IInv, SpentInv
    <2> QED BY <2>1, <2>2 DEF SpentInv
  <1>10. PendingInv'
    <2>1. Pending(r)' => Spent(r)'
      BY DEF Pending, Spent
    <2>2. \A q \in Requests : Pending(q)' =>
             \A t \in Minted' : Live(t)' => session'[t] # session'[op'[q].token]
      BY <1>1, <1>4, <1>7, <1>8, <2>1 DEF IInv, PendingInv, OneTokenPerSession, Minted
    <2>3. \A q, s \in Requests :
             Pending(q)' /\ Pending(s)' /\ session'[op'[q].token] = session'[op'[s].token]
                => q = s
      BY <1>1, <1>7, <1>8, <2>1 DEF IInv, PendingInv
    <2> QED BY <2>2, <2>3 DEF PendingInv
  <1>11. AccountInv'
    <2>1. \A u : Inserted(u) => Inserted(u)'
      BY <1>1 DEF IInv, TypeOK, Inserted, Transactions
    <2> QED BY <1>1, <2>1 DEF IInv, AccountInv, Extend
  <1>12. AccessInv'
    BY <1>1, SessionAssumption DEF IInv, TypeOK, AccessInv, Extend
  <1> QED
    BY <1>2, <1>3, <1>5, <1>6, <1>9, <1>10, <1>11, <1>12 DEF IInv

\* Pruning at sign-in takes out what the request's clock reading has passed.
LEMMA PruneExpiredInv ==
    ASSUME IInv, NEW r \in Requests, PruneExpired(r)
    PROVE  IInv'
  <1>1. view[r] = users /\ op[r].kind = "login" /\ answer[r] = "none"
    BY DEF IInv, LockInv, OpInv, PruneExpired, Holding
  <1>2. answer' = [answer EXCEPT ![r] = "none"]
    BY <1>1 DEF IInv, TypeOK, PruneExpired, Proceed
  <1> QED
    BY <1>1, <1>2, ShrinkInv DEF PruneExpired, Holding, Proceed, Answers

\* The file without the presented token has fewer records.
LEMMA RevokedFacts ==
    ASSUME IInv, NEW r \in Requests, lock = r
    PROVE  /\ view[r] = users
           /\ DOMAIN Revoked(r) \subseteq DOMAIN users
           /\ \A u \in DOMAIN Revoked(r) : Revoked(r)[u] \subseteq users[u]
           /\ Removes(r) => /\ op[r].user \in DOMAIN users
                            /\ op[r].token \in users[op[r].user]
                            /\ \A u \in DOMAIN Revoked(r) : op[r].token \notin Revoked(r)[u]
  <1>1. view[r] = users
    BY DEF IInv, LockInv
  <1> QED BY <1>1 DEF IInv, OwnerInv, Revoked, Removes

\* Dropping the record of an expired token preserves the invariant.
LEMMA DropExpiredInv ==
    ASSUME IInv, NEW r \in Requests, DropExpired(r)
    PROVE  IInv'
  BY RevokedFacts, ShrinkInv DEF DropExpired, Holding, Finish, Answers

\* Signing out preserves the invariant.
LEMMA SignOutInv ==
    ASSUME IInv, NEW r \in Requests, SignOut(r)
    PROVE  IInv'
  BY RevokedFacts, ShrinkInv DEF SignOut, Holding, Finish, Answers

\* The consumption of a token is the gate of the rotation.
LEMMA ConsumeInv ==
    ASSUME IInv, NEW r \in Requests, Consume(r)
    PROVE  IInv'
  <1>1. /\ lock = r /\ op[r].kind = "refresh" /\ answer[r] = "none"
        /\ Publish(r, Revoked(r)) /\ UNCHANGED <<expires, access, session, gone>>
    BY DEF IInv, OpInv, Consume, Holding
  <1>2. CASE Removes(r)
    <2>1. Goto(r, "insert") /\ answer' = [answer EXCEPT ![r] = "none"]
      BY <1>1, <1>2 DEF IInv, TypeOK, Consume, Proceed
    <2> QED BY <1>1, <1>2, <2>1, RevokedFacts, ShrinkInv DEF Answers
  <1>3. CASE ~Removes(r)
    BY <1>1, <1>3, RevokedFacts, ShrinkInv DEF Consume, Finish, Answers
  <1> QED BY <1>2, <1>3

\* An account's tokens go with it.
LEMMA CommitRemoveUserInv ==
    ASSUME IInv, NEW r \in Requests, CommitRemoveUser(r)
    PROVE  IInv'
  <1>1. view[r] = users /\ op[r].kind = "remove_user" /\ lock = r
    BY DEF IInv, LockInv, OpInv, CommitRemoveUser, Holding
  <1>2. CASE op[r].user \in DOMAIN users
    BY <1>1, <1>2, ShrinkInv DEF CommitRemoveUser, Finish, Answers
  <1>3. CASE op[r].user \notin DOMAIN users
    BY <1>1, <1>3, ShrinkInv DEF CommitRemoveUser, Finish, Answers
  <1> QED BY <1>2, <1>3

\* A name still free under the lock gets its account: an identifier that never
\* was in the file, and a name nobody else has.
LEMMA CommitInsertUserInv ==
    ASSUME IInv, NEW r \in Requests, CommitInsertUser(r)
    PROVE  IInv'
  <1> DEFINE u == op[r].user
  <1>1. /\ view[r] = users /\ lock = r
        /\ op[r].kind = "insert_user" /\ pc[r] = "insert_user"
        /\ UNCHANGED <<expires, access, session, gone>>
        /\ u \in Accounts
    BY DEF IInv, TypeOK, Ops, LockInv, OpInv, CommitInsertUser, Holding
  <1>2. CASE NameTaken(users, u)
    BY <1>1, <1>2, ShrinkInv DEF CommitInsertUser, Finish, Answers
  <1>3. CASE ~NameTaken(users, u)
    <2>1. /\ users' = Extend(users, u, {}) /\ lock' = NoOne /\ UNCHANGED <<now, op, at>>
          /\ view' = [view EXCEPT ![r] = NoUsers]
          /\ pc' = [pc EXCEPT ![r] = "done"] /\ answer' = [answer EXCEPT ![r] = "ok"]
      BY <1>1, <1>3 DEF CommitInsertUser, Publish, Finish, Goto
    <2>2. u \notin DOMAIN users /\ \A v \in DOMAIN users : Username[v] # Username[u]
      BY <1>3 DEF NameTaken
    <2>3. /\ DOMAIN users' = DOMAIN users \union {u} /\ users'[u] = {}
          /\ \A v \in DOMAIN users : users'[v] = users[v]
      BY <2>1, <2>2 DEF Extend
    <2> HIDE DEF u
    <2>4. \A t : Live(t)' <=> Live(t)
      BY <2>3 DEF Live
    <2>5. TypeOK'
      <3>1. DOMAIN users' \subseteq Accounts /\ \A v \in DOMAIN users' : users'[v] \subseteq Minted'
        BY <1>1, <2>3 DEF IInv, TypeOK, Minted
      <3>2. \A q \in Requests : /\ DOMAIN view'[q] \subseteq Accounts
                                /\ \A v \in DOMAIN view'[q] : view'[q][v] \subseteq Minted'
        BY <1>1, <2>1 DEF IInv, TypeOK, LockInv, NoUsers, Minted
      <3> QED BY <1>1, <2>1, <3>1, <3>2 DEF IInv, TypeOK, Minted, Answers
    <2>6. LockInv' /\ OpInv'
      BY <2>1, SessionAssumption DEF IInv, TypeOK, LockInv, OpInv
    <2>7. OwnerInv'
      BY <2>3 DEF IInv, OwnerInv
    <2>8. UsernamesUnique'
      BY <2>2, <2>3 DEF IInv, UsernamesUnique
    <2>9. OneTokenPerSession'
      BY <1>1, <2>4 DEF IInv, OneTokenPerSession, Minted
    <2>10. \A q \in Requests : (Spent(q)' <=> Spent(q)) /\ (Pending(q)' <=> Pending(q))
      BY <1>1, <2>1 DEF IInv, TypeOK, Spent, Pending
    <2>11. SpentInv' /\ PendingInv'
      BY <1>1, <2>1, <2>4, <2>10 DEF IInv, SpentInv, PendingInv, Minted
    <2>12. AccountInv'
      <3>1. \A v : v = u \/ Inserted(v) => Inserted(v)'
        BY <1>1, <2>1 DEF IInv, TypeOK, Inserted, u
      <3>2. u \notin DOMAIN gone
        BY <1>1 DEF IInv, AccountInv, Inserted, u
      <3> QED BY <1>1, <2>1, <2>3, <3>1, <3>2 DEF IInv, AccountInv
    <2>13. AccessInv'
      BY <1>1, <2>1 DEF IInv, AccessInv
    <2> QED
      BY <2>5, <2>6, <2>7, <2>8, <2>9, <2>11, <2>12, <2>13 DEF IInv
  <1> QED BY <1>2, <1>3

\* A new pair is handed out: the token is new, it continues the session of the
\* token that was consumed or opens one of its own, and the account is there.
LEMMA IssueTokensInv ==
    ASSUME IInv, NEW r \in Requests, IssueTokens(r)
    PROVE  IInv'
  <1>1. /\ view[r] = users /\ lock = r /\ pc[r] = "insert" /\ UNCHANGED gone
        /\ op[r].kind \in {"login", "refresh"} /\ op[r].user \in Accounts
    BY DEF IInv, TypeOK, Ops, LockInv, OpInv, IssueTokens, Holding
  <1>2. CASE op[r].user \notin DOMAIN users
    BY <1>1, <1>2, ShrinkInv DEF IssueTokens, Finish, Answers
  <1>3. CASE op[r].user \in DOMAIN users
    <2>1. PICK t \in Tokens \ Minted :
            /\ Publish(r, InsertRefreshToken(users, op[r].user, t))
            /\ expires' = Extend(expires, t, at[r] + RefreshTtl)
            /\ session' = Extend(session, t,
                            IF op[r].kind = "login" THEN t ELSE session[op[r].token])
            /\ access' = access \union {MintAccessToken(op[r].user, at[r])}
            /\ Finish(r, "ok")
      BY <1>1, <1>3 DEF IssueTokens
    <2>2. /\ users' = [users EXCEPT ![op[r].user] = @ \union {t}]
          /\ lock' = NoOne /\ UNCHANGED <<now, op, at>>
          /\ view' = [view EXCEPT ![r] = NoUsers]
          /\ pc' = [pc EXCEPT ![r] = "done"] /\ answer' = [answer EXCEPT ![r] = "ok"]
      BY <2>1 DEF Publish, InsertRefreshToken, Finish, Goto
    <2>3. Minted' = Minted \union {t} /\ t \notin Minted /\ t \in Tokens
      BY <2>1 DEF Extend, Minted
    <2>4. \A x \in Minted : expires'[x] = expires[x] /\ session'[x] = session[x]
      BY <2>1, <2>3 DEF Extend, Minted, IInv, TypeOK
    <2>5. /\ expires'[t] = at[r] + RefreshTtl
          /\ op[r].kind = "login" => session'[t] = t
          /\ op[r].kind = "refresh" => session'[t] = session[op[r].token]
          /\ DOMAIN session' = Minted'
      BY <2>1, <2>3 DEF Extend, IInv, TypeOK
    <2>6. /\ DOMAIN users' = DOMAIN users
          /\ \A v \in DOMAIN users :
                users'[v] = IF v = op[r].user THEN users[v] \union {t} ELSE users[v]
      BY <2>2
    <2>7. \A x : Live(x)' => x = t \/ Live(x)
      BY <2>6 DEF Live
    <2>8. ~Live(t) /\ \A x : Live(x) => x \in Minted
      BY <2>3 DEF Live, IInv, TypeOK
    <2>9. op[r].kind = "refresh" => Pending(r) /\ Spent(r) /\ op[r].token \in Minted
      BY <1>1 DEF IInv, SpentInv, Pending, Spent
    <2>10. TypeOK'
      <3>1. DOMAIN users' \subseteq Accounts /\ \A v \in DOMAIN users' : users'[v] \subseteq Minted'
        BY <2>3, <2>6 DEF IInv, TypeOK
      <3>2. Minted' \subseteq Tokens /\ \A x \in Minted' : expires'[x] \in Nat
        BY <2>3, <2>4, <2>5, SessionAssumption DEF IInv, TypeOK
      <3>3. \A q \in Requests : /\ DOMAIN view'[q] \subseteq Accounts
                                /\ \A v \in DOMAIN view'[q] : view'[q][v] \subseteq Minted'
        BY <2>2, <2>3 DEF IInv, TypeOK, LockInv, NoUsers
      <3>4. access' \subseteq [subject : Accounts, exp : Nat]
        BY <1>1, <2>1, SessionAssumption DEF IInv, TypeOK, MintAccessToken
      <3>5. DOMAIN session' = Minted' /\ \A x \in Minted' : session'[x] \in Minted'
        BY <1>1, <2>3, <2>4, <2>5, <2>9 DEF IInv, TypeOK
      <3> QED BY <1>1, <2>2, <3>1, <3>2, <3>3, <3>4, <3>5 DEF IInv, TypeOK, Answers
    <2>11. LockInv' /\ OpInv'
      BY <2>2, SessionAssumption DEF IInv, TypeOK, LockInv, OpInv
    <2>12. OwnerInv'
      BY <2>3, <2>6 DEF IInv, TypeOK, OwnerInv
    <2>13. UsernamesUnique'
      BY <2>6 DEF IInv, UsernamesUnique
    <2>14. \A x \in Minted : Live(x) => session[x] # session'[t]
      BY <1>1, <2>3, <2>5, <2>9 DEF IInv, TypeOK, PendingInv
    <2>15. OneTokenPerSession'
      BY <2>3, <2>4, <2>7, <2>8, <2>14 DEF IInv, OneTokenPerSession
    <2>16. \A q \in Requests :
             /\ Spent(q)' <=> Spent(q)
             /\ Pending(q)' <=> Pending(q) /\ q # r
      BY <1>1, <2>2 DEF IInv, TypeOK, OpInv, Spent, Pending
    <2>17. SpentInv'
      BY <2>2, <2>3, <2>7, <2>16 DEF IInv, SpentInv
    <2>18. \A q \in Requests : Pending(q)' =>
             /\ op[q].token \in Minted
             /\ session[op[q].token] \in Minted
             /\ session'[op'[q].token] = session[op[q].token]
             /\ session[op[q].token] # session'[t]
      <3> SUFFICES ASSUME NEW q \in Requests, Pending(q)'
                   PROVE  /\ op[q].token \in Minted
                          /\ session[op[q].token] \in Minted
                          /\ session'[op'[q].token] = session[op[q].token]
                          /\ session[op[q].token] # session'[t]
        OBVIOUS
      <3>1. Pending(q) /\ Spent(q) /\ q # r
        BY <2>16 DEF Pending, Spent
      <3>2. op[q].token \in Minted /\ session[op[q].token] \in Minted
        BY <3>1 DEF IInv, SpentInv, TypeOK
      <3>3. session'[op'[q].token] = session[op[q].token]
        BY <2>2, <2>4, <3>2
      <3>4. session[op[q].token] # session'[t]
        BY <1>1, <2>3, <2>5, <2>9, <3>1, <3>2 DEF IInv, PendingInv
      <3> QED BY <3>2, <3>3, <3>4
    <2>19. PendingInv'
      <3>1. \A q \in Requests : Pending(q)' =>
               \A x \in Minted' : Live(x)' => session'[x] # session'[op'[q].token]
        BY <2>3, <2>4, <2>7, <2>8, <2>16, <2>18 DEF IInv, PendingInv
      <3>2. \A q, s \in Requests :
               Pending(q)' /\ Pending(s)' /\ session'[op'[q].token] = session'[op'[s].token]
                  => q = s
        BY <2>16, <2>18 DEF IInv, PendingInv
      <3> QED BY <3>1, <3>2 DEF PendingInv
    <2>20. AccountInv'
      <3>1. \A v : Inserted(v) => Inserted(v)'
        BY <1>1, <2>2 DEF IInv, TypeOK, Inserted
      <3> QED BY <1>1, <2>2, <2>6, <3>1 DEF IInv, AccountInv
    <2>21. AccessInv'
      BY <1>1, <1>3, <2>1, <2>2, SessionAssumption
      DEF IInv, TypeOK, OpInv, AccountInv, AccessInv, MintAccessToken
    <2> QED
      BY <2>10, <2>11, <2>12, <2>13, <2>15, <2>17, <2>19, <2>20, <2>21 DEF IInv
  <1> QED BY <1>2, <1>3

(* ------------------------------- theorems ------------------------------- *)

\* Every step of every request preserves the invariant.
LEMMA NextInv == IInv /\ [Next]_vars => IInv'
  <1> SUFFICES ASSUME IInv, [Next]_vars PROVE IInv'
    OBVIOUS
  <1>1. ASSUME NEW r \in Requests, Server(r) PROVE IInv'
    BY <1>1, BeginInv, LockTimeoutInv, PruneExpiredInv, DropExpiredInv, ConsumeInv,
       SignOutInv, IssueTokensInv, CommitInsertUserInv, CommitRemoveUserInv DEF Server
  <1> QED
    BY <1>1, ClientInv, CrashInv, TickInv, StutterInv DEF Next, AllAnswered

\* The account file, the lock, the rotations under way and the access tokens
\* handed out agree in every reachable state.
THEOREM Invariant == Spec => []IInv
  BY InitInv, NextInv, PTL DEF Spec

\* Exactly one caller may exchange a refresh token and a sign-in never forks,
\* however many rotations, sign-outs and crashes race (refresh, issue_tokens).
THEOREM Rotation == Spec => []RotationSound
  <1>1. IInv => RotationSound
    BY DEF IInv, SpentInv, Spent, RotationSound, SingleUse
  <1> QED BY <1>1, Invariant, PTL

\* One login name, one account, however many replicas insert at once; and a
\* removed account acts no longer than the lifetime of an access token
\* (insert_user, verify_access_token).
THEOREM Accounting == Spec => []AccountsSound
  <1>1. IInv => AuthorityBound
    BY SessionAssumption
    DEF IInv, TypeOK, AccessInv, AuthorityBound, VerifyAccessToken
  <1>2. IInv => AccountsSound
    BY <1>1 DEF IInv, AccountsSound
  <1> QED BY <1>2, Invariant, PTL

\* What a step may do to a token minted before it.
TokenKept(t) ==
    /\ Live(t)' => Live(t)
    /\ Live(t) /\ ~Live(t)' =>
         \/ expires[t] <= now
         \/ \E u \in DOMAIN users : t \in users[u] /\ u \in DOMAIN gone'
         \/ \E r \in Requests : op[r].token = t /\ pc[r] \in {"dead", "consume", "signout"}

\* No step revives a token, and a token goes only with its expiry, its account or
\* the request that presented it (revoke_refresh_token, prune_expired, remove_user).
LEMMA TokensKept ==
    ASSUME IInv, [Next]_vars
    PROVE  DOMAIN gone \subseteq DOMAIN gone' /\ \A t \in Minted : TokenKept(t)
  <1>1. CASE UNCHANGED <<users, gone>>
    BY <1>1 DEF TokenKept, Live
  <1>2. ASSUME NEW r \in Requests, lock = r, Publish(r, Revoked(r)), UNCHANGED gone,
               pc[r] \in {"dead", "consume", "signout"}
        PROVE  \A t \in Minted : TokenKept(t)
    <2>1. view[r] = users /\ users' = Revoked(r)
      BY <1>2 DEF IInv, LockInv, Publish
    <2>2. ASSUME NEW t, op[r].token # t
          PROVE  Live(t)' <=> Live(t)
      BY <2>1, <2>2 DEF Revoked, Live
    <2>3. Live(op[r].token)' => Live(op[r].token)
      BY <1>2, <2>1 DEF Revoked, Live, Publish
    <2>4. \A t \in Minted : Live(t)' => Live(t)
      BY <1>2, <2>2, <2>3 DEF Publish
    <2> QED BY <1>2, <2>2, <2>4 DEF TokenKept
  <1>3. ASSUME NEW r \in Requests, PruneExpired(r)
        PROVE  \A t \in Minted : TokenKept(t)
    <2>1. /\ users' = [u \in DOMAIN users |-> {t \in users[u] : expires[t] > at[r]}]
          /\ at[r] \in Nat /\ now \in Nat /\ at[r] <= now
          /\ \A t \in Minted : expires[t] \in Nat
      BY <1>3 DEF IInv, TypeOK, LockInv, OpInv, PruneExpired, Holding, Publish
    <2>2. \A t \in Minted : expires[t] > at[r] \/ expires[t] <= now
      BY <2>1
    <2> QED BY <2>1, <2>2 DEF TokenKept, Live
  <1>4. ASSUME NEW r \in Requests, IssueTokens(r)
        PROVE  \A t \in Minted : TokenKept(t)
    <2>1. view[r] = users
      BY <1>4 DEF IInv, LockInv, IssueTokens, Holding
    <2>2. CASE users' = users
      BY <2>2 DEF TokenKept, Live
    <2>3. CASE \E s \in Tokens \ Minted : users' = [users EXCEPT ![op[r].user] = @ \union {s}]
      BY <2>3 DEF TokenKept, Live
    <2> QED BY <1>4, <2>1, <2>2, <2>3 DEF IssueTokens, Publish, InsertRefreshToken
  <1>5. ASSUME NEW r \in Requests, CommitInsertUser(r)
        PROVE  \A t \in Minted : TokenKept(t)
    <2>1. view[r] = users
      BY <1>5 DEF IInv, LockInv, CommitInsertUser, Holding
    <2>2. CASE users' = users
      BY <2>2 DEF TokenKept, Live
    <2>3. CASE users' = Extend(users, op[r].user, {}) /\ op[r].user \notin DOMAIN users
      BY <2>3 DEF TokenKept, Live, Extend
    <2> QED BY <1>5, <2>1, <2>2, <2>3 DEF CommitInsertUser, Publish, NameTaken
  <1>6. ASSUME NEW r \in Requests, CommitRemoveUser(r)
        PROVE  DOMAIN gone \subseteq DOMAIN gone' /\ \A t \in Minted : TokenKept(t)
    <2>1. view[r] = users
      BY <1>6 DEF IInv, LockInv, CommitRemoveUser, Holding
    <2>2. CASE UNCHANGED <<users, gone>>
      BY <2>2 DEF TokenKept, Live
    <2>3. CASE /\ users' = [u \in DOMAIN users \ {op[r].user} |-> users[u]]
               /\ gone' = Extend(gone, op[r].user, now)
      BY <2>3 DEF TokenKept, Live, Extend
    <2> QED BY <1>6, <2>1, <2>2, <2>3 DEF CommitRemoveUser, Publish
  <1>7. ASSUME NEW r \in Requests, Client(r)
        PROVE  UNCHANGED <<users, gone>>
    BY <1>7 DEF Client, Login, Refresh, Logout, Me, InsertUser, RemoveUser, Arrive
  <1>8. ASSUME NEW r \in Requests, Server(r)
        PROVE  DOMAIN gone \subseteq DOMAIN gone' /\ \A t \in Minted : TokenKept(t)
    <2>1. CASE Begin(r) \/ LockTimeout(r)
      BY <1>1, <2>1 DEF Begin, LockTimeout
    <2>2. CASE DropExpired(r) \/ Consume(r) \/ SignOut(r)
      BY <1>2, <2>2 DEF DropExpired, Consume, SignOut, Holding
    <2>3. CASE PruneExpired(r) \/ IssueTokens(r) \/ CommitInsertUser(r)
      BY <1>3, <1>4, <1>5, <2>3 DEF PruneExpired, IssueTokens, CommitInsertUser
    <2> QED BY <1>6, <1>8, <2>1, <2>2, <2>3 DEF Server
  <1> QED
    BY <1>1, <1>7, <1>8 DEF Next, Crash, Tick, AllAnswered, vars

\* A live session ends only by its own doing, and neither a spent token nor a
\* removed account comes back.
THEOREM Keeping == Spec => SessionsKept
  <1>1. IInv /\ [Next]_vars =>
          [\A t \in Minted :
             Live(t) /\ ~Live(t)' =>
               \/ expires[t] <= now
               \/ \E u \in DOMAIN users : t \in users[u] /\ u \in DOMAIN gone'
               \/ \E r \in Requests : op[r].token = t /\ pc[r] \in {"dead", "consume", "signout"}
          ]_users
    BY TokensKept DEF TokenKept
  <1>2. IInv /\ IInv' /\ [Next]_vars =>
          [/\ \A t \in Minted : ~Live(t) => ~Live(t)'
           /\ \A u \in DOMAIN gone : u \notin DOMAIN users']_vars
    BY TokensKept DEF TokenKept, IInv, AccountInv
  <1> QED
    BY <1>1, <1>2, Invariant, PTL DEF Spec, SessionsKept, NoSessionLost, NoResurrection
=============================================================================
