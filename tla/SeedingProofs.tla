--------------------------- MODULE SeedingProofs ---------------------------
(***************************************************************************)
(* Theorems about Seeding for any number of commands, roles, names and     *)
(* accounts, and any finite number of projects.                            *)
(***************************************************************************)
EXTENDS Seeding, FiniteSetTheorems, TLAPS

(* ------------------------ the inductive invariant ----------------------- *)

Phases == Working \union Answers \union {"idle"}

TypeOK ==
    /\ users \subseteq [id : Ids, name : Names, admin : BOOLEAN]
    /\ grants \in [Projects -> [Ids -> Roles \union {NoRole}]]
    /\ pc \in [Commands -> Phases]
    /\ cmd \in [Commands -> Arguments \union {NoCommand}]
    /\ account \in [Commands -> Ids]
    /\ todo \in [Commands -> Seq(Projects)]
    /\ outcome \in [Commands -> {"none", "removed", "vanished", "kept"}]
    /\ kept \in [Commands -> SUBSET Projects]
    /\ orphans \in [Commands -> SUBSET (Projects \X Ids)]
    /\ foreign \in [Commands -> SUBSET Projects]

\* The phases of each command, those it ends in included.
Seeds == {"insert", "grant", "set", "seeded"}
Unseeding == {"revoke", "unset", "scan", "confirm", "removed", "vanished", "kept"}
Checks == {"look", "check", "checked"}

KindOK(c) ==
    /\ pc[c] \in Seeds => cmd[c].kind = "seed" /\ cmd[c].role \in Roles
    /\ pc[c] \in Unseeding => cmd[c].kind = "unseed"
    /\ pc[c] \in Checks => cmd[c].kind = "check"
    /\ pc[c] \in Seeds \union Unseeding \union Checks => cmd[c].projects \in Seq(Projects)

\* A command that has not created the account it names.
Unborn(i) == i \in Commands /\ (pc[i] \in {"idle", "insert"} \/ cmd[i].kind \in {"unseed", "check"})

\* Such an account is nowhere: not stored, not granted anything, not worked on.
BornInv ==
    \A i \in Commands : Unborn(i) =>
        /\ \A u \in users : u.id # i
        /\ \A p \in Projects : grants[p][i] = NoRole
        /\ \A c \in Commands : pc[c] \in {"grant", "set", "revoke", "unset"} => account[c] # i

\* No two accounts share an identifier, and the bootstrap one is the only
\* administrator.
UserInv ==
    /\ \A u, v \in users : u.id = v.id => u = v
    /\ \A u \in users : u.admin => u.id = Admin

Distinct(s) == \A i, j \in 1 .. Len(s) : s[i] = s[j] => i = j

\* What a command has still to visit.
TodoOK(c) ==
    /\ pc[c] \in {"insert", "look"} => todo[c] = cmd[c].projects /\ account[c] = c
    /\ pc[c] = "idle" => account[c] = c
    /\ pc[c] \in {"set", "unset"} => todo[c] # <<>>
    /\ pc[c] \in {"revoke", "unset"} => ToSet(todo[c]) \subseteq ToSet(cmd[c].projects)
    /\ pc[c] = "seeded" => todo[c] = <<>>
    /\ pc[c] \in {"scan", "confirm"} => outcome[c] \in {"removed", "vanished", "kept"}
    /\ pc[c] = "confirm" => Distinct(todo[c]) /\ ToSet(todo[c]) \subseteq kept[c]

\* The account a teardown is about to remove is the one it was told to.
NameOK(c) ==
    pc[c] \in {"revoke", "unset"} =>
        \A u \in users : u.id = account[c] =>
            u.name = cmd[c].name /\ (~cmd[c].keep => ~u.admin)

\* The projects a command named and has dealt with have the role it gave, are
\* without a grant, or were seen, unless someone else wrote there since.
Settled(c, p) == Role(p, c) # NoRole => p \in kept[c] \union foreign[c]

Orphaned(p, i) == grants[p][i] # NoRole /\ ~\E u \in users : u.id = i

GrantOK(c) ==
    /\ pc[c] \in {"grant", "set", "seeded"} =>
          \A p \in ToSet(cmd[c].projects) :
              p \in ToSet(todo[c]) \/ Role(p, c) = cmd[c].role \/ p \in foreign[c]
    /\ pc[c] \in {"revoke", "unset"} =>
          \A p \in ToSet(cmd[c].projects) :
              p \in ToSet(todo[c]) \/ Role(p, c) = NoRole \/ p \in foreign[c]
    /\ pc[c] = "scan" => \A p \in Projects : p \in ToSet(todo[c]) \/ Settled(c, p)
    /\ pc[c] \in {"confirm", "removed", "vanished", "kept"} => \A p \in Projects : Settled(c, p)
    /\ pc[c] = "check" => \A p \in ToSet(cmd[c].projects) : p \in ToSet(todo[c]) \/ Settled(c, p)
    /\ pc[c] = "checked" => \A p \in ToSet(cmd[c].projects) : Settled(c, p)
    /\ pc[c] \in Checks =>
          \A p \in Projects, i \in Ids : Orphaned(p, i) => <<p, i>> \in orphans[c] \/ p \in foreign[c]

CommandInv == \A c \in Commands : KindOK(c) /\ TodoOK(c) /\ NameOK(c) /\ GrantOK(c)

IInv == TypeOK /\ UserInv /\ BornInv /\ CommandInv

(* ------------------------- sequences of projects ------------------------ *)

\* The first of a list and the rest of it.
LEMMA HeadTail ==
    ASSUME NEW S, NEW s \in Seq(S), s # <<>>
    PROVE  /\ Head(s) \in S /\ Tail(s) \in Seq(S)
           /\ ToSet(s) = {Head(s)} \union ToSet(Tail(s))
           /\ Distinct(s) => Distinct(Tail(s)) /\ Head(s) \notin ToSet(Tail(s))
  <1>1. Len(s) \in Nat /\ Len(s) > 0 /\ DOMAIN s = 1 .. Len(s)
    OBVIOUS
  <1>2. /\ Head(s) = s[1] /\ Tail(s) \in Seq(S) /\ Len(Tail(s)) = Len(s) - 1
        /\ DOMAIN Tail(s) = 1 .. Len(s) - 1
        /\ \A i \in 1 .. Len(s) - 1 : Tail(s)[i] = s[i + 1]
    BY <1>1
  <1>3. ToSet(s) = {Head(s)} \union ToSet(Tail(s))
    <2>1. ASSUME NEW x \in ToSet(s) PROVE x \in {Head(s)} \union ToSet(Tail(s))
      <3>1. PICK i \in 1 .. Len(s) : x = s[i]
        BY <1>1, <2>1 DEF ToSet
      <3>2. CASE i = 1
        BY <1>2, <3>1, <3>2
      <3>3. CASE i # 1
        <4>1. i - 1 \in 1 .. Len(s) - 1 /\ Tail(s)[i - 1] = s[i]
          BY <1>1, <1>2, <3>3
        <4> QED BY <1>2, <3>1, <4>1 DEF ToSet
      <3> QED BY <3>2, <3>3
    <2>2. Head(s) \in ToSet(s)
      BY <1>1, <1>2 DEF ToSet
    <2>3. ASSUME NEW x \in ToSet(Tail(s)) PROVE x \in ToSet(s)
      <3>1. PICK i \in 1 .. Len(s) - 1 : x = s[i + 1]
        BY <1>2, <2>3 DEF ToSet
      <3>2. i + 1 \in 1 .. Len(s)
        BY <1>1
      <3> QED BY <1>1, <3>1, <3>2 DEF ToSet
    <2> QED BY <2>1, <2>2, <2>3
  <1>4. Distinct(s) => Distinct(Tail(s)) /\ Head(s) \notin ToSet(Tail(s))
    <2> SUFFICES ASSUME Distinct(s) PROVE Distinct(Tail(s)) /\ Head(s) \notin ToSet(Tail(s))
      OBVIOUS
    <2>1. Distinct(Tail(s))
      BY <1>1, <1>2 DEF Distinct
    <2>2. Head(s) \notin ToSet(Tail(s))
      BY <1>1, <1>2 DEF Distinct, ToSet
    <2> QED BY <2>1, <2>2
  <1> QED BY <1>1, <1>2, <1>3, <1>4

\* An order of a finite set lists all of it, and nothing twice.
LEMMA Orders ==
    ASSUME NEW S, IsFiniteSet(S), NEW s \in SetToSeqs(S)
    PROVE  s \in Seq(S) /\ Distinct(s) /\ ToSet(s) = S
  <1> DEFINE n == Cardinality(S)
  <1>1. n \in Nat
    BY FS_CardinalityType
  <1> HIDE DEF n
  <1>2. s \in [1 .. n -> S] /\ \A i, j \in 1 .. n : i # j => s[i] # s[j]
    BY DEF SetToSeqs, n
  <1>3. s \in Seq(S) /\ Len(s) = n
    BY <1>1, <1>2
  <1>4. s \in Injection(1 .. n, S)
    BY <1>2 DEF Injection, IsInjective
  <1>5. IsFiniteSet(1 .. n) /\ Cardinality(1 .. n) = n
    <2>1. IsFiniteSet(1 .. n) /\ Cardinality(1 .. n) = IF 1 > n THEN 0 ELSE n - 1 + 1
      BY <1>1, FS_Interval
    <2> QED BY <1>1, <2>1
  <1>6. s \in Surjection(1 .. n, S)
    BY <1>4, <1>5, FS_Injection DEF n
  <1>7. ToSet(s) = S
    BY <1>2, <1>6 DEF Surjection, ToSet
  <1> QED BY <1>2, <1>3, <1>7 DEF Distinct

\* What a command may be given.
LEMMA ArgumentFacts ==
    ASSUME NEW args \in Arguments
    PROVE  /\ args.projects \in Seq(Projects) /\ args.name \in Names /\ args.keep \in BOOLEAN
           /\ args.kind \in {"seed", "unseed", "check"}
           /\ args.kind = "seed" => args.role \in Roles
  <1>1. args.projects \in Listings
    BY DEF Arguments
  <1>2. PICK S \in SUBSET Projects : args.projects \in SetToSeqs(S)
    BY <1>1 DEF Listings, SetToAllKPermutations
  <1>3. IsFiniteSet(S)
    BY SeedingAssumption, FS_Subset
  <1>4. args.projects \in Seq(S)
    BY <1>2, <1>3, Orders
  <1>5. args.projects \in Seq(Projects)
    BY <1>4
  <1> QED BY <1>5 DEF Arguments

(* ----------------------- every action preserves it ---------------------- *)

\* A deployment as earlier commands left it.
LEMMA InitInv == Init => IInv
  <1> SUFFICES ASSUME Init PROVE IInv
    OBVIOUS
  <1>1. PICK left \in SUBSET [id : {Earlier}, name : Names \ {Admin}, admin : {FALSE}] :
           /\ \A u, v \in left : u = v
           /\ users = {[id |-> Admin, name |-> Admin, admin |-> TRUE]} \union left
    BY DEF Init
  <1> DEFINE root == [id |-> Admin, name |-> Admin, admin |-> TRUE]
  <1>2. /\ Admin \in Ids /\ Earlier \in Ids /\ Admin \in Names /\ Admin # Earlier
        /\ Admin \notin Commands /\ Earlier \notin Commands
    BY SeedingAssumption DEF Ids
  <1>3. /\ root \in [id : Ids, name : Names, admin : BOOLEAN] /\ root.id = Admin
        /\ \A u \in left : /\ u \in [id : Ids, name : Names, admin : BOOLEAN]
                           /\ u.id = Earlier /\ u.admin = FALSE
    BY <1>2
  <1> HIDE DEF root
  <1>4. users = {root} \union left /\ users \subseteq [id : Ids, name : Names, admin : BOOLEAN]
    BY <1>1, <1>3 DEF root
  <1>5. UserInv /\ \A u \in users : u.id \notin Commands
    BY <1>1, <1>2, <1>3, <1>4 DEF UserInv
  <1>6. \A p \in Projects : \E role \in Roles \union {NoRole} :
           grants[p] = [i \in Ids |-> IF i = Earlier THEN role ELSE NoRole]
    BY DEF Init
  <1>7. /\ grants \in [Projects -> [Ids -> Roles \union {NoRole}]]
        /\ \A p \in Projects, i \in Commands : grants[p][i] = NoRole
    <2>1. \A p \in Projects :
             /\ grants[p] \in [Ids -> Roles \union {NoRole}]
             /\ \A i \in Commands : grants[p][i] = NoRole
      BY <1>2, <1>6 DEF Ids
    <2>2. grants \in [Projects -> {[i \in Ids |-> IF i = Earlier THEN role ELSE NoRole] :
                                     role \in Roles \union {NoRole}}]
      BY DEF Init
    <2> QED BY <2>1, <2>2
  <1>8. TypeOK
    <2>1. <<>> \in Seq(Projects) /\ Commands \subseteq Ids /\ "idle" \in Phases
      BY DEF Ids, Phases
    <2>2. /\ pc \in [Commands -> Phases] /\ cmd \in [Commands -> Arguments \union {NoCommand}]
          /\ account \in [Commands -> Ids] /\ todo \in [Commands -> Seq(Projects)]
      BY <2>1 DEF Init
    <2>3. /\ outcome \in [Commands -> {"none", "removed", "vanished", "kept"}]
          /\ kept \in [Commands -> SUBSET Projects] /\ foreign \in [Commands -> SUBSET Projects]
          /\ orphans \in [Commands -> SUBSET (Projects \X Ids)]
      BY DEF Init
    <2> QED BY <1>4, <1>7, <2>2, <2>3 DEF TypeOK
  <1>9. BornInv
    BY <1>5, <1>7 DEF Init, BornInv
  <1>10. CommandInv
    BY DEF Init, CommandInv, KindOK, TodoOK, NameOK, GrantOK, Seeds, Unseeding, Checks
  <1> QED BY <1>5, <1>8, <1>9, <1>10 DEF IInv

\* What a step leaves a command.
Same(d) ==
    /\ pc'[d] = pc[d] /\ cmd'[d] = cmd[d] /\ account'[d] = account[d] /\ todo'[d] = todo[d]
    /\ outcome'[d] = outcome[d] /\ kept'[d] = kept[d] /\ orphans'[d] = orphans[d]

\* Whatever changed that a command relies on is in its `foreign'.
Noticed(d) ==
    /\ foreign[d] \subseteq foreign'[d]
    /\ \A p \in Projects : grants'[p][account[d]] # grants[p][account[d]] =>
          p \in foreign'[d]
    /\ cmd[d].kind = "check" =>
          \A p \in Projects, i \in Ids : Orphaned(p, i)' => Orphaned(p, i) \/ p \in foreign'[d]

\* A command that another one's step passes by.
LEMMA OthersFrame ==
    ASSUME IInv, NEW d \in Commands, Same(d), Noticed(d),
           \A u \in users' : u \notin users => Unborn(u.id)
    PROVE  KindOK(d)' /\ TodoOK(d)' /\ NameOK(d)' /\ GrantOK(d)'
  <1>1. KindOK(d) /\ TodoOK(d) /\ NameOK(d) /\ GrantOK(d)
    BY DEF IInv, CommandInv
  <1>2. KindOK(d)' /\ TodoOK(d)'
    BY <1>1 DEF Same, KindOK, TodoOK
  <1>3. NameOK(d)'
    <2> SUFFICES ASSUME pc[d] \in {"revoke", "unset"}, NEW u \in users', u.id = account[d]
                 PROVE  u.name = cmd[d].name /\ (~cmd[d].keep => ~u.admin)
      BY DEF Same, NameOK
    <2>1. ~Unborn(account[d])
      BY DEF IInv, BornInv, Unborn
    <2> QED BY <1>1, <2>1 DEF NameOK
  <1>4. \A p \in Projects : Role(p, d)' = grants'[p][account[d]]
    BY DEF Same, Role
  <1>5. KindOK(d) /\ \A p \in ToSet(cmd[d].projects) :
           pc[d] \in Seeds \union Unseeding \union Checks => p \in Projects
    BY <1>1 DEF KindOK, ToSet
  <1>6. \A p \in Projects : Settled(d, p) => Settled(d, p)'
    BY <1>4 DEF Settled, Noticed, Same, Role
  <1>7. GrantOK(d)'
    <2>1. pc[d] \in {"grant", "set", "seeded"} =>
            \A p \in ToSet(cmd[d].projects) :
               p \in ToSet(todo[d]) \/ Role(p, d)' = cmd[d].role \/ p \in foreign'[d]
      BY <1>1, <1>4, <1>5 DEF GrantOK, KindOK, Noticed, Role, Seeds
    <2>2. pc[d] \in {"revoke", "unset"} =>
            \A p \in ToSet(cmd[d].projects) :
               p \in ToSet(todo[d]) \/ Role(p, d)' = NoRole \/ p \in foreign'[d]
      BY <1>1, <1>4, <1>5 DEF GrantOK, Noticed, Role, Unseeding
    <2>3. pc[d] = "scan" => \A p \in Projects : p \in ToSet(todo[d]) \/ Settled(d, p)'
      BY <1>1, <1>6 DEF GrantOK
    <2>4. pc[d] \in {"confirm", "removed", "vanished", "kept"} => \A p \in Projects : Settled(d, p)'
      BY <1>1, <1>6 DEF GrantOK
    <2>5. pc[d] = "check" =>
             \A p \in ToSet(cmd[d].projects) : p \in ToSet(todo[d]) \/ Settled(d, p)'
      BY <1>1, <1>5, <1>6 DEF GrantOK, Checks
    <2>6. pc[d] = "checked" => \A p \in ToSet(cmd[d].projects) : Settled(d, p)'
      BY <1>1, <1>5, <1>6 DEF GrantOK, Checks
    <2>7. pc[d] \in Checks =>
            \A p \in Projects, i \in Ids :
               Orphaned(p, i)' => <<p, i>> \in orphans[d] \/ p \in foreign'[d]
      BY <1>1 DEF GrantOK, KindOK, Noticed
    <2> QED BY <2>1, <2>2, <2>3, <2>4, <2>5, <2>6, <2>7 DEF GrantOK, Same
  <1> QED BY <1>2, <1>3, <1>7

\* A command's step: it suffices to look at the command itself and at what the
\* others see of its writes.
LEMMA StepFrame ==
    ASSUME IInv, NEW c \in Commands, TypeOK', UserInv', BornInv',
           \A d \in Commands : d # c => Same(d) /\ Noticed(d),
           \A u \in users' : u \notin users => Unborn(u.id),
           KindOK(c)', TodoOK(c)', NameOK(c)', GrantOK(c)'
    PROVE  IInv'
  <1>1. ASSUME NEW d \in Commands, d # c
        PROVE  KindOK(d)' /\ TodoOK(d)' /\ NameOK(d)' /\ GrantOK(d)'
    BY <1>1, OthersFrame
  <1> QED BY <1>1 DEF IInv, CommandInv

\* A command's step that writes neither accounts nor grants.
LEMMA QuietStep ==
    ASSUME IInv, NEW c \in Commands, TypeOK', UNCHANGED <<users, grants>>,
           \A d \in Commands : d # c => Same(d) /\ foreign'[d] = foreign[d],
           Unborn(c)' => Unborn(c),
           pc'[c] \in {"grant", "set", "revoke", "unset"} =>
              \/ ~Unborn(account'[c]) /\ account'[c] # c
              \/ account'[c] = account[c] /\ pc[c] \in {"grant", "set", "revoke", "unset"},
           KindOK(c)', TodoOK(c)', NameOK(c)', GrantOK(c)'
    PROVE  IInv'
  <1>1. UserInv'
    BY DEF IInv, UserInv
  <1>2. \A d \in Commands : d # c => Noticed(d)
    BY DEF Noticed, Orphaned
  <1>3. \A i \in Commands : Unborn(i)' => Unborn(i)
    BY DEF Unborn, Same
  <1>4. BornInv'
    <2> SUFFICES ASSUME NEW i \in Commands, Unborn(i)'
                 PROVE  /\ \A u \in users : u.id # i
                        /\ \A p \in Projects : grants[p][i] = NoRole
                        /\ \A d \in Commands :
                             pc'[d] \in {"grant", "set", "revoke", "unset"} => account'[d] # i
      BY DEF BornInv
    <2>1. Unborn(i)
      BY <1>3
    <2> QED BY <2>1 DEF IInv, BornInv, Same
  <1> QED BY <1>1, <1>2, <1>4, StepFrame

\* A command that ends without a report.
LEMMA ForgottenInv ==
    ASSUME IInv, NEW c \in Commands, NEW phase \in {"conflict", "cut"}, Goto(c, phase), Forget(c),
           UNCHANGED <<users, grants>>
    PROVE  IInv'
  <1>1. c \in Ids /\ <<>> \in Seq(Projects) /\ phase \in Phases
    BY DEF Ids, Phases, Answers
  <1>2. /\ pc' = [pc EXCEPT ![c] = phase] /\ cmd' = [cmd EXCEPT ![c] = NoCommand]
        /\ account' = [account EXCEPT ![c] = c] /\ todo' = [todo EXCEPT ![c] = <<>>]
        /\ outcome' = [outcome EXCEPT ![c] = "none"] /\ kept' = [kept EXCEPT ![c] = {}]
        /\ orphans' = [orphans EXCEPT ![c] = {}] /\ foreign' = [foreign EXCEPT ![c] = {}]
    BY DEF Goto, Forget
  <1>3. TypeOK'
    BY <1>1, <1>2 DEF IInv, TypeOK
  <1>4. pc'[c] = phase /\ cmd'[c] = NoCommand
    BY <1>2 DEF IInv, TypeOK
  <1>5. \A d \in Commands : d # c => Same(d) /\ foreign'[d] = foreign[d]
    BY <1>2 DEF IInv, TypeOK, Same
  <1>6. ~Unborn(c)'
    BY <1>4 DEF Unborn, NoCommand
  <1>7. KindOK(c)' /\ TodoOK(c)' /\ NameOK(c)' /\ GrantOK(c)'
    BY <1>4 DEF KindOK, TodoOK, NameOK, GrantOK, Seeds, Unseeding, Checks
  <1> QED BY <1>3, <1>4, <1>5, <1>6, <1>7, QuietStep

\* What a command starts with.
LEMMA StartFacts ==
    ASSUME IInv, NEW c \in Commands, NEW args \in Arguments, Start(c, args)
    PROVE  /\ pc[c] = "idle" /\ account[c] = c /\ Unborn(c)
           /\ cmd' \in [Commands -> Arguments \union {NoCommand}] /\ cmd'[c] = args
           /\ todo' \in [Commands -> Seq(Projects)] /\ todo'[c] = args.projects
           /\ UNCHANGED <<grants, outcome, kept, foreign>>
           /\ \A d \in Commands : d # c => cmd'[d] = cmd[d] /\ todo'[d] = todo[d]
  <1>1. /\ pc[c] = "idle" /\ cmd' = [cmd EXCEPT ![c] = args]
        /\ todo' = [todo EXCEPT ![c] = args.projects] /\ UNCHANGED <<grants, outcome, kept, foreign>>
    BY DEF Start
  <1>2. args.projects \in Seq(Projects)
    BY ArgumentFacts
  <1>3. account[c] = c /\ Unborn(c)
    BY <1>1 DEF IInv, CommandInv, TodoOK, Unborn
  <1> QED BY <1>1, <1>2, <1>3 DEF IInv, TypeOK

\* A command that has just started and goes on at a phase of its kind.
LEMMA StartedInv ==
    ASSUME IInv, NEW c \in Commands, NEW args \in Arguments, Start(c, args),
           NEW phase \in {"insert", "grant", "revoke", "absent", "refused"}, Goto(c, phase),
           UNCHANGED <<users, orphans>>,
           phase \in {"insert", "grant"} => args.kind = "seed",
           phase \in {"revoke", "absent", "refused"} => args.kind = "unseed",
           \/ phase \in {"insert", "absent"} /\ UNCHANGED account
           \/ \E u \in users :
                /\ phase \notin {"insert", "absent"} /\ Named(args, u)
                /\ account' = [account EXCEPT ![c] = u.id]
                /\ phase = "revoke" => args.keep \/ ~u.admin
    PROVE  IInv'
  <1>1. /\ pc[c] = "idle" /\ account[c] = c /\ Unborn(c)
        /\ cmd' \in [Commands -> Arguments \union {NoCommand}] /\ cmd'[c] = args
        /\ todo' \in [Commands -> Seq(Projects)] /\ todo'[c] = args.projects
        /\ UNCHANGED <<grants, outcome, kept, foreign>>
        /\ \A d \in Commands : d # c => cmd'[d] = cmd[d] /\ todo'[d] = todo[d]
    BY StartFacts
  <1>2. /\ pc' \in [Commands -> Phases] /\ pc'[c] = phase
        /\ \A d \in Commands : d # c => pc'[d] = pc[d]
    BY DEF Goto, Phases, Working, Answers, IInv, TypeOK
  <1>3. /\ account' \in [Commands -> Ids] /\ \A d \in Commands : d # c => account'[d] = account[d]
    BY DEF IInv, TypeOK
  <1>4. TypeOK'
    BY <1>1, <1>2, <1>3 DEF IInv, TypeOK
  <1>5. \A d \in Commands : d # c => Same(d) /\ foreign'[d] = foreign[d]
    BY <1>1, <1>2, <1>3 DEF Same
  <1>6. KindOK(c)'
    BY <1>1, <1>2, ArgumentFacts DEF KindOK, Seeds, Unseeding, Checks
  <1>7. phase \in {"insert", "absent"} => account'[c] = c
    BY <1>1
  <1>8. phase \in {"grant", "revoke"} =>
          /\ \E u \in users : /\ Named(args, u) /\ account'[c] = u.id
                              /\ phase = "revoke" => args.keep \/ ~u.admin
          /\ ~Unborn(account'[c]) /\ account'[c] # c
    <2> SUFFICES ASSUME phase \in {"grant", "revoke"}
                 PROVE  /\ \E u \in users : /\ Named(args, u) /\ account'[c] = u.id
                                            /\ phase = "revoke" => args.keep \/ ~u.admin
                        /\ ~Unborn(account'[c]) /\ account'[c] # c
      OBVIOUS
    <2>1. PICK u \in users : /\ Named(args, u) /\ account' = [account EXCEPT ![c] = u.id]
                             /\ phase = "revoke" => args.keep \/ ~u.admin
      OBVIOUS
    <2>2. account'[c] = u.id
      BY <2>1 DEF IInv, TypeOK
    <2>3. ~Unborn(u.id) /\ u.id # c
      BY <1>1 DEF IInv, BornInv, Unborn
    <2> QED BY <2>1, <2>2, <2>3
  <1>9. TodoOK(c)'
    BY <1>1, <1>2, <1>7 DEF TodoOK
  <1>10. NameOK(c)'
    BY <1>1, <1>2, <1>8 DEF NameOK, Named, IInv, UserInv
  <1>11. GrantOK(c)'
    BY <1>1, <1>2 DEF GrantOK, Checks
  <1>12. UNCHANGED <<users, grants>> /\ (Unborn(c)' => Unborn(c))
    BY <1>1
  <1>13. pc'[c] \in {"grant", "set", "revoke", "unset"} => ~Unborn(account'[c]) /\ account'[c] # c
    BY <1>2, <1>8
  <1> QED BY <1>4, <1>5, <1>6, <1>9, <1>10, <1>11, <1>12, <1>13, QuietStep

\* seed-auth looks its account up.
LEMMA SeedAccountInv ==
    ASSUME IInv, NEW c \in Commands, NEW args \in Arguments, SeedAccount(c, args)
    PROVE  IInv'
  <1>1. Start(c, args) /\ args.kind = "seed" /\ UNCHANGED <<users, orphans>>
    BY DEF SeedAccount
  <1>2. CASE Goto(c, "insert") /\ UNCHANGED account
    BY <1>1, <1>2, StartedInv
  <1>3. ASSUME NEW u \in users, Named(args, u), account' = [account EXCEPT ![c] = u.id],
               Goto(c, "grant")
        PROVE  IInv'
    BY <1>1, <1>3, StartedInv
  <1> QED BY <1>2, <1>3 DEF SeedAccount

\* unseed-auth looks its account up; an administrator is only ever kept.
LEMMA UnseedAccountInv ==
    ASSUME IInv, NEW c \in Commands, NEW args \in Arguments, UnseedAccount(c, args)
    PROVE  IInv'
  <1>1. Start(c, args) /\ args.kind = "unseed" /\ UNCHANGED <<users, orphans>>
    BY DEF UnseedAccount
  <1>2. CASE Goto(c, "absent") /\ UNCHANGED account
    BY <1>1, <1>2, StartedInv
  <1>3. ASSUME NEW u \in users, Named(args, u), account' = [account EXCEPT ![c] = u.id],
               Goto(c, IF u.admin /\ ~args.keep THEN "refused" ELSE "revoke")
        PROVE  IInv'
    <2>1. CASE u.admin /\ ~args.keep
      BY <1>1, <1>3, <2>1, StartedInv
    <2>2. CASE ~(u.admin /\ ~args.keep)
      <3>1. Goto(c, "revoke") /\ (args.keep \/ ~u.admin)
        BY <1>3, <2>2
      <3> QED BY <1>1, <1>3, <3>1, StartedInv
    <2> QED BY <2>1, <2>2
  <1> QED BY <1>2, <1>3 DEF UnseedAccount

\* A check sees, in one transaction, every grant that no account answers for.
LEMMA OrphanGrantsInv ==
    ASSUME IInv, NEW c \in Commands, NEW args \in Arguments, OrphanGrants(c, args)
    PROVE  IInv'
  <1> DEFINE found == {g \in Projects \X Ids :
                         grants[g[1]][g[2]] # NoRole /\ ~\E u \in users : u.id = g[2]}
  <1>1. /\ Start(c, args) /\ args.kind = "check" /\ Goto(c, "look") /\ UNCHANGED <<users, account>>
        /\ orphans' = [orphans EXCEPT ![c] = found]
    BY DEF OrphanGrants
  <1>2. /\ pc[c] = "idle" /\ account[c] = c /\ Unborn(c)
        /\ cmd' \in [Commands -> Arguments \union {NoCommand}] /\ cmd'[c] = args
        /\ todo' \in [Commands -> Seq(Projects)] /\ todo'[c] = args.projects
        /\ UNCHANGED <<grants, outcome, kept, foreign>>
        /\ \A d \in Commands : d # c => cmd'[d] = cmd[d] /\ todo'[d] = todo[d]
    BY <1>1, StartFacts
  <1>3. found \subseteq Projects \X Ids
        /\ \A p \in Projects, i \in Ids : Orphaned(p, i) => <<p, i>> \in found
    BY DEF Orphaned
  <1> HIDE DEF found
  <1>4. /\ pc' \in [Commands -> Phases] /\ pc'[c] = "look"
        /\ \A d \in Commands : d # c => pc'[d] = pc[d]
    BY <1>1 DEF Goto, Phases, Working, IInv, TypeOK
  <1>5. /\ orphans' \in [Commands -> SUBSET (Projects \X Ids)] /\ orphans'[c] = found
        /\ \A d \in Commands : d # c => orphans'[d] = orphans[d]
    BY <1>1, <1>3 DEF IInv, TypeOK
  <1>6. TypeOK'
    BY <1>1, <1>2, <1>4, <1>5 DEF IInv, TypeOK
  <1>7. \A d \in Commands : d # c => Same(d) /\ foreign'[d] = foreign[d]
    BY <1>1, <1>2, <1>4, <1>5 DEF Same
  <1>8. KindOK(c)' /\ TodoOK(c)' /\ NameOK(c)'
    BY <1>1, <1>2, <1>4, ArgumentFacts DEF KindOK, TodoOK, NameOK, Seeds, Unseeding, Checks
  <1>9. \A p \in Projects, i \in Ids : Orphaned(p, i)' => <<p, i>> \in orphans'[c]
    BY <1>1, <1>2, <1>3, <1>5 DEF Orphaned
  <1>10. GrantOK(c)'
    BY <1>4, <1>9 DEF GrantOK
  <1> QED BY <1>1, <1>2, <1>4, <1>6, <1>7, <1>8, <1>10, QuietStep

\* The account is created under the lock, or the name was taken since.
LEMMA InsertUserInv ==
    ASSUME IInv, NEW c \in Commands, InsertUser(c)
    PROVE  IInv'
  <1>1. CASE Goto(c, "conflict") /\ Forget(c) /\ UNCHANGED users
    BY <1>1, ForgottenInv DEF InsertUser
  <1>2. CASE /\ users' = users \union {[id |-> c, name |-> cmd[c].name, admin |-> FALSE]}
             /\ account' = [account EXCEPT ![c] = c]
             /\ Goto(c, "grant") /\ UNCHANGED <<cmd, todo, outcome, kept, orphans, foreign>>
    <2> DEFINE new == [id |-> c, name |-> cmd[c].name, admin |-> FALSE]
    <2>1. pc[c] = "insert" /\ UNCHANGED grants
      BY DEF InsertUser
    <2>2. /\ KindOK(c) /\ todo[c] = cmd[c].projects /\ cmd[c].kind = "seed" /\ cmd[c] \in Arguments
          /\ Unborn(c) /\ account[c] = c
      BY <2>1 DEF IInv, TypeOK, CommandInv, KindOK, TodoOK, Seeds, Unborn, NoCommand
    <2>3. new \in [id : Ids, name : Names, admin : BOOLEAN] /\ new.id = c /\ ~new.admin
      BY <2>2, ArgumentFacts DEF Ids
    <2> HIDE DEF new
    <2>4. users' = users \union {new}
      BY <1>2 DEF new
    <2>5. /\ pc' \in [Commands -> Phases] /\ pc'[c] = "grant"
          /\ \A d \in Commands : d # c => pc'[d] = pc[d]
      BY <1>2 DEF Goto, Phases, Working, IInv, TypeOK
    <2>6. UNCHANGED account
      BY <1>2, <2>2 DEF IInv, TypeOK
    <2>7. TypeOK'
      BY <1>2, <2>1, <2>3, <2>4, <2>5, <2>6 DEF IInv, TypeOK
    <2>8. \A u \in users : u.id # c
      BY <2>2 DEF IInv, BornInv
    <2>9. UserInv'
      BY <2>3, <2>4, <2>8 DEF IInv, UserInv
    <2>10. ~Unborn(c)' /\ \A i \in Commands : i # c => (Unborn(i)' <=> Unborn(i))
      BY <1>2, <2>2, <2>5 DEF Unborn
    <2>11. BornInv'
      <3> SUFFICES ASSUME NEW i \in Commands, Unborn(i)'
                   PROVE  /\ \A u \in users' : u.id # i
                          /\ \A p \in Projects : grants[p][i] = NoRole
                          /\ \A d \in Commands :
                               pc'[d] \in {"grant", "set", "revoke", "unset"} => account[d] # i
        BY <2>1, <2>6 DEF BornInv
      <3>1. i # c /\ Unborn(i)
        BY <2>10
      <3> QED BY <2>2, <2>3, <2>4, <2>5, <3>1 DEF IInv, BornInv
    <2>12. \A d \in Commands : d # c => Same(d) /\ Noticed(d)
      BY <1>2, <2>1, <2>4, <2>5, <2>6 DEF Same, Noticed, Orphaned
    <2>13. \A u \in users' : u \notin users => Unborn(u.id)
      BY <2>2, <2>3, <2>4
    <2>14. KindOK(c)' /\ TodoOK(c)' /\ NameOK(c)' /\ GrantOK(c)'
      <3>1. cmd'[c] = cmd[c] /\ todo'[c] = cmd[c].projects
        BY <1>2, <2>2
      <3>2. KindOK(c)'
        BY <2>1, <2>2, <2>5, <3>1 DEF KindOK, Seeds, Unseeding, Checks
      <3>3. TodoOK(c)' /\ NameOK(c)'
        BY <2>5 DEF TodoOK, NameOK
      <3>4. GrantOK(c)'
        BY <2>5, <3>1 DEF GrantOK, Checks
      <3> QED BY <3>2, <3>3, <3>4
    <2> QED BY <2>7, <2>9, <2>11, <2>12, <2>13, <2>14, StepFrame
  <1> QED BY <1>1, <1>2 DEF InsertUser

\* A command that reads or writes at the head of its list: what becomes of the
\* list, and that the others are left alone.
LEMMA AdvanceFacts ==
    ASSUME IInv, NEW c \in Commands, todo[c] # <<>>
    PROVE  /\ Head(todo[c]) \in Projects
           /\ ToSet(todo[c]) = {Head(todo[c])} \union ToSet(Tail(todo[c]))
           /\ Distinct(todo[c]) =>
                Distinct(Tail(todo[c])) /\ Head(todo[c]) \notin ToSet(Tail(todo[c]))
           /\ Advance(c) => /\ todo' \in [Commands -> Seq(Projects)] /\ todo'[c] = Tail(todo[c])
                            /\ \A d \in Commands : d # c => todo'[d] = todo[d]
           /\ \A p : Seen(c, p) => /\ foreign' \in [Commands -> SUBSET Projects]
                                   /\ foreign'[c] = foreign[c] \ {p}
                                   /\ \A d \in Commands : d # c => foreign'[d] = foreign[d]
  <1>1. todo[c] \in Seq(Projects)
    BY DEF IInv, TypeOK
  <1>2. Tail(todo[c]) \in Seq(Projects)
    BY <1>1, HeadTail
  <1>3. Advance(c) => /\ todo' \in [Commands -> Seq(Projects)] /\ todo'[c] = Tail(todo[c])
                      /\ \A d \in Commands : d # c => todo'[d] = todo[d]
    BY <1>2 DEF Advance, IInv, TypeOK
  <1>4. \A p : Seen(c, p) => /\ foreign' \in [Commands -> SUBSET Projects]
                             /\ foreign'[c] = foreign[c] \ {p}
                             /\ \A d \in Commands : d # c => foreign'[d] = foreign[d]
    BY DEF Seen, IInv, TypeOK
  <1> QED BY <1>1, <1>3, <1>4, HeadTail

\* Where a command's phase leads.
LEMMA GotoFacts ==
    ASSUME IInv, NEW c \in Commands, NEW phase \in Phases, Goto(c, phase)
    PROVE  /\ pc' \in [Commands -> Phases] /\ pc'[c] = phase
           /\ \A d \in Commands : d # c => pc'[d] = pc[d]
  BY DEF Goto, IInv, TypeOK

\* seed-auth looks at a grant: it is right, or it is to be set.
LEMMA ReadGrantInv ==
    ASSUME IInv, NEW c \in Commands, ReadGrant(c)
    PROVE  IInv'
  <1> DEFINE p == Head(todo[c])
  <1>1. /\ pc[c] = "grant" /\ todo[c] # <<>> /\ Seen(c, p)
        /\ UNCHANGED <<users, grants, cmd, account, outcome, kept, orphans>>
    BY DEF ReadGrant
  <1>2. KindOK(c) /\ cmd[c].kind = "seed"
    BY <1>1 DEF IInv, CommandInv, KindOK, Seeds
  <1>3. \A q \in ToSet(cmd[c].projects) :
           q \in ToSet(todo[c]) \/ Role(q, c) = cmd[c].role \/ q \in foreign[c]
    BY <1>1 DEF IInv, CommandInv, GrantOK
  <1>4. CASE Goto(c, "set") /\ UNCHANGED todo
    <2>1. /\ pc' \in [Commands -> Phases] /\ pc'[c] = "set"
          /\ \A d \in Commands : d # c => pc'[d] = pc[d]
      BY <1>4, GotoFacts DEF Phases, Working
    <2>2. TypeOK'
      BY <1>1, <1>4, <2>1, AdvanceFacts DEF IInv, TypeOK
    <2>3. \A d \in Commands : d # c => Same(d) /\ foreign'[d] = foreign[d]
      BY <1>1, <1>4, <2>1, AdvanceFacts DEF Same
    <2>4. KindOK(c)' /\ TodoOK(c)' /\ NameOK(c)'
      BY <1>1, <1>2, <1>4, <2>1 DEF KindOK, TodoOK, NameOK, Seeds, Unseeding, Checks
    <2>5. GrantOK(c)'
      BY <1>1, <1>3, <1>4, <2>1, AdvanceFacts DEF GrantOK, Role, Checks
    <2>6. ~Unborn(c)'
      BY <1>1, <1>2, <2>1 DEF Unborn
    <2> QED BY <1>1, <2>1, <2>2, <2>3, <2>4, <2>5, <2>6, QuietStep
  <1>5. CASE ~Lacks(c, p) /\ Advance(c) /\ UNCHANGED pc
    <2>1. TypeOK'
      BY <1>1, <1>5, AdvanceFacts DEF IInv, TypeOK
    <2>2. \A d \in Commands : d # c => Same(d) /\ foreign'[d] = foreign[d]
      BY <1>1, <1>5, AdvanceFacts DEF Same
    <2>3. KindOK(c)' /\ TodoOK(c)' /\ NameOK(c)'
      BY <1>1, <1>2, <1>5 DEF KindOK, TodoOK, NameOK, Seeds, Unseeding, Checks
    <2>4. GrantOK(c)'
      <3>1. \A q \in ToSet(cmd[c].projects) :
              q \in ToSet(todo'[c]) \/ Role(q, c)' = cmd[c].role \/ q \in foreign'[c]
        BY <1>1, <1>3, <1>5, AdvanceFacts DEF Lacks, Role
      <3> QED BY <1>1, <1>5, <3>1 DEF GrantOK, Checks
    <2>5. ~Unborn(c)'
      BY <1>1, <1>2, <1>5 DEF Unborn
    <2> QED BY <1>1, <1>5, <2>1, <2>2, <2>3, <2>4, <2>5, QuietStep
  <1> QED BY <1>4, <1>5 DEF ReadGrant

\* Every grant asked for has been dealt with.
LEMMA SeededInv ==
    ASSUME IInv, NEW c \in Commands, Seeded(c)
    PROVE  IInv'
  <1>1. /\ pc[c] = "grant" /\ todo[c] = <<>> /\ Goto(c, "seeded")
        /\ UNCHANGED <<users, grants, cmd, account, todo, outcome, kept, orphans, foreign>>
    BY DEF Seeded
  <1>2. /\ pc' \in [Commands -> Phases] /\ pc'[c] = "seeded"
        /\ \A d \in Commands : d # c => pc'[d] = pc[d]
    BY <1>1, GotoFacts DEF Phases, Answers
  <1>3. TypeOK' /\ \A d \in Commands : d # c => Same(d) /\ foreign'[d] = foreign[d]
    BY <1>1, <1>2 DEF IInv, TypeOK, Same
  <1>4. KindOK(c) /\ GrantOK(c) /\ cmd[c].kind = "seed"
    BY <1>1 DEF IInv, CommandInv, KindOK, Seeds
  <1>5. KindOK(c)' /\ TodoOK(c)' /\ NameOK(c)'
    BY <1>1, <1>2, <1>4 DEF KindOK, TodoOK, NameOK, Seeds, Unseeding, Checks
  <1>6. GrantOK(c)'
    BY <1>1, <1>2, <1>4 DEF GrantOK, Role, Checks
  <1>7. ~Unborn(c)'
    BY <1>1, <1>2, <1>4 DEF Unborn
  <1> QED BY <1>1, <1>2, <1>3, <1>5, <1>6, <1>7, QuietStep

\* A command writes its account's grant: the commands that work on the account, and
\* the checks, take note.
LEMMA WriteGrantFacts ==
    ASSUME IInv, NEW c \in Commands, NEW p \in Projects, NEW role \in Roles \union {NoRole},
           WriteGrant(c, p, role)
    PROVE  /\ grants' \in [Projects -> [Ids -> Roles \union {NoRole}]]
           /\ grants'[p][account[c]] = role
           /\ \A q \in Projects, i \in Ids :
                q # p \/ i # account[c] => grants'[q][i] = grants[q][i]
           /\ foreign' \in [Commands -> SUBSET Projects] /\ foreign'[c] = foreign[c] \ {p}
           /\ \A d \in Commands : d # c =>
                /\ foreign[d] \subseteq foreign'[d]
                /\ account[d] = account[c] \/ cmd[d].kind = "check" => p \in foreign'[d]
  <1>1. account[c] \in Ids
    BY DEF IInv, TypeOK
  <1>2. grants' = [grants EXCEPT ![p][account[c]] = role]
    BY DEF WriteGrant
  <1>3. /\ grants' \in [Projects -> [Ids -> Roles \union {NoRole}]]
        /\ grants'[p][account[c]] = role
        /\ \A q \in Projects, i \in Ids : q # p \/ i # account[c] => grants'[q][i] = grants[q][i]
    BY <1>1, <1>2 DEF IInv, TypeOK
  <1>4. foreign' =
          [d \in Commands |->
             CASE d = c -> foreign[d] \ {p}
               [] d # c /\ (account[d] = account[c] \/ cmd[d].kind = "check") -> foreign[d] \union {p}
               [] OTHER -> foreign[d]]
    BY DEF WriteGrant
  <1>5. foreign'[c] = foreign[c] \ {p}
    BY <1>4
  <1>6. ASSUME NEW d \in Commands, d # c
        PROVE  \/ foreign'[d] = foreign[d] \union {p}
               \/ foreign'[d] = foreign[d] /\ ~(account[d] = account[c] \/ cmd[d].kind = "check")
    <2>1. CASE account[d] = account[c] \/ cmd[d].kind = "check"
      BY <1>4, <1>6, <2>1
    <2>2. CASE ~(account[d] = account[c] \/ cmd[d].kind = "check")
      BY <1>4, <1>6, <2>2
    <2> QED BY <2>1, <2>2
  <1>7. \A d \in Commands : foreign'[d] \subseteq Projects
    BY <1>5, <1>6 DEF IInv, TypeOK
  <1>8. foreign' \in [Commands -> SUBSET Projects]
    BY <1>4, <1>7
  <1> QED BY <1>3, <1>5, <1>6, <1>8

\* A grant written at the head of the list, whatever the role.
LEMMA GrantWrittenInv ==
    ASSUME IInv, NEW c \in Commands, NEW role \in Roles \union {NoRole}, pc[c] \in {"set", "unset"},
           WriteGrant(c, Head(todo[c]), role), Advance(c),
           UNCHANGED <<users, cmd, account, outcome, kept, orphans>>,
           NEW phase \in {"grant", "revoke"}, Goto(c, phase),
           phase = "grant" => pc[c] = "set" /\ role = cmd[c].role,
           phase = "revoke" => pc[c] = "unset" /\ role = NoRole
    PROVE  IInv'
  <1> DEFINE p == Head(todo[c])
  <1>1. todo[c] # <<>> /\ ~Unborn(account[c]) /\ KindOK(c) /\ TodoOK(c) /\ NameOK(c) /\ GrantOK(c)
    BY DEF IInv, CommandInv, TodoOK, BornInv, Unborn
  <1>2. p \in Projects /\ ToSet(todo[c]) = {p} \union ToSet(Tail(todo[c]))
    BY <1>1, AdvanceFacts
  <1>3. /\ todo' \in [Commands -> Seq(Projects)] /\ todo'[c] = Tail(todo[c])
        /\ \A d \in Commands : d # c => todo'[d] = todo[d]
    BY <1>1, AdvanceFacts
  <1>4. /\ pc' \in [Commands -> Phases] /\ pc'[c] = phase
        /\ \A d \in Commands : d # c => pc'[d] = pc[d]
    BY GotoFacts DEF Phases, Working
  <1>5. /\ grants' \in [Projects -> [Ids -> Roles \union {NoRole}]]
        /\ grants'[p][account[c]] = role
        /\ \A q \in Projects, i \in Ids : q # p \/ i # account[c] => grants'[q][i] = grants[q][i]
        /\ foreign' \in [Commands -> SUBSET Projects] /\ foreign'[c] = foreign[c] \ {p}
        /\ \A d \in Commands : d # c =>
             /\ foreign[d] \subseteq foreign'[d]
             /\ account[d] = account[c] \/ cmd[d].kind = "check" => p \in foreign'[d]
    BY <1>2, WriteGrantFacts
  <1> HIDE DEF p
  <1>6. TypeOK'
    BY <1>3, <1>4, <1>5 DEF IInv, TypeOK
  <1>7. UserInv'
    BY DEF IInv, UserInv
  <1>8. \A i \in Commands : Unborn(i)' => Unborn(i)
    BY <1>4 DEF Unborn
  <1>9. BornInv'
    <2> SUFFICES ASSUME NEW i \in Commands, Unborn(i)'
                 PROVE  /\ \A u \in users : u.id # i
                        /\ \A q \in Projects : grants'[q][i] = NoRole
                        /\ \A d \in Commands :
                             pc'[d] \in {"grant", "set", "revoke", "unset"} => account[d] # i
      BY DEF BornInv
    <2>1. Unborn(i) /\ i # account[c] /\ i \in Ids
      BY <1>1, <1>8 DEF Ids
    <2> QED BY <1>4, <1>5, <2>1 DEF IInv, BornInv
  <1>10. ASSUME NEW d \in Commands, d # c PROVE Same(d) /\ Noticed(d)
    <2>1. Same(d)
      BY <1>3, <1>4, <1>10 DEF Same
    <2>2. account[d] \in Ids
      BY DEF IInv, TypeOK
    <2>3. \A q \in Projects : grants'[q][account[d]] # grants[q][account[d]] => q \in foreign'[d]
      BY <1>5, <1>10, <2>2
    <2>4. cmd[d].kind = "check" =>
            \A q \in Projects, i \in Ids : Orphaned(q, i)' => Orphaned(q, i) \/ q \in foreign'[d]
      BY <1>5, <1>10 DEF Orphaned
    <2> QED BY <1>5, <1>10, <2>1, <2>3, <2>4 DEF Noticed
  <1>11. KindOK(c)'
    BY <1>1, <1>4 DEF KindOK, Seeds, Unseeding, Checks
  <1>12. TodoOK(c)'
    BY <1>1, <1>2, <1>3, <1>4 DEF TodoOK
  <1>13. NameOK(c)'
    BY <1>1, <1>4 DEF NameOK
  <1>14. \A q \in ToSet(cmd[c].projects) : q \in Projects
    BY <1>1 DEF KindOK, Seeds, Unseeding, ToSet
  <1>15. account[c] \in Ids
    BY DEF IInv, TypeOK
  <1>16. \A q \in ToSet(cmd[c].projects) :
            q \in ToSet(todo'[c]) \/ grants'[q][account[c]] = role \/ q \in foreign'[c]
    <2> SUFFICES ASSUME NEW q \in ToSet(cmd[c].projects), q # p
                 PROVE  q \in ToSet(todo'[c]) \/ grants'[q][account[c]] = role \/ q \in foreign'[c]
      BY <1>5
    <2>1. q \in ToSet(todo[c]) \/ grants[q][account[c]] = role \/ q \in foreign[c]
      BY <1>1 DEF GrantOK, Role
    <2> QED BY <1>2, <1>3, <1>5, <1>14, <1>15, <2>1
  <1>17. GrantOK(c)'
    BY <1>4, <1>16 DEF GrantOK, Role, Checks
  <1> QED BY <1>6, <1>7, <1>9, <1>10, <1>11, <1>12, <1>13, <1>17, StepFrame

\* seed-auth sets a role, unseed-auth takes one away.
LEMMA SetRoleInv ==
    ASSUME IInv, NEW c \in Commands, SetRole(c)
    PROVE  IInv'
  <1>1. cmd[c].role \in Roles
    BY DEF SetRole, IInv, CommandInv, KindOK, Seeds
  <1> QED BY <1>1, GrantWrittenInv DEF SetRole

\* A role taken away by unseed-auth.
LEMMA RemoveRoleInv ==
    ASSUME IInv, NEW c \in Commands, RemoveRole(c)
    PROVE  IInv'
  BY GrantWrittenInv DEF RemoveRole

\* unseed-auth looks at a grant it is to take away.
LEMMA ReadNamedInv ==
    ASSUME IInv, NEW c \in Commands, ReadNamed(c)
    PROVE  IInv'
  <1> DEFINE p == Head(todo[c])
  <1>1. /\ pc[c] = "revoke" /\ todo[c] # <<>> /\ Seen(c, p)
        /\ UNCHANGED <<users, grants, cmd, account, outcome, kept, orphans>>
    BY DEF ReadNamed
  <1>2. KindOK(c) /\ cmd[c].kind = "unseed" /\ TodoOK(c) /\ NameOK(c)
    BY <1>1 DEF IInv, CommandInv, KindOK, Unseeding
  <1>3. \A q \in ToSet(cmd[c].projects) :
           q \in ToSet(todo[c]) \/ Role(q, c) = NoRole \/ q \in foreign[c]
    BY <1>1 DEF IInv, CommandInv, GrantOK
  <1>4. Unborn(c)
    BY <1>2 DEF Unborn
  <1>5. CASE Goto(c, "unset") /\ UNCHANGED todo
    <2>1. /\ pc' \in [Commands -> Phases] /\ pc'[c] = "unset"
          /\ \A d \in Commands : d # c => pc'[d] = pc[d]
      BY <1>5, GotoFacts DEF Phases, Working
    <2>2. TypeOK'
      BY <1>1, <1>5, <2>1, AdvanceFacts DEF IInv, TypeOK
    <2>3. \A d \in Commands : d # c => Same(d) /\ foreign'[d] = foreign[d]
      BY <1>1, <1>5, <2>1, AdvanceFacts DEF Same
    <2>4. KindOK(c)' /\ TodoOK(c)' /\ NameOK(c)'
      BY <1>1, <1>2, <1>5, <2>1 DEF KindOK, TodoOK, NameOK, Seeds, Unseeding, Checks
    <2>5. GrantOK(c)'
      BY <1>1, <1>3, <1>5, <2>1, AdvanceFacts DEF GrantOK, Role, Checks
    <2> QED BY <1>1, <1>4, <2>1, <2>2, <2>3, <2>4, <2>5, QuietStep
  <1>6. CASE Role(p, c) = NoRole /\ Advance(c) /\ UNCHANGED pc
    <2>1. TypeOK'
      BY <1>1, <1>6, AdvanceFacts DEF IInv, TypeOK
    <2>2. \A d \in Commands : d # c => Same(d) /\ foreign'[d] = foreign[d]
      BY <1>1, <1>6, AdvanceFacts DEF Same
    <2>3. KindOK(c)' /\ NameOK(c)'
      BY <1>1, <1>2, <1>6 DEF KindOK, NameOK, Seeds, Unseeding, Checks
    <2>4. TodoOK(c)'
      BY <1>1, <1>2, <1>6, AdvanceFacts DEF TodoOK
    <2>5. GrantOK(c)'
      <3>1. \A q \in ToSet(cmd[c].projects) :
              q \in ToSet(todo'[c]) \/ Role(q, c)' = NoRole \/ q \in foreign'[c]
        BY <1>1, <1>3, <1>6, AdvanceFacts, ZenonT(60) DEF Role
      <3> QED BY <1>1, <1>6, <3>1 DEF GrantOK, Checks
    <2> QED BY <1>1, <1>4, <1>6, <2>1, <2>2, <2>3, <2>4, <2>5, QuietStep
  <1> QED BY <1>5, <1>6 DEF ReadNamed

\* The account goes, and the checks under way take note of the grants it leaves.
LEMMA RemoveUserInv ==
    ASSUME IInv, NEW c \in Commands, RemoveUser(c)
    PROVE  IInv'
  <1>1. /\ pc[c] = "revoke" /\ todo[c] = <<>> /\ UNCHANGED <<grants, cmd, account, kept, orphans>>
        /\ users' = IF cmd[c].keep THEN users ELSE {u \in users : u.id # account[c]}
        /\ foreign' = [d \in Commands |->
                         IF users' # users /\ cmd[d].kind = "check"
                         THEN foreign[d] \union {p \in Projects : Held(c, p)} ELSE foreign[d]]
    BY DEF RemoveUser
  <1>2. PICK files \in SetToSeqs(Projects) : todo' = [todo EXCEPT ![c] = files]
    BY DEF RemoveUser, ScanAll
  <1>3. files \in Seq(Projects) /\ ToSet(files) = Projects
    BY Orders, SeedingAssumption
  <1>4. /\ todo' \in [Commands -> Seq(Projects)] /\ todo'[c] = files
        /\ \A d \in Commands : d # c => todo'[d] = todo[d]
    BY <1>2, <1>3 DEF IInv, TypeOK
  <1>5. PICK fate \in {"removed", "vanished", "kept"} : outcome' = [outcome EXCEPT ![c] = fate]
    BY DEF RemoveUser
  <1>6. /\ outcome' \in [Commands -> {"none", "removed", "vanished", "kept"}] /\ outcome'[c] = fate
        /\ \A d \in Commands : d # c => outcome'[d] = outcome[d]
    BY <1>5 DEF IInv, TypeOK
  <1>7. /\ pc' \in [Commands -> Phases] /\ pc'[c] = "scan"
        /\ \A d \in Commands : d # c => pc'[d] = pc[d]
    BY GotoFacts DEF RemoveUser, ScanAll, Phases, Working
  <1>8. users' \subseteq users
    BY <1>1
  <1>9. /\ \A d \in Commands : foreign[d] \subseteq foreign'[d] /\ foreign'[d] \subseteq Projects
        /\ foreign' \in [Commands -> SUBSET Projects]
    BY <1>1 DEF IInv, TypeOK
  <1>10. TypeOK'
    BY <1>1, <1>4, <1>6, <1>7, <1>8, <1>9 DEF IInv, TypeOK
  <1>11. UserInv'
    BY <1>8 DEF IInv, UserInv
  <1>12. KindOK(c) /\ cmd[c].kind = "unseed"
    BY <1>1 DEF IInv, CommandInv, KindOK, Unseeding
  <1>13. BornInv'
    <2> SUFFICES ASSUME NEW i \in Commands, Unborn(i)'
                 PROVE  /\ \A u \in users' : u.id # i
                        /\ \A p \in Projects : grants[p][i] = NoRole
                        /\ \A d \in Commands :
                             pc'[d] \in {"grant", "set", "revoke", "unset"} => account[d] # i
      BY <1>1 DEF BornInv
    <2>1. Unborn(i)
      BY <1>1, <1>7, <1>12 DEF Unborn
    <2> QED BY <1>7, <1>8, <2>1 DEF IInv, BornInv
  <1>14. ASSUME NEW d \in Commands, d # c PROVE Same(d) /\ Noticed(d)
    <2>1. Same(d)
      BY <1>1, <1>4, <1>6, <1>7, <1>14 DEF Same
    <2>2. ASSUME cmd[d].kind = "check", NEW p \in Projects, NEW i \in Ids, Orphaned(p, i)',
                 ~Orphaned(p, i)
          PROVE  p \in foreign'[d]
      <3>1. grants[p][i] # NoRole
        BY <1>1, <2>2 DEF Orphaned
      <3>2. PICK u \in users : u.id = i /\ u \notin users'
        BY <1>1, <2>2 DEF Orphaned
      <3>3. users' # users /\ i = account[c]
        BY <1>1, <3>2
      <3>4. Held(c, p)
        BY <3>1, <3>3 DEF Held, Role
      <3> QED BY <1>1, <2>2, <3>3, <3>4
    <2> QED BY <1>1, <1>9, <2>1, <2>2 DEF Noticed
  <1>15. KindOK(c)' /\ TodoOK(c)' /\ NameOK(c)'
    BY <1>1, <1>6, <1>7, <1>12 DEF KindOK, TodoOK, NameOK, Seeds, Unseeding, Checks
  <1>16. GrantOK(c)'
    BY <1>3, <1>4, <1>7 DEF GrantOK, Checks
  <1> QED BY <1>8, <1>10, <1>11, <1>13, <1>14, <1>15, <1>16, StepFrame

\* The grants the account still has are found, file by file.
LEMMA ScanGrantsInv ==
    ASSUME IInv, NEW c \in Commands, ScanGrants(c)
    PROVE  IInv'
  <1>0. PICK p : p = Head(todo[c])
    OBVIOUS
  <1>1. pc[c] = "scan" /\ UNCHANGED <<users, grants, cmd, account, outcome, orphans>>
    BY DEF ScanGrants
  <1>2. KindOK(c) /\ cmd[c].kind = "unseed" /\ TodoOK(c) /\ Unborn(c)
    BY <1>1 DEF IInv, CommandInv, KindOK, Unseeding, Unborn
  <1>3. \A q \in Projects : q \in ToSet(todo[c]) \/ Settled(c, q)
    BY <1>1 DEF IInv, CommandInv, GrantOK
  <1>4. CASE /\ todo[c] # <<>> /\ Seen(c, p) /\ Advance(c) /\ UNCHANGED pc
             /\ kept' = [kept EXCEPT ![c] = IF Held(c, p) THEN @ \union {p} ELSE @]
    <2>1. p \in Projects
      BY <1>0, <1>4, AdvanceFacts
    <2>2. /\ kept' \in [Commands -> SUBSET Projects]
          /\ kept'[c] = IF Held(c, p) THEN kept[c] \union {p} ELSE kept[c]
          /\ \A d \in Commands : d # c => kept'[d] = kept[d]
      BY <1>4, <2>1 DEF IInv, TypeOK
    <2>3. TypeOK'
      BY <1>0, <1>1, <1>4, <2>2, AdvanceFacts DEF IInv, TypeOK
    <2>4. \A d \in Commands : d # c => Same(d) /\ foreign'[d] = foreign[d]
      BY <1>0, <1>1, <1>4, <2>2, AdvanceFacts DEF Same
    <2>5. KindOK(c)' /\ TodoOK(c)' /\ NameOK(c)'
      BY <1>1, <1>2, <1>4 DEF KindOK, TodoOK, NameOK, Seeds, Unseeding, Checks
    <2>6. \A q \in Projects : q \in ToSet(todo'[c]) \/ Settled(c, q)'
      <3>1. /\ ToSet(todo[c]) = {p} \union ToSet(todo'[c]) /\ foreign'[c] = foreign[c] \ {p}
            /\ \A q \in Projects : Role(q, c)' = Role(q, c)
        BY <1>0, <1>1, <1>4, AdvanceFacts DEF Role
      <3>2. Settled(c, p)'
        BY <2>1, <2>2, <3>1 DEF Settled, Held
      <3>3. \A q \in Projects : q # p /\ Settled(c, q) => Settled(c, q)'
        BY <2>2, <3>1 DEF Settled
      <3> QED BY <1>3, <3>1, <3>2, <3>3
    <2>7. GrantOK(c)'
      BY <1>1, <1>4, <2>6 DEF GrantOK, Checks
    <2> QED BY <1>1, <1>2, <1>4, <2>3, <2>4, <2>5, <2>7, QuietStep
  <1>5. CASE /\ todo[c] = <<>> /\ Goto(c, "confirm") /\ UNCHANGED <<kept, foreign>>
             /\ \E found \in SetToSeqs(kept[c]) : todo' = [todo EXCEPT ![c] = found]
    <2>1. PICK found \in SetToSeqs(kept[c]) : todo' = [todo EXCEPT ![c] = found]
      BY <1>5
    <2>2. kept[c] \in SUBSET Projects
      BY DEF IInv, TypeOK
    <2>3. IsFiniteSet(kept[c])
      BY <2>2, SeedingAssumption, FS_Subset
    <2>4. found \in Seq(kept[c]) /\ Distinct(found) /\ ToSet(found) = kept[c]
      BY <2>3, Orders
    <2>5. found \in Seq(Projects)
      BY <2>2, <2>4
    <2>6. /\ todo' \in [Commands -> Seq(Projects)] /\ todo'[c] = found
          /\ \A d \in Commands : d # c => todo'[d] = todo[d]
      BY <2>1, <2>5 DEF IInv, TypeOK
    <2>7. /\ pc' \in [Commands -> Phases] /\ pc'[c] = "confirm"
          /\ \A d \in Commands : d # c => pc'[d] = pc[d]
      BY <1>5, GotoFacts DEF Phases, Working
    <2>8. TypeOK' /\ \A d \in Commands : d # c => Same(d) /\ foreign'[d] = foreign[d]
      BY <1>1, <1>5, <2>6, <2>7 DEF IInv, TypeOK, Same
    <2>9. KindOK(c)' /\ TodoOK(c)' /\ NameOK(c)'
      BY <1>1, <1>2, <1>5, <2>4, <2>6, <2>7
         DEF KindOK, TodoOK, NameOK, Seeds, Unseeding, Checks
    <2>10. \A q \in Projects : Settled(c, q)'
      <3>1. ToSet(todo[c]) = {}
        BY <1>5 DEF ToSet
      <3> QED BY <1>1, <1>3, <1>5, <3>1 DEF Settled, Role
    <2>11. GrantOK(c)'
      BY <2>7, <2>10 DEF GrantOK, Checks
    <2> QED BY <1>1, <1>2, <2>7, <2>8, <2>9, <2>11, QuietStep
  <1> QED BY <1>0, <1>4, <1>5 DEF ScanGrants

\* A grant found is read once more before it is reported.
LEMMA ConfirmKeptInv ==
    ASSUME IInv, NEW c \in Commands, ConfirmKept(c)
    PROVE  IInv'
  <1> DEFINE p == Head(todo[c])
  <1>1. /\ pc[c] = "confirm" /\ todo[c] # <<>> /\ Seen(c, p) /\ Advance(c)
        /\ kept' = [kept EXCEPT ![c] = IF Held(c, p) THEN @ ELSE @ \ {p}]
        /\ UNCHANGED <<users, grants, pc, cmd, account, outcome, orphans>>
    BY DEF ConfirmKept
  <1>2. KindOK(c) /\ cmd[c].kind = "unseed" /\ TodoOK(c) /\ Unborn(c)
    BY <1>1 DEF IInv, CommandInv, KindOK, Unseeding, Unborn
  <1>3. \A q \in Projects : Settled(c, q)
    BY <1>1 DEF IInv, CommandInv, GrantOK
  <1>4. /\ kept' \in [Commands -> SUBSET Projects]
        /\ kept'[c] = IF Held(c, p) THEN kept[c] ELSE kept[c] \ {p}
        /\ \A d \in Commands : d # c => kept'[d] = kept[d]
    BY <1>1 DEF IInv, TypeOK
  <1>5. /\ ToSet(todo[c]) = {p} \union ToSet(Tail(todo[c])) /\ ToSet(todo[c]) \subseteq kept[c]
        /\ Distinct(Tail(todo[c])) /\ p \notin ToSet(Tail(todo[c]))
    BY <1>1, <1>2, AdvanceFacts DEF TodoOK
  <1>6. TypeOK'
    BY <1>1, <1>4, AdvanceFacts DEF IInv, TypeOK
  <1>7. \A d \in Commands : d # c => Same(d) /\ foreign'[d] = foreign[d]
    BY <1>1, <1>4, AdvanceFacts DEF Same
  <1>8. KindOK(c)' /\ NameOK(c)'
    BY <1>1, <1>2 DEF KindOK, NameOK, Seeds, Unseeding, Checks
  <1>9. TodoOK(c)'
    <2>1. todo'[c] = Tail(todo[c])
      BY <1>1, AdvanceFacts
    <2> HIDE DEF p
    <2>2. ToSet(todo'[c]) \subseteq kept'[c]
      BY <1>4, <1>5, <2>1
    <2> QED BY <1>1, <1>2, <1>5, <2>1, <2>2 DEF TodoOK
  <1>10. \A q \in Projects : Settled(c, q)'
    BY <1>1, <1>3, <1>4, <1>5, AdvanceFacts DEF Settled, Held, Role
  <1>11. GrantOK(c)'
    BY <1>1, <1>10 DEF GrantOK, Checks
  <1> QED BY <1>1, <1>2, <1>6, <1>7, <1>8, <1>9, <1>11, QuietStep

\* The teardown reports.
LEMMA ReportInv ==
    ASSUME IInv, NEW c \in Commands, Report(c)
    PROVE  IInv'
  <1>1. /\ pc[c] = "confirm" /\ Goto(c, outcome[c])
        /\ UNCHANGED <<users, grants, cmd, account, todo, outcome, kept, orphans, foreign>>
    BY DEF Report
  <1>2. /\ KindOK(c) /\ cmd[c].kind = "unseed" /\ TodoOK(c) /\ Unborn(c)
        /\ outcome[c] \in {"removed", "vanished", "kept"}
    BY <1>1 DEF IInv, CommandInv, KindOK, Unseeding, Unborn, TodoOK
  <1>3. /\ pc' \in [Commands -> Phases] /\ pc'[c] = outcome[c]
        /\ \A d \in Commands : d # c => pc'[d] = pc[d]
    BY <1>1, <1>2, GotoFacts DEF Phases, Answers
  <1>4. TypeOK' /\ \A d \in Commands : d # c => Same(d) /\ foreign'[d] = foreign[d]
    BY <1>1, <1>3 DEF IInv, TypeOK, Same
  <1>5. \A q \in Projects : Settled(c, q)'
    BY <1>1 DEF IInv, CommandInv, GrantOK, Settled, Role
  <1>6. KindOK(c)' /\ TodoOK(c)' /\ NameOK(c)'
    BY <1>1, <1>2, <1>3 DEF KindOK, TodoOK, NameOK, Seeds, Unseeding, Checks
  <1>7. GrantOK(c)'
    BY <1>2, <1>3, <1>5 DEF GrantOK, Checks
  <1> QED BY <1>1, <1>2, <1>3, <1>4, <1>6, <1>7, QuietStep

\* A check finds its account, or that there is none.
LEMMA CheckAccountInv ==
    ASSUME IInv, NEW c \in Commands, CheckAccount(c)
    PROVE  IInv'
  <1>1. /\ pc[c] = "look"
        /\ UNCHANGED <<users, grants, cmd, todo, outcome, kept, orphans, foreign>>
    BY DEF CheckAccount
  <1>2. /\ KindOK(c) /\ cmd[c].kind = "check" /\ TodoOK(c) /\ Unborn(c)
        /\ todo[c] = cmd[c].projects /\ account[c] = c
    BY <1>1 DEF IInv, CommandInv, KindOK, TodoOK, Checks, Unborn
  <1>3. \A p \in Projects, i \in Ids : Orphaned(p, i)' => <<p, i>> \in orphans'[c] \/ p \in foreign'[c]
    BY <1>1 DEF IInv, CommandInv, GrantOK, Checks, Orphaned
  <1>4. CASE Goto(c, "checked") /\ UNCHANGED account
    <2>1. /\ pc' \in [Commands -> Phases] /\ pc'[c] = "checked"
          /\ \A d \in Commands : d # c => pc'[d] = pc[d]
      BY <1>4, GotoFacts DEF Phases, Answers
    <2>2. TypeOK' /\ \A d \in Commands : d # c => Same(d) /\ foreign'[d] = foreign[d]
      BY <1>1, <1>4, <2>1 DEF IInv, TypeOK, Same
    <2>3. KindOK(c)' /\ TodoOK(c)' /\ NameOK(c)'
      BY <1>1, <1>2, <2>1 DEF KindOK, TodoOK, NameOK, Seeds, Unseeding, Checks
    <2>4. \A p \in Projects : Settled(c, p)'
      BY <1>1, <1>2, <1>4 DEF IInv, BornInv, Settled, Role
    <2>5. \A p \in ToSet(cmd[c].projects) : p \in Projects
      BY <1>1, <1>2 DEF KindOK, Checks, ToSet
    <2>6. GrantOK(c)'
      BY <1>1, <1>3, <2>1, <2>4, <2>5 DEF GrantOK, Checks
    <2> QED BY <1>1, <1>2, <2>1, <2>2, <2>3, <2>6, QuietStep
  <1>5. ASSUME NEW u \in users, account' = [account EXCEPT ![c] = u.id], Goto(c, "check")
        PROVE  IInv'
    <2>1. /\ pc' \in [Commands -> Phases] /\ pc'[c] = "check"
          /\ \A d \in Commands : d # c => pc'[d] = pc[d]
      BY <1>5, GotoFacts DEF Phases, Working
    <2>2. /\ account' \in [Commands -> Ids] /\ \A d \in Commands : d # c => account'[d] = account[d]
      BY <1>5 DEF IInv, TypeOK
    <2>3. TypeOK' /\ \A d \in Commands : d # c => Same(d) /\ foreign'[d] = foreign[d]
      BY <1>1, <2>1, <2>2 DEF IInv, TypeOK, Same
    <2>4. KindOK(c)' /\ TodoOK(c)' /\ NameOK(c)'
      BY <1>1, <1>2, <2>1 DEF KindOK, TodoOK, NameOK, Seeds, Unseeding, Checks
    <2>5. GrantOK(c)'
      BY <1>1, <1>2, <1>3, <2>1 DEF GrantOK, Checks
    <2> QED BY <1>1, <1>2, <2>1, <2>3, <2>4, <2>5, QuietStep
  <1> QED BY <1>4, <1>5 DEF CheckAccount

\* A check looks at a grant of its account.
LEMMA CheckGrantInv ==
    ASSUME IInv, NEW c \in Commands, CheckGrant(c)
    PROVE  IInv'
  <1>0. PICK p : p = Head(todo[c])
    OBVIOUS
  <1>1. pc[c] = "check" /\ UNCHANGED <<users, grants, cmd, account, outcome, orphans, foreign>>
    BY DEF CheckGrant
  <1>2. KindOK(c) /\ cmd[c].kind = "check" /\ TodoOK(c) /\ Unborn(c)
    BY <1>1 DEF IInv, CommandInv, KindOK, Checks, Unborn
  <1>3. \A q \in Projects, i \in Ids : Orphaned(q, i)' => <<q, i>> \in orphans'[c] \/ q \in foreign'[c]
    BY <1>1 DEF IInv, CommandInv, GrantOK, Checks, Orphaned
  <1>4. \A q \in ToSet(cmd[c].projects) : q \in ToSet(todo[c]) \/ Settled(c, q)
    BY <1>1 DEF IInv, CommandInv, GrantOK
  <1>5. CASE /\ todo[c] # <<>> /\ Advance(c) /\ UNCHANGED pc
             /\ kept' = [kept EXCEPT ![c] = IF Held(c, p) THEN @ \union {p} ELSE @]
    <2>1. p \in Projects
      BY <1>0, <1>5, AdvanceFacts
    <2>2. /\ kept' \in [Commands -> SUBSET Projects]
          /\ kept'[c] = IF Held(c, p) THEN kept[c] \union {p} ELSE kept[c]
          /\ \A d \in Commands : d # c => kept'[d] = kept[d]
      BY <1>5, <2>1 DEF IInv, TypeOK
    <2>3. TypeOK'
      BY <1>0, <1>1, <1>5, <2>2, AdvanceFacts DEF IInv, TypeOK
    <2>4. \A d \in Commands : d # c => Same(d) /\ foreign'[d] = foreign[d]
      BY <1>0, <1>1, <1>5, <2>2, AdvanceFacts DEF Same
    <2>5. KindOK(c)' /\ TodoOK(c)' /\ NameOK(c)'
      BY <1>1, <1>2, <1>5 DEF KindOK, TodoOK, NameOK, Seeds, Unseeding, Checks
    <2>6. \A q \in ToSet(cmd[c].projects) : q \in ToSet(todo'[c]) \/ Settled(c, q)'
      <3>1. ToSet(todo[c]) = {p} \union ToSet(todo'[c]) /\ \A q : Role(q, c)' = Role(q, c)
        BY <1>0, <1>1, <1>5, AdvanceFacts DEF Role
      <3>2. Settled(c, p)'
        BY <1>1, <2>1, <2>2, <3>1 DEF Settled, Held
      <3>3. \A q : Settled(c, q) => Settled(c, q)'
        BY <1>1, <2>2, <3>1 DEF Settled
      <3> QED BY <1>4, <3>1, <3>2, <3>3
    <2>7. GrantOK(c)'
      BY <1>1, <1>3, <1>5, <2>6 DEF GrantOK, Checks
    <2> QED BY <1>1, <1>2, <1>5, <2>3, <2>4, <2>5, <2>7, QuietStep
  <1>6. CASE todo[c] = <<>> /\ Goto(c, "checked") /\ UNCHANGED <<todo, kept>>
    <2>1. /\ pc' \in [Commands -> Phases] /\ pc'[c] = "checked"
          /\ \A d \in Commands : d # c => pc'[d] = pc[d]
      BY <1>6, GotoFacts DEF Phases, Answers
    <2>2. TypeOK' /\ \A d \in Commands : d # c => Same(d) /\ foreign'[d] = foreign[d]
      BY <1>1, <1>6, <2>1 DEF IInv, TypeOK, Same
    <2>3. KindOK(c)' /\ TodoOK(c)' /\ NameOK(c)'
      BY <1>1, <1>2, <2>1 DEF KindOK, TodoOK, NameOK, Seeds, Unseeding, Checks
    <2>4. \A q \in ToSet(cmd[c].projects) : Settled(c, q)'
      <3>1. ToSet(todo[c]) = {}
        BY <1>6 DEF ToSet
      <3> QED BY <1>1, <1>4, <1>6, <3>1 DEF Settled, Role
    <2>5. GrantOK(c)'
      BY <1>1, <1>3, <2>1, <2>4 DEF GrantOK, Checks
    <2> QED BY <1>1, <1>2, <2>1, <2>2, <2>3, <2>5, QuietStep
  <1> QED BY <1>0, <1>5, <1>6 DEF CheckGrant

\* A command cut short leaves what it has done.
LEMMA CutShortInv ==
    ASSUME IInv, NEW c \in Commands, CutShort(c)
    PROVE  IInv'
  BY ForgottenInv DEF CutShort

\* The server deletes a project's grants; the commands that rely on one take note.
LEMMA RemoveProjectGrantsInv ==
    ASSUME IInv, NEW p \in Projects, RemoveProjectGrants(p)
    PROVE  IInv'
  <1>1. /\ grants' = [grants EXCEPT ![p] = [i \in Ids |-> NoRole]]
        /\ foreign' = [c \in Commands |->
                         IF grants[p][account[c]] # NoRole \/ cmd[c].kind = "check"
                         THEN foreign[c] \union {p} ELSE foreign[c]]
        /\ UNCHANGED <<users, pc, cmd, account, todo, outcome, kept, orphans>>
    BY DEF RemoveProjectGrants
  <1>2. /\ grants' \in [Projects -> [Ids -> Roles \union {NoRole}]]
        /\ \A i \in Ids : grants'[p][i] = NoRole
        /\ \A q \in Projects : q # p => grants'[q] = grants[q]
    BY <1>1 DEF IInv, TypeOK
  <1>3. /\ foreign' \in [Commands -> SUBSET Projects]
        /\ \A d \in Commands : foreign[d] \subseteq foreign'[d]
    BY <1>1 DEF IInv, TypeOK
  <1>4. TypeOK'
    BY <1>1, <1>2, <1>3 DEF IInv, TypeOK
  <1>5. UserInv'
    BY <1>1 DEF IInv, UserInv
  <1>6. BornInv'
    BY <1>1, <1>2 DEF IInv, BornInv, Unborn, Ids
  <1>7. ASSUME NEW d \in Commands PROVE KindOK(d)' /\ TodoOK(d)' /\ NameOK(d)' /\ GrantOK(d)'
    <2>1. Same(d)
      BY <1>1 DEF Same
    <2>2. account[d] \in Ids
      BY DEF IInv, TypeOK
    <2>3. \A q \in Projects : grants'[q][account[d]] # grants[q][account[d]] => q \in foreign'[d]
      BY <1>1, <1>2, <2>2
    <2>4. \A q \in Projects, i \in Ids : Orphaned(q, i)' => Orphaned(q, i)
      BY <1>1, <1>2 DEF Orphaned
    <2>5. Noticed(d)
      BY <1>3, <2>3, <2>4 DEF Noticed
    <2> QED BY <1>1, <2>1, <2>5, OthersFrame
  <1> QED BY <1>4, <1>5, <1>6, <1>7 DEF IInv, CommandInv

\* Every step preserves the invariant.
LEMMA NextInv == IInv /\ [Next]_vars => IInv'
  <1> SUFFICES ASSUME IInv, [Next]_vars PROVE IInv'
    OBVIOUS
  <1>1. ASSUME NEW c \in Commands, NEW args \in Arguments,
               SeedAccount(c, args) \/ UnseedAccount(c, args) \/ OrphanGrants(c, args)
        PROVE  IInv'
    BY <1>1, SeedAccountInv, UnseedAccountInv, OrphanGrantsInv
  <1>2. ASSUME NEW c \in Commands,
               \/ InsertUser(c) \/ ReadGrant(c) \/ SetRole(c) \/ Seeded(c)
               \/ ReadNamed(c) \/ RemoveRole(c) \/ RemoveUser(c)
               \/ ScanGrants(c) \/ ConfirmKept(c) \/ Report(c) \/ CheckAccount(c) \/ CheckGrant(c)
               \/ CutShort(c)
        PROVE  IInv'
    BY <1>2, InsertUserInv, ReadGrantInv, SetRoleInv, SeededInv, ReadNamedInv, RemoveRoleInv,
       RemoveUserInv, ScanGrantsInv, ConfirmKeptInv, ReportInv, CheckAccountInv, CheckGrantInv,
       CutShortInv
  <1>3. ASSUME NEW p \in Projects, RemoveProjectGrants(p) PROVE IInv'
    BY <1>3, RemoveProjectGrantsInv
  <1>4. CASE UNCHANGED vars
    BY <1>4 DEF vars, IInv, TypeOK, UserInv, BornInv, Unborn, CommandInv, KindOK, TodoOK, NameOK,
                GrantOK, Settled, Orphaned, Role
  <1> QED BY <1>1, <1>2, <1>3, <1>4 DEF Next, AllEnded

(* -------------------------------- theorems ------------------------------- *)

\* In every reachable state accounts, grants and the commands under way fit
\* together as IInv says: seed_account and unseed_account work through their
\* projects one transaction at a time, beside other commands and the server.
THEOREM Invariant == Spec => []IInv
  <1> QED BY InitInv, NextInv, PTL DEF Spec

\* What a command prints is so: seed-auth has given the role it says, unseed-auth
\* has left only the grants it names (projects_for_user), a check has seen every
\* orphan (orphan_grants), except where someone else wrote after it looked.
THEOREM Reports == Spec => []ReportsHonest
  <1>1. IInv => ReportsHonest
    <2> SUFFICES ASSUME IInv PROVE TeardownHonest /\ SeedComplete /\ CheckHonest
      BY DEF ReportsHonest
    <2>1. TeardownHonest
      BY DEF IInv, CommandInv, GrantOK, Settled, TeardownHonest
    <2>2. SeedComplete
      <3> SUFFICES ASSUME NEW c \in Commands, pc[c] = "seeded", NEW p \in ToSet(cmd[c].projects)
                   PROVE  Role(p, c) = cmd[c].role \/ p \in foreign[c]
        BY DEF SeedComplete
      <3>1. ToSet(todo[c]) = {}
        BY DEF IInv, CommandInv, TodoOK, ToSet
      <3> QED BY <3>1 DEF IInv, CommandInv, GrantOK
    <2>3. CheckHonest
      BY DEF IInv, CommandInv, GrantOK, Settled, Orphaned, Checks, CheckHonest
    <2> QED BY <2>1, <2>2, <2>3
  <1> QED BY Invariant, <1>1, PTL

\* The only step that takes an account away.
LEMMA UserSteps ==
    ASSUME IInv, Next, NEW u \in users, u \notin users'
    PROVE  \E c \in Commands : /\ RemoveUser(c) /\ ~cmd[c].keep /\ u.id = account[c]
                               /\ cmd'[c] = cmd[c] /\ account'[c] = account[c]
  <1>1. ASSUME NEW c \in Commands, RemoveUser(c)
        PROVE  ~cmd[c].keep /\ u.id = account[c] /\ cmd'[c] = cmd[c] /\ account'[c] = account[c]
    BY <1>1 DEF RemoveUser
  <1>2. \A c \in Commands, args \in Arguments :
           ~(SeedAccount(c, args) \/ UnseedAccount(c, args) \/ OrphanGrants(c, args))
    BY DEF SeedAccount, UnseedAccount, OrphanGrants
  <1>3. \A c \in Commands :
           ~(\/ InsertUser(c) \/ ReadGrant(c) \/ SetRole(c) \/ Seeded(c) \/ ReadNamed(c)
             \/ RemoveRole(c) \/ ScanGrants(c) \/ ConfirmKept(c) \/ Report(c) \/ CheckAccount(c)
             \/ CheckGrant(c) \/ CutShort(c))
    BY DEF InsertUser, ReadGrant, SetRole, Seeded, ReadNamed, RemoveRole, ScanGrants, ConfirmKept,
           Report, CheckAccount, CheckGrant, CutShort
  <1>4. \A p \in Projects : ~RemoveProjectGrants(p)
    BY DEF RemoveProjectGrants
  <1> QED BY <1>1, <1>2, <1>3, <1>4 DEF Next, AllEnded, vars

\* A grant goes with its project, or by a teardown that names account and project.
LEMMA GrantSteps ==
    ASSUME IInv, Next, NEW p \in Projects, NEW i \in Ids, grants[p][i] # NoRole, grants'[p][i] = NoRole
    PROVE  deletes' # deletes \/ \E c \in Commands : Unseeds(c, i, p)
  <1>1. ASSUME NEW c \in Commands, SetRole(c) PROVE FALSE
    <2>1. /\ pc[c] = "set" /\ cmd[c].role \in Roles /\ todo[c] # <<>>
          /\ WriteGrant(c, Head(todo[c]), cmd[c].role)
      BY <1>1 DEF SetRole, IInv, CommandInv, KindOK, TodoOK, Seeds
    <2>2. Head(todo[c]) \in Projects
      BY <2>1, AdvanceFacts
    <2>3. /\ grants'[Head(todo[c])][account[c]] = cmd[c].role
          /\ \A q \in Projects, j \in Ids :
               q # Head(todo[c]) \/ j # account[c] => grants'[q][j] = grants[q][j]
      BY <2>1, <2>2, WriteGrantFacts
    <2> QED BY <2>1, <2>3, SeedingAssumption
  <1>2. ASSUME NEW c \in Commands, RemoveRole(c) PROVE Unseeds(c, i, p)
    <2>1. /\ pc[c] = "unset" /\ cmd[c].kind = "unseed" /\ todo[c] # <<>>
          /\ WriteGrant(c, Head(todo[c]), NoRole)
          /\ ToSet(todo[c]) \subseteq ToSet(cmd[c].projects)
      BY <1>2 DEF RemoveRole, IInv, CommandInv, KindOK, TodoOK, Unseeding
    <2>2. Head(todo[c]) \in Projects /\ Head(todo[c]) \in ToSet(todo[c])
      BY <2>1, AdvanceFacts
    <2>3. p = Head(todo[c]) /\ i = account[c]
      BY <2>1, <2>2, WriteGrantFacts
    <2> QED BY <2>1, <2>2, <2>3 DEF Unseeds
  <1>3. ASSUME NEW q \in Projects, RemoveProjectGrants(q) PROVE deletes' # deletes \/ FALSE
    BY <1>3 DEF RemoveProjectGrants
  <1>4. \A c \in Commands, args \in Arguments :
           ~(SeedAccount(c, args) \/ UnseedAccount(c, args) \/ OrphanGrants(c, args))
    BY DEF SeedAccount, UnseedAccount, OrphanGrants, Start
  <1>5. \A c \in Commands :
           ~(\/ InsertUser(c) \/ ReadGrant(c) \/ Seeded(c) \/ ReadNamed(c) \/ RemoveUser(c)
             \/ ScanGrants(c) \/ ConfirmKept(c) \/ Report(c) \/ CheckAccount(c)
             \/ CheckGrant(c) \/ CutShort(c))
    BY DEF InsertUser, ReadGrant, Seeded, ReadNamed, RemoveUser, ScanGrants, ConfirmKept,
           Report, CheckAccount, CheckGrant, CutShort
  <1> QED BY <1>1, <1>2, <1>3, <1>4, <1>5 DEF Next, AllEnded, vars

\* A teardown takes "the named account and only the named grants", never an
\* administrator, and the account only when those grants are gone: unseed_account
\* cut short anywhere leaves an account that can still be found by its name.
THEOREM Teardown == Spec => TeardownBounded
  <1>1. IInv /\ [Next]_vars =>
          [/\ \A u \in users : u \notin users' =>
                ~u.admin /\ \E c \in Commands : /\ cmd'[c].kind = "unseed" /\ ~cmd'[c].keep
                                                /\ Named(cmd'[c], u)
           /\ \A p \in Projects, i \in Ids :
                grants[p][i] # NoRole /\ grants'[p][i] = NoRole =>
                   deletes' # deletes \/ \E c \in Commands : Unseeds(c, i, p)]_<<users, grants>>
    <2> SUFFICES ASSUME IInv, Next
                 PROVE  /\ \A u \in users : u \notin users' =>
                             ~u.admin /\ \E c \in Commands :
                                /\ cmd'[c].kind = "unseed" /\ ~cmd'[c].keep /\ Named(cmd'[c], u)
                        /\ \A p \in Projects, i \in Ids :
                             grants[p][i] # NoRole /\ grants'[p][i] = NoRole =>
                                deletes' # deletes \/ \E c \in Commands : Unseeds(c, i, p)
      BY DEF vars
    <2>1. ASSUME NEW u \in users, u \notin users'
          PROVE  ~u.admin /\ \E c \in Commands : /\ cmd'[c].kind = "unseed" /\ ~cmd'[c].keep
                                                 /\ Named(cmd'[c], u)
      <3>1. PICK c \in Commands : /\ RemoveUser(c) /\ ~cmd[c].keep /\ u.id = account[c]
                                  /\ cmd'[c] = cmd[c]
        BY <2>1, UserSteps
      <3>2. pc[c] = "revoke" /\ cmd[c].kind = "unseed"
        BY <3>1 DEF RemoveUser, IInv, CommandInv, KindOK, Unseeding
      <3>3. u.name = cmd[c].name /\ ~u.admin
        BY <3>1, <3>2 DEF IInv, CommandInv, NameOK
      <3> QED BY <3>1, <3>2, <3>3 DEF Named
    <2> QED BY <2>1, GrantSteps
  <1>2. IInv /\ [Next]_vars =>
          [\A u \in users \ users' : \E c \in Commands :
              /\ account'[c] = u.id /\ cmd'[c].kind = "unseed"
              /\ \A p \in ToSet(cmd'[c].projects) : grants[p][u.id] # NoRole => p \in foreign[c]]_users
    <2> SUFFICES ASSUME IInv, Next, NEW u \in users \ users'
                 PROVE  \E c \in Commands :
                          /\ account'[c] = u.id /\ cmd'[c].kind = "unseed"
                          /\ \A p \in ToSet(cmd'[c].projects) : grants[p][u.id] # NoRole => p \in foreign[c]
      BY DEF vars
    <2>1. PICK c \in Commands : /\ RemoveUser(c) /\ u.id = account[c]
                                /\ cmd'[c] = cmd[c] /\ account'[c] = account[c]
      BY UserSteps
    <2>2. pc[c] = "revoke" /\ todo[c] = <<>> /\ cmd[c].kind = "unseed"
      BY <2>1 DEF RemoveUser, IInv, CommandInv, KindOK, Unseeding
    <2>3. ToSet(todo[c]) = {}
      BY <2>2 DEF ToSet
    <2>4. \A p \in ToSet(cmd[c].projects) : grants[p][u.id] # NoRole => p \in foreign[c]
      BY <2>1, <2>2, <2>3 DEF IInv, CommandInv, GrantOK, Role
    <2> QED BY <2>1, <2>2, <2>4
  <1> QED BY Invariant, <1>1, <1>2, PTL DEF Spec, TeardownBounded, TeardownOnlyNamed, GrantsGoFirst
=============================================================================
