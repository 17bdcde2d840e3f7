---------------------------- MODULE CaseHistory ----------------------------
(***************************************************************************)
(* What the versioning of a test case promises its readers: a live         *)
(* document and the documents it was, one per superseded version.  Every   *)
(* change is one step.  The folder of CaseStore implements it while no     *)
(* write is cut short.                                                     *)
(***************************************************************************)
EXTENDS Integers

CONSTANTS Content, Meta, NoDoc

VARIABLES
    live,   \* the case as it stands, or NoDoc
    past    \* the case as it stood at each superseded version

Docs == [content : Content, meta : Meta, version : Nat]

VersionOf(d) == IF d.version = 0 THEN 1 ELSE d.version

Nothing == [v \in {} |-> NoDoc]

Init == live \in Docs \union {NoDoc} /\ past = Nothing

\* A case is created, or duplicated from another: no history yet.
File ==
    /\ live = NoDoc /\ live' \in Docs
    /\ past' = Nothing

\* A qualifying update supersedes the live version and keeps it.
Revise ==
    /\ live # NoDoc /\ live' \in Docs
    /\ live'.content # live.content
    /\ live'.version = VersionOf(live) + 1
    /\ past' = [v \in DOMAIN past \union {VersionOf(live)} |->
                  IF v = VersionOf(live) THEN live ELSE past[v]]

\* Any other change keeps the version and the history.
Amend ==
    /\ live # NoDoc /\ live' \in Docs
    /\ live'.version = live.version
    /\ UNCHANGED past

\* Deleting the case deletes its history.
Remove ==
    /\ live # NoDoc /\ live' = NoDoc
    /\ past' = Nothing

Next == File \/ Revise \/ Amend \/ Remove

Spec == Init /\ [][Next]_<<live, past>>
=============================================================================
