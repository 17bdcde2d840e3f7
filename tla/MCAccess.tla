----------------------------- MODULE MCAccess -----------------------------
(* Two projects holding the same identifier, one account and one           *)
(* administrator, one request among the writes of others.                  *)
EXTENDS Access, TLC

\* Where nothing is enforced, and for an administrator, no grant is ever read.
MCInit ==
    /\ Init
    /\ \/ required /\ \A r \in Requests : pend[r].user \notin Admins
       \/ roles = [u \in Grantees |-> [p \in Projects |-> Role.none]]
MCSpec == MCInit /\ [][Next]_vars

MCKinds == {"suite", "configuration", "workflow", "run", "milestone"}
ProjectSymmetry == Permutations(Projects)
=============================================================================
