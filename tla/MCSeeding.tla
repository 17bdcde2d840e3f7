----------------------------- MODULE MCSeeding -----------------------------
(***************************************************************************)
(* Seeding for TLC.  Commands, which name the accounts they create, are    *)
(* interchangeable, and so are projects and roles.                         *)
(***************************************************************************)
EXTENDS Seeding

Symmetry == Permutations(Commands) \union Permutations(Projects) \union Permutations(Roles)
=============================================================================
