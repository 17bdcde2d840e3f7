--------------------------- MODULE MCProjectTree ---------------------------
(***************************************************************************)
(* ProjectTree for TLC.  Requests, projects and free names are            *)
(* interchangeable.                                                        *)
(***************************************************************************)
EXTENDS ProjectTree, TLC

Symmetry == Permutations(Requests) \union Permutations(Projects)
            \union Permutations(Names \ Reserved)

\* No step and no property reads an answer that was given.
View == <<lock, marker, tree, grants, given, pc, op>>
=============================================================================
