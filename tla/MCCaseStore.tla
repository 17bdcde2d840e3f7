---------------------------- MODULE MCCaseStore ----------------------------
(***************************************************************************)
(* CaseStore for TLC.  Requests are interchangeable, and so are the values *)
(* of the client fields, which are only ever compared.                     *)
(***************************************************************************)
EXTENDS CaseStore, TLC

Symmetry == Permutations(Requests) \union Permutations(Content) \union Permutations(Meta)
=============================================================================
