----------------------------- MODULE MCSessions -----------------------------
(***************************************************************************)
(* Sessions for TLC.  Requests are interchangeable, and so are the tokens  *)
(* that are not minted yet.                                                *)
(***************************************************************************)
EXTENDS Sessions, TLC

CONSTANTS u1, u2, u3

\* Two replicas may be adding the same login name under two identifiers.
MCUsername == u1 :> "ana" @@ u2 :> "bia" @@ u3 :> "bia"

Symmetry == Permutations(Requests) \union Permutations(Tokens \ {FirstToken})
=============================================================================
