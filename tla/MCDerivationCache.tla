------------------------- MODULE MCDerivationCache -------------------------
(***************************************************************************)
(* DerivationCache for TLC: two threads in one replica, beside one in      *)
(* another in the passing run.                                             *)
(***************************************************************************)
EXTENDS DerivationCache, TLC

CONSTANTS t1, t2, t3, near, far

OneReplica == t1 :> near @@ t2 :> near
TwoReplicas == OneReplica @@ t3 :> far
=============================================================================
