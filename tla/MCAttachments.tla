--------------------------- MODULE MCAttachments ---------------------------
(***************************************************************************)
(* Attachments for TLC.  Requests are interchangeable, and so are the      *)
(* names of the files they upload.                                         *)
(***************************************************************************)
EXTENDS Attachments, TLC

\* A body lists nothing, or every name: of a file that is stored, of one that was
\* removed, and of one that never will be there.
MCClaims == {{}, Requests}

Symmetry == Permutations(Requests)
=============================================================================
