-------------------------- MODULE MCUploadService --------------------------
(***************************************************************************)
(* Two uploads at a time of up to four files in all, so that two batches   *)
(* overlap and one of them fails in part.                                  *)
(***************************************************************************)
EXTENDS UploadService

CONSTANTS r1, r2, f1, f2, f3, f4
=============================================================================
