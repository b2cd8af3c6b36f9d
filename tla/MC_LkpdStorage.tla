--------------------------- MODULE MC_LkpdStorage ---------------------------
(***************************************************************************)
(* Small instances of LkpdStorage.                                          *)
(***************************************************************************)
EXTENDS LkpdStorage

CONSTANTS f1, f2,   \* files
          q1, q2    \* requests
=============================================================================
