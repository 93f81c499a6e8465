---------------------------- MODULE MCJsonlBatch ----------------------------
(***************************************************************************)
(* Two files and up to three transactions over either or both of them,     *)
(* with a failure or a crash at every step, and a journal that is emptied  *)
(* once it holds more than one transaction.                                *)
(***************************************************************************)
EXTENDS JsonlBatch

CONSTANTS f1, f2

MCFiles == {f1, f2}
=============================================================================
