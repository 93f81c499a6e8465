------------------------------ MODULE MCRunQueue ----------------------------
(* RunQueue with a failed store call and a crash at every point.           *)
EXTENDS RunQueue
=============================================================================
