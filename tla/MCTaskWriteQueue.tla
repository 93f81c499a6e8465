-------------------------- MODULE MCTaskWriteQueue --------------------------
(* Two admitted transactions, so that one can decide on an overlay that    *)
(* holds the other, and two synchronous ones, so that one can park behind  *)
(* the gate of the other.                                                  *)
EXTENDS TaskWriteQueue

CONSTANTS admitted1, admitted2, writer1, writer2
=============================================================================
