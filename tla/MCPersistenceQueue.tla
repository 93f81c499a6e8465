------------------------- MODULE MCPersistenceQueue -------------------------
(***************************************************************************)
(* Two admitted requests and one synchronous writer share a queue of two   *)
(* slots and three bytes; the sequence counter ends at two, so that the    *)
(* exhausted counter is reached with commands, reservations and waiters    *)
(* still around.                                                           *)
(***************************************************************************)
EXTENDS PersistenceQueue

CONSTANTS r1, r2, w1

MCRequests == {r1, r2}
MCWriters == {w1}
MCSizes == {1, 2}
=============================================================================
