------------------------- MODULE MCEventPublication -------------------------
(* Two CHATs with one event each: a lease begins while the other's         *)
(* accepted event is still in the queue, and an event races the barriers   *)
(* of its fallback.  The journal, and an event of a CHAT that is not       *)
(* bound, take the durable path.                                           *)
EXTENDS EventPublication

CONSTANTS chat1, chat2, event1, event2, journal

MCTraceOf == [e \in Emitters |-> IF e = event1 THEN chat1 ELSE chat2]
=============================================================================
