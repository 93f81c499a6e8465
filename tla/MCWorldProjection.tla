------------------------- MODULE MCWorldProjection --------------------------
(* Two Tasks of one Actor, two switches of the source epoch, and three     *)
(* commits, faults and restarts in all, which meet at every step of a pass.*)
EXTENDS WorldProjection

CONSTANTS t1, t2
=============================================================================
