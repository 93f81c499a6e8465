--------------------------- MODULE MCStorageHost ---------------------------
(***************************************************************************)
(* Two callers of one payload and a handle, round trips that may be late,  *)
(* journal appends that fail and restarts of the host.                     *)
(***************************************************************************)
EXTENDS StorageHost, TLC

CONSTANTS c1, c2, h1, o1, o2, s1, s2

MCCallers == {c1, c2}
MCHandles == {h1}
MCOpIds == {o1, o2}
MCSlots == {s1, s2}
Symmetry == Permutations(MCCallers) \cup Permutations(MCOpIds) \cup Permutations(MCSlots)
=============================================================================
