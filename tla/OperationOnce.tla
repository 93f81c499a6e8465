--------------------------- MODULE OperationOnce ---------------------------
(***************************************************************************)
(* What the storage host and its client promise together of a mutating     *)
(* operation: whatever is lost, delayed or restarted in between, its       *)
(* effect is there at most once, and nobody is told it is done before.     *)
(***************************************************************************)
EXTENDS Naturals

CONSTANT OpIds  \* the identities an operation can have

VARIABLES
    effects,  \* how often the owner store has committed each operation
    told      \* the operations some caller was told are done

vars == <<effects, told>>

Init == effects = [op \in OpIds |-> 0] /\ told = {}

Commit(op) ==
    /\ effects[op] = 0
    /\ effects' = [effects EXCEPT ![op] = 1]
    /\ UNCHANGED told

Tell(op) ==
    /\ effects[op] = 1
    /\ told' = told \cup {op}
    /\ UNCHANGED effects

Next == \E op \in OpIds : Commit(op) \/ Tell(op)

Spec == Init /\ [][Next]_vars
=============================================================================
