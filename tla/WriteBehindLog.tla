--------------------------- MODULE WriteBehindLog ---------------------------
(***************************************************************************)
(* What the persistence queue promises to the stores that write through    *)
(* it: one totally ordered log of accepted commands, of which a growing    *)
(* prefix is durable.  Nothing accepted is lost, duplicated or overtaken;  *)
(* the first failed write halts the log for good; and while the log is not *)
(* halted, its durable prefix keeps catching up with its end.              *)
(***************************************************************************)
EXTENDS Naturals, Sequences

CONSTANT Command  \* the commands a producer can hand over

VARIABLES
    log,      \* every command accepted so far, in acceptance order
    durable,  \* how many of them the writer has applied
    halted    \* TRUE after the first failed write

vars == <<log, durable, halted>>

Init ==
    /\ log = <<>>
    /\ durable = 0
    /\ halted = FALSE

\* A producer's command takes the next place in the order.
Accept(c) ==
    /\ ~halted
    /\ log' = Append(log, c)
    /\ UNCHANGED <<durable, halted>>

\* The oldest command that is not durable becomes durable.
Persist ==
    /\ ~halted
    /\ durable < Len(log)
    /\ durable' = durable + 1
    /\ UNCHANGED <<log, halted>>

\* The oldest command that is not durable cannot be written.
Halt ==
    /\ ~halted
    /\ durable < Len(log)
    /\ halted' = TRUE
    /\ UNCHANGED <<log, durable>>

Next == (\E c \in Command : Accept(c)) \/ Persist \/ Halt

Safety == Init /\ [][Next]_vars

Spec == Safety /\ WF_vars(Persist \/ Halt)
=============================================================================
