---------------------------- MODULE OrderedFeed ----------------------------
(***************************************************************************)
(* What the canonical event store and its relay promise together: one log  *)
(* of accepted orchestrator events, and a live feed that goes along it in  *)
(* its own order.  An event is shown when the feed comes to it, once, or   *)
(* passed unshown and never shown again; the latter only if it is silent   *)
(* (its owner may decline it, or it is meant for its own publication only) *)
(* or its producer was told that it could not be shown.                    *)
(***************************************************************************)
EXTENDS Naturals, Sequences

CONSTANTS
    Event,     \* the events a producer can hand over; `by' names the producer
    Producers,
    Silent     \* the producers whose events may be passed unshown

VARIABLES
    log,     \* the accepted events, in acceptance order
    passed,  \* how many of them the feed has passed
    feed,    \* the events shown live, in the order they were shown
    failed   \* the producers that were told their accepted event is not shown

vars == <<log, passed, feed, failed>>

Init == log = <<>> /\ passed = 0 /\ feed = <<>> /\ failed = {}

\* An accepted event takes the next place in the order.
Accept(e) ==
    /\ log' = Append(log, e)
    /\ UNCHANGED <<passed, feed, failed>>

\* A producer is told, before the feed has passed its event.
Fail(p) ==
    /\ \E i \in passed + 1 .. Len(log) : log[i].by = p
    /\ failed' = failed \cup {p}
    /\ UNCHANGED <<log, passed, feed>>

Excused(e) == e.by \in Silent \cup failed

\* The feed moves on to the event n and shows it or not.
Pass ==
    \E n \in passed + 1 .. Len(log) :
        /\ passed' = n
        /\ \A i \in passed + 1 .. n - 1 : Excused(log[i])
        /\ \/ feed' = Append(feed, log[n])
           \/ Excused(log[n]) /\ UNCHANGED feed
        /\ UNCHANGED <<log, failed>>

Next == (\E e \in Event : Accept(e)) \/ (\E p \in Producers : Fail(p)) \/ Pass

Spec == Init /\ [][Next]_vars
=============================================================================
