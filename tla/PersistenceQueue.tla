-------------------------- MODULE PersistenceQueue --------------------------
(***************************************************************************)
(* The shared single-writer persistence queue of CORE                      *)
(* (internal/application/persistencequeue): a bounded FIFO of commands     *)
(* with capacity reservations, one worker goroutine that writes the head,  *)
(* tickets that callers wait on, and a draining shutdown.                  *)
(*                                                                         *)
(* Requests hold an Admission (a reservation plus its counters) and use it *)
(* for write-behind; Writers enqueue without a reservation and wait for    *)
(* their own ticket.  Every action is one critical section of Queue.mu (an *)
(* admission's calls also hold Admission.mu, which only they take).  The   *)
(* condition variable q.ready and the broadcast channel q.changed are      *)
(* modelled by who is parked on them, so a missing signal shows.           *)
(***************************************************************************)
EXTENDS Integers, Sequences, FiniteSetsExt

CONSTANTS
    Requests,      \* callers of Admit, each with one Admission
    Writers,       \* callers of Queue.Enqueue that wait for their ticket
    Capacity,      \* Queue.capacity
    ByteCapacity,  \* Queue.byteCapacity
    Sizes,         \* the command sizes callers account for
    MaxSequence    \* math.MaxUint64, made small

ASSUME QueueAssumption ==
    /\ Capacity \in Nat \ {0}
    /\ ByteCapacity \in Nat \ {0}
    /\ Sizes \subseteq Nat \ {0}
    /\ MaxSequence \in Nat \ {0}
    /\ Requests \cap Writers = {}

\* Without it the sums of AccountingExact mean nothing.
ASSUME RequestsAssumption == IsFiniteSet(Requests)

VARIABLES
    items,              \* accepted commands the worker has not finished
    reservations,       \* what each request's reservation still holds
    reserved,           \* Queue.reserved
    pendingBytes,       \* Queue.pendingBytes
    reservedBytes,      \* Queue.reservedBytes
    accepting,          \* Queue.accepting
    lastSequence,       \* Queue.lastSequence
    completedSequence,  \* Queue.completedSequence
    failure,            \* sequence of the failed command, 0 when none
    worker,             \* where run() is
    admission,          \* the Admission of each request
    wait,               \* the Wait call each caller is in, or its last result
    closing,            \* the Shutdown call
    written             \* history: the commands the writer applied, in order

queueVars == <<items, reservations, reserved, pendingBytes, reservedBytes,
               accepting, lastSequence, completedSequence, failure>>
vars == <<queueVars, worker, admission, wait, closing, written>>

Waiters == Requests \cup Writers

Command == [sequence : 1..MaxSequence, sizeBytes : Sizes, from : Waiters]

Holding == [count : Nat, bytesLeft : Nat]
NoReservation == [count |-> 0, bytesLeft |-> 0]

AdmissionRecord == [state      : {"none", "open", "released"},
                    remaining  : Nat,
                    lastTicket : 0..MaxSequence]

InWait == {"check", "parked"}
WaitRecord == [state  : InWait \cup {"idle", "ok", "failed", "unknown", "cancelled"},
               ticket : 0..MaxSequence]

TypeOK ==
    /\ items \in Seq(Command)
    /\ reservations \in [Requests -> Holding]
    /\ reserved \in Int
    /\ pendingBytes \in Int
    /\ reservedBytes \in Int
    /\ accepting \in BOOLEAN
    /\ lastSequence \in 0..MaxSequence
    /\ completedSequence \in 0..MaxSequence
    /\ failure \in 0..MaxSequence
    /\ worker \in {"top", "parked", "writing", "done"}
    /\ admission \in [Requests -> AdmissionRecord]
    /\ wait \in [Waiters -> WaitRecord]
    /\ closing \in {"idle", "waiting", "ok", "failed", "timeout"}
    /\ written \in Seq(Command)

Init ==
    /\ items = <<>>
    /\ reservations = [r \in Requests |-> NoReservation]
    /\ reserved = 0
    /\ pendingBytes = 0
    /\ reservedBytes = 0
    /\ accepting = TRUE
    /\ lastSequence = 0
    /\ completedSequence = 0
    /\ failure = 0
    /\ worker = "top"
    /\ admission = [r \in Requests |->
                      [state |-> "none", remaining |-> 0, lastTicket |-> 0]]
    /\ wait = [w \in Waiters |-> [state |-> "idle", ticket |-> 0]]
    /\ closing = "idle"
    /\ written = <<>>
-----------------------------------------------------------------------------
(* Signalling.                                                             *)

\* notifyChangedLocked: every parked Wait re-examines the queue.
Woken == [w \in Waiters |->
            IF wait[w].state = "parked" THEN [wait[w] EXCEPT !.state = "check"]
                                        ELSE wait[w]]

\* q.ready.Signal and q.ready.Broadcast: only the worker waits on q.ready.
WorkerReadied == IF worker = "parked" THEN "top" ELSE worker

\* Variant: an accepted command takes the next number even after the last one.
PushWrapping(w, s) ==
    /\ items' = Append(items, [sequence |-> lastSequence + 1, sizeBytes |-> s, from |-> w])
    /\ pendingBytes' = pendingBytes + s
    /\ lastSequence' = lastSequence + 1
    /\ worker' = WorkerReadied

\* One accepted command takes the next sequence number.
Push(w, s) ==
    /\ lastSequence < MaxSequence
    /\ items' = Append(items, [sequence |-> lastSequence + 1, sizeBytes |-> s, from |-> w])
    /\ pendingBytes' = pendingBytes + s
    /\ lastSequence' = lastSequence + 1
    /\ worker' = WorkerReadied
-----------------------------------------------------------------------------
(* Admission and reservation.                                              *)

\* Variant: reservations are not counted against the slots.
FreeSlotsIgnoringReserved == Capacity - Len(items)

FreeSlots == Capacity - Len(items) - reserved
FreeBytes == ByteCapacity - pendingBytes - reservedBytes

\* Queue.Reserve, with the reservation named by the request that holds it.
Reserve(r, n, b) ==
    /\ failure = 0
    /\ accepting
    /\ n <= FreeSlots
    /\ b <= FreeBytes
    /\ reservations' = [reservations EXCEPT ![r] = [count |-> n, bytesLeft |-> b]]
    /\ reserved' = reserved + n
    /\ reservedBytes' = reservedBytes + b
    /\ wait' = Woken

Admit(r, n, b) ==
    /\ admission[r].state = "none"
    /\ Reserve(r, n, b)
    /\ admission' = [admission EXCEPT ![r].state = "open", ![r].remaining = n]
    /\ UNCHANGED <<items, pendingBytes, accepting, lastSequence,
                   completedSequence, failure, worker, closing, written>>

\* Queue.Enqueue; its callers go on to wait for the ticket it returns.
Enqueue(w, s) ==
    /\ wait[w].state \notin InWait
    /\ failure = 0
    /\ accepting
    /\ Len(items) + reserved < Capacity
    /\ s <= FreeBytes
    /\ Push(w, s)
    /\ wait' = [Woken EXCEPT ![w] = [state |-> "check", ticket |-> lastSequence + 1]]
    /\ UNCHANGED <<reservations, reserved, reservedBytes, accepting,
                   completedSequence, failure, admission, closing, written>>

\* Variant: the last command of a reservation returns only its own bytes.
UsedKeepingBytes(res, s) ==
    [count |-> res.count - 1, bytesLeft |-> res.bytesLeft - s]

\* What a reservation holds after one of its commands is accepted: the last
\* command returns the bytes the reservation did not use.
Used(res, s) ==
    IF res.count = 1 THEN NoReservation
                     ELSE [count |-> res.count - 1, bytesLeft |-> res.bytesLeft - s]

\* Queue.EnqueueReserved: no capacity test and no accepting test, the
\* reservation already holds the slot and the bytes.
EnqueueReserved(r, s) ==
    LET res == reservations[r]
    IN  /\ res.count > 0
        /\ failure = 0
        /\ s <= res.bytesLeft
        /\ Push(r, s)
        /\ reserved' = reserved - 1
        /\ reservedBytes' = reservedBytes - (res.bytesLeft - Used(res, s).bytesLeft)
        /\ reservations' = [reservations EXCEPT ![r] = Used(res, s)]
        /\ wait' = Woken

AdmissionEnqueue(r, s) ==
    /\ admission[r].state = "open"
    /\ EnqueueReserved(r, s)
    /\ admission' = [admission EXCEPT ![r].remaining = @ - 1,
                                      ![r].lastTicket = lastSequence + 1]
    /\ UNCHANGED <<accepting, completedSequence, failure, closing, written>>

\* Variant: cancelling does not wake the worker.
CancelReservationSilently(r) ==
    /\ reservations' = [reservations EXCEPT ![r] = NoReservation]
    /\ reserved' = reserved - reservations[r].count
    /\ reservedBytes' = reservedBytes - reservations[r].bytesLeft
    /\ wait' = Woken
    /\ UNCHANGED worker

\* Queue.CancelReservation: the unused slots and bytes go back to the queue,
\* and a worker draining for shutdown is told to look again.
CancelReservation(r) ==
    /\ reservations' = [reservations EXCEPT ![r] = NoReservation]
    /\ reserved' = reserved - reservations[r].count
    /\ reservedBytes' = reservedBytes - reservations[r].bytesLeft
    /\ worker' = WorkerReadied
    /\ wait' = Woken

Release(r) ==
    /\ admission[r].state = "open"
    /\ admission' = [admission EXCEPT ![r].state = "released", ![r].remaining = 0]
    /\ IF admission[r].remaining = 0
         THEN UNCHANGED <<reservations, reserved, reservedBytes, worker, wait>>
         ELSE CancelReservation(r)
    /\ UNCHANGED <<items, pendingBytes, accepting, lastSequence,
                   completedSequence, failure, closing, written>>
-----------------------------------------------------------------------------
(* Waiting for tickets.                                                    *)

\* Variant: the failure is reported even for a command written before it.
WaitOutcomeFailureFirst(t) ==
    CASE t = 0 \/ t > lastSequence -> "unknown"
      [] t \in 1..lastSequence /\ failure # 0 -> "failed"
      [] t \in 1..completedSequence /\ failure = 0 -> "ok"
      [] OTHER -> "parked"

\* What one pass of Wait's loop finds under Queue.mu.
WaitOutcome(t) ==
    CASE t = 0 \/ t > lastSequence -> "unknown"
      [] t \in 1..completedSequence -> "ok"
      [] t > completedSequence /\ t <= lastSequence /\ failure # 0 -> "failed"
      [] OTHER -> "parked"

\* Admission.Barrier reads lastTicket under Admission.mu and waits outside
\* it: commands accepted after this step are not covered.  It still works
\* after Release, and returns at once when nothing was accepted.
BarrierBegin(r) ==
    /\ admission[r].state # "none"
    /\ wait[r].state \notin InWait
    /\ wait' = [wait EXCEPT ![r] =
                  [state  |-> IF admission[r].lastTicket = 0 THEN "ok" ELSE "check",
                   ticket |-> admission[r].lastTicket]]
    /\ UNCHANGED <<queueVars, worker, admission, closing, written>>

\* One pass of Wait: a result, or parking on the channel read under the lock.
WaitPass(w) ==
    /\ wait[w].state = "check"
    /\ wait' = [wait EXCEPT ![w].state = WaitOutcome(wait[w].ticket)]
    /\ UNCHANGED <<queueVars, worker, admission, closing, written>>

\* The caller's context ends; Wait looks at it only when it has no result.
WaitCancel(w) ==
    /\ \/ wait[w].state = "parked"
       \/ wait[w].state = "check" /\ WaitOutcome(wait[w].ticket) = "parked"
    /\ wait' = [wait EXCEPT ![w].state = "cancelled"]
    /\ UNCHANGED <<queueVars, worker, admission, closing, written>>
-----------------------------------------------------------------------------
(* The worker goroutine, run().                                            *)

Idle == items = <<>> /\ (accepting \/ reserved > 0)
Drained == items = <<>> /\ ~accepting /\ reserved = 0

WorkerPark ==
    /\ worker = "top"
    /\ Idle
    /\ worker' = "parked"
    /\ UNCHANGED <<queueVars, admission, wait, closing, written>>

\* Variant: a shutting-down worker does not wait for reservations.
WorkerExitEarly ==
    /\ worker = "top"
    /\ items = <<>> /\ ~accepting
    /\ worker' = "done"
    /\ UNCHANGED <<queueVars, admission, wait, closing, written>>

WorkerExit ==
    /\ worker = "top"
    /\ ~Idle
    /\ failure # 0 \/ Drained
    /\ worker' = "done"
    /\ UNCHANGED <<queueVars, admission, wait, closing, written>>

WorkerTake ==
    /\ worker = "top"
    /\ items # <<>>
    /\ failure = 0
    /\ worker' = "writing"
    /\ UNCHANGED <<queueVars, admission, wait, closing, written>>

\* The writer returned nil: the head leaves the queue and is durable.
WorkerWritten ==
    /\ worker = "writing"
    /\ worker' = "top"
    /\ pendingBytes' = pendingBytes - Head(items).sizeBytes
    /\ items' = Tail(items)
    /\ completedSequence' = Head(items).sequence
    /\ written' = Append(written, Head(items))
    /\ wait' = Woken
    /\ UNCHANGED <<reservations, reserved, reservedBytes, accepting,
                   lastSequence, failure, admission, closing>>

\* Variant: the command that could not be written is dropped from the queue.
WorkerFailedDroppingHead ==
    /\ worker = "writing"
    /\ worker' = "done"
    /\ failure' = Head(items).sequence
    /\ accepting' = FALSE
    /\ items' = Tail(items)
    /\ wait' = Woken
    /\ UNCHANGED <<reservations, reserved, pendingBytes, reservedBytes,
                   lastSequence, completedSequence, admission, closing, written>>

\* The writer returned an error: the head stays, the queue closes for good.
WorkerFailed ==
    /\ worker = "writing"
    /\ worker' = "done"
    /\ failure' = Head(items).sequence
    /\ accepting' = FALSE
    /\ wait' = Woken
    /\ UNCHANGED <<items, reservations, reserved, pendingBytes, reservedBytes,
                   lastSequence, completedSequence, admission, closing, written>>
-----------------------------------------------------------------------------
(* Shutdown.                                                               *)

ShutdownBegin ==
    /\ closing \in {"idle", "timeout"}
    /\ closing' = "waiting"
    /\ accepting' = FALSE
    /\ IF accepting THEN worker' = WorkerReadied /\ wait' = Woken
                    ELSE UNCHANGED <<worker, wait>>
    /\ UNCHANGED <<items, reservations, reserved, pendingBytes, reservedBytes,
                   lastSequence, completedSequence, failure, admission, written>>

ShutdownReturn ==
    /\ closing = "waiting"
    /\ worker = "done"
    /\ closing' = IF failure = 0 THEN "ok" ELSE "failed"
    /\ UNCHANGED <<queueVars, worker, admission, wait, written>>

ShutdownTimeout ==
    /\ closing = "waiting"
    /\ closing' = "timeout"
    /\ UNCHANGED <<queueVars, worker, admission, wait, written>>
-----------------------------------------------------------------------------
Worker == WorkerPark \/ WorkerExit \/ WorkerTake \/ WorkerWritten \/ WorkerFailed

Next ==
    \/ \E r \in Requests :
          \/ \E n \in 1..Capacity, b \in 1..ByteCapacity : Admit(r, n, b)
          \/ \E s \in Sizes : AdmissionEnqueue(r, s)
          \/ Release(r)
          \/ BarrierBegin(r)
    \/ \E w \in Writers, s \in Sizes : Enqueue(w, s)
    \/ \E w \in Waiters : WaitPass(w) \/ WaitCancel(w)
    \/ Worker
    \/ ShutdownBegin \/ ShutdownReturn \/ ShutdownTimeout

Spec == Init /\ [][Next]_vars

(***************************************************************************)
(* Fairness: the worker goroutine is scheduled and every writer call       *)
(* returns; a Wait or Shutdown call that can take a step takes it; and the *)
(* owner of an admission releases it in the end (the Viewer handler defers *)
(* its release).  Nothing obliges a caller to admit, enqueue, begin a      *)
(* barrier, give up, or shut the queue down.                               *)
(***************************************************************************)
Fairness ==
    /\ WF_vars(Worker)
    /\ \A w \in Waiters : WF_vars(WaitPass(w))
    /\ \A r \in Requests : WF_vars(Release(r))
    /\ WF_vars(ShutdownReturn)

FairSpec == Spec /\ Fairness
-----------------------------------------------------------------------------
(* Properties.                                                             *)

\* The queue and the reservations together never hold more commands or more
\* bytes than its two capacities, although EnqueueReserved tests neither.
CapacityRespected ==
    /\ Len(items) + reserved <= Capacity
    /\ pendingBytes + reservedBytes <= ByteCapacity

\* The sum of the values of a function.
Total(f) == MapThenSumSet(LAMBDA x : f[x], DOMAIN f)

SizesOf(s) == [i \in DOMAIN s |-> s[i].sizeBytes]
Counts == [r \in Requests |-> reservations[r].count]
BytesLeft == [r \in Requests |-> reservations[r].bytesLeft]

\* The counters that Queue keeps beside its map and its slice, and the count
\* that Admission keeps beside its reservation, never drift from them: a
\* request that returns early, uses less than it reserved or releases late
\* leaks no capacity, and a used-up reservation keeps no bytes.
AccountingExact ==
    /\ reserved = Total(Counts)
    /\ reservedBytes = Total(BytesLeft)
    /\ pendingBytes = Total(SizesOf(items))
    /\ \A r \in Requests :
          /\ admission[r].remaining = reservations[r].count
          /\ reservations[r].count = 0 => reservations[r].bytesLeft = 0

\* A Wait or Barrier that returned nil means its command is durable, and one
\* that returned the queue's failure means its command is not: callers reply
\* to users, and refuse, on the strength of these two answers.
WaitTruthful ==
    \A w \in Waiters :
        LET durable == \E i \in DOMAIN written : written[i].sequence = wait[w].ticket
        IN  /\ wait[w].state = "ok" /\ wait[w].ticket # 0 => durable
            /\ wait[w].state = "failed" => ~durable
            /\ wait[w].state # "unknown"

\* When Shutdown returns nil every accepted command is durable and nothing
\* can be accepted any more, not even through a reservation; when it reports
\* the failure no write is running: the owners' stores may be closed.
DrainedMeansDurable ==
    /\ closing = "ok" =>
          /\ items = <<>> /\ ~accepting
          /\ Len(written) = lastSequence
          /\ \A r \in Requests : reservations[r].count = 0
    /\ closing \in {"ok", "failed"} => worker = "done"

\* The queue implements the write-behind log.
Log == INSTANCE WriteBehindLog WITH
         log     <- written \o items,
         durable <- Len(written),
         halted  <- failure # 0
ImplementsLog == Log!Spec

\* A Wait returns, and so does Shutdown once the holders of reservations have
\* released them: no signal of q.changed or of q.ready is missing.
CallersReturn ==
    /\ \A w \in Waiters : wait[w].state \in InWait ~> wait[w].state \notin InWait
    /\ closing = "waiting" ~> closing # "waiting"
=============================================================================
