-------------------------- MODULE EventPublication --------------------------
(***************************************************************************)
(* Publication of canonical events: the EventStore's sequence and CHAT     *)
(* admission (internal/infrastructure/persistence/eventstore), the relay   *)
(* that shows events live (cmd/rencrow/runtime_event_relay.go) and the     *)
(* Viewer's CHAT admission with its synchronous fallback                   *)
(* (cmd/rencrow/runtime_tasks.go).                                         *)
(*                                                                         *)
(* An event of the CHAT that holds the lease is accepted in RAM, shown at  *)
(* once and written later; every other event is written first and shown    *)
(* by a drain of the durable log.  The two orders have to be one order.    *)
(* IdleChat may decline an event of its own at any moment, and a transient *)
(* event is shown by its own publication or never.                         *)
(*                                                                         *)
(* Emitters are calls of OnEvent, each with the trace of a CHAT or a       *)
(* foreign one.  Journals write an orchestrator event directly to the      *)
(* store and then ask the relay to publish what is committed.  The shared  *)
(* queue is reduced here to its FIFO, its refusals and its failed head;    *)
(* PersistenceQueue models it in full.  A drain reads its rows in pages,   *)
(* but what lies between its cursor and its watermark is fixed: the rows   *)
(* are taken here one by one.                                              *)
(***************************************************************************)
EXTENDS Integers, FiniteSets, SequencesExt

CONSTANTS
    Chats,      \* Viewer CHAT requests
    Emitters,   \* calls of OnEvent
    Journals,   \* direct writers that call PublishCommitted afterwards
    TraceOf,    \* the trace of each emitter: a CHAT, or None for a foreign one
    Gated,      \* the emitters whose event belongs to the IdleChat timeline
    Transient,  \* the writers whose event is of a type IsTransientReplayEvent names
    None,       \* no CHAT, nobody
    MaxHist     \* EventHub.maxHist, the size of the accepted tail

Writers == Emitters \cup Journals

\* A run makes finitely many calls, and a writer is one call.
ASSUME PublicationAssumption ==
    /\ IsFiniteSet(Emitters) /\ IsFiniteSet(Journals)
    /\ Emitters \cap Journals = {}
    /\ Chats \cap Writers = {}
    /\ None \notin Chats \cup Writers
    /\ TraceOf \in [Emitters -> Chats \cup {None}]
    /\ Gated \subseteq Emitters /\ Transient \subseteq Writers
    /\ MaxHist \in Nat \ {0}

VARIABLES
    \* EventStore
    last,        \* eventSeqAllocator.last
    lease,       \* the CHAT that holds chatLease, or None
    waiting,     \* waitingSyncSequenceWrites
    pending,     \* pendingSyncSequenceWrites
    queue,       \* accepted commands, the worker's one first
    applied,     \* the worker has committed the head and not finished it
    failed,      \* the queue's head failed: nothing is written any more
    stored,      \* the durable orchestrator events, in commit order
    highWater,   \* committedOrchestratorHighWater
    \* relay and hub
    mu,          \* who holds publicationMu
    binding,     \* chatBinding: the CHAT bound to the relay, or None
    scope,       \* chatTraceScopes
    liveCursor,  \* livePublicationCursor, the last event shown or passed
    cursor,      \* publicationCursor
    through,     \* the watermark of the drain in progress, 0 before its first read
    feed,        \* history: the events shown live
    tail,        \* EventHub.acceptedTail
    gap,         \* EventHub.acceptedGap, 0 when none
    \* callers
    chat,        \* where each CHAT request is
    barrier,     \* the EventSeq the CHAT's barrier waits for
    pc,          \* where each writer is
    seen,        \* the binding an emitter read before it locked anything
    cancelled    \* journals whose context has ended

admissionVars == <<last, lease, waiting, pending, queue>>
diskVars == <<applied, failed, stored, highWater>>
storeVars == <<admissionVars, diskVars>>
bindVars == <<binding, scope>>
showVars == <<liveCursor, cursor, through, feed, tail, gap>>
relayVars == <<mu, bindVars, showVars>>
requestVars == <<chat, barrier, seen, cancelled>>
callerVars == <<requestVars, pc>>
vars == <<storeVars, relayVars, callerVars>>

\* Each writer hands over one event, so no EventSeq exceeds their number.
Event == [seq : 1..Cardinality(Writers), by : Writers]

\* chat names the lease the command was accepted under; None when a caller waits.
Command == [event : Event, chat : Chats \cup {None}]

Bound == {"bound", "barrier", "drained", "marked", "barrier again", "leaving"}
Gone == {"done", "refused", "cancelled", "out of order", "unshown"}

TypeOK ==
    /\ last \in Nat
    /\ lease \in Chats \cup {None}
    /\ waiting \in Nat
    /\ pending \in Nat
    /\ queue \in Seq(Command)
    /\ applied \in BOOLEAN
    /\ failed \in BOOLEAN
    /\ stored \in Seq(Event)
    /\ highWater \in Nat
    /\ mu \in Writers \cup {None}
    /\ binding \in Chats \cup {None}
    /\ scope \in [Chats -> {"unbound", "admitted", "synchronous"}]
    /\ liveCursor \in Nat
    /\ cursor \in Nat
    /\ through \in Nat
    /\ feed \in Seq(Event)
    /\ tail \in Seq(Event)
    /\ gap \in Nat
    /\ chat \in [Chats -> Bound \cup {"new", "refused", "released", "fallen back"}]
    /\ barrier \in [Chats -> Nat]
    /\ pc \in [Writers -> Gone \cup {"start", "parked", "admit", "publish", "lock",
                                     "append", "waiting", "queued", "stored", "drain"}]
    /\ seen \in [Emitters -> Chats \cup {None}]
    /\ cancelled \subseteq Journals

Init ==
    /\ last = 0 /\ lease = None /\ waiting = 0 /\ pending = 0
    /\ queue = <<>> /\ applied = FALSE /\ failed = FALSE
    /\ stored = <<>> /\ highWater = 0
    /\ mu = None /\ binding = None
    /\ scope = [c \in Chats |-> "unbound"]
    /\ liveCursor = 0 /\ cursor = 0 /\ through = 0
    /\ feed = <<>> /\ tail = <<>> /\ gap = 0
    /\ chat = [c \in Chats |-> "new"]
    /\ barrier = [c \in Chats |-> 0]
    /\ pc = [w \in Writers |-> IF w \in Emitters THEN "start" ELSE "append"]
    /\ seen = [e \in Emitters |-> None]
    /\ cancelled = {}

Move(w, at) == pc' = [pc EXCEPT ![w] = at]

\* The elements of s that are in T, in their order.
Kept(s, T) ==
    LET kept[n \in 0 .. Len(s)] ==
          IF n = 0 THEN <<>>
          ELSE IF s[n] \in T THEN Append(kept[n - 1], s[n]) ELSE kept[n - 1]
    IN  kept[Len(s)]
-----------------------------------------------------------------------------
(* The shared queue and its worker.                                        *)

\* One event takes the next EventSeq and its command the next place: both
\* under sequenceAdmissionMu.  A refused enqueue gives the number back.
Enqueue(w, c) ==
    /\ queue' = Append(queue, [event |-> [seq |-> last + 1, by |-> w], chat |-> c])
    /\ last' = last + 1

Head1 == queue[1]

\* The event reaches SQLite, and with it the committed high water.
WorkerCommit ==
    /\ queue # <<>> /\ ~failed /\ ~applied
    /\ Head1.event.by \notin cancelled
    /\ stored' = Append(stored, Head1.event)
    /\ highWater' = Head1.event.seq
    /\ applied' = TRUE
    /\ UNCHANGED <<admissionVars, failed, relayVars, callerVars>>

\* The command leaves the queue; a waiting caller gets its result.
Finish(at) ==
    /\ queue' = Tail(queue)
    /\ IF Head1.chat = None
       THEN /\ pending' = pending - 1
            /\ IF pc[Head1.event.by] = "queued" THEN Move(Head1.event.by, at) ELSE UNCHANGED pc
       ELSE UNCHANGED <<pending, pc>>

WorkerFinish ==
    /\ applied
    /\ Finish("stored")
    /\ applied' = FALSE
    /\ UNCHANGED <<last, lease, waiting, failed, stored, highWater, relayVars, requestVars>>

\* A synchronous command may be skipped, its caller's context having ended, or
\* answered with an error of its own (a constraint, a conflict): no row, a gap
\* in the sequence.  An emitter that gets the error unlocks and returns it.
WorkerSkip ==
    /\ queue # <<>> /\ ~failed /\ ~applied
    /\ Head1.chat = None
    /\ Finish("refused")
    /\ mu' = IF mu = Head1.event.by THEN None ELSE mu
    /\ UNCHANGED <<last, lease, waiting, diskVars, bindVars, showVars, requestVars>>

\* A storage failure of any command, or any error of an accepted CHAT append.
WorkerFail ==
    /\ queue # <<>> /\ ~failed /\ ~applied
    /\ Head1.event.by \notin cancelled
    /\ failed' = TRUE
    /\ UNCHANGED <<admissionVars, applied, stored, highWater, relayVars, callerVars>>

Worker == WorkerCommit \/ WorkerFinish \/ WorkerSkip \/ WorkerFail
-----------------------------------------------------------------------------
(* enqueueOrderedWrite: the synchronous writers of the EventStore.  An     *)
(* emitter arrives with publicationMu held, a journal with nothing.        *)

Arriving(w) ==
    \/ pc[w] = "append"
    \/ pc[w] = "waiting" /\ (lease = None \/ w \in cancelled)

\* Variant: a writer that never waited gives up a place as well.
StopsWaitingAlways(w) == waiting' = waiting - 1

\* What the writer gives up of waitingSyncSequenceWrites when it stops waiting.
StopsWaiting(w) == waiting' = IF pc[w] = "waiting" THEN waiting - 1 ELSE waiting

\* Variant: an emitter whose write is refused returns with publicationMu held.
StillLocked(w) == mu

\* publicationMu is released by an emitter that returns, never by a journal.
Unlocked(w) == IF mu = w THEN None ELSE mu

SyncCancelled(w) ==
    /\ Arriving(w)
    /\ w \in cancelled
    /\ StopsWaiting(w)
    /\ Move(w, "cancelled")
    /\ UNCHANGED <<last, lease, pending, queue, diskVars, relayVars, requestVars>>

SyncWait(w) ==
    /\ pc[w] = "append"
    /\ w \notin cancelled
    /\ lease # None
    /\ waiting' = waiting + 1
    /\ Move(w, "waiting")
    /\ UNCHANGED <<last, lease, pending, queue, diskVars, relayVars, requestVars>>

\* The write carries the admission of the lease itself: ErrChatLeaseActive.
SyncOwnLease(j) ==
    /\ pc[j] \in {"append", "waiting"}
    /\ j \in Journals \ cancelled
    /\ lease # None
    /\ StopsWaiting(j)
    /\ Move(j, "refused")
    /\ UNCHANGED <<last, lease, pending, queue, diskVars, relayVars, requestVars>>

SyncEnqueue(w) ==
    /\ Arriving(w)
    /\ w \notin cancelled
    /\ lease = None
    /\ ~failed
    /\ StopsWaiting(w)
    /\ Enqueue(w, None)
    /\ pending' = pending + 1
    /\ Move(w, "queued")
    /\ UNCHANGED <<lease, diskVars, relayVars, requestVars>>

\* Variant: the refusal also gives back the number reserved before it.
SyncRefusedTwiceRolledBack(w) ==
    /\ Arriving(w)
    /\ w \notin cancelled
    /\ lease = None
    /\ StopsWaiting(w)
    /\ mu' = Unlocked(w)
    /\ Move(w, "refused")
    /\ last' = IF last > 0 THEN last - 1 ELSE last
    /\ UNCHANGED <<lease, pending, queue, diskVars, bindVars, showVars, requestVars>>

\* The queue is full, closed or failed: the reserved number is given back.
SyncRefused(w) ==
    /\ Arriving(w)
    /\ w \notin cancelled
    /\ lease = None
    /\ StopsWaiting(w)
    /\ mu' = Unlocked(w)
    /\ Move(w, "refused")
    /\ UNCHANGED <<last, lease, pending, queue, diskVars, bindVars, showVars, requestVars>>

\* Queue.Wait returns the failure to the caller of a command that was not reached.
SyncFailed(w) ==
    /\ pc[w] = "queued"
    /\ failed
    /\ mu' = Unlocked(w)
    /\ Move(w, "refused")
    /\ UNCHANGED <<storeVars, bindVars, showVars, requestVars>>

\* A journal's context ends.  Parked on the lease it goes round its loop again;
\* in Queue.Wait it returns and leaves its command behind.
Cancel(j) ==
    /\ j \notin cancelled
    /\ pc[j] \in {"append", "waiting", "queued"}
    /\ cancelled' = cancelled \cup {j}
    /\ IF pc[j] = "queued" THEN Move(j, "cancelled") ELSE UNCHANGED pc
    /\ UNCHANGED <<storeVars, relayVars, chat, barrier, seen>>

Synchronous(w) ==
    \/ SyncCancelled(w) \/ SyncWait(w) \/ SyncOwnLease(w) \/ SyncEnqueue(w)
    \/ SyncRefused(w) \/ SyncFailed(w)
-----------------------------------------------------------------------------
(* OnEvent.                                                                *)

OfBound(e) == binding # None /\ binding = TraceOf[e]

\* What OnEvent does next, from the binding and the scope it reads.
Route(e) ==
    IF binding = None THEN "lock"
    ELSE IF OfBound(e) /\ scope[binding] = "admitted" THEN "admit" ELSE "parked"

\* A CHAT's events begin with its request.
Begun(e) == TraceOf[e] # None => chat[TraceOf[e]] # "new"

EmitterRead(e) ==
    /\ pc[e] = "start"
    /\ Begun(e)
    /\ seen' = [seen EXCEPT ![e] = binding]
    /\ Move(e, Route(e))
    /\ UNCHANGED <<storeVars, relayVars, chat, barrier, cancelled>>

\* binding.done is closed by the release of the binding that was read.
EmitterUnpark(e) ==
    /\ pc[e] = "parked"
    /\ binding # seen[e]
    /\ Move(e, "start")
    /\ UNCHANGED <<storeVars, relayVars, requestVars>>

\* Under publicationMu the binding and the scope are read again.
EmitterReadAgain(e) ==
    /\ mu = None
    /\ \/ pc[e] = "lock" /\ binding # None /\ Move(e, "start")
       \/ pc[e] = "admit" /\ binding # seen[e] /\ Move(e, "start")
       \/ /\ pc[e] = "admit" /\ binding = seen[e]
          /\ scope[binding] = "synchronous"
          /\ Move(e, "parked")
    /\ UNCHANGED <<storeVars, relayVars, requestVars>>

\* Variant: the scope read before the lock is trusted under it.
StillAdmittedUnchecked(e) == pc[e] = "admit" /\ binding = seen[e]

StillAdmitted(e) == pc[e] = "admit" /\ binding = seen[e] /\ scope[binding] = "admitted"

\* AdmitSequenced: the event is accepted under the CHAT's lease, and the relay
\* keeps publicationMu until it is shown.
EmitterAdmit(e) ==
    /\ mu = None
    /\ StillAdmitted(e)
    /\ lease = TraceOf[e]
    /\ ~failed
    /\ Enqueue(e, lease)
    /\ mu' = e
    /\ Move(e, "publish")
    /\ UNCHANGED <<lease, waiting, pending, diskVars, bindVars, showVars, requestVars>>

\* AdmitSequenced fails: no lease, a queue that failed, no room left in the
\* reservation, an ended context.  OnEvent returns the error.
EmitterRefused(e) ==
    /\ mu = None
    /\ StillAdmitted(e)
    /\ Move(e, "refused")
    /\ UNCHANGED <<storeVars, relayVars, requestVars>>

\* IdleChat has moved on: its event is dropped before it is accepted.
EmitterDeclined(e) ==
    /\ e \in Gated
    /\ \/ pc[e] \in {"start", "parked"}
       \/ pc[e] \in {"admit", "lock"} /\ mu = None
    /\ Move(e, "done")
    /\ UNCHANGED <<storeVars, relayVars, requestVars>>

\* The one event of an emitter, accepted or already written.
Accepted(e) == CHOOSE ev \in ToSet(stored) \cup {queue[i].event : i \in DOMAIN queue} : ev.by = e

\* Variant: the tail drops its oldest event without a word.
RetainSilently(ev) ==
    /\ tail' = IF Len(tail) < MaxHist THEN Append(tail, ev) ELSE Append(Tail(tail), ev)
    /\ gap' = gap

\* EventHub.retainAcceptedLocked.
Retain(ev) ==
    /\ tail' = IF Len(tail) < MaxHist THEN Append(tail, ev) ELSE Append(Tail(tail), ev)
    /\ gap' = IF Len(tail) < MaxHist THEN gap ELSE Head(tail).seq

\* The accepted event is shown before its row exists; or its owner declines it
\* and the live cursor passes it; or the hub fails, or a claim is lost, and the
\* error is returned with the cursor where it was.  The relay and the hub refuse
\* an event that does not follow the live cursor.
EmitterPublish(e) ==
    LET ev == Accepted(e)
    IN  /\ pc[e] = "publish"
        /\ mu' = None
        /\ \/ /\ ev.seq > liveCursor
              /\ Retain(ev)
              /\ feed' = Append(feed, ev)
              /\ liveCursor' = ev.seq
              /\ Move(e, "done")
           \/ /\ ev.seq > liveCursor
              /\ e \in Gated
              /\ liveCursor' = ev.seq
              /\ Move(e, "done")
              /\ UNCHANGED <<feed, tail, gap>>
           \/ /\ ev.seq > liveCursor
              /\ Move(e, "unshown")
              /\ UNCHANGED <<liveCursor, feed, tail, gap>>
           \/ /\ ev.seq <= liveCursor
              /\ Move(e, "out of order")
              /\ UNCHANGED <<liveCursor, feed, tail, gap>>
        /\ UNCHANGED <<storeVars, bindVars, cursor, through, requestVars>>

\* The durable path: publicationMu is kept across the write and the drain.
EmitterLock(e) ==
    /\ pc[e] = "lock"
    /\ mu = None
    /\ binding = None
    /\ mu' = e
    /\ Move(e, "append")
    /\ UNCHANGED <<storeVars, bindVars, showVars, requestVars>>

OnEvent(e) ==
    \/ EmitterRead(e) \/ EmitterUnpark(e) \/ EmitterReadAgain(e)
    \/ EmitterAdmit(e) \/ EmitterRefused(e) \/ EmitterDeclined(e)
    \/ EmitterPublish(e) \/ EmitterLock(e)
-----------------------------------------------------------------------------
(* The canonical drain: replay the durable log after the relay's cursor.   *)

\* An emitter already holds publicationMu; PublishCommitted locks it, only
\* while no CHAT is bound.
DrainBegin(w) ==
    /\ pc[w] = "stored"
    /\ mu = w \/ (w \in Journals /\ mu = None /\ binding = None)
    /\ mu' = w
    /\ through' = 0
    /\ Move(w, "drain")
    /\ UNCHANGED <<storeVars, bindVars, liveCursor, cursor, feed, tail, gap, requestVars>>

Watermark == IF through = 0 THEN Max({0} \cup {ev.seq : ev \in ToSet(stored)}) ELSE through

\* ReplayPage: the rows after the cursor, up to the watermark.
Undrained == {ev \in ToSet(stored) : ev.seq > cursor /\ ev.seq <= Watermark}
NextRow == CHOOSE ev \in Undrained : \A other \in Undrained : ev.seq <= other.seq

\* The length of the leading run of the tail that is durable through seq.
FirstRetained(seq) == Max({n \in 0 .. Len(tail) : \A i \in 1 .. n : tail[i].seq <= seq})

\* EventHub.MarkDurable.
Retire(seq) ==
    /\ tail' = SubSeq(tail, FirstRetained(seq) + 1, Len(tail))
    /\ gap' = IF gap <= seq THEN 0 ELSE gap

\* The row has been passed, or is transient and not the drain's own.
Skipped(w, ev) == ev.seq <= liveCursor \/ (ev.by \in Transient /\ ev.by # w)

\* IdleChat has moved on since this drain's own event was written.
OwnDeclined(w, ev) == ev.by = w /\ w \in Gated

\* One row is shown or not, and passed in any case.
DrainRow(w) ==
    /\ pc[w] = "drain"
    /\ Undrained # {}
    /\ \/ ~Skipped(w, NextRow) /\ feed' = Append(feed, NextRow)
       \/ (Skipped(w, NextRow) \/ OwnDeclined(w, NextRow)) /\ UNCHANGED feed
    /\ cursor' = NextRow.seq
    /\ liveCursor' = IF NextRow.seq > liveCursor THEN NextRow.seq ELSE liveCursor
    /\ Retire(NextRow.seq)
    /\ IF NextRow.seq >= Watermark
       THEN mu' = None /\ through' = 0 /\ Move(w, "done")
       ELSE through' = Watermark /\ UNCHANGED <<mu, pc>>
    /\ UNCHANGED <<storeVars, bindVars, requestVars>>

\* Nothing after the cursor; or an error, of the log, of the hub, or of the ended
\* context of PublishCommitted, which leaves the cursors at the last row passed.
DrainStop(w) ==
    /\ pc[w] = "drain"
    /\ mu' = None
    /\ through' = 0
    /\ Move(w, "done")
    /\ UNCHANGED <<storeVars, bindVars, liveCursor, cursor, feed, tail, gap, requestVars>>

Drain(w) == DrainBegin(w) \/ DrainRow(w) \/ DrainStop(w)
-----------------------------------------------------------------------------
(* The CHAT request: BindChat, the synchronous fallback, the release.      *)

Unpublished == highWater > liveCursor

\* Variant: a lease may begin while synchronous writes are in the queue.
LeaseFreeOvertaking == lease = None /\ waiting = 0 /\ ~failed

\* TryBeginChat.
LeaseFree == lease = None /\ pending = 0 /\ waiting = 0 /\ ~failed

\* Variant: BindChat does not compare the committed high water with the feed.
MayBindBlindly == mu = None /\ binding = None /\ LeaseFree

MayBind == mu = None /\ binding = None /\ LeaseFree /\ ~Unpublished

\* The lease and the binding are taken under publicationMu, by TryLock.
BindChat(c) ==
    /\ chat[c] = "new"
    /\ MayBind
    /\ lease' = c
    /\ binding' = c
    /\ scope' = [scope EXCEPT ![c] = "admitted"]
    /\ chat' = [chat EXCEPT ![c] = "bound"]
    /\ UNCHANGED <<last, waiting, pending, queue, diskVars, mu, showVars, barrier, pc, seen, cancelled>>

\* Any refusal ends the admission: the CHAT goes on without a lease.
BindRefused(c) ==
    /\ chat[c] = "new"
    /\ ~MayBind
    /\ chat' = [chat EXCEPT ![c] = "refused"]
    /\ UNCHANGED <<storeVars, relayVars, barrier, pc, seen, cancelled>>

AcceptedFor(c) == {queue[i].event.seq : i \in {j \in DOMAIN queue : queue[j].chat = c}}

\* Admission.Barrier: wait for the last ticket accepted so far.
BarrierBegin(c) ==
    /\ \/ chat[c] = "bound" /\ chat' = [chat EXCEPT ![c] = "barrier"]
       \/ chat[c] = "marked" /\ chat' = [chat EXCEPT ![c] = "barrier again"]
    /\ barrier' = [barrier EXCEPT ![c] = Max({0} \cup AcceptedFor(c))]
    /\ UNCHANGED <<storeVars, relayVars, pc, seen, cancelled>>

BarrierPassed(c) == \A seq \in AcceptedFor(c) : seq > barrier[c]

BarrierDone(c) ==
    /\ chat[c] = "barrier"
    /\ BarrierPassed(c)
    /\ chat' = [chat EXCEPT ![c] = "drained"]
    /\ UNCHANGED <<storeVars, relayVars, barrier, pc, seen, cancelled>>

\* The queue failed or the fallback's context ended: the request is over.
BarrierFails(c) ==
    /\ chat[c] \in {"barrier", "barrier again"}
    /\ chat' = [chat EXCEPT ![c] = "leaving"]
    /\ UNCHANGED <<storeVars, relayVars, barrier, pc, seen, cancelled>>

MarkChatSynchronous(c) ==
    /\ chat[c] = "drained"
    /\ mu = None
    /\ scope' = [scope EXCEPT ![c] = "synchronous"]
    /\ chat' = [chat EXCEPT ![c] = "marked"]
    /\ UNCHANGED <<storeVars, mu, binding, showVars, barrier, pc, seen, cancelled>>

FallbackReady(c) == chat[c] = "barrier again" /\ BarrierPassed(c)

\* The binding, its scope and the lease go together, under publicationMu.
Release(c) ==
    /\ mu = None
    /\ binding' = None
    /\ scope' = [scope EXCEPT ![c] = "unbound"]
    /\ lease' = None
    /\ UNCHANGED <<last, waiting, pending, queue, diskVars, mu, showVars, barrier, pc, seen, cancelled>>

FallBack(c) ==
    /\ FallbackReady(c)
    /\ Release(c)
    /\ chat' = [chat EXCEPT ![c] = "fallen back"]

ReleaseChat(c) ==
    /\ chat[c] \in {"bound", "leaving"}
    /\ Release(c)
    /\ chat' = [chat EXCEPT ![c] = "released"]

Chat(c) ==
    \/ BindChat(c) \/ BindRefused(c) \/ BarrierBegin(c) \/ BarrierDone(c) \/ BarrierFails(c)
    \/ MarkChatSynchronous(c) \/ FallBack(c) \/ ReleaseChat(c)
-----------------------------------------------------------------------------
Next ==
    \/ Worker
    \/ \E w \in Writers : Synchronous(w) \/ Drain(w)
    \/ \E j \in Journals : Cancel(j)
    \/ \E e \in Emitters : OnEvent(e)
    \/ \E c \in Chats : Chat(c)

Spec == Init /\ [][Next]_vars

-----------------------------------------------------------------------------
(* Safety.                                                                 *)

\* The accepted order: what is durable, then the RAM-accepted events that the
\* worker has still to write.  A synchronous command joins it when it commits.
RamAccepted ==
    LET left == IF applied THEN Tail(queue) ELSE queue
        ram  == Kept(left, {cmd \in ToSet(left) : cmd.chat # None})
    IN [i \in 1..Len(ram) |-> ram[i].event]

Log == stored \o RamAccepted

\* How far the live cursor has come in it.
Passed == Cardinality({i \in DOMAIN Log : Log[i].seq <= liveCursor})

\* The emitters whose OnEvent returned the error of the publication.
Told == {w \in Writers : pc[w] = "unshown"}

Promise == INSTANCE OrderedFeed WITH
             log       <- Log,
             passed    <- Passed,
             failed    <- Told,
             Producers <- Writers,
             Silent    <- Gated \cup Transient

\* Two orders are one: events shown from RAM before their rows exist and events
\* shown by a drain of the durable log form one feed that goes along the accepted
\* order, although leases, drains and the worker interleave; it passes an event
\* unshown only if IdleChat may decline it, if it is transient, or if its producer
\* got the error of its publication, and never shows it later
\* (runtime_event_relay.go, BindChat, OnEvent and the drain).
RefinesOrderedFeed == Promise!Spec

\* EventSeq order is commit order: a reader that pages by EventSeq past a
\* cursor can never miss a row committed later under a smaller number.
CommittedInSequence ==
    \A i, j \in DOMAIN stored : i < j => stored[i].seq < stored[j].seq

\* While a CHAT holds the lease no synchronous write is in the queue, so none
\* can commit behind an event the feed has already shown.
LeaseExcludesSynchronous ==
    lease # None => \A i \in DOMAIN queue : queue[i].chat # None

\* The counters TryBeginChat decides on count exactly the writers they stand
\* for, through cancellations, refusals and errors of any of them.
Outstanding == {i \in DOMAIN queue : queue[i].chat = None}
SyncCountsExact ==
    /\ pending = Cardinality(Outstanding)
    /\ waiting = Cardinality({w \in Writers : pc[w] = "waiting"})

\* The hub's comment "FIFO EventStore commit order proves all earlier accepted
\* entries have also committed": every event shown is durable, or still in the
\* accepted tail, or covered by the gap a reconnecting client is told of.
ReplayCovers ==
    \A ev \in ToSet(feed) : ev \in ToSet(stored) \cup ToSet(tail) \/ ev.seq <= gap

\* When the fallback hands the request over to the durable path, every event
\* it had accepted in RAM is durable, one that raced its barriers included.
FallbackDrained == \A c \in Chats : chat[c] = "fallen back" => AcceptedFor(c) = {}
-----------------------------------------------------------------------------
(* Liveness.                                                               *)

\* The worker goroutine and every caller keep running; a CHAT request ends.
\* Contexts need not end and storage need not fail.
Fairness ==
    /\ WF_vars(Worker)
    /\ \A j \in Journals : WF_vars(Synchronous(j) \/ Drain(j))
    /\ \A e \in Emitters : WF_vars(OnEvent(e) \/ Synchronous(e) \/ Drain(e))
    /\ \A c \in Chats : WF_vars(Chat(c))

FairSpec == Spec /\ Fairness

\* Nobody waits for ever on a lease, a binding, the publication mutex or the
\* queue: every writer returns to its caller.
WritersReturn == <>(\A w \in Writers : pc[w] \in Gone)
=============================================================================
