---------------------------- MODULE TaskWriteQueue ----------------------------
(***************************************************************************)
(* The Task store's write-behind path                                      *)
(* (internal/infrastructure/persistence/task/admission.go, transaction.go, *)
(* index_store.go, index_build.go).                                        *)
(*                                                                         *)
(* An admitted transaction decides in RAM, on the committed index and the  *)
(* overlay of accepted, unwritten transactions; the shared queue writes it *)
(* later.  A synchronous one decides under the store's OS lock and waits   *)
(* for the overlay to be empty first.  Both are transactions of one store, *)
(* so every one must have decided on exactly what the log holds before it. *)
(*                                                                         *)
(* A transaction stands for its payload and for its caller.  The queue is  *)
(* reduced to its FIFO and its failed head (PersistenceQueue models it),   *)
(* the batch writer to the outcomes of a Write (JsonlBatch models it).     *)
(***************************************************************************)
EXTENDS Naturals, Sequences

CONSTANTS
    Admitted,  \* transactions admitted to the queue
    Writers,   \* synchronous transactions
    None       \* nobody

Transactions == Admitted \cup Writers

ASSUME TransactionAssumption ==
    /\ Admitted \cap Writers = {}
    /\ None \notin Transactions \cup {"worker"}
    /\ "worker" \notin Transactions

VARIABLES
    mu,        \* the admitted transaction that holds taskPersistence.mu, or None
    gate,      \* synchronousWriter: the writer that set it, or None
    pending,   \* the overlay: accepted transactions the store has not committed
    doomed,    \* the pending transaction whose applyErr is set, or None
    queue,     \* the Task commands of the shared queue, the worker's one first
    failed,    \* the queue's head failed: the worker has stopped
    worker,    \* where the worker is
    os,        \* the holder of the store's OS lock, or None
    disk,      \* the committed transactions, in the order of the log
    settled,   \* FALSE: the WAL holds a transaction without a commit record
    indexed,   \* how many of them the index has absorbed
    dirty,     \* taskIndex.dirty
    store,     \* the life of the store
    pc,        \* where each transaction is
    barrier,   \* the pending transactions a waiting writer saw
    overlay,   \* the overlay the holder of mu has copied
    basis      \* what each transaction decided on

queueVars == <<queue, failed>>
fileVars == <<disk, settled>>
indexVars == <<indexed, dirty>>
callVars == <<barrier, overlay, basis>>
vars == <<mu, gate, pending, doomed, queueVars, worker, os, fileVars, indexVars, store, pc, callVars>>

Ended == {"accepted", "written", "refused", "failed"}

\* Where a transaction can be.
Points == Ended \cup {"start", "entered", "overlay", "callback", "parked", "barrier", "gated",
                      "writing", "committed", "applied", "uncertain", "erred"}

TypeOK ==
    /\ mu \in Admitted \cup {None}
    /\ gate \in Writers \cup {None}
    /\ pending \in Seq(Admitted)
    /\ doomed \in Admitted \cup {None}
    /\ queue \in Seq(Admitted)
    /\ failed \in BOOLEAN
    /\ worker \in {"idle", "writing", "committed", "applied", "uncertain", "erred", "failing"}
    /\ os \in Writers \cup {"worker", None}
    /\ disk \in Seq(Transactions)
    /\ settled \in BOOLEAN
    /\ indexed \in 0..Len(disk)
    /\ dirty \in BOOLEAN
    /\ store \in {"open", "closing", "draining", "drained", "undrained", "closed", "closed undrained"}
    /\ pc \in [Transactions -> Points]
    /\ barrier \in [Writers -> SUBSET Admitted]
    /\ overlay \in Seq(Admitted)
    /\ basis \in [Transactions -> Seq(Transactions)]

Init ==
    /\ mu = None /\ gate = None
    /\ pending = <<>> /\ doomed = None
    /\ queue = <<>> /\ failed = FALSE /\ worker = "idle"
    /\ os = None
    /\ disk = <<>> /\ settled = TRUE
    /\ indexed = 0 /\ dirty = FALSE
    /\ store = "open"
    /\ pc = [t \in Transactions |-> "start"]
    /\ barrier = [w \in Writers |-> {}]
    /\ overlay = <<>>
    /\ basis = [t \in Transactions |-> <<>>]

\* signalLocked: a writer parked on the changed channel goes round its loop.
Woken == [t \in Transactions |-> IF pc[t] = "parked" THEN "entered" ELSE pc[t]]

Move(t, at) == pc' = [pc EXCEPT ![t] = at]
SignalAndMove(t, at) == pc' = [Woken EXCEPT ![t] = at]

\* What the index shows: the prefix of the log it has absorbed.
Index == SubSeq(disk, 1, indexed)

\* An admitted callback holds the index read lock; nobody merges meanwhile.
IndexFree == \A a \in Admitted : pc[a] # "callback"

\* Variant: recovery takes back a transaction that is not the pending one.
RecoveredTooFar ==
    /\ settled' = TRUE
    /\ disk' = IF settled \/ disk = <<>> THEN disk ELSE SubSeq(disk, 1, Len(disk) - 1)

\* recoverLocked undoes an unfinished transaction, none of it in the log yet.
Recovered == settled' = TRUE /\ UNCHANGED disk

\* ensureSynced: the index absorbs the rest of the log.
Synced ==
    /\ IndexFree \/ indexed = Len(disk)
    /\ indexed' = Len(disk)
    /\ dirty' = FALSE
-----------------------------------------------------------------------------
(* The lifecycle of the store: a call is counted until it returns.         *)

Enter(t) ==
    /\ pc[t] = "start"
    /\ store = "open"
    /\ Move(t, "entered")
    /\ UNCHANGED <<mu, gate, pending, doomed, queueVars, worker, os, fileVars, indexVars, store, callVars>>

NotEntered(t) ==
    /\ pc[t] = "start"
    /\ store # "open"
    /\ Move(t, "refused")
    /\ UNCHANGED <<mu, gate, pending, doomed, queueVars, worker, os, fileVars, indexVars, store, callVars>>
-----------------------------------------------------------------------------
(* Admitted transactions.                                                  *)

\* pendingPayloadsLocked refuses a doomed overlay and one of a failed queue.
OverlayTrusted == doomed = None /\ (pending = <<>> \/ ~failed)

\* beginAdmitted takes the state lock; the overlay is copied under it.
AdmittedBegin(a) ==
    /\ pc[a] = "entered"
    /\ mu = None
    /\ gate = None
    /\ OverlayTrusted
    /\ mu' = a
    /\ overlay' = pending
    /\ Move(a, "overlay")
    /\ UNCHANGED <<gate, pending, doomed, queueVars, worker, os, fileVars, indexVars, store, barrier, basis>>

\* Variant: a dirty index is trusted.
IndexTrustedAlways == TRUE

IndexTrusted == ~dirty

\* The index read lock is taken over a clean index and held to the end: the
\* transaction decides on the index and the copied overlay.
AdmittedView(a) ==
    /\ pc[a] = "overlay"
    /\ IndexTrusted
    /\ basis' = [basis EXCEPT ![a] = Index \o overlay]
    /\ Move(a, "callback")
    /\ UNCHANGED <<mu, gate, pending, doomed, queueVars, worker, os, fileVars, indexVars, store, barrier, overlay>>

\* acceptPendingLocked: into the queue and into the overlay, in one critical
\* section with the decision.
AdmittedAccept(a) ==
    /\ pc[a] = "callback"
    /\ ~failed
    /\ queue' = Append(queue, a)
    /\ pending' = Append(pending, a)
    /\ mu' = None
    /\ SignalAndMove(a, "accepted")
    /\ UNCHANGED <<gate, doomed, failed, worker, os, fileVars, indexVars, store, callVars>>

\* A lock is busy, a check fails, the callback refuses, or the queue does.
AdmittedRefused(a) ==
    /\ pc[a] \in {"entered", "overlay", "callback"}
    /\ mu' = IF mu = a THEN None ELSE mu
    /\ SignalAndMove(a, "refused")
    /\ UNCHANGED <<gate, pending, doomed, queueVars, worker, os, fileVars, indexVars, store, callVars>>

AdmittedTransaction(a) ==
    Enter(a) \/ NotEntered(a) \/ AdmittedBegin(a) \/ AdmittedView(a) \/ AdmittedAccept(a) \/ AdmittedRefused(a)
-----------------------------------------------------------------------------
(* The worker: applyTaskTransaction.                                       *)

\* The OS lock; recovery and ensureSynced come before the write.
WorkerLock ==
    /\ worker = "idle"
    /\ queue # <<>> /\ ~failed
    /\ IF store \in {"closed", "closed undrained"}
       THEN worker' = "erred" /\ UNCHANGED <<os, fileVars, indexVars>>
       ELSE /\ os = None
            /\ os' = "worker"
            /\ Recovered
            /\ Synced
            /\ worker' = "writing"
    /\ UNCHANGED <<mu, gate, pending, doomed, queueVars, store, pc, callVars>>

WorkerCommit ==
    /\ worker = "writing"
    /\ disk' = Append(disk, Head(queue))
    /\ worker' = "committed"
    /\ UNCHANGED <<mu, gate, pending, doomed, queueVars, os, settled, indexVars, store, pc, callVars>>

\* Variant: the hook does not take the state lock.
HookFreely == IndexFree

\* The post-commit hook takes the state lock, so no admitted transaction is in
\* its critical section (and none holds the index read lock).
HookAlone == mu = None

\* The transaction leaves the overlay for the index, or for a dirty index.
WorkerHook ==
    /\ worker = "committed"
    /\ HookAlone
    /\ \/ indexed' = Len(disk) /\ UNCHANGED dirty
       \/ dirty' = TRUE /\ UNCHANGED indexed
    /\ pending' = Tail(pending)
    /\ os' = None
    /\ worker' = "applied"
    /\ pc' = Woken
    /\ UNCHANGED <<mu, gate, doomed, queueVars, fileVars, store, callVars>>

WorkerFinish ==
    /\ worker = "applied"
    /\ queue' = Tail(queue)
    /\ worker' = "idle"
    /\ UNCHANGED <<mu, gate, pending, doomed, failed, os, fileVars, indexVars, store, pc, callVars>>

\* What a Write that returns an error leaves behind: nothing, an unfinished
\* transaction for the next writer to undo, or a commit record whose sync
\* failed.  The last two are remembered after the OS lock is gone.
WriteFails(t, erred) ==
    \/ erred = "erred" /\ UNCHANGED fileVars
    \/ erred = "uncertain" /\ settled' = FALSE /\ UNCHANGED disk
    \/ erred = "uncertain" /\ disk' = Append(disk, t) /\ UNCHANGED settled

WorkerErr ==
    /\ worker = "writing"
    /\ worker' \in {"erred", "uncertain"}
    /\ WriteFails(Head(queue), worker')
    /\ os' = None
    /\ UNCHANGED <<mu, gate, pending, doomed, queueVars, indexVars, store, pc, callVars>>

\* Variant: an uncertain commit is not remembered.
NotedNothing == UNCHANGED dirty

\* noteWriteResult.
Noted == dirty' = TRUE

WorkerNote ==
    /\ worker = "uncertain"
    /\ Noted
    /\ worker' = "erred"
    /\ UNCHANGED <<mu, gate, pending, doomed, queueVars, os, fileVars, indexed, store, pc, callVars>>

\* failPending, and then the queue's failure.
WorkerFail ==
    /\ worker = "erred"
    /\ mu = None
    /\ doomed' = Head(queue)
    /\ worker' = "failing"
    /\ pc' = Woken
    /\ UNCHANGED <<mu, gate, pending, queueVars, os, fileVars, indexVars, store, callVars>>

\* The worker stops: for this write, or for one of another owner.
QueueFails ==
    /\ worker \in {"idle", "failing"}
    /\ ~failed
    /\ failed' = TRUE
    /\ UNCHANGED <<mu, gate, pending, doomed, queue, worker, os, fileVars, indexVars, store, pc, callVars>>

Worker ==
    \/ WorkerLock \/ WorkerCommit \/ WorkerHook \/ WorkerFinish
    \/ WorkerErr \/ WorkerNote \/ WorkerFail
-----------------------------------------------------------------------------
(* Synchronous transactions and reads.                                     *)

\* Variant: a writer does not wait for the overlay.
GateFreeOverlay == gate = None

\* beginSynchronous sets its flag when nothing else is between decision and log.
GateFree == gate = None /\ pending = <<>>

SyncGate(w) ==
    /\ pc[w] = "entered"
    /\ mu = None
    /\ GateFree
    /\ gate' = w
    /\ Move(w, "gated")
    /\ UNCHANGED <<mu, pending, doomed, queueVars, worker, os, fileVars, indexVars, store, callVars>>

\* Otherwise it waits for the pending transactions it sees, or for a signal.
SyncWait(w) ==
    /\ pc[w] = "entered"
    /\ mu = None
    /\ ~GateFree
    /\ IF pending = <<>>
       THEN Move(w, "parked") /\ UNCHANGED barrier
       ELSE /\ Move(w, "barrier")
            /\ barrier' = [barrier EXCEPT ![w] = {pending[i] : i \in DOMAIN pending}]
    /\ UNCHANGED <<mu, gate, pending, doomed, queueVars, worker, os, fileVars, indexVars, store, overlay, basis>>

InQueue == {queue[i] : i \in DOMAIN queue}

\* Every Barrier returned; it goes round its loop.
SyncBarrier(w) ==
    /\ pc[w] = "barrier"
    /\ barrier[w] \cap InQueue = {}
    /\ Move(w, "entered")
    /\ UNCHANGED <<mu, gate, pending, doomed, queueVars, worker, os, fileVars, indexVars, store, callVars>>

\* A Barrier returned the queue's failure.
SyncRefused(w) ==
    /\ pc[w] = "barrier"
    /\ failed
    /\ barrier[w] \cap InQueue # {}
    /\ Move(w, "refused")
    /\ UNCHANGED <<mu, gate, pending, doomed, queueVars, worker, os, fileVars, indexVars, store, callVars>>

\* The caller's context ends.
SyncGiveUp(w) ==
    /\ pc[w] \in {"parked", "barrier"}
    /\ Move(w, "refused")
    /\ UNCHANGED <<mu, gate, pending, doomed, queueVars, worker, os, fileVars, indexVars, store, callVars>>

\* Under the OS lock the callback decides on the synchronized index.
SyncLock(w) ==
    /\ pc[w] = "gated"
    /\ os = None
    /\ os' = w
    /\ Recovered
    /\ Synced
    /\ basis' = [basis EXCEPT ![w] = disk]
    /\ Move(w, "writing")
    /\ UNCHANGED <<mu, gate, pending, doomed, queueVars, worker, store, barrier, overlay>>

SyncCommit(w) ==
    /\ pc[w] = "writing"
    /\ disk' = Append(disk, w)
    /\ Move(w, "committed")
    /\ UNCHANGED <<mu, gate, pending, doomed, queueVars, worker, os, settled, indexVars, store, callVars>>

SyncHook(w) ==
    /\ pc[w] = "committed"
    /\ IndexFree
    /\ \/ indexed' = Len(disk) /\ UNCHANGED dirty
       \/ dirty' = TRUE /\ UNCHANGED indexed
    /\ os' = None
    /\ Move(w, "applied")
    /\ UNCHANGED <<mu, gate, pending, doomed, queueVars, worker, fileVars, store, callVars>>

SyncErr(w) ==
    /\ pc[w] = "writing"
    /\ \E erred \in {"erred", "uncertain"} : WriteFails(w, erred) /\ Move(w, erred)
    /\ os' = None
    /\ UNCHANGED <<mu, gate, pending, doomed, queueVars, worker, indexVars, store, callVars>>

SyncNote(w) ==
    /\ pc[w] = "uncertain"
    /\ Noted
    /\ Move(w, "erred")
    /\ UNCHANGED <<mu, gate, pending, doomed, queueVars, worker, os, fileVars, indexed, store, callVars>>

\* Variant: the release does not close the changed channel.
ReleasedSilently(w, at) == Move(w, at)

\* The release of the gate wakes the writers parked on it.
Released(w, at) == SignalAndMove(w, at)

SyncRelease(w) ==
    /\ pc[w] \in {"applied", "erred"}
    /\ mu = None
    /\ gate' = None
    /\ Released(w, IF pc[w] = "applied" THEN "written" ELSE "failed")
    /\ UNCHANGED <<mu, pending, doomed, queueVars, worker, os, fileVars, indexVars, store, callVars>>

SynchronousTransaction(w) ==
    \/ Enter(w) \/ NotEntered(w) \/ SyncGate(w) \/ SyncWait(w) \/ SyncBarrier(w) \/ SyncRefused(w)
    \/ SyncLock(w) \/ SyncCommit(w) \/ SyncHook(w)
    \/ SyncErr(w) \/ SyncNote(w) \/ SyncRelease(w)

\* syncIfDirty: a read resynchronizes a dirty index through the OS lock, and
\* fails instead while the WAL is unsettled.
Resync ==
    /\ dirty
    /\ os = None
    /\ settled
    /\ Synced
    /\ UNCHANGED <<mu, gate, pending, doomed, queueVars, worker, os, fileVars, store, pc, callVars>>
-----------------------------------------------------------------------------
(* closeStore.                                                             *)

CloseBegin ==
    /\ store = "open"
    /\ store' = "closing"
    /\ UNCHANGED <<mu, gate, pending, doomed, queueVars, worker, os, fileVars, indexVars, pc, callVars>>

InFlight == {t \in Transactions : pc[t] \notin Ended \cup {"start"}}

\* Variant: the transactions in flight are not waited for.
CloseWaitNothing == store = "closing"

\* The lifecycle counts every transaction that has begun.
CloseReady == store = "closing" /\ InFlight = {}

CloseWait ==
    /\ CloseReady
    /\ store' = "draining"
    /\ UNCHANGED <<mu, gate, pending, doomed, queueVars, worker, os, fileVars, indexVars, pc, callVars>>

\* drain: the overlay is empty, or the Barrier of a pending transaction fails.
CloseDrain ==
    /\ store = "draining"
    /\ mu = None
    /\ \/ pending = <<>> /\ store' = "drained"
       \/ pending # <<>> /\ failed /\ store' = "undrained"
    /\ UNCHANGED <<mu, gate, pending, doomed, queueVars, worker, os, fileVars, indexVars, pc, callVars>>

\* The store's lock: the worker is not inside applyTaskTransaction.
CloseDone ==
    /\ worker \in {"idle", "applied", "failing"}
    /\ \/ store = "drained" /\ store' = "closed"
       \/ store = "undrained" /\ store' = "closed undrained"
    /\ UNCHANGED <<mu, gate, pending, doomed, queueVars, worker, os, fileVars, indexVars, pc, callVars>>

Close == CloseWait \/ CloseDrain \/ CloseDone
-----------------------------------------------------------------------------
Next ==
    \/ \E a \in Admitted : AdmittedTransaction(a)
    \/ Worker
    \/ QueueFails
    \/ \E w \in Writers : SynchronousTransaction(w) \/ SyncGiveUp(w)
    \/ Resync
    \/ CloseBegin
    \/ Close

Spec == Init /\ [][Next]_vars

\* The worker, the callers and a close that has begun keep running; a storage
\* failure, the end of a context and a read may never come.
Fairness ==
    /\ WF_vars(Worker)
    /\ WF_vars(worker = "failing" /\ QueueFails)
    /\ \A a \in Admitted : WF_vars(AdmittedTransaction(a))
    /\ \A w \in Writers : WF_vars(SynchronousTransaction(w))
    /\ WF_vars(Close)

FairSpec == Spec /\ Fairness
-----------------------------------------------------------------------------
(* Properties.                                                             *)

\* Every committed transaction decided on exactly the transactions the log
\* holds before it, whether it decided in RAM long before it was written, or
\* under the OS lock, and whatever failed in between (admission.go: the index
\* and its overlay are "one view").
Serializable ==
    \A i \in DOMAIN disk : basis[disk[i]] = SubSeq(disk, 1, i - 1)

\* Between a commit and the end of its caller's Write the index may lag; at any
\* other time an index that is not marked dirty holds the whole log, after an
\* absorption that failed and a commit whose outcome was not known as well.
Settling == os # None \/ worker = "uncertain" \/ \E w \in Writers : pc[w] = "uncertain"
IndexCurrent == ~dirty /\ ~Settling => indexed = Len(disk)

\* Once the queue has failed under accepted transactions, nothing is accepted
\* and nothing is committed over them, a transaction that began before included.
FailsClosed == [][failed /\ pending # <<>> => UNCHANGED <<pending, disk>>]_vars

\* A store that closes without an error has written every transaction it
\* accepted.
CloseDrains ==
    store = "closed" => \A a \in Admitted : pc[a] = "accepted" => \E i \in DOMAIN disk : disk[i] = a

\* No transaction and no close waits for ever: not for the gate, the overlay,
\* the worker or a lock one of them holds.
CallsReturn ==
    /\ \A t \in Transactions : <>(pc[t] \in Ended)
    /\ store = "closing" ~> store \in {"closed", "closed undrained"}
=============================================================================
