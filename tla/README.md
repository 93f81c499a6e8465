# Verification of RenCrow CORE

RenCrow CORE is one Go process that runs agents for a user: it accepts chats,
turns work into Tasks with Runs, stores what happened in JSONL and SQLite stores
it owns, and survives restarts. These modules specify the part of it that
decides *what is true after a failure*: the shared persistence queue, the
batch writer under the JSONL stores, the Task store's write-behind path, the
Task owner above them, the event store with the live feed it is shown in, the
resume queue of long Agent Runs, the protocol between CORE and the storage
host, and the projection of open Tasks to WORLD.

    PersistenceQueue        the write-behind queue and its admissions
      WriteBehindLog          what it promises (abstract)
      PersistenceQueueProofs  theorems
    JsonlBatch              the write-ahead-logged writer of several files
      AtomicFiles             what it promises (abstract)
      JsonlBatchProofs        theorems
    TaskWriteQueue          admitted and synchronous Task transactions
      TaskWriteQueueProofs    theorems
    TaskRuns                Tasks, Runs, fences, generations, startup recovery
      TaskRunsProofs          theorems
    EventPublication        EventSeq, chat lease, live relay, fallback
      OrderedFeed             what they promise (abstract)
      EventPublicationProofs  theorems
    RunQueue                pause, resume, scheduler, receipts, recovery
      RunQueueProofs          theorems
    StorageHost             operation identities, round trips, host journal
      OperationOnce           what it promises (abstract)
      StorageHostProofs       theorems
    WorldProjection         projector, outbox, delivery, epoch switch
      WorldProjectionProofs   theorems
    MC*.tla, MC*.cfg        instances for TLC

Paths below are relative to `src/`.

## 1. Inventory

Every component, modelled or not, is a row of `PROJECT.json`; each hazard is a
row with its line. The components that carry the coordination logic:

| component | state it keeps | operations | talks to | hard behaviour | correct when |
|---|---|---|---|---|---|
| persistence queue (`internal/application/persistencequeue`) | FIFO of commands, reservations and their counters, sequence counters, first failure, worker, broadcast channel | Reserve, Enqueue, EnqueueReserved, CancelReservation, Wait, Shutdown; Admit, Enqueue, Barrier, Release of an Admission | event store, Task store, Viewer chat | callers park outside the lock; reservations outlive shutdown; a failed write stops everything | capacities hold; accounting never drifts; an answer of Wait is true; a clean Shutdown means durable; no wake-up is missed |
| JSONL batch writer (`internal/infrastructure/persistence/jsonlbatch`) | a journal and its data files, an OS lock | Write, Recover, Read | every JSONL owner | crash or failed fsync between any two appends, and during recovery itself | all files or none; acknowledged stays; recovery always applies |
| Task owner (`internal/application/taskmanager`, `internal/domain/task`) | Tasks, Runs | Create, Start, RecordAssignment, RecordRouting, UpdateStatus, CompleteRun, StartRunFromCheckpoint, InterruptRun, ExecuteRunEffect, RecoverRunAfterProcessRestart | Task store, superagent, orchestrator, Viewer | callers hold old Runs; effects outside the transaction | one active Run, owned by its Task; effects run under their owner; history is kept; admission limits |
| Task store (`internal/infrastructure/persistence/task`) | JSONL files, index, writer generation, durable fence log, write-behind overlay | TaskTransaction, fence acquire and release, admitted writes | batch writer, persistence queue | fence left by a crash, uncertain fence writes, overlay against index | a fenced Task does not move; each transaction decides on the true state |
| startup recovery (`cmd/rencrow/runtime_run_recovery.go`, `runtime_action_recovery.go`) | none | close the Runs of earlier generations before serving | Task and Action owners | fatal when refused | no stale Run when serving |
| event store sequence (`internal/infrastructure/persistence/eventstore/sequence_admission.go`, `chat_admission.go`) | EventSeq counters, chat lease, waiting and queued synchronous writers | reserve, roll back, bind and release a lease | persistence queue | two mutexes, worker that starts before Enqueue returns | EventSeq order is commit order; a lease excludes synchronous writes; every waiter returns |
| relay and Viewer chat admission (`cmd/rencrow/runtime_event_relay.go`, `runtime_tasks.go`, `internal/adapter/viewer/hub.go`) | live and durable cursors, binding, synchronous scopes, accepted tail and gap | OnEvent, PublishCommitted, BindChat, MarkChatSynchronous, fallback, release | event store, queue | an event races with the fallback; two ways to be shown; events that are declined or fail after they were accepted | one feed in one order, nothing lost, nothing passed over that may not be |
| superagent run queue (`internal/application/superagent`, `internal/adapter/viewer/superagent_handler.go`) | queue items with leases, AgentRun projections, pause marks | pause, resume, claim, attach, heartbeat, complete, recover | Task owner, orchestrator | three stores written in turn, crash between them | a receipt tells how the Task ended; no resume is lost |
| storage host RPC (`internal/infrastructure/persistence/storagehost`) | call identities, journal, writer generation | Call, NewOperation, Do, begin, execute, complete, reconcile, query the outcome | Task owner of another process | lost and late requests, torn journal lines, host restarts | a mutation is applied at most once; nil is told for committed operations only |
| world projection (`internal/application/worldprojection`, `internal/infrastructure/persistence/worldoutbox`) | revision counter, records with status and claim | project, allocate, enqueue, claim, publish, verify, complete, fail | Task store, WORLD over HTTP | Tasks change between the queries; requests arrive late; restarts and epoch switches | sets only move forward in WORLD; sent is true; WORLD ends with the open Tasks |
| STT relay table (`modules/stt/relay.go`) | utterances, watchdogs | begin, end, expire | STT provider | a timeout races the answer | one terminal event for each utterance |

Interaction, from the outside in: a Viewer request takes an *admission*
(a reservation of the queue) and a chat lease; its events and Task transactions
are accepted into RAM and written by the queue's single worker; a JSONL write
goes through the batch writer's journal; what falls outside the reserved path
drains the queue with a *barrier* and continues synchronously. Executors act on
Tasks only with the exact Run and actor they were issued, and external effects
hold a durable per-Task fence. After a crash the batch writer's recovery, then
the fence log, then the Run recovery run in this order, before the process
serves.

## 2. Plan

Order is by how much of the rest depends on the part.

1. *(done)* `PersistenceQueue` with `WriteBehindLog`; `TaskRuns`; `JsonlBatch`
   with `AtomicFiles`.
2. *(done)* `TaskWriteQueue`: admitted transactions decide on index plus overlay,
   synchronous ones wait for both; serializability is the property.
3. *(done)* `EventPublication` with `OrderedFeed`: EventSeq reservation, chat
   lease, synchronous writers, relay and fallback composed, since the order they
   promise belongs to none of them alone.
4. *(done)* `RunQueue`: the scheduler, the Viewer and the executors over the Task
   owner, with a failed call or a crash between any two stores.
5. *(done)* `StorageHost` with `OperationOnce`.
6. *(done)* `WorldProjection`.
7. *(left)* The STT relay table, the TTS reorder buffer, the transport request
   ledger, the action owner; deeper composition of `TaskRuns` with `RunQueue`.

Every safety property that a run checks is a theorem now. Left to prove about: the
parts of item 7, once they are modelled.

## 3. The modules and the code

### PersistenceQueue

One action is one critical section of `Queue.mu`. `items`, `reserved`,
`pendingBytes`, `reservedBytes`, `accepting`, `lastSequence`,
`completedSequence`, `failure` are the fields of `Queue`; `reservations` is its
map, keyed by the request that holds the reservation; `admission` is the
`Admission` of a request (its own mutex is taken by its own calls only, around
the queue's, so a call is one step). `worker` is where `run()` is: `top`
(about to take the lock), `parked` on `q.ready`, `writing` (outside the lock),
`done`. `wait` is the `Wait` call of each caller: `check` (about to take the
lock), `parked` on `q.changed`, or a result. A signal is modelled by whom it
moves, so that a missing one leaves somebody parked. `closing` is `Shutdown`.
`written` is history. `EnqueueReserved` and `Queue.Enqueue` share `Push`, whose
guard is the exhausted sequence counter. `failure` is the sequence of the failed
command; the error value is left out. Requests call Admit once each; Writers are the
callers that enqueue directly and wait.

`WriteBehindLog` is one ordered log of which a growing prefix is durable and
which halts at the first failed write. The refinement maps the log to
`written \o items`: nothing accepted is lost, duplicated or overtaken, and the
log, while not halted, is written to its end. `Safety` is its specification without the last part.

### JsonlBatch

A file is a pair: what readers find (`mem`) and what is on stable storage
(`disk`). fsync makes them equal; a failed append leaves nothing, a part or
everything in `mem`; a crash leaves the disk content, or any prefix of the
unsynced rest with or without a torn last element. `step` and `todo` are the
program counter of the process that holds the OS lock: `recover` (parse, repair a
torn tail, decide), `undo` (rollbackRecord, file by file, then the rollback
record), `checkpoint`, `prepare`, `append` (the payloads, then the commit
record). Every fsync, truncation and append has its failure beside its success,
and `Crash` is enabled everywhere. A payload is the number of its transaction;
offset and prefix hash of a prepare record are the file's content before it
(`Undoable` is the comparison `rollbackRecord` makes). `Recover` alone is a
`Begin` whose operation gives up before `prepare`. How a Write ended is in
`writes`: `ok`; `unknown` (recovery required, commit uncertain, or crashed); and two
ways to end in another error: `undone` (rolled back, the error is the Write's own) and
`unreported` (committed, the error is that of unlocking or closing the lock file,
which `withExclusive` joins to the answer, `lock.go:77-84`; the joined error leaves
every other answer of its kind). A caller cannot tell the last two apart.

`AtomicFiles` promises: a write appears in all its files at once, in one order;
a committed one stays, whether or not its caller was told; one that was rolled back
never appears; until it is settled the last one may be taken back from all files at
once. So an error that is neither `ErrRecoveryRequired` nor `ErrCommitUncertain`
means settled, and not that nothing was written. The mapping
shows readers the files without a pending transaction.

Assumed of the file system: fsync that returns has made the content stable;
what a crash keeps of unsynced appends is a prefix, never other bytes; the size
of a file changes atomically when it is cut. After a failed fsync the unsynced
content may survive or not, as the code assumes.

### TaskWriteQueue

A transaction stands for its payload and its caller. An admitted one
(`EnqueueTransaction`) holds `taskPersistence.mu` while it copies the overlay,
decides and is enqueued; a synchronous one sets the gate (`synchronousWriter`),
waits with Barrier for the transactions it saw, takes the store's OS lock and
goes through index refresh, decision, `Write` and `noteWriteResult`. `worker`
is where the queue's command handler is between the batch writer's commit, the
index hook and the overlay's removal. `disk` is the log, `indexed` how much of it
the index has absorbed, `dirty` the flag of an uncertain write; `basis` is the
history each transaction decided on. `Close` counts calls in flight, drains, then
closes the files. The batch writer is reduced to the outcomes of a Write
(committed, rolled back, uncertain) and the queue to its FIFO and its failed
head.

Left out: rotation and segments, the sidecar, the per-Task gate, the checks of
`validateAppend`, a crash (RAM is lost and the log is what `JsonlBatch` promises),
commands of other owners except their failure (`QueueFails`). After an
uncertain commit whose record is complete, a reader's resynchronisation between
`noteWriteResult` and `failPending` lets an admitted transaction see the write
both in the index and in the overlay; the queue fails before it can be written.

### TaskRuns

One action is one Task transaction: the store serialises them and the batch
writer makes each atomic, so a refused call is not a step. Every identity is
picked from all Runs and all agents: a caller may hold an old Run or be the
wrong actor. `CanCommit` is what the store asks of every transaction of a
Task: no effect in progress in this process, no active fence in the durable log,
no fence write of unknown outcome. `effect` follows one `ExecuteRunEffect` call:
acquire, short validation, the callback (outside any transaction), release; both
fence writes may fail plainly or uncertainly. `Crash` loses `effect` and
`fenceRecovery` and keeps `fence`; `OpenStore` takes the next writer generation.
`Startup` is the two recovery loops: they list the running Runs (`toRecover`) and
visit each once, close it or pass it over (`LeftAlone`: an open native delegation,
a Task that does not run or has another owner, `ErrRunConflict`), and end when the
list does, without looking again. A refusal by the store is fatal, and so is
`ErrRunConflict` for a Run that has an Action. Whether a Run has one is not state,
so both answers to a conflict are possible. What must not be left,
`Recoverable`, belongs to the property and to no guard.

Abstracted: text, results, notifications, priorities and shared context; two
Runs of a Task never share a `started_at`; the relations of Tasks (`Parent`,
`Supersedes`, `Dependencies`, `SameScope`, `ReadOnly`) are constants, fixed by
the creating request, and `CreateAndStartRun` and `Create` refuse when a relative
does not exist. Sharing a scope is symmetric, as `moduleRootsOverlap` and equal module IDs
are.

### EventPublication

`last`, `lease`, `waiting` and `pending` are the event store's
`eventSeqAllocator` and CHAT admission; `stored` and `highWater` what SQLite
holds; `queue`, `applied` and `failed` the shared queue, reduced to FIFO,
refusals and a failed head. `mu` is the relay's `publicationMu`, `binding` and
`scope` what `BindChat` and `MarkChatSynchronous` set, `cursor`, `liveCursor`
and `through` its drain, `tail` and `gap` the hub's accepted tail. An *emitter* is
one call of `OnEvent`: it reads the binding outside the lock, may be accepted in
RAM and shown at once, may park until the binding goes, or takes the durable path
with `publicationMu` held over the write and the drain. A *journal* writes an
orchestrator event directly and then calls `PublishCommitted`. A *CHAT* binds, and
either releases or falls back: barrier, mark synchronous, barrier, release.

An accepted event need not be shown. IdleChat may decline one of its own at every point
where the gate is asked (`Gated`: before it is accepted, `EmitterDeclined`; after that,
`EmitterPublish` and `OwnDeclined`), and then the live cursor passes it, on purpose
(`runtime_event_relay.go:336-338`). A row of a transient type is shown by the drain
of its own writer only (`Transient`, `Skipped`). `PublishAccepted` may fail after the
event was accepted: `OnEvent` returns the error, the cursor stays (`unshown`), and
a later event or drain passes or shows it.

`OrderedFeed` is one log of accepted events, how far the feed has come in it, and what
was shown. The feed goes forward only; an event it passes without showing is
`Silent` (gated or transient) or its producer was told. The log of the mapping is
what is durable followed by the RAM-accepted events still queued; a synchronous event
joins it at its commit.

A drain's pages are fixed by its first watermark, since rows below it cannot appear
later, so it takes the rows one by one (`DrainRow`) and may end with an error after any of
them (`DrainStop`). `Retire` drops the leading durable run of the tail and no more
(`FirstRetained`), as `MarkDurable` does.

Abstracted: event contents, scopes other than the trace, one event for each
writer; the brief lease `BindChat` takes before it is refused; rows that are not
orchestrator events. A journal that carries the lease's own admission is refused
(`SyncOwnLease`); which one does is not state, so each may.
`PublishGuardedCanonicalEvent`, the final answer with its publication claims
(`runtime_event_relay.go:402-495`), is not modelled beyond what it shares with `OnEvent`.

### RunQueue

One Task, one checkpoint and therefore one queue item, since a resumed Run keeps the
checkpoint of its source. `task` and the status of each Run are the Task owner
(transactions that name the Task close whichever Run is active); `projection` is the
AgentRun store; `item` the queue. `scheduler` is the program counter of `RunOnce` with
every store call a step of its own, `executor` the orchestrator with each Run, `marks`
the RunController, `viewer` the requests in progress, one pause and one resume. A resume
reads the projection and the queue (`ResumeCheck`, `superagent_handler.go:317`), asks
the Task owner (`ResumeTask`, 345) and saves the intent (`ResumeEnqueue`), with
everything else in between. `overtaken` is history: the intent the check found had been
claimed before the owner was asked. After that the Viewer pauses no more (`PauseBound`,
a bound of the model). Startup is `OpenStore` (Task recovery) and `StartScheduler`
(`RecoverInterruptedAgentRuns`), which may be refused. One scheduler runs per process
and one process per store, so a lease is lost only to the scheduler's own later claim;
its token is not state, and attempts matter only as first or later.

Simplified: one pause and one resume request at a time; `SaveAgentRun` is immediate; a native
delegation whose outcome is unknown counts as a failed call; the Block
branch of the recovery, which no reachable state enters, is left out.

### StorageHost

One group, operation and payload: calls with another payload have another
identity and meet these only at the host's `writeMu`. A *caller* uses
`Client.Call`, whose identity is shared while its outcome is unresolved
(`identity` is the entry of `pendingCalls`, `client.go:147-154`); a *handle*
keeps its own for life and uses `Client.Do`. `message` holds the round trips: a
request may arrive after its caller gave up, or never, and an answer may be lost.
The host serves one mutation at a time (`serving`: begin, execute, complete or
abort, or the reconciliation of a begun entry), each journal append may fail and
leave nothing, a part or all of the line; `file` is the set of records a restart
may find for an op_id, `index` what the host holds in RAM, `tail` whether the
journal's last line is torn or an unreadable line is inside, which makes the
next start fail closed (`ErrJournalCorrupt`). A restart raises the writer
generation, and requests of the old one are refused as stale until a Task commit
reconnects.

Not modelled: a restart of CORE, which forgets its identities; reads, result
pages, credentials, payload-hash conflicts, the sessions of `task_group.go` before
their commit.

### WorldProjection

One goroutine (`Service.Run`) alternates `Projector.Sync` and `Worker.Drain`; `pc`
is where it stands. A pass lists the Tasks of each open status, then the Runs
(`ListTasks`, `ListRuns`: five transactions, with `Commit` of the Task owner
between any two), and compares the set with the newest record (`IsCurrent`). A
changed one gets a revision in a transaction of its own (`AllocateChanged`) and a
record in another (`Enqueue`), which also carries out an authorised switch of
the source epoch: older epochs' records are superseded, the counter moves.
`counter` and `rows` are the SQLite tables; `due` stands for `next_attempt_at` and
the end of a claim's lease. `Claim`, `Publish`, `Answer`, `Verify` and `Settle`
are the delivery of one record after the other. WORLD is another program: `head`,
`retired` and `accepted` are what the statuses it answers with say about it
(`Verdict`). A request CORE has given up stays in `late` until WORLD processes it
or it is lost; a refusal (4xx) is for good.

The content digest a pass compares is the set and its epoch (`IsCurrent`,
`digest.go:42-62`). `Converges` is about histories in which no reconcile is lost
(`BaselineKept`); what happens in the others is `world_recovery` (section 6).

Left out: other destinations, whose counters and records are their own; the Run id
inside a running item; life policies, a second kind with the same
path; the seeding of the counter from an older outbox; switching back to an
epoch that was used before. There is one Actor. The code takes its Actors in turn and
`Sync` returns at the first that fails (`projector.go:122-141`, `194-198`), so an
Actor that cannot be projected keeps later ones from being projected at all, and
`Claim` takes its `Limit` from the records of all Actors (`sqlite.go:461-467`). Neither
is in the model: what `Converges` says of an Actor holds in the code as long as no Actor
before it fails.

## 4. Runs

| run | instance | distinct states | shows |
|---|---|---|---|
| `queue` | 2 requests, 1 writer, sizes 1 and 2, 2 slots, 3 bytes, 2 sequence numbers, fairness | 221,251 | `CapacityRespected`, `AccountingExact`, `WaitTruthful`, `DrainedMeansDurable`, `ImplementsLog`, `CallersReturn` |
| `batch` | 2 files, 3 transactions, journal emptied past 2 records | 219,941 | `AcknowledgedDurable`, `RecoveryApplies`, `ImplementsAtomicFiles` |
| `task_write_queue` | 2 admitted, 2 synchronous transactions, fairness | 372,794 | `Serializable`, `IndexCurrent`, `CloseDrains`, `FailsClosed`, `CallsReturn` |
| `task_life` | 1 Task, 2 agents, 3 Runs, 2 generations | 593,569 | `ActiveRunOwned`, `EffectUnderOwner`, `NoStaleRunServing`, `CheckpointContinuedOnce`, `HistoryKept` |
| `task_admission` | parent, child, rival writer, two readers; 2 leaves; one limited route | 727,184 | `LeavesWithinLimit`, `WriteScopeExclusive` |
| `task_restart` | as `task_life` | violation | finding 1 |
| `publication` | 2 CHATs of 1 event, one of them gated and transient, 1 journal, tail of 1, fairness | 259,308 | `RefinesOrderedFeed`, `CommittedInSequence`, `LeaseExcludesSynchronous`, `SyncCountsExact`, `ReplayCovers`, `FallbackDrained`, `WritersReturn` |
| `run_queue` | 1 failed call, 1 crash, fairness | 1,102,328 | `ReceiptTruthful`, `QueuedTaskHasIntent`, `ItemSettles` |
| `run_queue_restart` | 1 crash | violation | finding 2 |
| `storage_host` | 2 callers, 1 handle, 2 op_ids, 2 round trips, 1 failed append, 1 restart, symmetric | 1,201,867 | `ReleasedIsSettled`, `ImplementsOnce` |
| `world_projection` | 2 Tasks, 3 epochs, 6 revisions, 3 commits, faults or restarts, fairness | 1,355,619 | `SentIsTrue`, `OneSetPerRevision`, `SetsMoveForward`, `Converges` |
| `world_recovery` | 1 Task, 2 epochs, 4 revisions, 3 commits, faults or restarts, fairness | violation | finding 3 |

`TypeOK` of every module is a theorem (section 5) and not repeated as a run's
property.

Why the bounds are enough. *Queue*: two slots and three bytes let each of slots and
bytes be the limit that refuses, with a reservation of two commands used partly; two
sequence numbers let the counter end with a reservation still open and two callers wait
for different commands; one failed or successful shutdown ends a behaviour. *Batch*: two
files are the least for a partial transaction, three transactions give a settled, a
pending and a next one around a checkpoint. *Write-behind*: two admitted transactions
make an overlay with an order, two synchronous ones compete for the gate. *Tasks*:
transactions of different Tasks meet only in admission, so the life of a Run needs one
Task; three Runs make an old Run, its successor and a Run between checkpoint and resume;
two generations are a crash and a restart, with Runs of both. `Requested` bounds the
statuses callers ask for to one of each kind the code distinguishes. In `task_admission`
the hierarchy has two levels, as sub-Tasks of the product have; the child has its
parent's write scope, which it inherits. Neither property is claimed for deeper trees
(see 6). No run has an open native delegation (`Delegated` is empty); the theorem about
`EffectUnderOwner` covers every `Delegated`. *Publication*: an event races the barriers
of its CHAT's fallback, the second CHAT binds and has its event accepted while the first
one's is still queued, the journal is the writer that has no binding, and an event whose
CHAT is not bound takes the durable path beside it; several events of one CHAT are for
the theorems, since liveness with one writer more takes TLC a thirteenfold state space;
a tail of one event makes eviction happen; the second emitter's event is one that may be
declined and is transient, the first's and the journal's must be shown. *Run queue*: one
fault or crash between any two stores, several pause and resume rounds (Runs are not
bounded otherwise: each needs a resume and the item ends). Without `PauseBound` an
outdated resume would put a Task whose receipt is written back in the queue, to be
claimed by nobody, and start further rounds that the statements do not cover. *Storage
host*: two callers share an identity, a second op_id follows it, one fault and one
restart already meet at every step of an operation; the theorems cover the rest. *World
projection*: two Tasks are torn apart by one commit between two queries; two records in
a batch are claimed at once; three epochs are two switches, the least with which a
request can be delayed past a later one. Three events (`MaxEvents`) make a lost request,
a commit and a restart meet. Ticks are not events, so revisions need `Unhurried`: near
the end of the numbers a pass starts only when no record waits for its backoff and no
request is under way. The code has room for 2^53 of them. In `world_recovery` the loop
ends where revisions end; they are not why WORLD is behind: every record before that is
of the new epoch and refused, and nothing but another switch writes a reconcile.

Deadlock is checked for `batch`, where a lock holder can always go on. The other
systems really end: a queue whose worker has exited, writers and CHATs that have
returned, a settled Task with its receipt, and models at their bounds.

Fairness, where a run states it. `queue`: the worker goroutine is scheduled and
every writer call returns; a `Wait` or `Shutdown` that can move does; an admission
is released in the end, since the Viewer handlers defer it
(`internal/adapter/viewer/handler_send.go:623`, `handler_send_v2.go:828`).
Nothing obliges a caller to admit, enqueue, give up or shut down. Without the
release, a draining worker waits for a reservation for ever, by design of
`Shutdown`, whose context bounds its caller. `task_write_queue`: the worker,
begun transactions and `Close` go on, and a failing queue fails its commands.
`publication`: the worker, `OnEvent`, the synchronous writers, the drain and
a CHAT that has begun go on; contexts need not end and storage need not fail.
`run_queue`: the scheduler ticks, a Viewer handler that has begun goes on, a
provider call returns, a dead process is started again; nobody has to pause,
resume or cancel. `world_projection` and `world_recovery`: the service's loop goes on, backoffs and
leases end, a request under way is processed or lost in the end; commits,
timeouts, refusals, store failures and restarts are bounded by `MaxEvents`, so
that convergence is about what happens once they stop.

## 5. Proofs

TLAPS proves, for every value of the constants:

- **`PersistenceQueueProofs`**: `TypeOK`, `CapacityRespected`, `WaitTruthful`,
  `AccountingExact`, `DrainedMeansDurable`, and the safety part of the refinement
  (`Log!Safety`). Capacity and Wait are not inductive. `EnqueueReserved` tests no capacity, so the
  invariant carries the capacities themselves and the count of each admission
  (`AdmissionInv`); the answers of Wait need that the numbers in the queue are the
  interval after `completedSequence` and those in the history the interval up
  to it (`Contiguous`), that a failure is the one just past it (`WorkerInv`), and
  that each ticket was issued (`TicketInv`). A sum over a set is a recursive
  function of the set; that it exists, and that it changes by what one element
  changes, is proved from the well-foundedness of the naturals for every
  function into the integers (`TotalPeel`, `TotalChange`). Then each call moves the
  counters by what it moves in the map or the slice (`Accounted`), so an accepting
  queue that holds no count and no command may end (`Ended`), and nothing is
  left. For the log, a written head goes from the queue to the history and what is
  durable followed by what is queued stays the same (`ConcatMove`). From `QueueAssumption`
  and `RequestsAssumption` (finitely many requests: the sums are over them).
- **`TaskRunsProofs`**: `TypeOK`, `ActiveRunOwned`, `EffectUnderOwner`,
  `NoStaleRunServing`, `CheckpointContinuedOnce`, `HistoryKept`,
  `LeavesWithinLimit`, `WriteScopeExclusive`. The conjunction
  of the state invariants with `DownQuiet` (no effect in a process that is
  down) and `LoopsAhead` (what startup must close is still on its list) is
  inductive; a Run that the loops may leave alone is none that they must close
  (`LeftAloneHarmless`), because an active Run is its Task's latest and shares its
  owner. All transactions have one shape, `RunsStep(t)`: close
  active Runs of t, append at most one Run of the open generation, change the
  record of t, and leave any active Run owned. One lemma per action shows the
  shape, one lemma per invariant shows that the shape preserves it. From
  `TaskRunsAssumption` only. For admission a step starts one Task that may start,
  ends one, or changes no status (`NextStatus`). One that starts leaves, besides
  itself, leaves it has counted (`StartLeaves`); one that ends gives a slot back
  and adds at most its parent, which takes the slot and writes in the same scope
  (`EndLeaves`). That needs the hierarchy: `LeavesWithinLimit` supposes
  `TwoLevels`, `WriteScopeExclusive` also `ChildrenShareScope`, both stated in the
  theorems and true in `task_admission` (`MCHierarchy`).
- **`TaskWriteQueueProofs`**: `TypeOK` and the four safety properties of `task_write_queue`.
  Writes reach the log from two sides; the invariant says why they never mix (a
  writer holds the gate from before its decision to after its index update, and
  while it does the overlay is empty and the worker rests: `Exclusion`,
  `OsLocked`), that overlay and queue are the same transactions (`Lined`), and
  that the index lags only between a commit and its hook or is marked dirty
  (`Absorbed`). Then what a transaction decided on is stated about its position
  alone (`Decided`). From `TransactionAssumption` only.
- **`JsonlBatchProofs`**: `TypeOK` and the three properties of `batch`, the refinement
  `ImplementsAtomicFiles` among them. What is on disk matters only after a crash, so
  the invariant is about `Found`, every journal recovery could make of what a
  crash at this moment leaves. Each of them fits the data files (`Recoverable`:
  a file its pending transaction is about is inside the prepared range, every
  other one is synced), is about a write that is not settled as committed (`Known`),
  and shows readers what they see now or everything but its pending transaction
  (`Shows`). Lemmas say what an unsynced append, a cut and a sync do to the
  contents a crash may leave (`SurvivorsAppend`, `SurvivorsFront`,
  `SurvivorsSynced`); an unsynced journal append then adds one journal to `Found`, a
  synced one leaves only itself, and `Crash` picks one. `Undo` is the
  step that needs `Shows`: its truncation must fit all of `Found`. Each action is
  shown to keep the invariant and to be one of `Quiet`, `Commits`, `Undoes`,
  `Loses`, which are the steps of `AtomicFiles`. From `JsonlBatchAssumption` only.
- **`RunQueueProofs`**: `TypeOK`, `ReceiptTruthful`, `QueuedTaskHasIntent`. A receipt is
  written long after the Task was asked about, so the invariant says what keeps the
  answer true in between: no Run is active unless its Task is running, so nothing that
  closes a Run moves a Task that has ended (`ActiveUnderRunning`); the item is reserved
  or claimed while the scheduler works on it (`Held`); a queued Task has no claimed item
  (`Promised`). Both hold up to a resume that asks the owner on an outdated queue check
  (`overtaken`), which can queue the Task again while its item is claimed or has its
  receipt. Before the first intent there is one Run, and its status says where its Task
  is (`Untouched`): that is why startup finds every resume a crash interrupted.
  Executors, delegations, cancels and Task recovery share one shape (`Ending`): the Task
  stays, or ends as it may. From `RunQueueAssumption` only.
- **`StorageHostProofs`**: `TypeOK`, `ReleasedIsSettled` and the refinement
  `ImplementsOnce`. What the journal file can be read back as says whether the
  owner has committed (`Journal`); each step under `writeMu` knows the effect so
  far (`Stage`); a file that says nothing but done never changes again, so an
  answer stays true however late it arrives (`Carried`); `inFlight` is the number of
  callers under way, so no caller is left with an identity the others have
  dropped (`Shared`). From `StorageHostAssumption` only.
- **`EventPublicationProofs`**: `TypeOK`, `CommittedInSequence`,
  `LeaseExcludesSynchronous`, `SyncCountsExact`, `FallbackDrained`, `ReplayCovers` and
  the refinement `RefinesOrderedFeed`. Numbers are issued in the order commands
  enter the queue and it is written from its head, so what is durable lies
  below what is queued and that below the last number issued (`Sequenced`). The
  two counters are exact through every way a writer can leave (`Counted`), so
  `TryBeginChat` finds 0 only when no synchronous command is in the queue. An
  event is accepted in RAM only for a CHAT whose trace is admitted (`Admitting`),
  and that it no longer is once the fallback has marked it (`Scoped`), so nothing joins
  what the second barrier waits for (`Behind`). From `PublicationAssumption` only,
  which says that a run makes finitely many calls: an EventSeq is at most the number
  of writers that have spent theirs (`HandOver`), which bounds the types.

  The feed is shown from two sides, by an emitter whose event was accepted in RAM
  and by the drain of the durable log. `HandOver` says that each writer hands over
  one event and that one writer at a time holds `publicationMu`. `Shown` says what
  makes one order of the two: the commands a CHAT has left in the queue are before the
  synchronous ones (`ChatsFirst`); of the queue, what RAM accepted has been passed by the
  live cursor, unless its emitter is about to publish it or was told that it cannot
  (`Unseen`), and what is synchronous is above it (`LeftShown`); while a lease or a CHAT's
  command is left, no durable row but one of these waits for the drain (`StoredShown`).
  From this whatever an emitter or a drain shows or declines is the next of the log after
  what was passed, up to events that `OrderedFeed` excuses (`PublishPasses`, `DrainPasses`),
  and every other step leaves it alone or lengthens it at its end (`OtherSteps`). How far
  the feed is in the log is a count (`Passed`); that the count is the place, and that it
  does not change when the log grows, is because the log is ordered (`PassedIs`,
  `CountLonger`). The accepted tail is ordered and above
  its gap (`TailOrdered`), so what `MarkDurable` retires is the durable part of it, and
  a shown event is durable, in the tail or in the gap. The log of the mapping filters the
  queue by a recursive function (`Kept`); that what it returns is what is wanted, and in
  order, is proved from its definition for ordered sequences.
- **`WorldProjectionProofs`**: `TypeOK`, `SentIsTrue`, `OneSetPerRevision`,
  `SetsMoveForward`. The outbox is a chronicle: of two records the later one was
  read later and has the greater epoch, or the same epoch and the greater
  revision (`Chronicle`), because a pass reads before it allocates (`Clock`) and
  epochs only grow (`Epochal`). Requests under way and whatever WORLD holds are
  records of the outbox (`Known`), so an epoch and a revision identify a set,
  and an acknowledgement is about the record it answers (`Told`). What the worker sends is of
  the counter's epoch, the greatest there is (`Claimed`), so a request that takes WORLD to an
  earlier epoch was given up before the switch, and only a reconcile is accepted then
  (`TimelyIsForward`). From `ProjectionAssumption` only, for every number of epochs.

Only model-checked: liveness (`CallersReturn`, `CallsReturn`, `WritersReturn`,
`ItemSettles`, `Converges`, and of `ImplementsLog` that a log which is not halted is
written to its end), which with ENABLED is outside the prover; and the three findings,
which are counterexamples. Every other property of a run is proved.

## 6. Findings

1. **`task_restart`**. A crash inside `ExecuteRunEffect` leaves its fence active
   in the durable log. At the next start the Run must be closed
   (`runtime_run_recovery.go:17-26`), its transaction is refused because of the
   fence (`task_owner_durability.go:70-71`), and the refusal is fatal
   (`cmd/rencrow/runtime_dependencies.go:854`), at every start. The fence's
   identity is random and local, so nobody can release it.
2. **`run_queue_restart`**. `docs/09_運用ログ・panic保存仕様.md:114-115` says that a
   claim which expired while the process was stopped is recovered by the scheduler
   after the restart. A process that stops between `ClaimNextRunQueueItem` and
   `StartRunWithReason` leaves the item reserved and the Task queued; the recovery
   at the next start compares the item with the unclaimed intent it would write
   (`internal/application/superagent/run_recovery.go:268`), reports "queue intent
   mismatch", and the scheduler is not started, at this and at every later start.

3. **`world_recovery`**. `docs/04_アーキテクチャ概要.md:1878` says that when the process
   stops between commit and delivery the full resync of the next start recovers what was
   not delivered, and `internal/domain/worldprojection/projection.go:439-440` that the
   authenticated reconcile is completed before the new epoch is used. `Enqueue` moves the
   counter to the new epoch with the reconcile record, before WORLD has it
   (`worldoutbox/sqlite.go:256-262`). If that record then fails for good (a stop before the
   delivery and a start without the second credential, `publisher.go:187-189`, or a 4xx
   answer), nothing repeats it: the configured epoch is the counter's
   (`projector.go:280`), every later record is an ordinary one of the new epoch and is
   refused (`epoch_requires_reconcile`), each tick spends a revision, and WORLD keeps the
   old set until the epoch is changed once more. `RequiresReconcile` of
   `PublishResult` is set and read by tests only.

Observed while modelling, none of them against a stated promise:

- *Batch writer*: the comment at `jsonlbatch.go:458-461` allows a torn prefix of the
  journal when a crash interrupts its emptying. A prefix cut inside the last
  commit record would make recovery take back a committed transaction; it does
  not arise where a size changes atomically, which the model assumes. Readers are shown
  a transaction whose commit is uncertain, and a power loss may take it back
  (allowed by `AtomicFiles`). A committed Write whose lock cannot be released or closed
  returns that error alone (`lock.go:84`), which its caller cannot tell from the error
  of a Write that was rolled back: the Task owner's caller may be told that a
  transaction failed which its index already holds. `TaskWriteQueue`, `TaskRuns` and
  `StorageHost` take the batch writer's other answers and leave this one out.
- *Publication*: an accepted, and later durable, event is never shown live when IdleChat
  declines it after its acceptance (`runtime_event_relay.go:336-338`), when it is transient
  and another writer's drain comes first (646), or when `PublishAccepted` failed and a later
  event moved the cursor past it; its emitter got the error in the last case. It is in
  the log, and `RefinesOrderedFeed` says that these are the only such events.
- *Task owner*: `InterruptRun` leaves a Task running without an active Run, which
  startup recovery never closes. In a hierarchy of three levels the middle Task may
  end while its own child runs; its parent then counts again beside that child:
  one leaf more than the global limit, and two writers in one scope.
- *Run queue*: after a crash between a pause and its "cancelled" receipt the lease
  expires and the scheduler runs the paused Task again; a Run resumed once and
  paused again cannot be resumed, since the item is terminal; a claimed Run whose
  process died is failed at startup, so its item is blocked and not run again; a
  refusal by the parallel limits at claim time fails the Task for good; the late
  executor of a paused Run settles the Task under the Run resumed after it;
  the executor's "completed" may overwrite a projection "paused"; a Task-store
  outage at both start and block strands the Task with a blocked item. A resume request
  reads the queue (`superagent_handler.go:317`) before it asks the Task owner (345): if the
  scheduler claims the intent in between, and the Run is started and paused again, the
  request makes the Task queued although its item has its "cancelled" receipt; the Viewer
  is answered 200 and nothing will run the Task (`overtaken`).
- *World projection*: the projector's comment speaks of one complete view of Tasks
  and Runs (`projector.go:52-55`), which is five transactions; the next tick
  repairs a torn set. A Task whose Run was interrupted stays running without
  a Run, and every pass of its Actor fails until it moves (`Unreadable`); no later Actor
  is projected while it does.
  `Complete` and `Fail` check the status and not the claim, which one goroutine
  and one process make harmless. A reconcile names the epoch it starts and not the
  one it ends: one that CORE gave up and that is delayed past a second switch is still taken
  over, and takes WORLD back to the earlier epoch (`DelayedReconcile`, which
  `SetsMoveForward` excepts).

## 7. Not modelled

LLM, speech, vision and tool providers, channels, HTTP and CLI adapters: I/O around the
owners above. Session, conversation, knowledge and revenue stores: SQL. Orchestration
and routing: sequential glue and text classification. The Task store's sidecar and log
rotation. The payload checks of the batch writer (names, sizes, symlinks): refusals
before any change. An owner of a reservation that itself waits for the synchronous Task
writer (`admission.go:240`). STT relay, TTS reorder buffer, transport ledger and action
owner are next in the plan. Everything here is a row of `PROJECT.json` with its reason.
