------------------------------ MODULE TaskRuns ------------------------------
(***************************************************************************)
(* The Task owner of CORE (internal/application/taskmanager over the JSONL *)
(* Task store): Tasks, their Runs, the admission limits, writer            *)
(* generations across process restarts, and the durable fence that holds a *)
(* Task still while one of its Runs performs an external effect.           *)
(*                                                                         *)
(* One action is one Task transaction: the store serialises them and       *)
(* commits all of one or nothing, so a refused call changes nothing and is *)
(* not a step.  Identities and owners are arguments picked from everything *)
(* that exists, so every caller may hold an old Run or the wrong actor.    *)
(*                                                                         *)
(* A Run is its index in the history; two Runs never share a started_at.   *)
(***************************************************************************)
EXTENDS Naturals, Sequences, FiniteSets

CONSTANTS
    Tasks,
    Agents,
    Routes,
    NoTask,
    Parent,         \* [Tasks -> Tasks or NoTask]      parent_task_id
    Supersedes,     \* [Tasks -> Tasks or NoTask]      supersedes_task_id
    Dependencies,   \* [Tasks -> SUBSET Tasks]         dependency_task_ids
    SameScope,      \* [Tasks -> SUBSET Tasks]         equal module or overlapping root
    ReadOnly,       \* SUBSET Tasks                    read_only
    EffectTasks,    \* the Tasks whose executors use ExecuteRunEffect
    Delegated,      \* the Tasks with an open native Harness delegation
    GlobalLimit, ModuleLimit,
    RouteLimit,     \* [Routes -> Nat]                 0 is unlimited
    MaxRuns, MaxGeneration,  \* bounds of the model
    Requested       \* the statuses callers ask for, all of them or a bound

ASSUME TaskRunsAssumption ==
    /\ NoTask \notin Tasks
    /\ Parent \in [Tasks -> Tasks \cup {NoTask}]
    /\ Supersedes \in [Tasks -> Tasks \cup {NoTask}]
    /\ Dependencies \in [Tasks -> SUBSET Tasks]
    /\ SameScope \in [Tasks -> SUBSET Tasks]
    /\ \A t, u \in Tasks : u \in SameScope[t] => t \in SameScope[u]
    /\ ReadOnly \subseteq Tasks
    /\ EffectTasks \subseteq Tasks
    /\ Delegated \subseteq Tasks
    /\ GlobalLimit \in Nat \ {0}
    /\ ModuleLimit \in Nat
    /\ RouteLimit \in [Routes -> Nat]
    /\ MaxRuns \in Nat
    /\ MaxGeneration \in Nat
    /\ Requested \subseteq {"queued", "waiting", "blocked", "succeeded", "failed",
                           "cancelled", "superseded"}
    /\ "unassigned" \notin Agents

VARIABLES
    process,        \* "down", "recovering" (startup recovery) or "serving"
    generation,     \* the writer generation of the open store, 0 before the first
    task,           \* the latest version of each Task
    runs,           \* every Run ever issued, in order of started_at
    fence,          \* the Tasks with an active fence in the durable fence log
    fenceRecovery,  \* JSONLStore.fenceRecovery: a fence write ended uncertain
    effect,         \* the ExecuteRunEffect call in progress on each Task
    toRecover       \* the Runs the loops of startup recovery have still to visit

vars == <<process, generation, task, runs, fence, fenceRecovery, effect, toRecover>>

Open == {"queued", "running", "waiting", "blocked"}
Terminal == {"succeeded", "failed", "cancelled", "superseded"}
Completions == {"succeeded", "failed", "cancelled", "waiting"}
Reasons == {"first", "process_restart_resume", "lease_reacquire",
            "agent_reassignment", "checkpoint_resume", "explicit_rerun"}
RunStatus == Terminal \cup {"running", "waiting", "blocked", "interrupted", "reassigned"}
Assignees == Agents \cup {"unassigned"}

TaskRecord == [status : Open \cup Terminal \cup {"absent"},
               assignee : Assignees, route : Routes]

\* "from" is the checkpointed predecessor a Run continues, 0 when there is none.
Run == [task : Tasks, assignee : Assignees, status : RunStatus,
        generation : Nat, from : Nat]

EffectRecord == [phase : {"none", "fenced", "running", "ending"},
                 run : Nat, actor : Assignees]
NoEffect == [phase |-> "none", run |-> 0, actor |-> "unassigned"]

TypeOK ==
    /\ process \in {"down", "recovering", "serving"}
    /\ generation \in 0..MaxGeneration
    /\ task \in [Tasks -> TaskRecord]
    /\ runs \in Seq(Run)
    /\ fence \subseteq Tasks
    /\ fenceRecovery \in BOOLEAN
    /\ effect \in [Tasks -> EffectRecord]
    /\ toRecover \subseteq Nat

Init ==
    /\ process = "down"
    /\ generation = 0
    /\ task \in [Tasks -> [status : {"absent"}, assignee : {"unassigned"}, route : Routes]]
    /\ runs = <<>>
    /\ fence = {}
    /\ fenceRecovery = FALSE
    /\ effect = [t \in Tasks |-> NoEffect]
    /\ toRecover = {}
-----------------------------------------------------------------------------
(* Runs of a Task.                                                         *)

RunsOf(t) == {r \in DOMAIN runs : runs[r].task = t}
ActiveRuns(t) == {r \in RunsOf(t) : runs[r].status = "running"}
IsLatest(t, r) == r \in RunsOf(t) /\ \A i \in RunsOf(t) : i <= r
AtMostOneActive(t) == \A i, j \in ActiveRuns(t) : i = j

\* Variant: only a Run of the current generation is closed.
WithClosedCurrent(t, s) ==
    [r \in DOMAIN runs |->
        IF r \in ActiveRuns(t) /\ runs[r].generation = generation
          THEN [runs[r] EXCEPT !.status = s] ELSE runs[r]]

\* The history with the current Run of t closed, if it has one.
WithClosed(t, s) ==
    [r \in DOMAIN runs |->
        IF r \in ActiveRuns(t) THEN [runs[r] EXCEPT !.status = s] ELSE runs[r]]

\* Variant: a Run is issued with the status its Task was created with.
NewRunQueued(t, a, from) == [task |-> t, assignee |-> a, status |-> "queued",
                             generation |-> generation, from |-> from]

NewRun(t, a, from) == [task |-> t, assignee |-> a, status |-> "running",
                       generation |-> generation, from |-> from]
-----------------------------------------------------------------------------
(* The Task transaction.                                                   *)

\* Variant: a transaction does not wait for the Task's effect to end.
CanCommitDuringEffect(t) ==
    /\ process \in {"recovering", "serving"}
    /\ t \notin fence \/ effect[t].phase # "none"
    /\ ~fenceRecovery

\* TaskTransaction waits while an effect of the same Task holds the lease and
\* is refused when the durable fence log has an active fence left, or cannot
\* be trusted.
CanCommit(t) ==
    /\ process \in {"recovering", "serving"}
    /\ effect[t].phase = "none"
    /\ t \notin fence
    /\ ~fenceRecovery

Exists(t) == task[t].status # "absent"

\* domain/task CanTransition.
CanTransition(from, to) ==
    \/ from = to
    \/ from = "queued"  /\ to \in {"running", "failed", "cancelled", "superseded"}
    \/ from = "running" /\ to \in (Terminal \cup {"waiting", "blocked"})
    \/ from = "waiting" /\ to \in {"queued", "running", "blocked", "cancelled", "superseded"}
    \/ from = "blocked" /\ to \in {"queued", "running", "failed", "cancelled", "superseded"}

\* runStatusForTaskStatus.
RunStatusFor(s) == IF s = "queued" THEN "interrupted" ELSE s

\* updateStatusInTransaction to a status other than running.
UpdateStatusIn(t, s) ==
    /\ Exists(t)
    /\ CanTransition(task[t].status, s)
    /\ AtMostOneActive(t)
    /\ task' = [task EXCEPT ![t].status = s]
    /\ runs' = WithClosed(t, RunStatusFor(s))
-----------------------------------------------------------------------------
(* Admission.                                                              *)

Within(n, limit) == limit > 0 => n < limit

RunningTasks == {t \in Tasks : task[t].status = "running"}

\* Variant: a parent coordinates whether or not its child runs.
CoordinatorsEver(t) == {p \in RunningTasks : p = Parent[t] \/ \E c \in Tasks :
                                                   Exists(c) /\ Parent[c] = p}

\* runningTaskCoordinationParents: running parents of running Tasks, and of
\* the candidate, hold no capacity.
Coordinators(t) == {p \in RunningTasks : p = Parent[t] \/ \E c \in RunningTasks : Parent[c] = p}

\* Variant: the running writers are compared with the module limit only.
CanStartByCount(t) ==
    LET counted == RunningTasks \ Coordinators(t)
        inScope == IF t \in ReadOnly THEN {} ELSE counted \cap SameScope[t]
    IN  /\ \A d \in Dependencies[t] : task[d].status = "succeeded"
        /\ Within(Cardinality(counted), GlobalLimit)
        /\ Within(Cardinality(inScope), ModuleLimit)
        /\ Within(Cardinality({i \in counted : task[i].route = task[t].route}),
                  RouteLimit[task[t].route])

\* canStartInTransaction.
CanStart(t) ==
    LET counted == RunningTasks \ Coordinators(t)
        inScope == IF t \in ReadOnly THEN {} ELSE counted \cap SameScope[t]
    IN  /\ \A d \in Dependencies[t] : task[d].status = "succeeded"
        /\ inScope \subseteq ReadOnly
        /\ Within(Cardinality(counted), GlobalLimit)
        /\ Within(Cardinality(inScope), ModuleLimit)
        /\ Within(Cardinality({i \in counted : task[i].route = task[t].route}),
                  RouteLimit[task[t].route])
-----------------------------------------------------------------------------
(* Creation, start and reassignment.                                       *)

\* createInTransaction: the relatives exist and the Task does not.
MayCreate(t) ==
    /\ ~Exists(t)
    /\ \A k \in ({Parent[t], Supersedes[t]} \ {NoTask}) \cup Dependencies[t] : Exists(k)

Create(t, a) ==
    /\ CanCommit(t)
    /\ MayCreate(t)
    /\ task' = [task EXCEPT ![t].status = "queued", ![t].assignee = a]
    /\ UNCHANGED <<process, generation, runs, fence, fenceRecovery, effect>>

CreateAndStartRun(t, a) ==
    /\ CanCommit(t)
    /\ MayCreate(t)
    /\ CanStart(t)
    /\ Len(runs) < MaxRuns
    /\ task' = [task EXCEPT ![t].status = "running", ![t].assignee = a]
    /\ runs' = Append(runs, NewRun(t, a, 0))
    /\ UNCHANGED <<process, generation, fence, fenceRecovery, effect>>

\* startWithReasonAndCheckpointAndTrace.
StartWithReason(t, reason, from) ==
    /\ Exists(t)
    /\ reason = "first" <=> RunsOf(t) = {}
    /\ task[t].status \in Terminal => reason = "explicit_rerun"
    /\ AtMostOneActive(t)
    /\ task[t].status # "running" => CanStart(t)
    /\ Len(runs) < MaxRuns
    /\ task' = [task EXCEPT ![t].status = "running"]
    /\ runs' = Append(WithClosed(t, IF reason = "agent_reassignment" THEN "reassigned"
                                                                     ELSE "interrupted"),
                      NewRun(t, task[t].assignee, from))

\* Start, StartWithReason and StartRunWithReason.
Start(t, reason) ==
    /\ CanCommit(t)
    /\ StartWithReason(t, reason, 0)
    /\ UNCHANGED <<process, generation, fence, fenceRecovery, effect>>

\* Variant: any closed Run of the Task may be continued, not the latest only.
CheckpointPredecessorAny(t, r, actor, reason) ==
    /\ task[t].assignee = actor
    /\ r \in RunsOf(t) /\ ActiveRuns(t) = {}
    /\ runs[r].assignee = actor
    /\ \/ reason = "checkpoint_resume" /\ runs[r].status \in {"waiting", "interrupted"}
       \/ reason = "explicit_rerun" /\ runs[r].status \in {"succeeded", "failed", "cancelled"}

\* validateCheckpointPredecessor.
CheckpointPredecessor(t, r, actor, reason) ==
    /\ task[t].assignee = actor
    /\ IsLatest(t, r)
    /\ ActiveRuns(t) = {}
    /\ runs[r].assignee = actor
    /\ \/ reason = "checkpoint_resume" /\ runs[r].status \in {"waiting", "interrupted"}
       \/ reason = "explicit_rerun" /\ runs[r].status \in {"succeeded", "failed", "cancelled"}

StartRunFromCheckpoint(t, r, actor, reason) ==
    /\ CanCommit(t)
    /\ CheckpointPredecessor(t, r, actor, reason)
    /\ StartWithReason(t, reason, r)
    /\ UNCHANGED <<process, generation, fence, fenceRecovery, effect>>

\* recordAssignmentInTransaction: the current Run, if the Task is running and
\* has one, passes to the new assignee as a Run of its own.
RecordAssignment(t, a) ==
    /\ CanCommit(t)
    /\ Exists(t)
    /\ AtMostOneActive(t)
    /\ task' = [task EXCEPT ![t].assignee = a]
    /\ IF task[t].assignee # a /\ task[t].status = "running" /\ ActiveRuns(t) # {}
         THEN /\ Len(runs) < MaxRuns
              /\ runs' = Append(WithClosed(t, "reassigned"), NewRun(t, a, 0))
         ELSE UNCHANGED runs
    /\ UNCHANGED <<process, generation, fence, fenceRecovery, effect>>

RecordRouting(t, route) ==
    /\ CanCommit(t)
    /\ Exists(t)
    /\ task' = [task EXCEPT ![t].route = route]
    /\ UNCHANGED <<process, generation, runs, fence, fenceRecovery, effect>>
-----------------------------------------------------------------------------
(* Status changes and the end of a Run.                                    *)

\* UpdateStatus and its named forms Queue, Resume, Wait, Block, Succeed, Fail
\* and Cancel.
UpdateStatus(t, s) ==
    /\ CanCommit(t)
    /\ UpdateStatusIn(t, s)
    /\ UNCHANGED <<process, generation, fence, fenceRecovery, effect>>

\* The replacement has declared that it supersedes t.
Supersede(t, replacement) ==
    /\ Supersedes[replacement] = t
    /\ Exists(replacement)
    /\ UpdateStatus(t, "superseded")

\* Variant: a Run that another caller closed is interrupted again.
InterruptRunAnyStatus(t, r) ==
    /\ CanCommit(t)
    /\ r \in RunsOf(t)
    /\ runs' = [runs EXCEPT ![r].status = "interrupted"]
    /\ UNCHANGED <<process, generation, task, fence, fenceRecovery, effect>>

\* interruptRunInTransaction closes the Run and leaves the Task as it is.
InterruptRun(t, r) ==
    /\ CanCommit(t)
    /\ r \in ActiveRuns(t)
    /\ runs' = [runs EXCEPT ![r].status = "interrupted"]
    /\ UNCHANGED <<process, generation, task, fence, fenceRecovery, effect>>

\* validateRunExecutionInTransaction.
MayExecute(t, r, actor) ==
    /\ task[t].status = "running"
    /\ ActiveRuns(t) = {r}
    /\ actor # "unassigned"
    /\ task[t].assignee = actor
    /\ runs[r].assignee = actor
    /\ runs[r].generation = generation

\* CompleteRun, AdmitRunCompletion and CloseStartedRun.
CompleteRun(t, r, actor, s) ==
    /\ CanCommit(t)
    /\ MayExecute(t, r, actor)
    /\ IsLatest(t, r)
    /\ UpdateStatusIn(t, s)
    /\ UNCHANGED <<process, generation, fence, fenceRecovery, effect>>
-----------------------------------------------------------------------------
(* External effects under the durable fence: ExecuteRunEffect.             *)

FenceIdle(t) == CanCommit(t) /\ process = "serving"

\* The lease is taken and the acquire event is durable.
EffectAcquire(t, r, actor) ==
    /\ FenceIdle(t)
    /\ fence' = fence \cup {t}
    /\ effect' = [effect EXCEPT ![t] = [phase |-> "fenced", run |-> r, actor |-> actor]]
    /\ UNCHANGED <<process, generation, task, runs, fenceRecovery>>

\* The acquire event may or may not be durable: the store refuses every later
\* transaction until it is opened again.
EffectAcquireUncertain(t) ==
    /\ FenceIdle(t)
    /\ fence' \in {fence, fence \cup {t}}
    /\ fenceRecovery' = TRUE
    /\ UNCHANGED <<process, generation, task, runs, effect>>

\* The short read transaction under the fence decides whether the effect runs.
EffectAdmit(t) ==
    /\ effect[t].phase = "fenced"
    /\ effect' = [effect EXCEPT ![t].phase =
                    IF MayExecute(t, effect[t].run, effect[t].actor) THEN "running"
                                                                    ELSE "ending"]
    /\ UNCHANGED <<process, generation, task, runs, fence, fenceRecovery>>

EffectReturn(t) ==
    /\ effect[t].phase = "running"
    /\ effect' = [effect EXCEPT ![t].phase = "ending"]
    /\ UNCHANGED <<process, generation, task, runs, fence, fenceRecovery>>

\* The release event: written, refused with the fence left active (a plain
\* write error, or the store already distrusts the log), or uncertain.
EffectRelease(t) ==
    /\ effect[t].phase = "ending"
    /\ effect' = [effect EXCEPT ![t] = NoEffect]
    /\ \/ /\ ~fenceRecovery
          /\ fence' = fence \ {t}
          /\ UNCHANGED fenceRecovery
       \/ UNCHANGED <<fence, fenceRecovery>>
       \/ /\ ~fenceRecovery
          /\ fence' \in {fence, fence \ {t}}
          /\ fenceRecovery' = TRUE
    /\ UNCHANGED <<process, generation, task, runs>>
-----------------------------------------------------------------------------
(* Crash, restart and startup recovery.                                    *)

Crash ==
    /\ process # "down"
    /\ process' = "down"
    /\ fenceRecovery' = FALSE
    /\ effect' = [t \in Tasks |-> NoEffect]
    /\ toRecover' = {}
    /\ UNCHANGED <<generation, task, runs, fence>>

\* The store opens with the next writer generation and reads the fence log;
\* startup recovery lists the running Runs.
OpenStore ==
    /\ process = "down"
    /\ generation < MaxGeneration
    /\ process' = "recovering"
    /\ generation' = generation + 1
    /\ toRecover' = {r \in DOMAIN runs : runs[r].status = "running"}
    /\ UNCHANGED <<task, runs, fence, fenceRecovery, effect>>

Stale(r) == runs[r].generation < generation

\* What RecoverRunAfterProcessRestart asks of the Run it closes; otherwise it
\* answers ErrRunConflict, or does nothing.
MayRecover(t, r, actor) ==
    /\ IsLatest(t, r)
    /\ ActiveRuns(t) = {r}
    /\ task[t].status = "running"
    /\ actor # "unassigned" /\ task[t].assignee = actor /\ runs[r].assignee = actor
    /\ Stale(r)

\* RecoverRunAfterProcessRestart, from startup recovery and from its callers.
RecoverRun(t, r, actor, s) ==
    /\ CanCommit(t)
    /\ MayRecover(t, r, actor)
    /\ UpdateStatusIn(t, s)
    /\ UNCHANGED <<process, generation, fence, fenceRecovery, effect>>

\* Variant: whatever the recovery answers, the loop goes on to the next Run.
LeftAloneOnError(r) ==
    LET t == runs[r].task
    IN  t \in Delegated \/ ~CanCommit(t) \/ ~MayRecover(t, r, runs[r].assignee)

\* The Runs the loops pass over: of an open native delegation; of a Task that
\* does not run or has another owner; or refused with ErrRunConflict.
LeftAlone(r) ==
    LET t == runs[r].task
    IN  \/ t \in Delegated
        \/ task[t].status # "running"
        \/ task[t].assignee = "unassigned"
        \/ runs[r].assignee \notin {task[t].assignee, "unassigned"}
        \/ CanCommit(t) /\ ~MayRecover(t, r, runs[r].assignee)

\* One turn of a loop: the Run is closed or left alone.
RecoverNext(r) ==
    /\ process = "recovering"
    /\ \/ \E s \in (Completions \cap Requested) \ {"waiting"} :
             RecoverRun(runs[r].task, r, runs[r].assignee, s)
       \/ /\ LeftAlone(r)
          /\ UNCHANGED <<process, generation, task, runs, fence, fenceRecovery, effect>>
    /\ toRecover' = toRecover \ {r}

\* The loops have ended: nothing is looked at again before the process serves.
StartupDone ==
    /\ process = "recovering"
    /\ toRecover = {}
    /\ process' = "serving"
    /\ UNCHANGED <<generation, task, runs, fence, fenceRecovery, effect, toRecover>>

\* A recovery that the store refuses is fatal, and so is ErrRunConflict for a
\* Run that has an Action: the process exits.
StartupFatal ==
    /\ process = "recovering"
    /\ \E r \in toRecover :
          \/ ~CanCommit(runs[r].task)
          \/ ~MayRecover(runs[r].task, r, runs[r].assignee)
    /\ Crash
-----------------------------------------------------------------------------
Serve(t) ==
    \/ \E a \in Assignees : Create(t, a) \/ CreateAndStartRun(t, a)
    \/ \E a \in Agents : RecordAssignment(t, a)
    \/ \E route \in Routes : RecordRouting(t, route)
    \/ \E reason \in Reasons : Start(t, reason)
    \/ \E s \in Requested : UpdateStatus(t, s)
    \/ \E replacement \in Tasks : Supersede(t, replacement)
    \/ \E r \in RunsOf(t) :
          \/ InterruptRun(t, r)
          \/ \E a \in Agents :
                \/ \E reason \in {"checkpoint_resume", "explicit_rerun"} :
                      StartRunFromCheckpoint(t, r, a, reason)
                \/ \E s \in Completions \cap Requested :
                      CompleteRun(t, r, a, s) \/ RecoverRun(t, r, a, s)

Effect(t) ==
    \/ \E r \in RunsOf(t), a \in Agents : EffectAcquire(t, r, a)
    \/ EffectAcquireUncertain(t)
    \/ EffectAdmit(t) \/ EffectReturn(t) \/ EffectRelease(t)

Startup ==
    \/ OpenStore \/ StartupDone \/ StartupFatal
    \/ \E r \in toRecover : RecoverNext(r)

Next ==
    \/ process = "serving" /\ UNCHANGED toRecover /\ \E t \in Tasks : Serve(t)
    \/ UNCHANGED toRecover /\ \E t \in EffectTasks : Effect(t)
    \/ Startup
    \/ Crash

Spec == Init /\ [][Next]_vars
-----------------------------------------------------------------------------
(* Properties.                                                             *)

\* At most one Run of a Task is active, and then it is the latest one, its
\* Task is running and both name the same assignee, whoever starts, reassigns,
\* interrupts, completes, checkpoints or recovers the Task in whatever order.
ActiveRunOwned ==
    \A t \in Tasks : \A r \in ActiveRuns(t) :
        /\ IsLatest(t, r)
        /\ AtMostOneActive(t)
        /\ task[t].status = "running"
        /\ task[t].assignee = runs[r].assignee

\* While an external effect runs, its Run stays the active Run of the open
\* store's generation and its actor stays the assignee of Task and Run: nobody
\* completes, interrupts, reassigns or replaces it under the effect.
EffectUnderOwner ==
    \A t \in Tasks :
        effect[t].phase = "running" =>
            /\ ActiveRuns(t) = {effect[t].run}
            /\ runs[effect[t].run].generation = generation
            /\ task[t].status = "running"
            /\ {task[t].assignee, runs[effect[t].run].assignee} = {effect[t].actor}

\* The Runs startup must close: active, of an earlier generation, not of an
\* open native delegation, and of somebody.
Recoverable ==
    {r \in DOMAIN runs : /\ runs[r].status = "running" /\ Stale(r)
                         /\ runs[r].task \notin Delegated
                         /\ runs[r].assignee # "unassigned"}

\* Once the process serves, no active Run of an earlier generation is left but
\* those of open native delegations and those without an assignee: none of the
\* branches on which a recovery loop passes a Run over meets one it should
\* have closed, although nothing looks again when the loops have ended.
NoStaleRunServing == process = "serving" => Recoverable = {}

\* A checkpointed Run is continued at most once, and by the next Run of its
\* Task: two resumers that hold the same checkpoint do not both continue.
CheckpointContinuedOnce ==
    \A i \in DOMAIN runs :
        LET p == runs[i].from
        IN  p # 0 => /\ p < i /\ runs[p].task = runs[i].task
                     /\ \A j \in RunsOf(runs[i].task) : j <= p \/ j >= i

\* A Run is never lost, and once closed it never changes; a Run keeps the
\* Task, assignee and generation it was issued with.
HistoryKept ==
    [][\A r \in DOMAIN runs :
          /\ r \in DOMAIN runs'
          /\ runs[r].status # "running" => runs'[r] = runs[r]
          /\ runs'[r] = [runs[r] EXCEPT !.status = runs'[r].status]]_vars

\* The running Tasks that hold capacity: not the parents of running Tasks.
Leaves == {t \in RunningTasks : \A c \in RunningTasks : Parent[c] # t}

\* The hierarchy the two properties of admission are about: a child has no
\* children of its own, and the child of a writer writes in its parent's scope.
TwoLevels == \A t \in Tasks : Parent[t] # NoTask => Parent[Parent[t]] = NoTask

ChildrenShareScope ==
    \A c, p \in Tasks :
        Parent[c] = p /\ p \notin ReadOnly => /\ c \notin ReadOnly
                                             /\ SameScope[p] \subseteq SameScope[c]

\* In a hierarchy of two levels the running leaves stay within the global
\* limit, although a parent regains its slot when its last child ends.
LeavesWithinLimit == Cardinality(Leaves) <= GlobalLimit

\* Where, besides, children share their parent's write scope, two running
\* leaves that write never share one.
WriteScopeExclusive ==
    \A t, u \in Leaves \ ReadOnly : t # u => u \notin SameScope[t]

\* RecoverRunAfterProcessRestart, as its comment has it, closes an active Run
\* whose generation predates the store's lease: startup recovery is not refused.
StartupRecoveryAdmitted ==
    process = "recovering" => \A r \in Recoverable : CanCommit(runs[r].task)
=============================================================================
