------------------------------ MODULE RunQueue ------------------------------
(***************************************************************************)
(* The resume queue of long Agent Runs (internal/application/superagent):  *)
(* the Viewer pauses a Run and queues its checkpoint again, the scheduler  *)
(* claims the queue item under a lease, has the Task owner start a new     *)
(* Run, hands it to the orchestrator and writes the item's receipt, and    *)
(* startup rebuilds the intents a crash left behind.                       *)
(*                                                                         *)
(* One Task and one checkpoint: a resumed Run keeps the checkpoint of its  *)
(* source, so the whole history of a Task shares one queue item.  Three    *)
(* stores are written in turn, never in one transaction: the Task owner    *)
(* (task and the status of each Run), the AgentRun projections and the     *)
(* queue item.                                                             *)
(*                                                                         *)
(* CORE runs one scheduler per process and one process per store, so a     *)
(* lease is only ever lost to the scheduler's own later claim: the lease   *)
(* token is not part of the state.                                         *)
(***************************************************************************)
EXTENDS Naturals, Sequences

CONSTANTS
    MaxFaults,      \* bound of the model: store calls that fail
    MaxCrashes      \* bound of the model: crashes of the process

ASSUME RunQueueAssumption == MaxFaults \in Nat /\ MaxCrashes \in Nat

VARIABLES
    process,    \* "down", "open" (Task store recovered) or "serving"
    task,       \* status of the canonical Task
    runs,       \* its Runs: canonical status and AgentRun projection
    item,       \* the queue item of the checkpoint
    scheduler,  \* where RunOnce stands, "off" or "refused" when not started
    executor,   \* where the orchestrator stands with each Run
    marks,      \* the Runs marked as paused in the RunController
    viewer,     \* the resume request in progress and the Run of a pause request
    overtaken,  \* history: a resume went on after its queue check was outdated
    faults, crashes

owner == <<task, runs>>
vars == <<process, task, runs, item, scheduler, executor, marks, viewer, overtaken,
          faults, crashes>>

-----------------------------------------------------------------------------
TaskStatus == {"queued", "running", "waiting", "blocked", "succeeded", "failed", "cancelled"}
Terminal == {"succeeded", "failed", "cancelled"}
RunStatus == {"running", "waiting", "blocked", "succeeded", "failed", "cancelled", "interrupted"}
Projection == {"none", "running", "paused", "completed", "failed", "cancelled", "blocked",
               "interrupted"}
Claimable == {"queued", "reserved", "claimed"}
Receipts == {"completed", "failed", "cancelled", "blocked"}
ItemStatus == {"none"} \cup Claimable \cup Receipts
ResumeReasons == {"checkpoint_resume", "process_restart_resume"}
SchedulerSteps == {"off", "refused", "idle", "reserved", "unstarted", "blocking", "started",
                   "unattached", "attached", "processing", "unrenewed", "answered", "erred", "settling"}
ExecutorSteps == {"none", "attaching", "starting", "dispatched", "answered", "rejected",
                  "succeeding", "failing", "delegated"}

NoItem == [status |-> "none", reason |-> "none", run |-> 0, attempts |-> 0]
Intent(reason) == [NoItem EXCEPT !.status = "queued", !.reason = reason]
Unclaimed == {NoItem, Intent("checkpoint_resume")}
ResumeSteps == {"none", "checked", "resume", "refused"}
NoRequest == [op |-> "none", run |-> 0, pause |-> 0]

RunIds == 1 .. Len(runs)
Latest == Len(runs)
NewRun == [status |-> "running", projection |-> "none"]
ActiveRuns == {r \in RunIds : runs[r].status = "running"}
Working(r) == executor[r] # "none"
Projected == {r \in RunIds : runs[r].projection # "none"}

\* A turn of the orchestrator has just started the first Run of its Task.
Init ==
    /\ process = "serving"
    /\ task = "running"
    /\ runs = <<NewRun>>
    /\ item = NoItem
    /\ scheduler = "idle"
    /\ executor = <<"starting">>
    /\ marks = {}
    /\ viewer = NoRequest
    /\ overtaken = FALSE
    /\ faults = 0
    /\ crashes = 0

Fault == faults < MaxFaults /\ faults' = faults + 1

-----------------------------------------------------------------------------
(* The Task owner, one transaction per call (module TaskRuns).             *)

CanTransition(from, to) ==
    \/ from = to
    \/ CASE from = "queued"  -> to \in {"running", "failed", "cancelled"}
         [] from = "running" -> to \in {"waiting", "blocked", "failed", "succeeded", "cancelled"}
         [] from = "waiting" -> to \in {"queued", "running", "blocked", "cancelled"}
         [] from = "blocked" -> to \in {"queued", "running", "failed", "cancelled"}
         [] OTHER            -> FALSE

\* The Run status a Task status closes the active Run with.
Closing == {"waiting", "blocked", "succeeded", "failed", "cancelled"}

WithClosed(status) ==
    [r \in RunIds |->
        IF runs[r].status = "running" THEN [runs[r] EXCEPT !.status = status] ELSE runs[r]]

\* Wait, Block, Resume, Succeed, Fail and Cancel name the Task, never a Run:
\* whichever Run is active then is closed with the Task's outcome.
Move(status) ==
    /\ task' = status
    /\ runs' = IF status \in Closing THEN WithClosed(status) ELSE runs

TryMove(status) == IF CanTransition(task, status) THEN Move(status) ELSE UNCHANGED owner

WithProjection(S, projection) ==
    [r \in RunIds |-> IF r \in S THEN [runs[r] EXCEPT !.projection = projection] ELSE runs[r]]

-----------------------------------------------------------------------------
(* The orchestrator with one Run.                                          *)

At(r, step) == process = "serving" /\ executor[r] = step
Advance(r, step) == executor' = [executor EXCEPT ![r] = step]

\* ProcessMessage returns: only the scheduler waits, for the Run it claimed, and
\* a lease it could not renew turns any answer into an error.
Answer(r, outcome) ==
    scheduler' =
          CASE item.run = r /\ scheduler = "processing" -> outcome
            [] item.run = r /\ scheduler = "unrenewed"  -> "erred"
            [] OTHER                                    -> scheduler

Return(r, outcome) == Advance(r, "none") /\ Answer(r, outcome)

\* A resumed Run is continued only while it is the Task's active Run.
AttachExisting(r) ==
    /\ At(r, "attaching")
    /\ IF task = "running" /\ ActiveRuns = {r}
         THEN Advance(r, "starting") /\ UNCHANGED scheduler
         ELSE Return(r, "erred")
    /\ UNCHANGED <<process, owner, item, marks, viewer, faults, crashes, overtaken>>

RecordStarted(r) ==
    /\ At(r, "starting")
    /\ \/ /\ runs' = WithProjection({r}, "running")
          /\ Advance(r, "dispatched")
          /\ UNCHANGED faults
       \/ Fault /\ Advance(r, "failing") /\ UNCHANGED runs
    /\ UNCHANGED <<process, task, item, scheduler, marks, viewer, crashes, overtaken>>

\* The dispatch answers, is cancelled or fails, or an event publication fails.
Dispatched(r) ==
    /\ At(r, "dispatched")
    /\ \E step \in {"answered", "rejected", "failing"} : Advance(r, step)
    /\ UNCHANGED <<process, owner, item, scheduler, marks, viewer, faults, crashes, overtaken>>

\* The closing projection is written blindly over whatever is stored.  A failed
\* dispatch asks the pause marker; a failed verification does not.
RecordFinished(r) ==
    /\ \/ /\ At(r, "answered")
          /\ runs' = WithProjection({r}, "completed")
          /\ Advance(r, "succeeding")
       \/ /\ At(r, "rejected")
          /\ \E projection \in {"failed"} \cup (IF r \in marks THEN {"paused"} ELSE {}) :
                runs' = WithProjection({r}, projection)
          /\ Advance(r, "failing")
    /\ UNCHANGED <<process, task, item, scheduler, marks, viewer, faults, crashes, overtaken>>

RecordFinishedFails(r) ==
    /\ At(r, "answered")
    /\ Fault
    /\ Advance(r, "failing")
    /\ UNCHANGED <<process, owner, item, scheduler, marks, viewer, crashes, overtaken>>

\* The deferred finish settles the Task by its id; a waiting Task is a pause.
FinishSucceeded(r) ==
    /\ At(r, "succeeding")
    /\ TryMove("succeeded")
    /\ Return(r, IF CanTransition(task, "succeeded") THEN "answered" ELSE "erred")
    /\ UNCHANGED <<process, item, marks, viewer, faults, crashes, overtaken>>

FinishFailed(r) ==
    /\ At(r, "failing")
    /\ \/ /\ IF task = "waiting" THEN UNCHANGED owner ELSE TryMove("failed")
          /\ Return(r, "erred")
          /\ UNCHANGED faults
       \/ /\ TryMove("cancelled")         \* its native delegation was cancelled
          /\ Return(r, "erred")
          /\ UNCHANGED faults
       \/ /\ Fault                        \* the outcome of the delegation is unknown
          /\ Advance(r, "delegated")
          /\ Answer(r, "erred")
          /\ UNCHANGED owner
    /\ UNCHANGED <<process, item, marks, viewer, crashes, overtaken>>

\* The Task store refuses the closing transaction: the Task keeps its status.
FinishFaults(r) ==
    /\ At(r, "succeeding") \/ At(r, "failing")
    /\ Fault
    /\ Return(r, "erred")
    /\ UNCHANGED <<process, owner, item, marks, viewer, crashes, overtaken>>

\* A native delegation left open by an unknown outcome or a crash reports.
DelegationReports(r) ==
    /\ At(r, "delegated")
    /\ IF runs[r].status = "running"
         THEN \E status \in {"succeeded", "failed", "cancelled"} : Move(status)
         ELSE UNCHANGED owner
    /\ Advance(r, "none")
    /\ UNCHANGED <<process, item, scheduler, marks, viewer, faults, crashes, overtaken>>

Executor(r) ==
    \/ AttachExisting(r) \/ RecordStarted(r) \/ Dispatched(r) \/ RecordFinished(r)
    \/ RecordFinishedFails(r) \/ FinishSucceeded(r) \/ FinishFailed(r) \/ FinishFaults(r)

-----------------------------------------------------------------------------
(* The Viewer.  Requests may name any Run that has a projection.           *)

\* Bound of the model (PauseBound): no further pause after an outdated resume.
PauseBound == ~overtaken

PauseTask(r) ==
    /\ process = "serving" /\ viewer.pause = 0 /\ PauseBound
    /\ r \in Projected
    /\ CanTransition(task, "waiting")
    /\ Move("waiting")
    /\ marks' = marks \cup {r}
    /\ viewer' = [viewer EXCEPT !.pause = r]
    /\ UNCHANGED <<process, item, scheduler, executor, faults, crashes, overtaken>>

PauseProjection ==
    /\ viewer.pause # 0
    /\ \/ runs' = WithProjection({viewer.pause}, "paused") /\ UNCHANGED faults
       \/ Fault /\ UNCHANGED runs
    /\ viewer' = [viewer EXCEPT !.pause = 0]
    /\ UNCHANGED <<process, task, item, scheduler, executor, marks, crashes, overtaken>>

\* The Run is paused, and the queue holds no item of its checkpoint or an
\* unclaimed intent: read first, the Task owner is asked afterwards.
ResumeCheck(r) ==
    /\ process = "serving" /\ viewer.op \notin {"checked", "resume"}
    /\ r \in RunIds /\ runs[r].projection = "paused"
    /\ item \in Unclaimed
    /\ viewer' = [viewer EXCEPT !.op = "checked", !.run = r]
    /\ UNCHANGED <<process, owner, item, scheduler, executor, marks, faults, crashes, overtaken>>

\* The scheduler may have claimed the intent since the check.
ResumeTask ==
    /\ viewer.op = "checked"
    /\ IF CanTransition(task, "queued")
         THEN /\ Move("queued")
              /\ viewer' = [viewer EXCEPT !.op = "resume"]
              /\ overtaken' = (overtaken \/ item \notin Unclaimed)
         ELSE /\ viewer' = [viewer EXCEPT !.op = "none", !.run = 0]
              /\ UNCHANGED <<owner, overtaken>>
    /\ UNCHANGED <<process, item, scheduler, executor, marks, faults, crashes>>

\* The intent is written when the check found none.
ResumeEnqueue ==
    /\ viewer.op = "resume"
    /\ \/ /\ item' = IF item = NoItem THEN Intent("checkpoint_resume") ELSE item
          /\ marks' = marks \ {viewer.run}
          /\ viewer' = [viewer EXCEPT !.op = "none", !.run = 0]
          /\ UNCHANGED faults
       \/ /\ item = NoItem
          /\ Fault
          /\ viewer' = [viewer EXCEPT !.op = "refused", !.run = 0]
          /\ UNCHANGED <<item, marks>>
    /\ UNCHANGED <<process, owner, scheduler, executor, crashes, overtaken>>

\* The user cancels the Task itself.
CancelTask ==
    /\ process = "serving"
    /\ task \notin Terminal
    /\ Move("cancelled")
    /\ UNCHANGED <<process, item, scheduler, executor, marks, viewer, faults, crashes, overtaken>>

Viewer ==
    \/ \E r \in RunIds : PauseTask(r) \/ ResumeCheck(r)
    \/ PauseProjection \/ ResumeTask \/ ResumeEnqueue \/ CancelTask

-----------------------------------------------------------------------------
(* The scheduler: RunOnce, one store call at a time.                       *)

Step(from, to) == process = "serving" /\ scheduler = from /\ scheduler' = to

\* Variant: expired leases are not taken up.
ClaimNextQueuedOnly ==
    /\ Step("idle", "reserved")
    /\ item.status = "queued"
    /\ item' = [item EXCEPT !.status = "reserved", !.attempts = 1]
    /\ UNCHANGED <<process, owner, executor, marks, viewer, faults, crashes, overtaken>>

\* A claim left behind by an earlier pass is claimable once its lease expired.
ClaimNext ==
    /\ Step("idle", "reserved")
    /\ item.status \in Claimable
    /\ item' = [item EXCEPT !.status = "reserved", !.run = 0,
                            !.attempts = IF @ = 0 THEN 1 ELSE 2]
    /\ UNCHANGED <<process, owner, executor, marks, viewer, faults, crashes, overtaken>>

\* A first claim starts with the intent's reason, any later one reacquires the
\* lease; both close a Run that is still active and refuse a terminal Task.
StartRun ==
    /\ Step("reserved", "started")
    /\ CanTransition(task, "running")
    /\ task' = "running"
    /\ runs' = Append(WithClosed("interrupted"), NewRun)
    /\ executor' = Append(executor, "none")
    /\ UNCHANGED <<process, item, marks, viewer, faults, crashes, overtaken>>

\* Refused: a terminal Task, the parallel limits, or the store.
StartRefused ==
    /\ Step("reserved", "unstarted")
    /\ \/ task # "running" /\ UNCHANGED faults
       \/ Fault
    /\ UNCHANGED <<process, owner, item, executor, marks, viewer, crashes, overtaken>>

TerminalizeStartFailure ==
    /\ Step("unstarted", "blocking")
    /\ \/ /\ CASE task \in {"running", "waiting"} -> Move("blocked")
               [] task = "queued"               -> Move("failed")
               [] OTHER                         -> UNCHANGED owner
          /\ UNCHANGED faults
       \/ Fault /\ UNCHANGED owner
    /\ UNCHANGED <<process, item, executor, marks, viewer, crashes, overtaken>>

BlockReservation ==
    /\ Step("blocking", "idle")
    /\ \/ item' = [item EXCEPT !.status = "blocked"] /\ UNCHANGED faults
       \/ Fault /\ UNCHANGED item
    /\ UNCHANGED <<process, owner, executor, marks, viewer, crashes, overtaken>>

AttachRun ==
    /\ Step("started", "attached")
    /\ item' = [item EXCEPT !.status = "claimed", !.run = Latest]
    /\ UNCHANGED <<process, owner, executor, marks, viewer, faults, crashes, overtaken>>

AttachFails ==
    /\ Step("started", "unattached")
    /\ Fault
    /\ UNCHANGED <<process, owner, item, executor, marks, viewer, crashes, overtaken>>

\* Only the issued Run is closed; the Task keeps its status for the next claim.
InterruptIssuedRun ==
    /\ Step("unattached", "idle")
    /\ \/ /\ runs' = IF runs[Latest].status = "running"
                        THEN [runs EXCEPT ![Latest].status = "interrupted"] ELSE runs
          /\ UNCHANGED faults
       \/ Fault /\ UNCHANGED runs
    /\ UNCHANGED <<process, task, item, executor, marks, viewer, crashes, overtaken>>

\* The claimed trace is appended first; without it the Run is not processed.
Process ==
    /\ \/ /\ Step("attached", "processing")
          /\ Advance(item.run, "attaching")
          /\ UNCHANGED faults
       \/ /\ Step("attached", "idle")
          /\ Fault
          /\ UNCHANGED executor
    /\ UNCHANGED <<process, owner, item, marks, viewer, crashes, overtaken>>

\* RenewRunQueueLease failed: the processor's context is cancelled.
HeartbeatFails ==
    /\ Step("processing", "unrenewed")
    /\ Fault
    /\ UNCHANGED <<process, owner, item, executor, marks, viewer, crashes, overtaken>>

\* The receipt; the projection of the processed Run follows in a write of its
\* own, which the caller's error return skips.
Complete(status, projection) ==
    \/ /\ item' = [item EXCEPT !.status = status]
       /\ \/ runs' = WithProjection({item.run} \cap Projected, projection) /\ UNCHANGED faults
          \/ Fault /\ UNCHANGED runs
    \/ Fault /\ UNCHANGED <<item, runs>>

SettleAnswered ==
    /\ Step("answered", "idle")
    /\ IF task = "succeeded"
         THEN Complete("completed", "completed")
         ELSE UNCHANGED <<item, runs, faults>>
    /\ UNCHANGED <<process, task, executor, marks, viewer, crashes, overtaken>>

\* Variant: the item is failed without asking the owner.
SettleErredUnasked ==
    /\ Step("erred", "settling")
    /\ UNCHANGED <<process, owner, item, executor, marks, viewer, faults, crashes, overtaken>>

\* The processor failed.  A waiting Task is a pause, a running one is failed
\* first; with any other status the claim is left to a later pass.
SettleErred ==
    /\ scheduler = "erred"
    /\ CASE task = "waiting" ->
               /\ Step("erred", "idle")
               /\ \/ item' = [item EXCEPT !.status = "cancelled"] /\ UNCHANGED faults
                  \/ Fault /\ UNCHANGED item
               /\ UNCHANGED owner
         [] task = "running" ->
               /\ \/ Step("erred", "settling") /\ Move("failed") /\ UNCHANGED faults
                  \/ Step("erred", "idle") /\ Fault /\ UNCHANGED owner
               /\ UNCHANGED item
         [] task = "failed" -> Step("erred", "settling") /\ UNCHANGED <<owner, item, faults>>
         [] OTHER -> Step("erred", "idle") /\ UNCHANGED <<owner, item, faults>>
    /\ UNCHANGED <<process, executor, marks, viewer, crashes, overtaken>>

SettleFailed ==
    /\ Step("settling", "idle")
    /\ Complete("failed", "failed")
    /\ UNCHANGED <<process, task, executor, marks, viewer, crashes, overtaken>>

Scheduler ==
    \/ ClaimNext \/ StartRun \/ StartRefused \/ TerminalizeStartFailure \/ BlockReservation
    \/ AttachRun \/ AttachFails \/ InterruptIssuedRun \/ Process \/ HeartbeatFails
    \/ SettleAnswered \/ SettleErred \/ SettleFailed

-----------------------------------------------------------------------------
(* Crash and startup.                                                      *)

Crash ==
    /\ process # "down"
    /\ crashes < MaxCrashes
    /\ crashes' = crashes + 1
    /\ process' = "down"
    /\ scheduler' = "off"
    /\ executor' = [r \in RunIds |-> IF executor[r] = "delegated" THEN "delegated" ELSE "none"]
    /\ marks' = {}
    /\ viewer' = NoRequest
    /\ UNCHANGED <<owner, item, faults, overtaken>>

\* Task recovery at startup: a Run the dead process left active takes the
\* outcome of its terminal Action, or fails with its Task, or is left running
\* when the Harness still holds its delegation.
OpenStore ==
    /\ process = "down"
    /\ process' = "open"
    /\ \/ /\ ActiveRuns # {} /\ task = "running"
          /\ \A r \in ActiveRuns : ~Working(r)
          /\ \E status \in {"succeeded", "failed", "cancelled"} : Move(status)
          /\ UNCHANGED executor
       \/ /\ ActiveRuns # {} /\ task = "running"
          /\ executor' = [r \in RunIds |-> IF r \in ActiveRuns THEN "delegated" ELSE executor[r]]
          /\ UNCHANGED owner
       \/ /\ ActiveRuns = {} \/ task # "running"
          /\ UNCHANGED <<owner, executor>>
    /\ UNCHANGED <<item, scheduler, marks, viewer, faults, crashes, overtaken>>

WaitingCandidates == {r \in Projected : runs[r].status = "waiting" /\ task = "queued"}
RestartCandidates ==
    {r \in Projected : runs[r] = [status |-> "running", projection |-> "running"]
                          /\ task = "running"}

\* A stored intent that is not the unclaimed one recovery would write, or an
\* active Run whose Task is not running, refuses the whole recovery.
RecoveryRefused ==
    \/ \E r \in Projected : runs[r].status = "running" /\ task # "running"
    \/ WaitingCandidates # {} /\ item \notin {NoItem, Intent("checkpoint_resume")}
    \/ RestartCandidates # {} /\ item \notin {NoItem, Intent("process_restart_resume")}

ProjectionOf(status) ==
    CASE status = "succeeded" -> "completed"
      [] status = "waiting"   -> "paused"
      [] OTHER                -> status

Repaired(S) ==
    [r \in RunIds |->
        IF r \in S THEN [runs[r] EXCEPT !.projection = ProjectionOf(runs[r].status)] ELSE runs[r]]
Repairable == {r \in Projected : runs[r].status # "running"}

\* Variant: no intent is rebuilt for a Task left queued.
RebuiltForRestartOnly ==
    IF item = NoItem /\ RestartCandidates # {} THEN Intent("process_restart_resume") ELSE item

Rebuilt ==
    IF item # NoItem THEN item
    ELSE IF WaitingCandidates # {} THEN Intent("checkpoint_resume")
    ELSE IF RestartCandidates # {} THEN Intent("process_restart_resume")
    ELSE NoItem

\* RecoverInterruptedAgentRuns runs once; any error leaves the process without
\* a scheduler until its next start.
StartScheduler ==
    /\ process = "open"
    /\ process' = "serving"
    /\ IF RecoveryRefused
         THEN scheduler' = "refused" /\ UNCHANGED <<runs, item, faults>>
         ELSE \/ /\ scheduler' = "idle"
                 /\ runs' = Repaired(Repairable)
                 /\ item' = Rebuilt
                 /\ UNCHANGED faults
              \/ /\ Fault
                 /\ scheduler' = "refused"
                 /\ \E S \in SUBSET Repairable : runs' = Repaired(S)
                 /\ UNCHANGED item
    /\ UNCHANGED <<task, executor, marks, viewer, crashes, overtaken>>

Next ==
    \/ \E r \in RunIds : Executor(r) \/ DelegationReports(r)
    \/ Viewer \/ Scheduler \/ Crash \/ OpenStore \/ StartScheduler

\* The scheduler ticks for ever, a provider call returns, a handler that has
\* begun goes on, and a dead process is started again.
Fairness ==
    /\ WF_vars(Scheduler)
    /\ WF_vars(PauseProjection)
    /\ WF_vars(ResumeTask \/ ResumeEnqueue)
    /\ WF_vars(\E r \in RunIds : Executor(r))
    /\ WF_vars(OpenStore \/ StartScheduler)

Spec == Init /\ [][Next]_vars /\ Fairness

-----------------------------------------------------------------------------
(* Properties.                                                             *)

TypeOK ==
    /\ process \in {"down", "open", "serving"}
    /\ task \in TaskStatus
    /\ runs \in Seq([status : RunStatus, projection : Projection])
    /\ item \in [status : ItemStatus, reason : {"none"} \cup ResumeReasons,
                 run : 0 .. Latest, attempts : 0 .. 2]
    /\ scheduler \in SchedulerSteps
    /\ Len(executor) = Len(runs) /\ \A r \in RunIds : executor[r] \in ExecutorSteps
    /\ marks \subseteq RunIds
    /\ viewer \in [op : ResumeSteps, run : 0 .. Latest, pause : 0 .. Latest]
    /\ overtaken \in BOOLEAN
    /\ faults \in 0 .. MaxFaults
    /\ crashes \in 0 .. MaxCrashes

\* A receipt in the queue tells how the canonical Task ended, although the two
\* stores are written apart and pauses, cancels, crashes and the executor of an
\* earlier Run come between: completed means succeeded, failed means failed,
\* cancelled means the Task is paused or was cancelled (RunOnce asks the owner
\* before it completes the item).  A resume that asks the owner on an outdated
\* queue check can queue a Task again whose item has its receipt: left out.
ReceiptTruthful ==
    /\ item.status = "completed" => task = "succeeded"
    /\ item.status = "failed" => task = "failed"
    /\ item.status = "cancelled" => task \in {"waiting", "cancelled"} \/ overtaken

\* While a scheduler runs, a queued Task has an intent that will run it: no
\* resume is lost between the Task's transition and the queue item, whatever
\* crashes there.  A Viewer that was refused was told to ask again; a blocked
\* item is the receipt of a start the Task owner refused twice; a resume whose
\* queue check was outdated when it asked the owner is outside the statement.
QueuedTaskHasIntent ==
    (task = "queued" /\ scheduler \notin {"off", "refused"}) =>
        \/ item.status \in {"queued", "reserved", "blocked"}
        \/ viewer.op \in {"resume", "refused"}
        \/ viewer.op = "checked" /\ item = NoItem
        \/ overtaken

\* Every intent ends in a receipt, through failed calls, pauses and crashes, or
\* startup refuses to run a scheduler at all.
ItemSettles == item.status \in Claimable ~> (item.status \in Receipts \/ scheduler = "refused")

\* A claim a stopped process left behind is taken up by the scheduler after the
\* restart (docs/09): startup does not refuse it.
AbandonedClaimRecovered ==
    item.status \in {"reserved", "claimed"} => scheduler # "refused"

=============================================================================
