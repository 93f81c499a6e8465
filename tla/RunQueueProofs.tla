--------------------------- MODULE RunQueueProofs ---------------------------
(***************************************************************************)
(* The receipts of the resume queue are truthful and no resume is lost,    *)
(* for every number of failed store calls, crashes and Runs.               *)
(*                                                                         *)
(* The argument.  A Run is active only under a running Task                *)
(* (ActiveUnderRunning), so nothing that closes a Run by its Task's id     *)
(* moves a Task that has ended.  The item is the scheduler's while it      *)
(* works on it (Held): only a resume on an outdated queue check can        *)
(* requeue the Task behind its back, which the history variable overtaken  *)
(* records, and an outcome of success or failure it is about to write      *)
(* stays true until it is written.                                         *)
(* Before the first intent there is one Run, and its status says where its *)
(* Task is (Untouched), which is what startup rebuilds the intent from.    *)
(***************************************************************************)
EXTENDS RunQueue, SequenceTheorems, TLAPS

RunRecord == [status : RunStatus, projection : Projection]

RunTypes == runs \in Seq(RunRecord) /\ executor \in Seq(ExecutorSteps) /\ Len(executor) = Len(runs)

Requests(n) == [op : ResumeSteps, run : 0 .. n, pause : 0 .. n]

StateTypes ==
    /\ process \in {"down", "open", "serving"}
    /\ task \in TaskStatus
    /\ item \in [status : ItemStatus, reason : {"none"} \cup ResumeReasons,
                 run : 0 .. Latest, attempts : 0 .. 2]
    /\ scheduler \in SchedulerSteps
    /\ marks \subseteq RunIds
    /\ viewer \in Requests(Latest)
    /\ overtaken \in BOOLEAN
    /\ faults \in 0 .. MaxFaults
    /\ crashes \in 0 .. MaxCrashes

ActiveUnderRunning == \A r \in RunIds : runs[r].status = "running" => task = "running"

Held ==
    /\ scheduler \in {"reserved", "unstarted", "blocking", "started", "unattached"}
          => item.status = "reserved"
    /\ scheduler \in {"attached", "processing", "unrenewed", "answered", "erred", "settling"}
          => item.status = "claimed"
    /\ scheduler = "settling" => task = "failed"
    /\ scheduler \in {"started", "unattached"} => task # "queued" \/ overtaken

Untouched ==
    item.status = "none" =>
        /\ item = NoItem
        /\ Latest = 1
        /\ scheduler \in {"off", "refused", "idle"}
        /\ task # "blocked"
        /\ task = "running" => runs[1].status = "running"
        /\ task \in {"waiting", "queued"} => runs[1].status = "waiting"
        /\ task = "queued" => runs[1].projection # "none"

Promised ==
    task = "queued" =>
        /\ item.status \in {"none", "queued", "reserved", "blocked"} \/ overtaken
        /\ item.status = "none" =>
              \/ scheduler \in {"off", "refused"}
              \/ viewer.op \in {"checked", "resume", "refused"}

\* The Run a resume was asked for is one that has a projection.
Asked(request) == request.run \in RunIds /\ runs[request.run].projection # "none"
Checked == viewer.op = "checked" => Asked(viewer)

IInv ==
    /\ RunTypes /\ StateTypes
    /\ ActiveUnderRunning /\ Held /\ Untouched /\ Promised /\ ReceiptTruthful
    /\ Checked
-----------------------------------------------------------------------------
(* The Runs.                                                               *)

LEMMA SeqOf ==
    ASSUME NEW S, NEW n \in Nat, NEW f \in [1 .. n -> S]
    PROVE  f \in Seq(S) /\ Len(f) = n
  <1>1. f \in Seq(S)
    BY SeqDef
  <1>2. DOMAIN f = 1 .. Len(f) /\ Len(f) \in Nat
    BY <1>1, LenProperties
  <1>3. QED
    BY <1>1, <1>2

LEMMA RunFacts ==
    ASSUME RunTypes
    PROVE  /\ Latest \in Nat /\ RunIds = 1 .. Latest /\ DOMAIN runs = RunIds
           /\ runs \in [RunIds -> RunRecord] /\ executor \in [RunIds -> ExecutorSteps]
           /\ \A r \in RunIds : /\ runs[r].status \in RunStatus /\ runs[r].projection \in Projection
                                /\ runs[r] = [status |-> runs[r].status, projection |-> runs[r].projection]
  <1>1. /\ Latest \in Nat /\ RunIds = 1 .. Latest /\ DOMAIN runs = RunIds
        /\ runs \in [RunIds -> RunRecord]
    BY LenProperties DEF RunTypes, RunIds, Latest
  <1>2. executor \in [RunIds -> ExecutorSteps]
    BY LenProperties DEF RunTypes, RunIds
  <1>3. \A x \in RunRecord : /\ x.status \in RunStatus /\ x.projection \in Projection
                             /\ x = [status |-> x.status, projection |-> x.projection]
    BY DEF RunRecord
  <1>4. QED
    BY <1>1, <1>2, <1>3

\* No Run changes its status, and what has a projection keeps one.
Kept ==
    /\ Latest' = Latest
    /\ \A r \in RunIds : /\ runs'[r].status = runs[r].status
                         /\ runs[r].projection # "none" => runs'[r].projection # "none"

\* The Task owner moved the Task to s.
Moved(s) ==
    /\ task' = s
    /\ Latest' = Latest
    /\ \A r \in RunIds :
          /\ runs'[r].projection = runs[r].projection
          /\ runs'[r].status = IF s \in Closing /\ runs[r].status = "running" THEN s
                                                                            ELSE runs[r].status

\* A projection is only ever replaced by another one.
LEMMA CheckedKept ==
    ASSUME Checked, RunIds' = RunIds, UNCHANGED viewer,
           \A r \in RunIds : runs[r].projection # "none" => runs'[r].projection # "none"
    PROVE  Checked'
  BY DEF Checked, Asked

LEMMA RunsChange ==
    ASSUME RunTypes, runs' \in [RunIds -> RunRecord]
    PROVE  runs' \in Seq(RunRecord) /\ Len(runs') = Len(runs) /\ Latest' = Latest /\ RunIds' = RunIds
  <1>1. Latest \in Nat /\ RunIds = 1 .. Latest
    BY RunFacts
  <1>2. runs' \in Seq(RunRecord) /\ Len(runs') = Latest
    BY <1>1, SeqOf
  <1>3. QED
    BY <1>2 DEF Latest, RunIds

LEMMA SameRuns ==
    ASSUME RunTypes, UNCHANGED runs
    PROVE  runs' \in [RunIds -> RunRecord] /\ Kept
  BY RunFacts DEF Kept, Latest

LEMMA ExecutorChange ==
    ASSUME RunTypes, runs' \in [RunIds -> RunRecord], executor' \in [RunIds -> ExecutorSteps]
    PROVE  RunTypes' /\ Latest' = Latest /\ RunIds' = RunIds
  <1>1. Latest \in Nat /\ RunIds = 1 .. Latest
    BY RunFacts
  <1>2. executor' \in Seq(ExecutorSteps) /\ Len(executor') = Latest
    BY <1>1, SeqOf
  <1>3. QED
    BY <1>2, RunsChange DEF RunTypes, Latest

LEMMA AdvanceFacts ==
    ASSUME RunTypes, NEW r \in RunIds, NEW s \in ExecutorSteps, Advance(r, s)
    PROVE  executor' \in [RunIds -> ExecutorSteps]
  BY RunFacts DEF Advance

LEMMA ProjectionFacts ==
    ASSUME RunTypes, NEW S, NEW projection \in Projection \ {"none"},
           runs' = WithProjection(S, projection)
    PROVE  runs' \in [RunIds -> RunRecord] /\ Kept
  <1>1. ASSUME NEW r \in RunIds
        PROVE  /\ runs'[r] \in RunRecord
               /\ runs'[r].status = runs[r].status
               /\ runs[r].projection # "none" => runs'[r].projection # "none"
    BY RunFacts DEF WithProjection, RunRecord
  <1>2. DOMAIN runs' = RunIds /\ runs' = [r \in RunIds |-> runs'[r]]
    BY DEF WithProjection
  <1>3. runs' \in [RunIds -> RunRecord]
    BY <1>1, <1>2
  <1>4. QED
    BY <1>1, <1>3, RunsChange DEF Kept

LEMMA MoveFacts ==
    ASSUME RunTypes, NEW s \in TaskStatus, Move(s)
    PROVE  runs' \in [RunIds -> RunRecord] /\ Moved(s)
  <1>1. CASE s \in Closing
    <2>1. runs' = WithClosed(s) /\ s \in RunStatus
      BY <1>1 DEF Move, Closing, RunStatus
    <2>2. ASSUME NEW r \in RunIds
          PROVE  /\ runs'[r] \in RunRecord
                 /\ runs'[r].projection = runs[r].projection
                 /\ runs'[r].status = IF runs[r].status = "running" THEN s ELSE runs[r].status
      BY <2>1, RunFacts DEF WithClosed, RunRecord
    <2>3. runs' \in [RunIds -> RunRecord]
      BY <2>1, <2>2 DEF WithClosed
    <2>4. QED
      BY <1>1, <2>2, <2>3, RunsChange DEF Moved, Move
  <1>2. CASE s \notin Closing
    BY <1>2, RunFacts DEF Move, Moved, Latest
  <1>3. QED
    BY <1>1, <1>2
-----------------------------------------------------------------------------
(* The executors, and whoever ends the Task.                               *)

\* A processor's answer is the only change an executor makes to the scheduler.
Answering ==
    \/ scheduler' = scheduler
    \/ scheduler \in {"processing", "unrenewed"} /\ scheduler' \in {"answered", "erred"}

\* The Task stays, or ends as it may: not when it has ended, and a waiting one
\* is only cancelled.
Ending ==
    \/ Kept /\ task' = task
    \/ \E s \in Terminal : Moved(s) /\ (task \in Terminal => s = task)
                                   /\ (task = "waiting" => s = "cancelled")

LEMMA EndingInv ==
    ASSUME IInv, runs' \in [RunIds -> RunRecord], executor' \in [RunIds -> ExecutorSteps],
           Ending, Answering, UNCHANGED <<item, marks, viewer, overtaken>>,
           process' \in {"down", "open", "serving"},
           faults' \in 0 .. MaxFaults, crashes' \in 0 .. MaxCrashes
    PROVE  IInv'
  <1>1. RunTypes' /\ Latest' = Latest /\ RunIds' = RunIds
    BY ExecutorChange DEF IInv
  <1>2. task' \in TaskStatus /\ scheduler' \in SchedulerSteps
    BY DEF IInv, StateTypes, Ending, Answering, Moved, Terminal, TaskStatus, SchedulerSteps
  <1>3. StateTypes'
    BY <1>1, <1>2 DEF IInv, StateTypes
  <1>4. CASE Kept /\ task' = task
    <2>1. ActiveUnderRunning' /\ Promised' /\ ReceiptTruthful' /\ Held'
      BY <1>1, <1>4 DEF IInv, ActiveUnderRunning, Promised, ReceiptTruthful, Held, Kept, Answering
    <2>2. Untouched'
      <3>1. ASSUME item.status = "none"
            PROVE  1 \in RunIds /\ scheduler' = scheduler
        BY <3>1, RunFacts DEF IInv, Untouched, Answering
      <3>2. QED
        BY <1>1, <1>4, <3>1 DEF IInv, Untouched, Kept
    <2>3. Checked'
      BY <1>1, <1>4, CheckedKept DEF IInv, Kept
    <2>4. QED
      BY <1>1, <1>3, <2>1, <2>2, <2>3 DEF IInv
  <1>5. ASSUME NEW s \in Terminal, Moved(s), task \in Terminal => s = task,
               task = "waiting" => s = "cancelled"
        PROVE  IInv'
    <2>1. task' = s /\ s \in Closing /\ s \notin {"queued", "running", "waiting", "blocked"}
      BY <1>5 DEF Moved, Terminal, Closing
    <2>2. ActiveUnderRunning'
      BY <1>1, <1>5, <2>1 DEF ActiveUnderRunning, Moved
    <2>3. Held'
      BY <1>5, <2>1 DEF IInv, Held, Answering, Terminal
    <2>4. Untouched'
      BY <1>1, <1>5, <2>1 DEF IInv, Untouched, Answering
    <2>5. Promised' /\ ReceiptTruthful'
      BY <1>5, <2>1 DEF IInv, Promised, ReceiptTruthful, Terminal
    <2>6. Checked'
      BY <1>1, <1>5, CheckedKept DEF IInv, Moved
    <2>7. QED
      BY <1>1, <1>3, <2>2, <2>3, <2>4, <2>5, <2>6 DEF IInv
  <1>6. QED
    BY <1>4, <1>5 DEF Ending

LEMMA FaultFacts ==
    ASSUME IInv, Fault \/ UNCHANGED faults
    PROVE  faults' \in 0 .. MaxFaults
  BY RunQueueAssumption DEF IInv, StateTypes, Fault

LEMMA TryMoveFacts ==
    ASSUME IInv, NEW s \in Terminal, TryMove(s)
    PROVE  runs' \in [RunIds -> RunRecord] /\ Ending
  <1>1. CASE CanTransition(task, s)
    <2>1. runs' \in [RunIds -> RunRecord] /\ Moved(s)
      BY <1>1, MoveFacts DEF IInv, TryMove, Terminal, TaskStatus
    <2>2. (task \in Terminal => s = task) /\ (task = "waiting" => s = "cancelled")
      BY <1>1 DEF CanTransition, Terminal
    <2>3. QED
      BY <2>1, <2>2 DEF Ending
  <1>2. CASE ~CanTransition(task, s)
    BY <1>2, SameRuns DEF IInv, TryMove, owner, Ending
  <1>3. QED
    BY <1>1, <1>2

LEMMA ReturnFacts ==
    ASSUME IInv, NEW r \in RunIds, NEW outcome \in {"answered", "erred"}, Return(r, outcome)
    PROVE  executor' \in [RunIds -> ExecutorSteps] /\ Answering
  <1>1. "none" \in ExecutorSteps
    BY DEF ExecutorSteps
  <1>2. QED
    BY <1>1, AdvanceFacts DEF IInv, Return, Answer, Answering

LEMMA ExecutorStep ==
    ASSUME IInv, NEW r \in RunIds, Executor(r)
    PROVE  IInv'
  <1>1. /\ process \in {"down", "open", "serving"} /\ crashes \in 0 .. MaxCrashes
        /\ faults \in 0 .. MaxFaults /\ RunTypes
    BY DEF IInv, StateTypes
  <1>2. {"none", "starting", "dispatched", "answered", "rejected", "succeeding", "failing", "delegated"}
            \subseteq ExecutorSteps
    BY DEF ExecutorSteps
  <1>3. ASSUME UNCHANGED owner
        PROVE  runs' \in [RunIds -> RunRecord] /\ Ending
    BY <1>1, <1>3, SameRuns DEF owner, Ending
  <1>4. ASSUME NEW projection \in {"running", "completed", "failed", "paused"},
               runs' = WithProjection({r}, projection), UNCHANGED task
        PROVE  runs' \in [RunIds -> RunRecord] /\ Ending
    <2>1. projection \in Projection \ {"none"}
      BY <1>4 DEF Projection
    <2>2. QED
      BY <1>1, <1>4, <2>1, ProjectionFacts DEF Ending
  <1>5. CASE AttachExisting(r)
    <2>1. executor' \in [RunIds -> ExecutorSteps] /\ Answering
      BY <1>1, <1>2, <1>5, AdvanceFacts, ReturnFacts DEF AttachExisting, Answering
    <2>2. QED
      BY <1>1, <1>3, <1>5, <2>1, EndingInv DEF AttachExisting
  <1>6. CASE RecordStarted(r)
    <2>1. executor' \in [RunIds -> ExecutorSteps] /\ faults' \in 0 .. MaxFaults
      BY <1>1, <1>2, <1>6, AdvanceFacts, FaultFacts DEF RecordStarted
    <2>2. runs' \in [RunIds -> RunRecord] /\ Ending
      BY <1>3, <1>4, <1>6 DEF RecordStarted, owner
    <2>3. QED
      BY <1>1, <1>6, <2>1, <2>2, EndingInv DEF RecordStarted, Answering
  <1>7. CASE Dispatched(r)
    <2>1. executor' \in [RunIds -> ExecutorSteps]
      BY <1>1, <1>2, <1>7, AdvanceFacts DEF Dispatched
    <2>2. QED
      BY <1>1, <1>3, <1>7, <2>1, EndingInv DEF Dispatched, Answering
  <1>8. CASE RecordFinished(r)
    <2>1. executor' \in [RunIds -> ExecutorSteps]
      BY <1>1, <1>2, <1>8, AdvanceFacts DEF RecordFinished
    <2>2. runs' \in [RunIds -> RunRecord] /\ Ending
      BY <1>4, <1>8 DEF RecordFinished
    <2>3. QED
      BY <1>1, <1>8, <2>1, <2>2, EndingInv DEF RecordFinished, Answering
  <1>9. CASE RecordFinishedFails(r)
    <2>1. executor' \in [RunIds -> ExecutorSteps] /\ faults' \in 0 .. MaxFaults
      BY <1>1, <1>2, <1>9, AdvanceFacts, FaultFacts DEF RecordFinishedFails
    <2>2. QED
      BY <1>1, <1>3, <1>9, <2>1, EndingInv DEF RecordFinishedFails, Answering
  <1>10. CASE FinishSucceeded(r)
    <2>1. executor' \in [RunIds -> ExecutorSteps] /\ Answering
      BY <1>10, ReturnFacts DEF FinishSucceeded
    <2>2. runs' \in [RunIds -> RunRecord] /\ Ending
      BY <1>10, TryMoveFacts DEF FinishSucceeded, Terminal
    <2>3. QED
      BY <1>1, <1>10, <2>1, <2>2, EndingInv DEF FinishSucceeded
  <1>11. CASE FinishFailed(r)
    <2>1. faults' \in 0 .. MaxFaults
      BY <1>11, FaultFacts DEF FinishFailed
    <2>2. executor' \in [RunIds -> ExecutorSteps] /\ Answering
      BY <1>1, <1>2, <1>11, AdvanceFacts, ReturnFacts DEF FinishFailed, Answering, Answer
    <2>3. runs' \in [RunIds -> RunRecord] /\ Ending
      BY <1>3, <1>11, TryMoveFacts DEF FinishFailed, Terminal
    <2>4. QED
      BY <1>1, <1>11, <2>1, <2>2, <2>3, EndingInv DEF FinishFailed
  <1>12. CASE FinishFaults(r)
    <2>1. faults' \in 0 .. MaxFaults
      BY <1>12, FaultFacts DEF FinishFaults
    <2>2. executor' \in [RunIds -> ExecutorSteps] /\ Answering
      BY <1>12, ReturnFacts DEF FinishFaults
    <2>3. QED
      BY <1>1, <1>3, <1>12, <2>1, <2>2, EndingInv DEF FinishFaults
  <1>13. QED
    BY <1>5, <1>6, <1>7, <1>8, <1>9, <1>10, <1>11, <1>12 DEF Executor

\* A Run that is active has a running Task.
LEMMA RunningEnds ==
    ASSUME IInv, task = "running", NEW s \in Terminal, Move(s)
    PROVE  runs' \in [RunIds -> RunRecord] /\ Ending
  <1>1. runs' \in [RunIds -> RunRecord] /\ Moved(s)
    BY MoveFacts DEF IInv, Terminal, TaskStatus
  <1>2. task \notin Terminal /\ task # "waiting"
    BY DEF Terminal
  <1>3. QED
    BY <1>1, <1>2 DEF Ending

LEMMA DelegationStep ==
    ASSUME IInv, NEW r \in RunIds, DelegationReports(r)
    PROVE  IInv'
  <1>1. /\ process \in {"down", "open", "serving"} /\ crashes \in 0 .. MaxCrashes
        /\ faults \in 0 .. MaxFaults /\ RunTypes
    BY DEF IInv, StateTypes
  <1>2. executor' \in [RunIds -> ExecutorSteps]
    BY <1>1, AdvanceFacts DEF DelegationReports, ExecutorSteps
  <1>3. runs' \in [RunIds -> RunRecord] /\ Ending
    <2>1. CASE runs[r].status = "running"
      <3>1. task = "running"
        BY <2>1 DEF IInv, ActiveUnderRunning
      <3>2. PICK s \in {"succeeded", "failed", "cancelled"} : Move(s)
        BY <2>1 DEF DelegationReports
      <3>3. s \in Terminal
        BY DEF Terminal
      <3>4. QED
        BY <3>1, <3>2, <3>3, RunningEnds
    <2>2. CASE runs[r].status # "running"
      BY <1>1, <2>2, SameRuns DEF DelegationReports, owner, Ending
    <2>3. QED
      BY <2>1, <2>2
  <1>4. QED
    BY <1>1, <1>2, <1>3, EndingInv DEF DelegationReports, Answering

LEMMA CancelStep ==
    ASSUME IInv, CancelTask
    PROVE  IInv'
  <1>1. /\ process \in {"down", "open", "serving"} /\ crashes \in 0 .. MaxCrashes
        /\ faults \in 0 .. MaxFaults /\ RunTypes
    BY DEF IInv, StateTypes
  <1>2. "cancelled" \in Terminal /\ "cancelled" \in TaskStatus
    BY DEF Terminal, TaskStatus
  <1>3. runs' \in [RunIds -> RunRecord] /\ Moved("cancelled")
    BY <1>1, <1>2, MoveFacts DEF CancelTask
  <1>4. Ending
    BY <1>2, <1>3 DEF Ending, CancelTask
  <1>5. executor' \in [RunIds -> ExecutorSteps]
    BY <1>1, RunFacts DEF CancelTask
  <1>6. QED
    BY <1>1, <1>3, <1>4, <1>5, EndingInv DEF CancelTask, Answering

LEMMA OpenStep ==
    ASSUME IInv, OpenStore
    PROVE  IInv'
  <1>1. /\ crashes \in 0 .. MaxCrashes /\ faults \in 0 .. MaxFaults /\ RunTypes
    BY DEF IInv, StateTypes
  <1>2. executor \in [RunIds -> ExecutorSteps] /\ "delegated" \in ExecutorSteps
    BY <1>1, RunFacts DEF ExecutorSteps
  <1>3. executor' \in [RunIds -> ExecutorSteps]
    BY <1>2 DEF OpenStore
  <1>4. runs' \in [RunIds -> RunRecord] /\ Ending
    <2>1. CASE UNCHANGED owner
      BY <1>1, <2>1, SameRuns DEF owner, Ending
    <2>2. CASE task = "running" /\ \E s \in {"succeeded", "failed", "cancelled"} : Move(s)
      BY <2>2, RunningEnds DEF Terminal
    <2>3. QED
      BY <2>1, <2>2 DEF OpenStore
  <1>5. QED
    BY <1>1, <1>3, <1>4, EndingInv DEF OpenStore, Answering
-----------------------------------------------------------------------------
(* The Viewer.                                                             *)

\* What a step that leaves the Task and every Run's status alone owes the rest.
LEMMA KeptInv ==
    ASSUME IInv, runs' \in [RunIds -> RunRecord], executor' \in [RunIds -> ExecutorSteps],
           Kept, task' = task, process' \in {"down", "open", "serving"},
           item' \in [status : ItemStatus, reason : {"none"} \cup ResumeReasons,
                      run : 0 .. Latest, attempts : 0 .. 2],
           scheduler' \in SchedulerSteps, marks' \subseteq RunIds,
           viewer' \in Requests(Latest), viewer'.op = "checked" => Asked(viewer'),
           overtaken' \in BOOLEAN, faults' \in 0 .. MaxFaults, crashes' \in 0 .. MaxCrashes,
           item'.status = "none" => item' = item /\ scheduler' \in {"off", "refused", "idle"},
           Held', Promised', ReceiptTruthful'
    PROVE  IInv'
  <1>1. RunTypes' /\ Latest' = Latest /\ RunIds' = RunIds
    BY ExecutorChange DEF IInv
  <1>2. StateTypes'
    BY <1>1 DEF IInv, StateTypes
  <1>3. ActiveUnderRunning'
    BY <1>1 DEF IInv, ActiveUnderRunning, Kept
  <1>4. Untouched'
    <2>1. ASSUME item'.status = "none"
          PROVE  1 \in RunIds
      BY <2>1, RunFacts DEF IInv, Untouched
    <2>2. QED
      BY <1>1, <2>1 DEF IInv, Untouched, Kept
  <1>5. Checked'
    BY <1>1 DEF Checked, Asked, Kept
  <1>6. QED
    BY <1>1, <1>2, <1>3, <1>4, <1>5 DEF IInv

\* An item that is not there keeps the scheduler from it.
LEMMA NothingHeld ==
    ASSUME IInv, item.status = "none"
    PROVE  scheduler \in {"off", "refused", "idle"}
  BY DEF IInv, Untouched

LEMMA Unchanged ==
    ASSUME IInv
    PROVE  /\ UNCHANGED runs => runs' \in [RunIds -> RunRecord] /\ Kept
           /\ UNCHANGED executor => executor' \in [RunIds -> ExecutorSteps]
           /\ UNCHANGED faults => faults' \in 0 .. MaxFaults
           /\ Fault => faults' \in 0 .. MaxFaults
  BY SameRuns, RunFacts, FaultFacts DEF IInv, StateTypes

LEMMA IntentFacts ==
    ASSUME NEW reason \in ResumeReasons
    PROVE  /\ NoItem = [status |-> "none", reason |-> "none", run |-> 0, attempts |-> 0]
           /\ Intent(reason) = [status |-> "queued", reason |-> reason, run |-> 0, attempts |-> 0]
  <1>1. NoItem = [status |-> "none", reason |-> "none", run |-> 0, attempts |-> 0]
    BY DEF NoItem
  <1>2. [NoItem EXCEPT !.status = "queued"] =
            [status |-> "queued", reason |-> "none", run |-> 0, attempts |-> 0]
    BY <1>1
  <1>3. Intent(reason) = [[NoItem EXCEPT !.status = "queued"] EXCEPT !.reason = reason]
    BY <1>1 DEF Intent
  <1>4. QED
    BY <1>1, <1>2, <1>3

LEMMA PauseStep ==
    ASSUME IInv, NEW r \in RunIds, PauseTask(r)
    PROVE  IInv'
  <1>1. runs' \in [RunIds -> RunRecord] /\ Moved("waiting")
    BY MoveFacts DEF IInv, PauseTask, TaskStatus
  <1>2. RunTypes' /\ Latest' = Latest /\ RunIds' = RunIds
    BY <1>1, ExecutorChange, RunFacts DEF IInv, PauseTask
  <1>3. task \in {"running", "waiting"} /\ task' = "waiting"
    BY <1>1 DEF PauseTask, CanTransition, IInv, StateTypes, TaskStatus, Moved
  <1>4. StateTypes'
    <2>1. r \in 0 .. Latest
      BY RunFacts DEF IInv
    <2>2. viewer' \in Requests(Latest)
      BY <2>1 DEF IInv, StateTypes, Requests, PauseTask
    <2>3. QED
      BY <1>2, <1>3, <2>2 DEF IInv, StateTypes, PauseTask, TaskStatus
  <1>5. ActiveUnderRunning'
    BY <1>1, <1>2 DEF ActiveUnderRunning, Moved, Closing
  <1>6. Held' /\ Promised'
    BY <1>3 DEF IInv, Held, Promised, PauseTask
  <1>7. ReceiptTruthful'
    BY <1>3 DEF IInv, ReceiptTruthful, PauseTask
  <1>8. Untouched'
    <2>1. ASSUME item.status = "none"
          PROVE  1 \in RunIds
      BY <2>1, RunFacts DEF IInv, Untouched
    <2>2. QED
      BY <1>1, <1>2, <1>3, <2>1 DEF IInv, Untouched, Moved, Closing, PauseTask
  <1>9. Checked'
    <2>1. viewer'.op = viewer.op /\ viewer'.run = viewer.run
      BY DEF IInv, StateTypes, Requests, PauseTask
    <2>2. QED
      BY <1>1, <1>2, <2>1 DEF IInv, Checked, Asked, Moved
  <1>10. QED
    BY <1>2, <1>4, <1>5, <1>6, <1>7, <1>8, <1>9 DEF IInv

LEMMA PauseProjectionStep ==
    ASSUME IInv, PauseProjection
    PROVE  IInv'
  <1>1. runs' \in [RunIds -> RunRecord] /\ Kept
    BY Unchanged, ProjectionFacts DEF IInv, PauseProjection, Projection
  <1>2. executor' \in [RunIds -> ExecutorSteps] /\ faults' \in 0 .. MaxFaults
    BY Unchanged DEF PauseProjection
  <1>3. viewer' \in Requests(Latest) /\ viewer'.op = viewer.op /\ viewer'.run = viewer.run
    BY RunFacts DEF IInv, StateTypes, Requests, PauseProjection
  <1>4. Held' /\ ReceiptTruthful'
    BY DEF IInv, Held, ReceiptTruthful, PauseProjection
  <1>5. Promised' /\ (viewer'.op = "checked" => Asked(viewer'))
    BY <1>3 DEF IInv, Promised, Checked, Asked, PauseProjection
  <1>6. QED
    BY <1>1, <1>2, <1>3, <1>4, <1>5, KeptInv, NothingHeld DEF IInv, StateTypes, PauseProjection

LEMMA ResumeCheckStep ==
    ASSUME IInv, NEW r \in RunIds, ResumeCheck(r)
    PROVE  IInv'
  <1>1. /\ runs' \in [RunIds -> RunRecord] /\ Kept
        /\ executor' \in [RunIds -> ExecutorSteps] /\ faults' \in 0 .. MaxFaults
    BY Unchanged DEF ResumeCheck, owner
  <1>2. viewer' \in Requests(Latest) /\ viewer'.op = "checked" /\ Asked(viewer')
    <2>1. r \in 0 .. Latest
      BY RunFacts DEF IInv
    <2>2. viewer' \in Requests(Latest) /\ viewer'.op = "checked" /\ viewer'.run = r
      BY <2>1 DEF IInv, StateTypes, Requests, ResumeSteps, ResumeCheck
    <2>3. runs[r].projection # "none"
      BY DEF ResumeCheck
    <2>4. QED
      BY <2>2, <2>3 DEF Asked
  <1>3. Held' /\ Promised' /\ ReceiptTruthful'
    BY <1>2 DEF IInv, Held, Promised, ReceiptTruthful, ResumeCheck, owner
  <1>4. QED
    BY <1>1, <1>2, <1>3, KeptInv, NothingHeld DEF IInv, StateTypes, ResumeCheck, owner

\* The owner queues the Task; unless the item is unclaimed the resume is late.
LEMMA ResumeGranted ==
    ASSUME IInv, ResumeTask, CanTransition(task, "queued")
    PROVE  IInv'
  <1>1. runs' \in [RunIds -> RunRecord] /\ Moved("queued")
    BY MoveFacts DEF IInv, ResumeTask, TaskStatus
  <1>2. RunTypes' /\ Latest' = Latest /\ RunIds' = RunIds
    BY <1>1, ExecutorChange, RunFacts DEF IInv, ResumeTask
  <1>3. task \in {"queued", "waiting", "blocked"} /\ task' = "queued"
    BY <1>1 DEF CanTransition, IInv, StateTypes, TaskStatus, Moved
  <1>4. item' = item /\ (item.status \notin {"none", "queued"} => overtaken') /\ (overtaken => overtaken')
    <2>1. "checkpoint_resume" \in ResumeReasons
      BY DEF ResumeReasons
    <2>2. item \in Unclaimed => item.status \in {"none", "queued"}
      BY <2>1, IntentFacts DEF Unclaimed
    <2>3. QED
      BY <2>2 DEF ResumeTask
  <1>5. viewer' \in Requests(Latest) /\ viewer'.op = "resume" /\ overtaken' \in BOOLEAN
    BY DEF IInv, StateTypes, Requests, ResumeSteps, ResumeTask
  <1>6. StateTypes'
    BY <1>2, <1>3, <1>5 DEF IInv, StateTypes, ResumeTask, TaskStatus
  <1>7. ActiveUnderRunning'
    BY <1>1, <1>2, <1>3 DEF IInv, ActiveUnderRunning, Moved, Closing
  <1>8. Held'
    BY <1>3, <1>4 DEF IInv, Held, ResumeTask
  <1>9. Promised' /\ Checked'
    BY <1>3, <1>4, <1>5 DEF Promised, Checked
  <1>10. ReceiptTruthful'
    BY <1>3, <1>4 DEF IInv, ReceiptTruthful
  <1>11. Untouched'
    <2>1. ASSUME item.status = "none"
          PROVE  1 \in RunIds /\ runs[1].projection # "none"
      BY <2>1, RunFacts DEF IInv, Untouched, Checked, Asked, ResumeTask
    <2>2. QED
      BY <1>1, <1>2, <1>3, <1>4, <2>1 DEF IInv, Untouched, Moved, Closing, ResumeTask
  <1>12. QED
    BY <1>2, <1>6, <1>7, <1>8, <1>9, <1>10, <1>11 DEF IInv

\* A resume request that ends leaves its slot.
LEMMA RequestEnds ==
    ASSUME IInv, NEW op \in ResumeSteps, viewer' = [viewer EXCEPT !.op = op, !.run = 0]
    PROVE  viewer' \in Requests(Latest) /\ viewer'.op = op
  <1>1. viewer \in Requests(Latest) /\ 0 \in 0 .. Latest
    BY RunFacts DEF IInv, StateTypes
  <1>2. viewer' = [[viewer EXCEPT !.op = op] EXCEPT !.run = 0]
    BY <1>1 DEF Requests
  <1>3. [viewer EXCEPT !.op = op] \in Requests(Latest) /\ [viewer EXCEPT !.op = op].op = op
    BY <1>1 DEF Requests
  <1>4. QED
    BY <1>1, <1>2, <1>3 DEF Requests

\* The owner refuses: a queued Task is not among those it refuses.
LEMMA ResumeDenied ==
    ASSUME IInv, ResumeTask, ~CanTransition(task, "queued")
    PROVE  IInv'
  <1>1. /\ runs' \in [RunIds -> RunRecord] /\ Kept
        /\ executor' \in [RunIds -> ExecutorSteps] /\ faults' \in 0 .. MaxFaults
    BY Unchanged DEF ResumeTask, owner
  <1>2. viewer' \in Requests(Latest) /\ viewer'.op = "none" /\ overtaken' = overtaken
    BY RequestEnds DEF ResumeSteps, ResumeTask
  <1>3. task # "queued" /\ task' = task
    BY DEF CanTransition, ResumeTask, owner
  <1>4. Held' /\ Promised' /\ ReceiptTruthful'
    BY <1>2, <1>3 DEF IInv, Held, Promised, ReceiptTruthful, ResumeTask
  <1>5. QED
    BY <1>1, <1>2, <1>3, <1>4, KeptInv, NothingHeld DEF IInv, StateTypes, ResumeTask

LEMMA ResumeEnqueueStep ==
    ASSUME IInv, ResumeEnqueue
    PROVE  IInv'
  <1>1. /\ runs' \in [RunIds -> RunRecord] /\ Kept
        /\ executor' \in [RunIds -> ExecutorSteps] /\ faults' \in 0 .. MaxFaults
    BY Unchanged DEF ResumeEnqueue, owner
  <1>2. viewer' \in Requests(Latest) /\ viewer'.op \in {"none", "refused"}
    BY RequestEnds DEF ResumeSteps, ResumeEnqueue
  <1>3. item' \in {item, Intent("checkpoint_resume")} /\ (item' # item => item = NoItem)
    BY DEF ResumeEnqueue
  <1>4. Intent("checkpoint_resume") \in
            [status : ItemStatus, reason : {"none"} \cup ResumeReasons, run : 0 .. Latest, attempts : 0 .. 2]
    <2>1. "checkpoint_resume" \in ResumeReasons /\ "queued" \in ItemStatus
      BY DEF ResumeReasons, ItemStatus, Claimable
    <2>2. 0 \in 0 .. Latest
      BY RunFacts DEF IInv
    <2>3. QED
      BY <2>1, <2>2, IntentFacts
  <1>5. Intent("checkpoint_resume").status = "queued" /\ NoItem.status = "none"
    BY IntentFacts DEF ResumeReasons
  <1>6. Held' /\ ReceiptTruthful'
    BY <1>3, <1>5 DEF IInv, Held, Untouched, ReceiptTruthful, ResumeEnqueue, owner
  <1>7. item'.status = "none" => item' = item /\ viewer'.op = "refused"
    <2>1. item.status = "none" => item = NoItem
      BY DEF IInv, Untouched
    <2>2. CASE viewer' = [viewer EXCEPT !.op = "refused", !.run = 0]
      BY <1>3, <1>5, <2>2, RequestEnds DEF ResumeSteps
    <2>3. CASE item' = IF item = NoItem THEN Intent("checkpoint_resume") ELSE item
      BY <1>5, <2>1, <2>3
    <2>4. QED
      BY <2>2, <2>3 DEF ResumeEnqueue
  <1>8. Promised'
    BY <1>3, <1>5, <1>7 DEF IInv, Promised, ResumeEnqueue, owner
  <1>9. viewer'.op # "checked"
    BY <1>2
  <1>10. QED
    BY <1>1, <1>2, <1>3, <1>4, <1>6, <1>7, <1>8, <1>9, KeptInv, NothingHeld
       DEF IInv, StateTypes, ResumeEnqueue, owner

-----------------------------------------------------------------------------
(* The scheduler.                                                          *)

ItemType(n) == [status : ItemStatus, reason : {"none"} \cup ResumeReasons, run : 0 .. n, attempts : 0 .. 2]

LEMMA ItemFacts ==
    ASSUME IInv, NEW status \in ItemStatus
    PROVE  /\ item \in ItemType(Latest)
           /\ [item EXCEPT !.status = status] \in ItemType(Latest)
           /\ [item EXCEPT !.status = status].status = status
  BY DEF IInv, StateTypes, ItemType

\* The scheduler goes on; the Task and the Runs stay.
LEMMA SchedulerMoves ==
    ASSUME IInv, UNCHANGED <<process, task, marks, viewer, overtaken, crashes>>,
           runs' \in [RunIds -> RunRecord], Kept, executor' \in [RunIds -> ExecutorSteps],
           faults' \in 0 .. MaxFaults, item' \in ItemType(Latest), scheduler' \in SchedulerSteps,
           item'.status # "none", Held', Promised', ReceiptTruthful'
    PROVE  IInv'
  BY KeptInv DEF IInv, StateTypes, ItemType, Checked

LEMMA ClaimStep ==
    ASSUME IInv, ClaimNext
    PROVE  IInv'
  <1>1. /\ runs' \in [RunIds -> RunRecord] /\ Kept
        /\ executor' \in [RunIds -> ExecutorSteps] /\ faults' \in 0 .. MaxFaults
    BY Unchanged DEF ClaimNext, owner
  <1>2. item' \in ItemType(Latest) /\ item'.status = "reserved"
    <2>1. /\ item.reason \in {"none"} \cup ResumeReasons
          /\ item = [status |-> item.status, reason |-> item.reason,
                     run |-> item.run, attempts |-> item.attempts]
      BY DEF IInv, StateTypes
    <2>2. PICK a \in 1 .. 2 : a = IF item.attempts = 0 THEN 1 ELSE 2
      OBVIOUS
    <2>3. item' = [item EXCEPT !.status = "reserved", !.run = 0, !.attempts = a]
      BY <2>1, <2>2 DEF ClaimNext
    <2>4. item' = [status |-> "reserved", reason |-> item.reason, run |-> 0, attempts |-> a]
      BY <2>1, <2>3
    <2>5. 0 \in 0 .. Latest /\ a \in 0 .. 2 /\ "reserved" \in ItemStatus
      BY RunFacts DEF IInv, ItemStatus, Claimable
    <2>6. QED
      BY <2>1, <2>4, <2>5 DEF ItemType
  <1>3. Held' /\ Promised' /\ ReceiptTruthful'
    BY <1>2 DEF Held, Promised, ReceiptTruthful, ClaimNext, Step
  <1>4. scheduler' \in SchedulerSteps
    BY DEF ClaimNext, Step, SchedulerSteps
  <1>5. QED
    BY <1>1, <1>2, <1>3, <1>4, SchedulerMoves DEF ClaimNext, owner

LEMMA StartRefusedStep ==
    ASSUME IInv, StartRefused
    PROVE  IInv'
  <1>1. /\ runs' \in [RunIds -> RunRecord] /\ Kept
        /\ executor' \in [RunIds -> ExecutorSteps] /\ faults' \in 0 .. MaxFaults
    BY Unchanged DEF StartRefused, owner
  <1>2. item' = item /\ item.status = "reserved" /\ item \in ItemType(Latest)
    BY DEF IInv, Held, StateTypes, ItemType, StartRefused, Step
  <1>3. Held' /\ Promised' /\ ReceiptTruthful'
    BY <1>2 DEF Held, Promised, ReceiptTruthful, StartRefused, Step
  <1>4. scheduler' \in SchedulerSteps
    BY DEF StartRefused, Step, SchedulerSteps
  <1>5. QED
    BY <1>1, <1>2, <1>3, <1>4, SchedulerMoves DEF StartRefused, owner

LEMMA BlockStep ==
    ASSUME IInv, BlockReservation
    PROVE  IInv'
  <1>1. /\ runs' \in [RunIds -> RunRecord] /\ Kept
        /\ executor' \in [RunIds -> ExecutorSteps] /\ faults' \in 0 .. MaxFaults
    BY Unchanged DEF BlockReservation, owner
  <1>2. item' \in ItemType(Latest) /\ item'.status \in {"reserved", "blocked"}
    BY ItemFacts DEF IInv, Held, BlockReservation, Step, ItemStatus, Receipts
  <1>3. Held' /\ Promised' /\ ReceiptTruthful'
    BY <1>2 DEF Held, Promised, ReceiptTruthful, BlockReservation, Step
  <1>4. scheduler' \in SchedulerSteps
    BY DEF BlockReservation, Step, SchedulerSteps
  <1>5. QED
    BY <1>1, <1>2, <1>3, <1>4, SchedulerMoves DEF BlockReservation, owner

LEMMA AttachStep ==
    ASSUME IInv, AttachRun
    PROVE  IInv'
  <1>1. /\ runs' \in [RunIds -> RunRecord] /\ Kept
        /\ executor' \in [RunIds -> ExecutorSteps] /\ faults' \in 0 .. MaxFaults
    BY Unchanged DEF AttachRun, owner
  <1>2. item' \in ItemType(Latest) /\ item'.status = "claimed"
    <2>1. Latest \in 0 .. Latest /\ "claimed" \in ItemStatus
      BY RunFacts DEF IInv, ItemStatus, Claimable
    <2>2. item' = [[item EXCEPT !.status = "claimed"] EXCEPT !.run = Latest]
      BY DEF AttachRun
    <2>3. [item EXCEPT !.status = "claimed"] \in ItemType(Latest)
          /\ [item EXCEPT !.status = "claimed"].status = "claimed"
      BY <2>1, ItemFacts
    <2>4. QED
      BY <2>1, <2>2, <2>3 DEF ItemType
  <1>3. task' # "queued" \/ overtaken'
    BY DEF IInv, Held, AttachRun, Step, owner
  <1>4. Held' /\ Promised' /\ ReceiptTruthful'
    BY <1>2, <1>3 DEF Held, Promised, ReceiptTruthful, AttachRun, Step
  <1>5. scheduler' \in SchedulerSteps
    BY DEF AttachRun, Step, SchedulerSteps
  <1>6. QED
    BY <1>1, <1>2, <1>4, <1>5, SchedulerMoves DEF AttachRun, owner

LEMMA AttachFailsStep ==
    ASSUME IInv, AttachFails
    PROVE  IInv'
  <1>1. /\ runs' \in [RunIds -> RunRecord] /\ Kept
        /\ executor' \in [RunIds -> ExecutorSteps] /\ faults' \in 0 .. MaxFaults
    BY Unchanged DEF AttachFails, owner
  <1>2. /\ item' = item /\ item.status = "reserved" /\ item \in ItemType(Latest)
        /\ task' # "queued" \/ overtaken'
    BY DEF IInv, Held, StateTypes, ItemType, AttachFails, Step, owner
  <1>3. Held' /\ Promised' /\ ReceiptTruthful'
    BY <1>2 DEF Held, Promised, ReceiptTruthful, AttachFails, Step
  <1>4. scheduler' \in SchedulerSteps
    BY DEF AttachFails, Step, SchedulerSteps
  <1>5. QED
    BY <1>1, <1>2, <1>3, <1>4, SchedulerMoves DEF AttachFails, owner

\* Process and HeartbeatFails: the claimed item stays the scheduler's.
LEMMA ClaimedStep ==
    ASSUME IInv, item.status = "claimed", item' = item,
           UNCHANGED <<process, owner, marks, viewer, overtaken, crashes>>,
           executor' \in [RunIds -> ExecutorSteps], faults' \in 0 .. MaxFaults,
           scheduler' \in {"idle", "processing", "unrenewed"}
    PROVE  IInv'
  <1>1. runs' \in [RunIds -> RunRecord] /\ Kept
    BY Unchanged DEF owner
  <1>2. item' \in ItemType(Latest) /\ task' = task /\ (task # "queued" \/ overtaken')
    BY DEF IInv, StateTypes, ItemType, Promised, owner
  <1>3. Held' /\ Promised' /\ ReceiptTruthful'
    BY <1>2 DEF Held, Promised, ReceiptTruthful
  <1>4. scheduler' \in SchedulerSteps
    BY DEF SchedulerSteps
  <1>5. QED
    BY <1>1, <1>2, <1>3, <1>4, SchedulerMoves DEF owner

LEMMA ProcessStep ==
    ASSUME IInv, Process
    PROVE  IInv'
  <1>1. item.status = "claimed" /\ scheduler' \in {"idle", "processing"}
    BY DEF IInv, Held, Process, Step
  <1>2. faults' \in 0 .. MaxFaults
    BY FaultFacts DEF Process
  <1>3. executor' \in [RunIds -> ExecutorSteps]
    BY RunFacts DEF IInv, Process, Advance, ExecutorSteps
  <1>4. QED
    BY <1>1, <1>2, <1>3, ClaimedStep DEF Process

LEMMA HeartbeatStep ==
    ASSUME IInv, HeartbeatFails
    PROVE  IInv'
  <1>1. item.status = "claimed" /\ scheduler' = "unrenewed"
    BY DEF IInv, Held, HeartbeatFails, Step
  <1>2. faults' \in 0 .. MaxFaults /\ executor' \in [RunIds -> ExecutorSteps]
    BY Unchanged DEF HeartbeatFails
  <1>3. QED
    BY <1>1, <1>2, ClaimedStep DEF HeartbeatFails

LEMMA CompleteFacts ==
    ASSUME IInv, NEW status \in Receipts, NEW projection \in {"completed", "failed"},
           Complete(status, projection)
    PROVE  /\ runs' \in [RunIds -> RunRecord] /\ Kept /\ faults' \in 0 .. MaxFaults
           /\ item' = item \/ item' = [item EXCEPT !.status = status]
  <1>1. projection \in Projection \ {"none"}
    BY DEF Projection
  <1>2. runs' \in [RunIds -> RunRecord] /\ Kept
    BY <1>1, ProjectionFacts, Unchanged DEF IInv, Complete
  <1>3. faults' \in 0 .. MaxFaults
    BY FaultFacts DEF Complete
  <1>4. QED
    BY <1>2, <1>3 DEF Complete

LEMMA SettleAnsweredStep ==
    ASSUME IInv, SettleAnswered
    PROVE  IInv'
  <1>1. item.status = "claimed" /\ task' = task /\ (task # "queued" \/ overtaken')
    BY DEF IInv, Held, Promised, SettleAnswered, Step
  <1>2. /\ runs' \in [RunIds -> RunRecord] /\ Kept /\ faults' \in 0 .. MaxFaults
        /\ item' = item \/ (task = "succeeded" /\ item' = [item EXCEPT !.status = "completed"])
    <2>1. CASE task = "succeeded"
      BY <2>1, CompleteFacts DEF SettleAnswered, Receipts
    <2>2. CASE task # "succeeded"
      BY <2>2, Unchanged DEF SettleAnswered
    <2>3. QED
      BY <2>1, <2>2
  <1>3. item' \in ItemType(Latest) /\ item'.status \in {"claimed", "completed"}
        /\ (item'.status = "completed" => task = "succeeded")
    BY <1>1, <1>2, ItemFacts DEF ItemStatus, Receipts
  <1>4. Held' /\ Promised' /\ ReceiptTruthful'
    BY <1>1, <1>3 DEF Held, Promised, ReceiptTruthful, SettleAnswered, Step
  <1>5. scheduler' \in SchedulerSteps /\ executor' \in [RunIds -> ExecutorSteps]
    BY Unchanged DEF SettleAnswered, Step, SchedulerSteps
  <1>6. QED
    BY <1>2, <1>3, <1>4, <1>5, SchedulerMoves DEF SettleAnswered

LEMMA SettleFailedStep ==
    ASSUME IInv, SettleFailed
    PROVE  IInv'
  <1>1. item.status = "claimed" /\ task' = "failed" /\ task = "failed"
    BY DEF IInv, Held, SettleFailed, Step
  <1>2. /\ runs' \in [RunIds -> RunRecord] /\ Kept /\ faults' \in 0 .. MaxFaults
        /\ item' = item \/ item' = [item EXCEPT !.status = "failed"]
    BY CompleteFacts DEF SettleFailed, Receipts
  <1>3. item' \in ItemType(Latest) /\ item'.status \in {"claimed", "failed"}
    BY <1>1, <1>2, ItemFacts DEF ItemStatus, Receipts
  <1>4. Held' /\ Promised' /\ ReceiptTruthful'
    BY <1>1, <1>3 DEF Held, Promised, ReceiptTruthful, SettleFailed, Step
  <1>5. scheduler' \in SchedulerSteps /\ executor' \in [RunIds -> ExecutorSteps]
    BY Unchanged DEF SettleFailed, Step, SchedulerSteps
  <1>6. QED
    BY <1>2, <1>3, <1>4, <1>5, SchedulerMoves DEF SettleFailed

\* The Task owner blocks or fails the Task while the scheduler holds the item.
LEMMA HeldMove ==
    ASSUME IInv, NEW s \in {"blocked", "failed"}, Move(s),
           UNCHANGED <<process, item, executor, marks, viewer, overtaken, crashes>>,
           faults' \in 0 .. MaxFaults, scheduler' \in SchedulerSteps,
           item.status \in {"reserved", "claimed"}, Held'
    PROVE  IInv'
  <1>1. runs' \in [RunIds -> RunRecord] /\ Moved(s)
    BY MoveFacts DEF IInv, TaskStatus
  <1>2. RunTypes' /\ Latest' = Latest /\ RunIds' = RunIds
    BY <1>1, ExecutorChange, RunFacts DEF IInv
  <1>3. task' = s /\ s \in TaskStatus /\ s \in Closing
    BY <1>1 DEF Moved, TaskStatus, Closing
  <1>4. StateTypes'
    BY <1>2, <1>3 DEF IInv, StateTypes
  <1>5. ActiveUnderRunning'
    BY <1>1, <1>2, <1>3 DEF ActiveUnderRunning, Moved
  <1>6. Untouched' /\ Promised' /\ ReceiptTruthful'
    BY <1>3 DEF Untouched, Promised, ReceiptTruthful
  <1>7. Checked'
    BY <1>1, <1>2, CheckedKept DEF IInv, Moved
  <1>8. QED
    BY <1>2, <1>4, <1>5, <1>6, <1>7 DEF IInv

LEMMA TerminalizeStep ==
    ASSUME IInv, TerminalizeStartFailure
    PROVE  IInv'
  <1>1. /\ item.status = "reserved" /\ item' = item
        /\ scheduler' = "blocking" /\ scheduler' \in SchedulerSteps
    BY DEF IInv, Held, TerminalizeStartFailure, Step, SchedulerSteps
  <1>2. faults' \in 0 .. MaxFaults
    BY FaultFacts DEF TerminalizeStartFailure
  <1>3. Held'
    BY <1>1 DEF Held
  <1>4. CASE UNCHANGED owner
    <2>1. runs' \in [RunIds -> RunRecord] /\ Kept /\ executor' \in [RunIds -> ExecutorSteps]
      BY <1>4, Unchanged DEF TerminalizeStartFailure, owner
    <2>2. Promised' /\ ReceiptTruthful' /\ item' \in ItemType(Latest)
      BY <1>1 DEF Promised, ReceiptTruthful, IInv, StateTypes, ItemType
    <2>3. QED
      BY <1>1, <1>2, <1>3, <1>4, <2>1, <2>2, SchedulerMoves DEF TerminalizeStartFailure, owner
  <1>5. ASSUME NEW s \in {"blocked", "failed"}, Move(s)
        PROVE  IInv'
    BY <1>1, <1>2, <1>3, <1>5, HeldMove DEF TerminalizeStartFailure
  <1>6. UNCHANGED owner \/ \E s \in {"blocked", "failed"} : Move(s)
    BY DEF TerminalizeStartFailure
  <1>7. QED
    BY <1>4, <1>5, <1>6

LEMMA SettleErredStep ==
    ASSUME IInv, SettleErred
    PROVE  IInv'
  <1>1. item.status = "claimed" /\ (task # "queued" \/ overtaken')
    BY DEF IInv, Held, Promised, SettleErred
  <1>2. faults' \in 0 .. MaxFaults
    BY FaultFacts DEF SettleErred, Step
  <1>3. scheduler' \in {"idle", "settling"} /\ scheduler' \in SchedulerSteps
    BY DEF SettleErred, Step, SchedulerSteps
  <1>4. CASE UNCHANGED owner
    <2>1. runs' \in [RunIds -> RunRecord] /\ Kept /\ executor' \in [RunIds -> ExecutorSteps]
      BY <1>4, Unchanged DEF SettleErred, owner
    <2>2. item' = item \/ (task = "waiting" /\ item' = [item EXCEPT !.status = "cancelled"])
      BY DEF SettleErred
    <2>3. item' \in ItemType(Latest) /\ item'.status \in {"claimed", "cancelled"}
          /\ (item'.status = "cancelled" => task = "waiting")
      BY <1>1, <2>2, ItemFacts DEF ItemStatus, Receipts
    <2>4. scheduler' = "settling" => task = "failed" /\ item'.status = "claimed"
      BY <1>1, <1>4 DEF SettleErred, Step, Move, owner
    <2>5. Held' /\ Promised' /\ ReceiptTruthful'
      BY <1>1, <1>3, <1>4, <2>3, <2>4 DEF Held, Promised, ReceiptTruthful, owner
    <2>6. QED
      BY <1>2, <1>3, <1>4, <2>1, <2>3, <2>5, SchedulerMoves DEF SettleErred, owner
  <1>5. CASE Move("failed") /\ item' = item
    <2>1. Held'
      BY <1>1, <1>3, <1>5 DEF Held, Move
    <2>2. QED
      BY <1>1, <1>2, <1>3, <1>5, <2>1, HeldMove DEF SettleErred
  <1>6. QED
    BY <1>4, <1>5 DEF SettleErred

LEMMA InterruptStep ==
    ASSUME IInv, InterruptIssuedRun
    PROVE  IInv'
  <1>1. item.status = "reserved" /\ item' = item /\ scheduler' = "idle" /\ task' = task
    BY DEF IInv, Held, InterruptIssuedRun, Step
  <1>2. faults' \in 0 .. MaxFaults
    BY FaultFacts DEF InterruptIssuedRun
  <1>3. runs' \in [RunIds -> RunRecord]
    BY RunFacts DEF IInv, InterruptIssuedRun, RunRecord, RunStatus
  <1>4. \A r \in RunIds : /\ runs'[r].status \in {runs[r].status, "interrupted"}
                          /\ runs'[r].projection = runs[r].projection
    BY RunFacts DEF IInv, InterruptIssuedRun
  <1>5. RunTypes' /\ Latest' = Latest /\ RunIds' = RunIds
    BY <1>3, ExecutorChange, RunFacts DEF IInv, InterruptIssuedRun
  <1>6. StateTypes'
    BY <1>1, <1>2, <1>5 DEF IInv, StateTypes, InterruptIssuedRun, SchedulerSteps
  <1>7. ActiveUnderRunning'
    BY <1>1, <1>4, <1>5 DEF IInv, ActiveUnderRunning
  <1>8. Held' /\ Untouched' /\ Promised' /\ ReceiptTruthful'
    BY <1>1 DEF Held, Untouched, Promised, ReceiptTruthful
  <1>9. Checked'
    BY <1>4, <1>5, CheckedKept DEF IInv, InterruptIssuedRun
  <1>10. QED
    BY <1>5, <1>6, <1>7, <1>8, <1>9 DEF IInv

LEMMA StartStep ==
    ASSUME IInv, StartRun
    PROVE  IInv'
  <1>1. item.status = "reserved" /\ item' = item /\ scheduler' = "started" /\ task' = "running"
    BY DEF IInv, Held, StartRun, Step
  <1>2. WithClosed("interrupted") \in Seq(RunRecord) /\ Len(WithClosed("interrupted")) = Latest
    <2>1. WithClosed("interrupted") \in [RunIds -> RunRecord]
      BY RunFacts DEF IInv, WithClosed, RunRecord, RunStatus
    <2>2. QED
      BY <2>1, RunFacts, SeqOf DEF IInv
  <1>3. NewRun \in RunRecord /\ "none" \in ExecutorSteps
    BY DEF NewRun, RunRecord, RunStatus, Projection, ExecutorSteps
  <1>4. runs' \in Seq(RunRecord) /\ Len(runs') = Latest + 1
    BY <1>2, <1>3, AppendProperties DEF StartRun
  <1>5. executor' \in Seq(ExecutorSteps) /\ Len(executor') = Latest + 1
    BY <1>3, AppendProperties DEF IInv, RunTypes, StartRun, Latest
  <1>6. RunTypes' /\ Latest' = Latest + 1 /\ RunIds' = 1 .. Latest + 1
    BY <1>4, <1>5 DEF RunTypes, Latest, RunIds
  <1>7. Latest \in Nat /\ RunIds = 1 .. Latest
    BY RunFacts DEF IInv
  <1>8. 0 .. Latest \subseteq 0 .. Latest' /\ RunIds \subseteq RunIds'
    BY <1>6, <1>7
  <1>9. StateTypes'
    <2>1. /\ item' \in [status : ItemStatus, reason : {"none"} \cup ResumeReasons,
                        run : 0 .. Latest', attempts : 0 .. 2]
          /\ viewer' \in Requests(Latest')
      BY <1>1, <1>8 DEF IInv, StateTypes, Requests, StartRun
    <2>2. marks' \subseteq RunIds'
      BY <1>8 DEF IInv, StateTypes, StartRun
    <2>3. QED
      BY <1>1, <2>1, <2>2 DEF IInv, StateTypes, StartRun, TaskStatus, SchedulerSteps
  <1>10. ActiveUnderRunning' /\ Held' /\ Untouched' /\ Promised' /\ ReceiptTruthful'
    BY <1>1 DEF ActiveUnderRunning, Held, Untouched, Promised, ReceiptTruthful
  <1>11. Checked'
    <2>1. \A r \in RunIds : runs'[r].projection = runs[r].projection
      BY <1>2, <1>3, <1>7, AppendProperties, RunFacts DEF IInv, StartRun, WithClosed
    <2>2. QED
      BY <1>8, <2>1 DEF IInv, Checked, Asked, StartRun
  <1>12. QED
    BY <1>6, <1>9, <1>10, <1>11 DEF IInv
-----------------------------------------------------------------------------
(* Crash and startup.                                                      *)

LEMMA CrashStep ==
    ASSUME IInv, Crash
    PROVE  IInv'
  <1>1. /\ runs' \in [RunIds -> RunRecord] /\ Kept /\ faults' \in 0 .. MaxFaults
        /\ task' = task /\ item' = item
    BY Unchanged DEF Crash, owner
  <1>2. executor' \in [RunIds -> ExecutorSteps]
    BY DEF Crash, ExecutorSteps
  <1>3. crashes' \in 0 .. MaxCrashes
    BY RunQueueAssumption DEF IInv, StateTypes, Crash
  <1>4. viewer' \in Requests(Latest) /\ viewer'.op # "checked"
    BY RunFacts DEF IInv, Crash, NoRequest, Requests, ResumeSteps
  <1>5. scheduler' = "off" /\ scheduler' \in SchedulerSteps
    BY DEF Crash, SchedulerSteps
  <1>6. Held' /\ Promised' /\ ReceiptTruthful'
    BY <1>1, <1>5 DEF IInv, Held, Promised, ReceiptTruthful, Crash
  <1>7. QED
    BY <1>1, <1>2, <1>3, <1>4, <1>5, <1>6, KeptInv DEF IInv, StateTypes, Crash

LEMMA RepairedFacts ==
    ASSUME RunTypes, NEW S \in SUBSET Repairable, runs' = Repaired(S)
    PROVE  runs' \in [RunIds -> RunRecord] /\ Kept
  <1>1. \A status \in RunStatus : ProjectionOf(status) \in Projection \ {"none"}
    BY DEF RunStatus, ProjectionOf, Projection
  <1>2. ASSUME NEW r \in RunIds
        PROVE  /\ runs'[r] \in RunRecord
               /\ runs'[r].status = runs[r].status
               /\ runs[r].projection # "none" => runs'[r].projection # "none"
    <2>1. ProjectionOf(runs[r].status) \in Projection \ {"none"}
      BY <1>1, RunFacts
    <2>2. PICK p : p = ProjectionOf(runs[r].status)
      OBVIOUS
    <2>3. runs'[r] = IF r \in S THEN [runs[r] EXCEPT !.projection = p] ELSE runs[r]
      BY <2>2 DEF Repaired
    <2>4. QED
      BY <2>1, <2>2, <2>3, RunFacts DEF RunRecord
  <1>3. DOMAIN runs' = RunIds /\ runs' = [r \in RunIds |-> runs'[r]]
    BY DEF Repaired
  <1>4. runs' \in [RunIds -> RunRecord]
    BY <1>2, <1>3
  <1>5. QED
    BY <1>2, <1>4, RunsChange DEF Kept

\* The intent startup rebuilds: a Task left queued before its first intent was
\* written is a waiting candidate.
LEMMA RebuiltFacts ==
    ASSUME IInv
    PROVE  /\ Rebuilt \in ItemType(Latest)
           /\ item.status # "none" => Rebuilt = item
           /\ item.status = "none" => Rebuilt.status \in {"none", "queued"}
           /\ item.status = "none" /\ Rebuilt.status = "none" => Rebuilt = item
           /\ item.status = "none" /\ task = "queued" => Rebuilt.status = "queued"
  <1>1. \A reason \in ResumeReasons : Intent(reason) \in ItemType(Latest) /\ Intent(reason).status = "queued"
    <2>1. 0 \in 0 .. Latest /\ "queued" \in ItemStatus
      BY RunFacts DEF IInv, ItemStatus, Claimable
    <2>2. QED
      BY <2>1, IntentFacts DEF ItemType
  <1>2. NoItem.status = "none" /\ item \in ItemType(Latest) /\ (item.status = "none" => item = NoItem)
    BY DEF NoItem, IInv, Untouched, StateTypes, ItemType
  <1>3. {"checkpoint_resume", "process_restart_resume"} = ResumeReasons
    BY DEF ResumeReasons
  <1>4. item.status = "none" /\ task = "queued" => WaitingCandidates # {}
    <2>1. ASSUME item.status = "none", task = "queued"
          PROVE  1 \in WaitingCandidates
      <3>1. 1 \in RunIds
        BY <2>1, RunFacts DEF IInv, Untouched
      <3>2. QED
        BY <2>1, <3>1 DEF IInv, Untouched, WaitingCandidates, Projected
    <2>2. QED
      BY <2>1
  <1>5. QED
    BY <1>1, <1>2, <1>3, <1>4 DEF Rebuilt

LEMMA StartSchedulerStep ==
    ASSUME IInv, StartScheduler
    PROVE  IInv'
  <1>1. /\ executor' \in [RunIds -> ExecutorSteps] /\ process' \in {"down", "open", "serving"}
        /\ task' = task
    BY Unchanged DEF StartScheduler
  <1>2. faults' \in 0 .. MaxFaults
    BY FaultFacts DEF StartScheduler
  <1>3. runs' \in [RunIds -> RunRecord] /\ Kept
    <2>1. CASE UNCHANGED runs
      BY <2>1, Unchanged
    <2>2. CASE \E S \in SUBSET Repairable : runs' = Repaired(S)
      BY <2>2, RepairedFacts DEF IInv
    <2>3. Repairable \in SUBSET Repairable
      OBVIOUS
    <2>4. QED
      BY <2>1, <2>2, <2>3 DEF StartScheduler
  <1>4. scheduler' \in {"idle", "refused"} /\ scheduler' \in SchedulerSteps
    BY DEF StartScheduler, SchedulerSteps
  <1>5. CASE scheduler' = "refused" /\ item' = item
    <2>1. Held' /\ Promised' /\ ReceiptTruthful'
      BY <1>1, <1>5 DEF IInv, Held, Promised, ReceiptTruthful, StartScheduler
    <2>2. QED
      BY <1>1, <1>2, <1>3, <1>4, <1>5, <2>1, KeptInv DEF IInv, StateTypes, Checked, StartScheduler
  <1>6. CASE item' = Rebuilt
    <2>1. item' \in ItemType(Latest)
      BY <1>6, RebuiltFacts
    <2>2. item'.status = "none" => item' = item
      BY <1>6, RebuiltFacts
    <2>3. Held'
      BY <1>4 DEF Held
    <2>4. Promised'
      BY <1>1, <1>6, RebuiltFacts DEF IInv, Promised, StartScheduler
    <2>5. ReceiptTruthful'
      BY <1>1, <1>6, RebuiltFacts DEF IInv, ReceiptTruthful, StartScheduler
    <2>6. QED
      BY <1>1, <1>2, <1>3, <1>4, <2>1, <2>2, <2>3, <2>4, <2>5, KeptInv
         DEF IInv, StateTypes, Checked, StartScheduler, ItemType
  <1>7. QED
    BY <1>5, <1>6 DEF StartScheduler
-----------------------------------------------------------------------------
(* The theorems.                                                           *)

LEMMA InitInv == Init => IInv
  <1>1. ASSUME Init PROVE IInv
    <2>1. runs = <<NewRun>> /\ executor = <<"starting">> /\ task = "running" /\ item = NoItem
      BY <1>1 DEF Init
    <2>2. NewRun \in RunRecord /\ NewRun.status = "running" /\ "starting" \in ExecutorSteps
      BY DEF NewRun, RunRecord, RunStatus, Projection, ExecutorSteps
    <2>3. RunTypes /\ Latest = 1 /\ runs[1].status = "running"
      BY <2>1, <2>2 DEF RunTypes, Latest
    <2>4. StateTypes
      <3>1. /\ NoItem \in [status : ItemStatus, reason : {"none"} \cup ResumeReasons,
                           run : 0 .. Latest, attempts : 0 .. 2]
            /\ NoRequest \in Requests(Latest)
        BY <2>3 DEF NoItem, NoRequest, ItemStatus, Requests, ResumeSteps
      <3>2. 0 \in 0 .. MaxFaults /\ 0 \in 0 .. MaxCrashes
        BY RunQueueAssumption
      <3>3. QED
        BY <1>1, <3>1, <3>2 DEF Init, StateTypes, TaskStatus, SchedulerSteps
    <2>5. ActiveUnderRunning /\ Held /\ Promised /\ Checked
      BY <1>1 DEF Init, ActiveUnderRunning, Held, Promised, Checked, NoRequest
    <2>6. Untouched /\ ReceiptTruthful
      BY <1>1, <2>3 DEF Init, Untouched, ReceiptTruthful, NoItem
    <2>7. QED
      BY <2>3, <2>4, <2>5, <2>6 DEF IInv
  <1>2. QED
    BY <1>1

LEMMA StutterInv ==
    ASSUME IInv, UNCHANGED vars
    PROVE  IInv'
  <1>1. /\ runs' \in [RunIds -> RunRecord] /\ Kept /\ executor' \in [RunIds -> ExecutorSteps]
        /\ UNCHANGED <<process, task, item, scheduler, marks, viewer, overtaken, faults, crashes>>
    BY Unchanged DEF vars, owner
  <1>2. QED
    BY <1>1, EndingInv DEF IInv, StateTypes, Ending, Answering

LEMMA SchedulerStep ==
    ASSUME IInv, Scheduler
    PROVE  IInv'
  BY ClaimStep, StartStep, StartRefusedStep, TerminalizeStep, BlockStep, AttachStep,
     AttachFailsStep, InterruptStep, ProcessStep, HeartbeatStep, SettleAnsweredStep,
     SettleErredStep, SettleFailedStep DEF Scheduler

LEMMA NextInv == IInv /\ [Next]_vars => IInv'
  <1>1. ASSUME IInv, NEW r \in RunIds, Executor(r) \/ DelegationReports(r) PROVE IInv'
    BY <1>1, ExecutorStep, DelegationStep
  <1>2. ASSUME IInv, Viewer PROVE IInv'
    BY <1>2, PauseStep, ResumeCheckStep, ResumeGranted, ResumeDenied, PauseProjectionStep,
       ResumeEnqueueStep, CancelStep DEF Viewer
  <1>3. ASSUME IInv, Scheduler \/ Crash \/ OpenStore \/ StartScheduler PROVE IInv'
    BY <1>3, SchedulerStep, CrashStep, OpenStep, StartSchedulerStep
  <1>4. QED
    BY <1>1, <1>2, <1>3, StutterInv DEF Next

\* The inductive invariant, of every reachable state (the queue item's life in
\* run_queue_scheduler.go and run_queue_recovery.go).
THEOREM RunQueueInvariance == Spec => []IInv
  <1>1. QED
    BY InitInv, NextInv, PTL DEF Spec

\* Every variable keeps its type, whatever fails and however often the process
\* crashes (internal/application/superagent).
THEOREM RunQueueTypeCorrect == Spec => []TypeOK
  <1>1. IInv => TypeOK
    <2>1. ASSUME IInv PROVE TypeOK
      <3>1. runs \in Seq([status : RunStatus, projection : Projection]) /\ Len(executor) = Len(runs)
        BY <2>1 DEF IInv, RunTypes, RunRecord
      <3>2. \A r \in RunIds : executor[r] \in ExecutorSteps
        BY <2>1, RunFacts DEF IInv
      <3>3. QED
        BY <2>1, <3>1, <3>2 DEF IInv, StateTypes, Requests, TypeOK
    <2>2. QED
      BY <2>1
  <1>2. QED
    BY <1>1, RunQueueInvariance, PTL

\* A receipt tells how the canonical Task ended: RunOnce asks the Task owner
\* before it completes the item, and nothing moves the Task afterwards.
THEOREM ReceiptTheorem == Spec => []ReceiptTruthful
  <1>1. IInv => ReceiptTruthful
    BY DEF IInv
  <1>2. QED
    BY <1>1, RunQueueInvariance, PTL

\* No resume is lost: under a running scheduler a queued Task has an intent, or
\* a Viewer that was told to ask again (RecoverInterruptedAgentRuns).
THEOREM IntentTheorem == Spec => []QueuedTaskHasIntent
  <1>1. IInv => QueuedTaskHasIntent
    BY DEF IInv, Promised, Untouched, QueuedTaskHasIntent
  <1>2. QED
    BY <1>1, RunQueueInvariance, PTL
=============================================================================
