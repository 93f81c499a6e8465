--------------------------- MODULE TaskRunsProofs ---------------------------
(***************************************************************************)
(* Proofs about TaskRuns for every set of Tasks and Agents, every hierarchy *)
(* and every bound: the state is well typed, the active Run owns its Task, *)
(* effects run under their owner, recovery is complete before serving, a   *)
(* checkpoint is continued once, and the history of Runs is kept; and, for *)
(* every hierarchy of two levels, admission keeps to its limit and scopes. *)
(*                                                                         *)
(* Every transaction changes one Task t and the Runs of t in the way that  *)
(* RunsStep(t) describes; the invariant follows from that shape alone.     *)
(***************************************************************************)
EXTENDS TaskRuns, SequenceTheorems, FiniteSetTheorems, TLAPS

\* A process that is down performs no effect.
DownQuiet == process = "down" => \A t \in Tasks : effect[t].phase = "none"

\* While the loops of startup recovery run, what they must close is before them.
LoopsAhead == process = "recovering" => Recoverable \subseteq toRecover

IInv ==
    /\ TypeOK
    /\ ActiveRunOwned
    /\ EffectUnderOwner
    /\ NoStaleRunServing
    /\ LoopsAhead
    /\ CheckpointContinuedOnce
    /\ DownQuiet

\* The Run r is active, and everything else agrees that it is.
OwnedAfter(t, r) ==
    /\ \A i \in DOMAIN runs' : runs'[i].task = t => i <= r
    /\ \A i \in DOMAIN runs' : runs'[i].task = t /\ runs'[i].status = "running" => i = r
    /\ task'[t].status = "running"
    /\ task'[t].assignee = runs'[r].assignee

\* What any transaction on t may do: close active Runs of t, append one active
\* Run of the open generation, change the record of t.
RunsStep(t) ==
    /\ task' \in [Tasks -> TaskRecord]
    /\ \A u \in Tasks \ {t} : task'[u] = task[u]
    /\ runs' \in Seq(Run)
    /\ Len(runs') = Len(runs) \/ Len(runs') = Len(runs) + 1
    /\ \A r \in 1..Len(runs) :
          \/ runs'[r] = runs[r]
          \/ r \in ActiveRuns(t) /\ \E s \in RunStatus \ {"running"} :
                                       runs'[r] = [runs[r] EXCEPT !.status = s]
    /\ Len(runs') = Len(runs) + 1 =>
          /\ runs'[Len(runs')].task = t
          /\ runs'[Len(runs')].generation = generation
          /\ runs'[Len(runs')].from # 0 => IsLatest(t, runs'[Len(runs')].from)
    /\ \A r \in 1..Len(runs') :
          runs'[r].task = t /\ runs'[r].status = "running" => OwnedAfter(t, r)
-----------------------------------------------------------------------------
(* The shapes of a change of the history.                                  *)

LEMMA WithClosedFacts ==
    ASSUME runs \in Seq(Run), NEW t \in Tasks, NEW s \in RunStatus \ {"running"}
    PROVE  /\ WithClosed(t, s) \in Seq(Run)
           /\ Len(WithClosed(t, s)) = Len(runs)
           /\ \A r \in 1..Len(runs) :
                 /\ WithClosed(t, s)[r].task = runs[r].task
                 /\ ~(WithClosed(t, s)[r].task = t /\ WithClosed(t, s)[r].status = "running")
                 /\ \/ WithClosed(t, s)[r] = runs[r]
                    \/ /\ r \in ActiveRuns(t)
                       /\ WithClosed(t, s)[r] = [runs[r] EXCEPT !.status = s]
  <1> DEFINE closed == WithClosed(t, s)
  <1>1. /\ DOMAIN runs = 1..Len(runs) /\ Len(runs) \in Nat
        /\ \A r \in 1..Len(runs) : runs[r] \in Run
    OBVIOUS
  <1>2. \A r \in 1..Len(runs) :
           /\ closed[r] \in Run
           /\ closed[r].task = runs[r].task
           /\ ~(closed[r].task = t /\ closed[r].status = "running")
           /\ \/ closed[r] = runs[r]
              \/ r \in ActiveRuns(t) /\ closed[r] = [runs[r] EXCEPT !.status = s]
    BY <1>1 DEF WithClosed, ActiveRuns, RunsOf, Run
  <1>3. closed = [r \in 1..Len(runs) |-> closed[r]]
    BY <1>1 DEF WithClosed
  <1>4. closed \in Seq(Run) /\ Len(closed) = Len(runs)
    <2> HIDE DEF closed
    <2>1. closed \in [1..Len(runs) -> Run]
      BY <1>2, <1>3
    <2>2. QED
      BY <2>1, <1>1
  <1>5. QED
    BY <1>2, <1>4

\* Closing the Runs of t for a status other than running.
LEMMA CloseShape ==
    ASSUME TypeOK, NEW t \in Tasks,
           NEW s \in (Open \cup Terminal) \ {"running"}, UpdateStatusIn(t, s)
    PROVE  RunsStep(t)
  <1>1. RunStatusFor(s) \in RunStatus \ {"running"}
    BY DEF RunStatusFor, RunStatus, Open, Terminal
  <1>2. runs \in Seq(Run) /\ task \in [Tasks -> TaskRecord]
    BY DEF TypeOK
  <1>3. task' \in [Tasks -> TaskRecord] /\ \A u \in Tasks \ {t} : task'[u] = task[u]
    BY <1>2 DEF UpdateStatusIn, TaskRecord
  <1>4. runs' = WithClosed(t, RunStatusFor(s))
    BY DEF UpdateStatusIn
  <1>5. /\ runs' \in Seq(Run)
        /\ Len(runs') = Len(runs)
        /\ \A r \in 1..Len(runs) :
              /\ ~(runs'[r].task = t /\ runs'[r].status = "running")
              /\ \/ runs'[r] = runs[r]
                 \/ /\ r \in ActiveRuns(t)
                    /\ runs'[r] = [runs[r] EXCEPT !.status = RunStatusFor(s)]
    BY <1>1, <1>2, <1>4, WithClosedFacts
  <1>6. Len(runs) \in Nat
    BY <1>2
  <1>7. \A r \in 1..Len(runs) :
           \/ runs'[r] = runs[r]
           \/ r \in ActiveRuns(t) /\ \E q \in RunStatus \ {"running"} :
                                        runs'[r] = [runs[r] EXCEPT !.status = q]
    BY <1>1, <1>5
  <1>8. Len(runs') # Len(runs) + 1
    BY <1>5, <1>6
  <1>9. \A r \in 1..Len(runs') : ~(runs'[r].task = t /\ runs'[r].status = "running")
    BY <1>5
  <1>10. QED
    BY <1>3, <1>5, <1>7, <1>8, <1>9 DEF RunsStep

\* Issuing a Run on the closed history.
LEMMA IssueShape ==
    ASSUME TypeOK, NEW t \in Tasks, NEW s \in RunStatus \ {"running"},
           NEW a \in Assignees, NEW from \in Nat,
           from # 0 => IsLatest(t, from),
           task' \in [Tasks -> TaskRecord], \A u \in Tasks \ {t} : task'[u] = task[u],
           task'[t].status = "running", task'[t].assignee = a,
           runs' = Append(WithClosed(t, s), NewRun(t, a, from))
    PROVE  RunsStep(t)
  <1> DEFINE closed == WithClosed(t, s)
             n == Len(runs) + 1
  <1>1. runs \in Seq(Run) /\ generation \in Nat
    BY TaskRunsAssumption DEF TypeOK
  <1>2. /\ closed \in Seq(Run)
        /\ Len(closed) = Len(runs)
        /\ \A r \in 1..Len(runs) :
              /\ ~(closed[r].task = t /\ closed[r].status = "running")
              /\ \/ closed[r] = runs[r]
                 \/ r \in ActiveRuns(t) /\ closed[r] = [runs[r] EXCEPT !.status = s]
    BY <1>1, WithClosedFacts
  <1>3. /\ NewRun(t, a, from) \in Run
        /\ NewRun(t, a, from).task = t
        /\ NewRun(t, a, from).assignee = a
        /\ NewRun(t, a, from).from = from
        /\ NewRun(t, a, from).generation = generation
    BY <1>1 DEF NewRun, Run, RunStatus
  <1>4. Len(runs) \in Nat
    BY <1>1
  <1> HIDE DEF closed
  <1>5. /\ runs' \in Seq(Run)
        /\ Len(runs') = n
        /\ \A r \in 1..Len(runs) : runs'[r] = closed[r]
        /\ runs'[n] = NewRun(t, a, from)
    <2>1. runs' = Append(closed, NewRun(t, a, from))
      BY DEF closed
    <2>2. QED
      BY <2>1, <1>2, <1>3, AppendProperties
  <1>6. DOMAIN runs' = 1..n /\ \A r \in 1..n : r \in 1..Len(runs) \/ r = n
    BY <1>4, <1>5
  <1>7. \A r \in 1..n : runs'[r].task = t /\ runs'[r].status = "running" => r = n
    BY <1>2, <1>5, <1>6
  <1>8. \A r \in 1..n :
           runs'[r].task = t /\ runs'[r].status = "running" => OwnedAfter(t, r)
    <2>1. \A i \in DOMAIN runs' : i <= n
      BY <1>4, <1>6
    <2>2. runs'[n].assignee = a
      BY <1>3, <1>5
    <2>3. QED
      BY <1>6, <1>7, <2>1, <2>2 DEF OwnedAfter
  <1>9. \A r \in 1..Len(runs) :
           \/ runs'[r] = runs[r]
           \/ r \in ActiveRuns(t) /\ \E q \in RunStatus \ {"running"} :
                                        runs'[r] = [runs[r] EXCEPT !.status = q]
    BY <1>2, <1>5
  <1>10. /\ runs'[Len(runs')].task = t
         /\ runs'[Len(runs')].generation = generation
         /\ runs'[Len(runs')].from # 0 => IsLatest(t, runs'[Len(runs')].from)
    BY <1>3, <1>5
  <1>11. QED
    BY <1>4, <1>5, <1>8, <1>9, <1>10 DEF RunsStep
-----------------------------------------------------------------------------
(* Every transaction has that shape.                                       *)

LEMMA CreateShape ==
    ASSUME IInv, NEW t \in Tasks, NEW a \in Assignees, Create(t, a)
    PROVE  RunsStep(t)
  <1>1. task \in [Tasks -> TaskRecord] /\ runs \in Seq(Run) /\ runs' = runs
    BY DEF IInv, TypeOK, Create
  <1>2. task[t].status = "absent"
    BY DEF Create, MayCreate, Exists
  <1>3. task' \in [Tasks -> TaskRecord] /\ \A u \in Tasks \ {t} : task'[u] = task[u]
    BY <1>1 DEF Create, TaskRecord, Open
  <1>4. ActiveRuns(t) = {}
    BY <1>2 DEF IInv, ActiveRunOwned
  <1>5. \A r \in 1..Len(runs') : ~(runs'[r].task = t /\ runs'[r].status = "running")
    BY <1>1, <1>4 DEF ActiveRuns, RunsOf
  <1>6. Len(runs) \in Nat
    BY <1>1
  <1>7. QED
    BY <1>1, <1>3, <1>5, <1>6 DEF RunsStep

\* The history is unchanged, and what an active Run says of t stays true.
LEMMA KeepShape ==
    ASSUME IInv, NEW t \in Tasks,
           task' \in [Tasks -> TaskRecord], \A u \in Tasks \ {t} : task'[u] = task[u],
           runs' = runs,
           \/ ActiveRuns(t) = {}
           \/ task'[t].status = task[t].status /\ task'[t].assignee = task[t].assignee
    PROVE  RunsStep(t)
  <1>1. runs \in Seq(Run) /\ Len(runs) \in Nat /\ DOMAIN runs = 1..Len(runs)
    BY DEF IInv, TypeOK
  <1>2. \A r \in 1..Len(runs') :
           runs'[r].task = t /\ runs'[r].status = "running" => OwnedAfter(t, r)
    BY <1>1 DEF IInv, ActiveRunOwned, ActiveRuns, RunsOf, IsLatest, AtMostOneActive,
                OwnedAfter
  <1>3. /\ runs' \in Seq(Run)
        /\ Len(runs') = Len(runs)
        /\ \A r \in 1..Len(runs) : runs'[r] = runs[r]
    BY <1>1, Zenon
  <1>4. Len(runs') # Len(runs) + 1
    <2>1. \A n \in Nat : n # n + 1
      OBVIOUS
    <2>2. QED
      BY <1>1, <1>3, <2>1, Zenon
  <1>5. \A r \in 1..Len(runs) :
           \/ runs'[r] = runs[r]
           \/ r \in ActiveRuns(t) /\ \E s \in RunStatus \ {"running"} :
                                        runs'[r] = [runs[r] EXCEPT !.status = s]
    BY <1>3
  <1>6. QED
    BY <1>2, <1>3, <1>4, <1>5 DEF RunsStep

LEMMA CreateAndStartShape ==
    ASSUME IInv, NEW t \in Tasks, NEW a \in Assignees, CreateAndStartRun(t, a)
    PROVE  RunsStep(t)
  <1>1. task \in [Tasks -> TaskRecord] /\ runs \in Seq(Run)
    BY DEF IInv, TypeOK
  <1>2. ActiveRuns(t) = {}
    BY DEF IInv, ActiveRunOwned, CreateAndStartRun, MayCreate, Exists
  <1>3. WithClosed(t, "interrupted") = runs
    <2>1. DOMAIN runs = 1..Len(runs) /\ runs = [r \in DOMAIN runs |-> runs[r]]
      BY <1>1
    <2>2. QED
      BY <1>2, <2>1 DEF WithClosed
  <1>4. /\ task' \in [Tasks -> TaskRecord] /\ \A u \in Tasks \ {t} : task'[u] = task[u]
        /\ task'[t].status = "running" /\ task'[t].assignee = a
    BY <1>1 DEF CreateAndStartRun, TaskRecord, Open
  <1>5. runs' = Append(WithClosed(t, "interrupted"), NewRun(t, a, 0))
    BY <1>3 DEF CreateAndStartRun
  <1>6. QED
    BY <1>4, <1>5, IssueShape DEF IInv, RunStatus

LEMMA StartShape ==
    ASSUME IInv, NEW t \in Tasks, NEW reason \in Reasons, NEW from \in Nat,
           from # 0 => IsLatest(t, from), StartWithReason(t, reason, from)
    PROVE  RunsStep(t)
  <1>1. task \in [Tasks -> TaskRecord] /\ task[t].assignee \in Assignees
    BY DEF IInv, TypeOK, TaskRecord
  <1>2. /\ task' \in [Tasks -> TaskRecord] /\ \A u \in Tasks \ {t} : task'[u] = task[u]
        /\ task'[t].status = "running" /\ task'[t].assignee = task[t].assignee
    BY <1>1 DEF StartWithReason, TaskRecord, Open
  <1>3. PICK s \in {"reassigned", "interrupted"} :
           runs' = Append(WithClosed(t, s), NewRun(t, task[t].assignee, from))
    BY DEF StartWithReason
  <1>4. s \in RunStatus \ {"running"}
    BY DEF RunStatus
  <1>5. QED
    BY <1>1, <1>2, <1>3, <1>4, IssueShape DEF IInv

LEMMA AssignShape ==
    ASSUME IInv, NEW t \in Tasks, NEW a \in Agents, RecordAssignment(t, a)
    PROVE  RunsStep(t)
  <1>1. task \in [Tasks -> TaskRecord] /\ a \in Assignees
    BY DEF IInv, TypeOK, Assignees
  <1>2. /\ task' \in [Tasks -> TaskRecord] /\ \A u \in Tasks \ {t} : task'[u] = task[u]
        /\ task'[t].status = task[t].status /\ task'[t].assignee = a
    BY <1>1 DEF RecordAssignment, TaskRecord
  <1>3. CASE task[t].assignee # a /\ task[t].status = "running" /\ ActiveRuns(t) # {}
    <2>1. runs' = Append(WithClosed(t, "reassigned"), NewRun(t, a, 0))
      BY <1>3 DEF RecordAssignment
    <2>2. QED
      BY <1>1, <1>2, <1>3, <2>1, IssueShape DEF IInv, RunStatus
  <1>4. CASE ~(task[t].assignee # a /\ task[t].status = "running" /\ ActiveRuns(t) # {})
    <2>1. runs' = runs
      BY <1>4 DEF RecordAssignment
    <2>2. \/ ActiveRuns(t) = {}
          \/ task'[t].status = task[t].status /\ task'[t].assignee = task[t].assignee
      BY <1>2, <1>4 DEF IInv, ActiveRunOwned
    <2>3. QED
      BY <1>2, <2>1, <2>2, KeepShape
  <1>5. QED
    BY <1>3, <1>4

LEMMA RouteShape ==
    ASSUME IInv, NEW t \in Tasks, NEW route \in Routes, RecordRouting(t, route)
    PROVE  RunsStep(t)
  <1>1. task \in [Tasks -> TaskRecord]
    BY DEF IInv, TypeOK
  <1>2. /\ task' \in [Tasks -> TaskRecord] /\ \A u \in Tasks \ {t} : task'[u] = task[u]
        /\ task'[t].status = task[t].status /\ task'[t].assignee = task[t].assignee
    BY <1>1 DEF RecordRouting, TaskRecord
  <1>3. QED
    BY <1>2, KeepShape DEF RecordRouting

LEMMA InterruptShape ==
    ASSUME IInv, NEW t \in Tasks, NEW r \in RunsOf(t), InterruptRun(t, r)
    PROVE  RunsStep(t)
  <1>1. /\ task \in [Tasks -> TaskRecord] /\ task' = task
        /\ runs \in Seq(Run) /\ Len(runs) \in Nat /\ DOMAIN runs = 1..Len(runs)
        /\ r \in ActiveRuns(t) /\ r \in 1..Len(runs)
    BY DEF IInv, TypeOK, InterruptRun, ActiveRuns, RunsOf
  <1>2. runs' = [runs EXCEPT ![r] = [runs[r] EXCEPT !.status = "interrupted"]]
    BY DEF InterruptRun
  <1>3. [runs[r] EXCEPT !.status = "interrupted"] \in Run
    <2>1. runs[r] \in Run
      BY <1>1
    <2>2. "interrupted" \in RunStatus
      BY DEF RunStatus
    <2>3. QED
      BY <2>1, <2>2 DEF Run
  <1>4. /\ runs' \in Seq(Run) /\ Len(runs') = Len(runs)
        /\ \A i \in 1..Len(runs) : i # r => runs'[i] = runs[i]
        /\ runs'[r] = [runs[r] EXCEPT !.status = "interrupted"]
    BY <1>1, <1>2, <1>3, ExceptSeq
  <1>5. \A i \in 1..Len(runs) :
           \/ runs'[i] = runs[i]
           \/ i \in ActiveRuns(t) /\ \E q \in RunStatus \ {"running"} :
                                        runs'[i] = [runs[i] EXCEPT !.status = q]
    BY <1>1, <1>4 DEF RunStatus
  <1>6. \A i \in 1..Len(runs) : i \in ActiveRuns(t) => i = r
    BY <1>1 DEF IInv, ActiveRunOwned, AtMostOneActive
  <1>7. runs'[r].status = "interrupted"
    BY <1>1, <1>4 DEF Run
  <1>8. \A i \in 1..Len(runs') : ~(runs'[i].task = t /\ runs'[i].status = "running")
    <2>1. ASSUME NEW i \in 1..Len(runs), i # r, runs'[i].task = t, runs'[i].status = "running"
          PROVE  FALSE
      <3>1. runs'[i] = runs[i]
        BY <2>1, <1>1, <1>4
      <3>2. i \in ActiveRuns(t)
        BY <2>1, <3>1, <1>1 DEF ActiveRuns, RunsOf
      <3>3. QED
        BY <2>1, <3>2, <1>6
    <2>2. Len(runs') = Len(runs)
      BY <1>1, <1>4
    <2>3. QED
      BY <2>1, <2>2, <1>7
  <1>9. /\ \A u \in Tasks \ {t} : task'[u] = task[u]
        /\ task' \in [Tasks -> TaskRecord]
        /\ Len(runs') # Len(runs) + 1
    <2>1. \A n \in Nat : n # n + 1
      OBVIOUS
    <2>2. QED
      BY <1>1, <1>4, <2>1, Zenon
  <1>10. QED
    BY <1>4, <1>5, <1>8, <1>9 DEF RunsStep
-----------------------------------------------------------------------------
(* A step of that shape preserves the invariant.                           *)

\* What a step of that shape leaves of every Run.
LEMMA HistoryFacts ==
    ASSUME TypeOK, NEW t \in Tasks, RunsStep(t)
    PROVE  /\ Len(runs) \in Nat /\ DOMAIN runs = 1..Len(runs)
           /\ DOMAIN runs' = 1..Len(runs')
           /\ \A r \in 1..Len(runs) :
                 /\ r \in 1..Len(runs')
                 /\ runs'[r].task = runs[r].task
                 /\ runs'[r].from = runs[r].from
                 /\ runs'[r] = [runs[r] EXCEPT !.status = runs'[r].status]
                 /\ runs'[r].status = "running" => runs'[r] = runs[r]
                 /\ runs[r].status # "running" \/ runs[r].task # t => runs'[r] = runs[r]
           /\ \A r \in 1..Len(runs') :
                 \/ r \in 1..Len(runs)
                 \/ /\ r = Len(runs) + 1
                    /\ runs'[r].task = t
                    /\ runs'[r].generation = generation
                    /\ runs'[r].from # 0 => IsLatest(t, runs'[r].from)
  <1>1. /\ Len(runs) \in Nat /\ DOMAIN runs = 1..Len(runs)
        /\ \A r \in 1..Len(runs) : runs[r] \in Run
    BY DEF TypeOK
  <1>2. DOMAIN runs' = 1..Len(runs') /\ Len(runs') \in Nat
    BY DEF RunsStep
  <1>3. Len(runs') = Len(runs) \/ Len(runs') = Len(runs) + 1
    BY DEF RunsStep
  <1>4. ASSUME NEW r \in 1..Len(runs)
        PROVE  /\ runs'[r].task = runs[r].task
               /\ runs'[r].from = runs[r].from
               /\ runs'[r] = [runs[r] EXCEPT !.status = runs'[r].status]
               /\ runs'[r].status = "running" => runs'[r] = runs[r]
               /\ runs[r].status # "running" \/ runs[r].task # t => runs'[r] = runs[r]
    <2>1. runs[r] \in Run
      BY <1>1
    <2>2. CASE runs'[r] = runs[r]
      BY <2>1, <2>2 DEF Run
    <2>3. CASE r \in ActiveRuns(t) /\ \E s \in RunStatus \ {"running"} :
                                         runs'[r] = [runs[r] EXCEPT !.status = s]
      <3>1. PICK s \in RunStatus \ {"running"} : runs'[r] = [runs[r] EXCEPT !.status = s]
        BY <2>3
      <3>2. runs[r].task = t /\ runs[r].status = "running"
        BY <2>3 DEF ActiveRuns, RunsOf
      <3>3. QED
        BY <2>1, <3>1, <3>2 DEF Run
    <2>4. QED
      BY <2>2, <2>3 DEF RunsStep
  <1>5. \A n, m \in Nat :
           m = n \/ m = n + 1 =>
              /\ \A r \in 1..n : r \in 1..m
              /\ \A r \in 1..m : r \in 1..n \/ (r = n + 1 /\ m = n + 1)
    OBVIOUS
  <1>6. /\ \A r \in 1..Len(runs) : r \in 1..Len(runs')
        /\ \A r \in 1..Len(runs') :
              r \in 1..Len(runs) \/ (r = Len(runs) + 1 /\ Len(runs') = Len(runs) + 1)
    BY <1>1, <1>2, <1>3, <1>5, Zenon
  <1>7. Len(runs') = Len(runs) + 1 =>
           /\ runs'[Len(runs) + 1].task = t
           /\ runs'[Len(runs) + 1].generation = generation
           /\ runs'[Len(runs) + 1].from # 0 => IsLatest(t, runs'[Len(runs) + 1].from)
    BY DEF RunsStep
  <1>8. QED
    BY <1>1, <1>2, <1>4, <1>6, <1>7

\* A Task other than t keeps its Runs.
LEMMA OthersKept ==
    ASSUME TypeOK, NEW t \in Tasks, RunsStep(t), NEW u \in Tasks \ {t}
    PROVE  /\ task'[u] = task[u]
           /\ RunsOf(u)' = RunsOf(u)
           /\ ActiveRuns(u)' = ActiveRuns(u)
           /\ \A r \in RunsOf(u) : runs'[r] = runs[r]
  <1>1. task'[u] = task[u]
    BY DEF RunsStep
  <1>2. /\ DOMAIN runs = 1..Len(runs) /\ DOMAIN runs' = 1..Len(runs')
        /\ \A r \in 1..Len(runs) :
              /\ r \in 1..Len(runs') /\ runs'[r].task = runs[r].task
              /\ runs[r].task # t => runs'[r] = runs[r]
        /\ \A r \in 1..Len(runs') : r \in 1..Len(runs) \/ runs'[r].task = t
    BY HistoryFacts
  <1>3. RunsOf(u)' = RunsOf(u) /\ \A r \in RunsOf(u) : runs'[r] = runs[r]
    BY <1>2 DEF RunsOf
  <1>4. QED
    BY <1>1, <1>3 DEF ActiveRuns

LEMMA OwnedInv ==
    ASSUME IInv, NEW t \in Tasks, RunsStep(t)
    PROVE  ActiveRunOwned'
  <1> SUFFICES ASSUME NEW u \in Tasks, NEW r \in ActiveRuns(u)'
               PROVE  /\ IsLatest(u, r)'
                      /\ AtMostOneActive(u)'
                      /\ task'[u].status = "running"
                      /\ task'[u].assignee = runs'[r].assignee
    BY DEF ActiveRunOwned
  <1>1. CASE u = t
    <2>1. \A i \in ActiveRuns(t)' : OwnedAfter(t, i)
      BY HistoryFacts DEF IInv, RunsStep, ActiveRuns, RunsOf
    <2>2. QED
      BY <1>1, <2>1 DEF OwnedAfter, IsLatest, AtMostOneActive, ActiveRuns, RunsOf
  <1>2. CASE u # t
    <2>1. /\ task'[u] = task[u] /\ RunsOf(u)' = RunsOf(u)
          /\ ActiveRuns(u)' = ActiveRuns(u)
          /\ \A i \in RunsOf(u) : runs'[i] = runs[i]
      BY <1>2, OthersKept DEF IInv
    <2>2. r \in ActiveRuns(u) /\ r \in RunsOf(u)
      BY <2>1 DEF ActiveRuns
    <2>3. /\ IsLatest(u, r) /\ AtMostOneActive(u)
          /\ task[u].status = "running" /\ task[u].assignee = runs[r].assignee
      BY <2>2 DEF IInv, ActiveRunOwned
    <2>4. QED
      BY <2>1, <2>2, <2>3 DEF IsLatest, AtMostOneActive
  <1>3. QED
    BY <1>1, <1>2

LEMMA EffectInv ==
    ASSUME IInv, NEW t \in Tasks, RunsStep(t), effect[t].phase = "none",
           UNCHANGED <<generation, effect>>
    PROVE  EffectUnderOwner'
  <1> SUFFICES ASSUME NEW u \in Tasks, effect[u].phase = "running"
               PROVE  /\ ActiveRuns(u)' = {effect[u].run}
                      /\ runs'[effect[u].run].generation = generation
                      /\ task'[u].status = "running"
                      /\ {task'[u].assignee, runs'[effect[u].run].assignee}
                           = {effect[u].actor}
    BY DEF EffectUnderOwner
  <1>1. u # t
    OBVIOUS
  <1>2. /\ task'[u] = task[u] /\ ActiveRuns(u)' = ActiveRuns(u)
        /\ \A r \in RunsOf(u) : runs'[r] = runs[r]
    BY <1>1, OthersKept DEF IInv
  <1>3. /\ ActiveRuns(u) = {effect[u].run}
        /\ runs[effect[u].run].generation = generation
        /\ task[u].status = "running"
        /\ {task[u].assignee, runs[effect[u].run].assignee} = {effect[u].actor}
    BY DEF IInv, EffectUnderOwner
  <1>4. effect[u].run \in RunsOf(u)
    BY <1>3 DEF ActiveRuns
  <1>5. QED
    BY <1>2, <1>3, <1>4

LEMMA RecoverableInv ==
    ASSUME IInv, NEW t \in Tasks, RunsStep(t), UNCHANGED generation
    PROVE  Recoverable' \subseteq Recoverable
  <1> SUFFICES ASSUME NEW r \in Recoverable'
               PROVE  r \in Recoverable
    OBVIOUS
  <1>1. /\ r \in DOMAIN runs' /\ runs'[r].status = "running"
        /\ runs'[r].generation < generation
        /\ runs'[r].task \notin Delegated /\ runs'[r].assignee # "unassigned"
    BY DEF Recoverable, Stale
  <1>2. generation \in Nat
    BY TaskRunsAssumption DEF IInv, TypeOK
  <1>3. r \in 1..Len(runs)
    BY <1>1, <1>2, HistoryFacts DEF IInv
  <1>4. runs'[r] = runs[r] /\ r \in DOMAIN runs
    BY <1>1, <1>3, HistoryFacts DEF IInv
  <1>5. QED
    BY <1>1, <1>4 DEF Recoverable, Stale

LEMMA CheckpointInv ==
    ASSUME IInv, NEW t \in Tasks, RunsStep(t)
    PROVE  CheckpointContinuedOnce'
  <1> SUFFICES ASSUME NEW i \in DOMAIN runs', runs'[i].from # 0
               PROVE  /\ runs'[i].from < i
                      /\ runs'[runs'[i].from].task = runs'[i].task
                      /\ \A j \in DOMAIN runs' : runs'[j].task = runs'[i].task =>
                            j <= runs'[i].from \/ j >= i
    BY DEF CheckpointContinuedOnce, RunsOf
  <1> DEFINE p == runs'[i].from
             n == Len(runs)
  <1>1. /\ n \in Nat /\ DOMAIN runs = 1..n /\ DOMAIN runs' = 1..Len(runs')
        /\ \A r \in 1..n : /\ runs'[r].task = runs[r].task
                           /\ runs'[r].from = runs[r].from
        /\ \A r \in 1..Len(runs') :
              r \in 1..n \/ (/\ r = n + 1 /\ runs'[r].task = t
                             /\ runs'[r].from # 0 => IsLatest(t, runs'[r].from))
    BY HistoryFacts DEF IInv
  <1>2. CASE i \in 1..n
    <2>1. p = runs[i].from /\ runs'[i].task = runs[i].task
      BY <1>1, <1>2
    <2>2. /\ p < i /\ runs[p].task = runs[i].task
          /\ \A j \in RunsOf(runs[i].task) : j <= p \/ j >= i
      BY <1>1, <1>2, <2>1 DEF IInv, CheckpointContinuedOnce
    <2>3. p \in 1..n
      <3>1. runs[i] \in Run
        BY <1>2, <1>1 DEF IInv, TypeOK
      <3>2. p \in Nat
        BY <2>1, <3>1 DEF Run
      <3>3. QED
        BY <1>1, <1>2, <2>2, <3>2
    <2>4. runs'[p].task = runs'[i].task
      BY <1>1, <2>1, <2>2, <2>3
    <2>5. ASSUME NEW j \in DOMAIN runs', runs'[j].task = runs'[i].task
          PROVE  j <= p \/ j >= i
      <3>1. CASE j \in 1..n
        BY <1>1, <2>1, <2>2, <2>5, <3>1 DEF RunsOf
      <3>2. CASE j = n + 1
        BY <1>1, <1>2, <3>2
      <3>3. QED
        BY <1>1, <3>1, <3>2
    <2>6. QED
      BY <2>2, <2>4, <2>5
  <1>3. CASE i \notin 1..n
    <2>1. i = n + 1 /\ runs'[i].task = t /\ IsLatest(t, p)
      BY <1>1, <1>3
    <2>2. p \in 1..n /\ runs[p].task = t /\ \A j \in RunsOf(t) : j <= p
      BY <1>1, <2>1 DEF IsLatest, RunsOf
    <2>3. p < i /\ runs'[p].task = t
      BY <1>1, <2>1, <2>2
    <2>4. ASSUME NEW j \in DOMAIN runs', runs'[j].task = t
          PROVE  j <= p \/ j >= i
      BY <1>1, <2>1, <2>2, <2>4 DEF RunsOf
    <2>5. QED
      BY <2>1, <2>3, <2>4
  <1>4. QED
    BY <1>2, <1>3

\* The shape, on a Task without an effect, preserves the invariant.
LEMMA TransactionInv ==
    ASSUME IInv, NEW t \in Tasks, RunsStep(t), effect[t].phase = "none",
           UNCHANGED <<process, generation, fence, fenceRecovery, effect>>,
           toRecover' \subseteq Nat,
           process = "recovering" => Recoverable' \subseteq toRecover'
    PROVE  IInv'
  <1>1. TypeOK'
    BY DEF IInv, TypeOK, RunsStep
  <1>2. ActiveRunOwned'
    BY OwnedInv
  <1>3. EffectUnderOwner'
    BY EffectInv
  <1>4. NoStaleRunServing'
    BY RecoverableInv DEF IInv, NoStaleRunServing
  <1>5. CheckpointContinuedOnce'
    BY CheckpointInv
  <1>6. DownQuiet' /\ LoopsAhead'
    BY DEF IInv, DownQuiet, LoopsAhead
  <1>7. QED
    BY <1>1, <1>2, <1>3, <1>4, <1>5, <1>6 DEF IInv
-----------------------------------------------------------------------------
(* The actions.                                                            *)

LEMMA InitInv == Init => IInv
  <1> SUFFICES ASSUME Init PROVE IInv
    OBVIOUS
  <1>1. /\ process = "down" /\ generation = 0 /\ runs = <<>> /\ toRecover = {}
        /\ fence = {} /\ fenceRecovery = FALSE
        /\ task \in [Tasks -> [status : {"absent"}, assignee : {"unassigned"}, route : Routes]]
        /\ effect = [t \in Tasks |-> NoEffect]
    BY DEF Init
  <1>2. TypeOK
    <2>1. task \in [Tasks -> TaskRecord]
      BY <1>1 DEF TaskRecord, Assignees
    <2>2. NoEffect \in EffectRecord
      BY DEF NoEffect, EffectRecord, Assignees
    <2>3. effect \in [Tasks -> EffectRecord]
      BY <1>1, <2>2
    <2>4. generation \in 0..MaxGeneration
      <3>1. MaxGeneration \in Nat
        BY TaskRunsAssumption
      <3>2. QED
        BY <1>1, <3>1
    <2>5. fence \subseteq Tasks /\ fenceRecovery \in BOOLEAN
      BY <1>1
    <2>6. runs \in Seq(Run)
      BY <1>1, EmptySeq
    <2>7. process \in {"down", "recovering", "serving"} /\ toRecover \subseteq Nat
      BY <1>1
    <2>8. QED
      BY <2>1, <2>3, <2>4, <2>5, <2>6, <2>7 DEF TypeOK
  <1>3. \A t \in Tasks : effect[t].phase = "none"
    BY <1>1 DEF NoEffect
  <1>4. \A t \in Tasks : ActiveRuns(t) = {}
    BY <1>1 DEF ActiveRuns, RunsOf
  <1>5. ActiveRunOwned /\ CheckpointContinuedOnce
    BY <1>1, <1>4 DEF ActiveRunOwned, CheckpointContinuedOnce
  <1>6. EffectUnderOwner /\ NoStaleRunServing /\ DownQuiet /\ LoopsAhead
    BY <1>1, <1>3 DEF EffectUnderOwner, NoStaleRunServing, DownQuiet, LoopsAhead
  <1>7. QED
    BY <1>2, <1>5, <1>6 DEF IInv

\* Every call that ends a Run closes it for a status other than running.
LEMMA EndShape ==
    ASSUME IInv, NEW t \in Tasks, NEW r, NEW actor, NEW s \in Requested,
           \/ UpdateStatus(t, s)
           \/ CompleteRun(t, r, actor, s)
           \/ RecoverRun(t, r, actor, s)
    PROVE  /\ RunsStep(t)
           /\ effect[t].phase = "none"
           /\ UNCHANGED <<process, generation, fence, fenceRecovery, effect>>
  <1>1. s \in (Open \cup Terminal) \ {"running"}
    BY TaskRunsAssumption DEF Open, Terminal
  <1>2. UpdateStatusIn(t, s) /\ CanCommit(t)
    BY DEF UpdateStatus, CompleteRun, RecoverRun
  <1>3. RunsStep(t)
    BY <1>1, <1>2, CloseShape DEF IInv
  <1>4. QED
    BY <1>2, <1>3 DEF UpdateStatus, CompleteRun, RecoverRun, CanCommit

\* Supersede asks for a status that Requested need not name.
LEMMA SupersedeShape ==
    ASSUME IInv, NEW t \in Tasks, NEW replacement \in Tasks, Supersede(t, replacement)
    PROVE  /\ RunsStep(t)
           /\ effect[t].phase = "none"
           /\ UNCHANGED <<process, generation, fence, fenceRecovery, effect>>
  <1>1. "superseded" \in (Open \cup Terminal) \ {"running"}
    BY DEF Terminal
  <1>2. UpdateStatusIn(t, "superseded") /\ CanCommit(t)
    BY DEF Supersede, UpdateStatus
  <1>3. RunsStep(t)
    BY <1>1, <1>2, CloseShape DEF IInv
  <1>4. QED
    BY <1>2, <1>3 DEF Supersede, UpdateStatus, CanCommit

LEMMA ServeInv ==
    ASSUME IInv, NEW t \in Tasks, Serve(t), process = "serving", UNCHANGED toRecover
    PROVE  IInv' /\ RunsStep(t)
  <1> DEFINE Shape == /\ RunsStep(t)
                      /\ effect[t].phase = "none"
                      /\ UNCHANGED <<process, generation, fence, fenceRecovery, effect>>
  <1>1. ASSUME NEW a \in Assignees, Create(t, a) PROVE Shape
    BY <1>1, CreateShape DEF Create, CanCommit
  <1>2. ASSUME NEW a \in Assignees, CreateAndStartRun(t, a) PROVE Shape
    BY <1>2, CreateAndStartShape DEF CreateAndStartRun, CanCommit
  <1>3. ASSUME NEW a \in Agents, RecordAssignment(t, a) PROVE Shape
    BY <1>3, AssignShape DEF RecordAssignment, CanCommit
  <1>4. ASSUME NEW route \in Routes, RecordRouting(t, route) PROVE Shape
    BY <1>4, RouteShape DEF RecordRouting, CanCommit
  <1>5. ASSUME NEW reason \in Reasons, Start(t, reason) PROVE Shape
    <2>1. StartWithReason(t, reason, 0)
      BY <1>5 DEF Start
    <2>2. RunsStep(t)
      BY <2>1, StartShape
    <2>3. QED
      BY <1>5, <2>2 DEF Start, CanCommit
  <1>6. ASSUME NEW s \in Requested, UpdateStatus(t, s) PROVE Shape
    BY <1>6, EndShape
  <1>7. ASSUME NEW replacement \in Tasks, Supersede(t, replacement) PROVE Shape
    BY <1>7, SupersedeShape
  <1>8. ASSUME NEW r \in RunsOf(t), InterruptRun(t, r) PROVE Shape
    BY <1>8, InterruptShape DEF InterruptRun, CanCommit
  <1>9. ASSUME NEW r \in RunsOf(t), NEW a \in Agents,
               NEW reason \in {"checkpoint_resume", "explicit_rerun"},
               StartRunFromCheckpoint(t, r, a, reason)
        PROVE  Shape
    <2>1. r \in Nat
      BY DEF IInv, TypeOK, RunsOf
    <2>2. IsLatest(t, r) /\ StartWithReason(t, reason, r) /\ reason \in Reasons
      BY <1>9 DEF StartRunFromCheckpoint, CheckpointPredecessor, Reasons
    <2>3. RunsStep(t)
      BY <2>1, <2>2, StartShape
    <2>4. QED
      BY <1>9, <2>3 DEF StartRunFromCheckpoint, CanCommit
  <1>10. ASSUME NEW r \in RunsOf(t), NEW a \in Agents, NEW s \in Completions \cap Requested,
                CompleteRun(t, r, a, s) \/ RecoverRun(t, r, a, s)
         PROVE  Shape
    BY <1>10, EndShape
  <1>11. Shape
    <2> HIDE DEF Shape
    <2>1. QED
      BY <1>1, <1>2, <1>3, <1>4, <1>5, <1>6, <1>7, <1>8, <1>9, <1>10 DEF Serve
  <1>12. toRecover' \subseteq Nat /\ process # "recovering"
    BY DEF IInv, TypeOK
  <1>13. QED
    BY <1>11, <1>12, TransactionInv

\* What depends on Tasks and Runs alone survives a step that leaves them.
LEMMA Frame ==
    ASSUME IInv, UNCHANGED <<task, runs>>
    PROVE  ActiveRunOwned' /\ CheckpointContinuedOnce'
  BY DEF IInv, ActiveRunOwned, CheckpointContinuedOnce, ActiveRuns, RunsOf, IsLatest,
         AtMostOneActive

LEMMA EffectStepInv ==
    ASSUME IInv, NEW t \in Tasks, Effect(t), UNCHANGED toRecover
    PROVE  IInv'
  <1>1. UNCHANGED <<process, generation, task, runs>>
    BY DEF Effect, EffectAcquire, EffectAcquireUncertain, EffectAdmit, EffectReturn,
           EffectRelease
  <1>2. ActiveRunOwned' /\ CheckpointContinuedOnce'
    BY <1>1, Frame
  <1>3. NoStaleRunServing' /\ LoopsAhead'
    BY <1>1 DEF IInv, NoStaleRunServing, LoopsAhead, Recoverable, Stale
  <1>4. effect \in [Tasks -> EffectRecord] /\ fence \subseteq Tasks /\ fenceRecovery \in BOOLEAN
    BY DEF IInv, TypeOK
  <1>5. /\ effect' \in [Tasks -> EffectRecord]
        /\ \A u \in Tasks \ {t} : effect'[u] = effect[u]
    <2>1. ASSUME NEW r \in RunsOf(t), NEW a \in Agents
          PROVE  [phase |-> "fenced", run |-> r, actor |-> a] \in EffectRecord
      BY DEF EffectRecord, Assignees, IInv, TypeOK, RunsOf
    <2>2. ASSUME NEW ph \in {"none", "fenced", "running", "ending"}
          PROVE  [effect EXCEPT ![t].phase = ph] \in [Tasks -> EffectRecord]
      BY <1>4 DEF EffectRecord
    <2>3. NoEffect \in EffectRecord
      BY DEF NoEffect, EffectRecord, Assignees
    <2>4. CASE \E r \in RunsOf(t), a \in Agents : EffectAcquire(t, r, a)
      BY <1>4, <2>1, <2>4 DEF EffectAcquire
    <2>5. CASE EffectAcquireUncertain(t)
      BY <1>4, <2>5 DEF EffectAcquireUncertain
    <2>6. CASE EffectAdmit(t)
      <3>1. effect' = [effect EXCEPT ![t].phase = "running"]
              \/ effect' = [effect EXCEPT ![t].phase = "ending"]
        BY <2>6 DEF EffectAdmit
      <3>2. QED
        BY <1>4, <2>2, <3>1
    <2>7. CASE EffectReturn(t)
      BY <1>4, <2>2, <2>7 DEF EffectReturn
    <2>8. CASE EffectRelease(t)
      BY <1>4, <2>3, <2>8 DEF EffectRelease
    <2>9. QED
      BY <2>4, <2>5, <2>6, <2>7, <2>8 DEF Effect
  <1>6. fence' \subseteq Tasks /\ fenceRecovery' \in BOOLEAN
    BY <1>4 DEF Effect, EffectAcquire, EffectAcquireUncertain, EffectAdmit, EffectReturn,
                EffectRelease
  <1>7. TypeOK'
    BY <1>1, <1>5, <1>6 DEF IInv, TypeOK
  <1>8. effect'[t].phase = "running" =>
           effect'[t] = effect[t] \/ (/\ MayExecute(t, effect[t].run, effect[t].actor)
                                      /\ effect'[t].run = effect[t].run
                                      /\ effect'[t].actor = effect[t].actor)
    BY <1>4 DEF Effect, EffectAcquire, EffectAcquireUncertain, EffectAdmit, EffectReturn,
                EffectRelease, EffectRecord, NoEffect
  <1>9. EffectUnderOwner'
    <2> SUFFICES ASSUME NEW u \in Tasks, effect'[u].phase = "running"
                 PROVE  /\ ActiveRuns(u) = {effect'[u].run}
                        /\ runs[effect'[u].run].generation = generation
                        /\ task[u].status = "running"
                        /\ {task[u].assignee, runs[effect'[u].run].assignee}
                             = {effect'[u].actor}
      BY <1>1 DEF EffectUnderOwner, ActiveRuns, RunsOf
    <2>1. CASE effect'[u] = effect[u]
      BY <2>1 DEF IInv, EffectUnderOwner
    <2>2. CASE /\ u = t
               /\ MayExecute(t, effect[t].run, effect[t].actor)
               /\ effect'[t].run = effect[t].run
               /\ effect'[t].actor = effect[t].actor
      BY <2>2 DEF MayExecute
    <2>3. QED
      BY <1>5, <1>8, <2>1, <2>2
  <1>10. process # "down"
    BY DEF Effect, EffectAcquire, EffectAcquireUncertain, EffectAdmit, EffectReturn,
           EffectRelease, FenceIdle, IInv, DownQuiet
  <1>11. DownQuiet'
    BY <1>1, <1>10 DEF DownQuiet
  <1>12. QED
    BY <1>2, <1>3, <1>7, <1>9, <1>11 DEF IInv

LEMMA CrashInv ==
    ASSUME IInv, Crash
    PROVE  IInv'
  <1>1. /\ process' = "down" /\ fenceRecovery' = FALSE /\ toRecover' = {}
        /\ UNCHANGED <<generation, task, runs, fence>>
        /\ \A t \in Tasks : effect'[t].phase = "none"
    BY DEF Crash, NoEffect
  <1>2. effect' \in [Tasks -> EffectRecord]
    BY DEF Crash, NoEffect, EffectRecord, Assignees
  <1>3. TypeOK'
    BY <1>1, <1>2 DEF IInv, TypeOK
  <1>4. ActiveRunOwned' /\ CheckpointContinuedOnce'
    BY <1>1, Frame
  <1>5. EffectUnderOwner' /\ NoStaleRunServing' /\ DownQuiet' /\ LoopsAhead'
    BY <1>1 DEF EffectUnderOwner, NoStaleRunServing, DownQuiet, LoopsAhead
  <1>6. QED
    BY <1>3, <1>4, <1>5 DEF IInv

LEMMA OpenStoreInv ==
    ASSUME IInv, OpenStore
    PROVE  IInv'
  <1>1. /\ process' = "recovering" /\ generation' = generation + 1
        /\ generation < MaxGeneration
        /\ toRecover' = {r \in DOMAIN runs : runs[r].status = "running"}
        /\ UNCHANGED <<task, runs, fence, fenceRecovery, effect>>
    BY DEF OpenStore
  <1>2. \A t \in Tasks : effect[t].phase = "none"
    BY DEF OpenStore, IInv, DownQuiet
  <1>3. generation' \in 0..MaxGeneration
    BY <1>1, TaskRunsAssumption DEF IInv, TypeOK
  <1>4. toRecover' \subseteq Nat
    BY <1>1 DEF IInv, TypeOK
  <1>5. TypeOK'
    BY <1>1, <1>3, <1>4 DEF IInv, TypeOK
  <1>6. ActiveRunOwned' /\ CheckpointContinuedOnce'
    BY <1>1, Frame
  <1>7. EffectUnderOwner' /\ NoStaleRunServing' /\ DownQuiet'
    BY <1>1, <1>2 DEF EffectUnderOwner, NoStaleRunServing, DownQuiet
  <1>8. LoopsAhead'
    BY <1>1 DEF LoopsAhead, Recoverable
  <1>9. QED
    BY <1>5, <1>6, <1>7, <1>8 DEF IInv

LEMMA StartupDoneInv ==
    ASSUME IInv, StartupDone
    PROVE  IInv'
  <1>1. /\ process = "recovering" /\ process' = "serving" /\ toRecover = {}
        /\ UNCHANGED <<generation, task, runs, fence, fenceRecovery, effect, toRecover>>
    BY DEF StartupDone
  <1>2. TypeOK'
    BY <1>1 DEF IInv, TypeOK
  <1>3. ActiveRunOwned' /\ CheckpointContinuedOnce'
    BY <1>1, Frame
  <1>4. EffectUnderOwner'
    BY <1>1 DEF IInv, EffectUnderOwner, ActiveRuns, RunsOf
  <1>5. Recoverable' = Recoverable
    BY <1>1 DEF Recoverable, Stale
  <1>6. Recoverable = {}
    BY <1>1 DEF IInv, LoopsAhead
  <1>7. NoStaleRunServing' /\ DownQuiet' /\ LoopsAhead'
    BY <1>1, <1>5, <1>6 DEF NoStaleRunServing, DownQuiet, LoopsAhead
  <1>8. QED
    BY <1>2, <1>3, <1>4, <1>7 DEF IInv

\* A Run that a loop may leave alone is not one that startup must close: it is
\* the latest of its Task, which runs and has the same owner.
LEMMA LeftAloneHarmless ==
    ASSUME IInv, NEW r, LeftAlone(r)
    PROVE  r \notin Recoverable
  <1> SUFFICES ASSUME r \in Recoverable PROVE FALSE
    OBVIOUS
  <1> DEFINE t == runs[r].task
  <1>1. /\ r \in DOMAIN runs /\ runs[r].status = "running" /\ Stale(r)
        /\ t \notin Delegated /\ runs[r].assignee # "unassigned"
    BY DEF Recoverable
  <1>2. t \in Tasks
    <2>1. runs[r] \in Run
      BY <1>1 DEF IInv, TypeOK
    <2>2. QED
      BY <2>1 DEF Run
  <1>3. r \in ActiveRuns(t)
    BY <1>1 DEF ActiveRuns, RunsOf
  <1>4. /\ IsLatest(t, r) /\ AtMostOneActive(t)
        /\ task[t].status = "running" /\ task[t].assignee = runs[r].assignee
    BY <1>2, <1>3 DEF IInv, ActiveRunOwned
  <1>5. ActiveRuns(t) = {r}
    BY <1>3, <1>4 DEF AtMostOneActive
  <1>6. MayRecover(t, r, runs[r].assignee)
    BY <1>1, <1>4, <1>5 DEF MayRecover
  <1>7. QED
    BY <1>1, <1>4, <1>6 DEF LeftAlone

LEMMA ClosedRun ==
    ASSUME runs \in Seq(Run), NEW t \in Tasks, NEW q \in RunStatus \ {"running"},
           runs' = WithClosed(t, q), NEW r \in RunsOf(t)
    PROVE  runs'[r].status # "running"
  <1>1. r \in DOMAIN runs /\ runs[r] \in Run
    BY DEF RunsOf
  <1>2. CASE r \in ActiveRuns(t)
    BY <1>1, <1>2 DEF WithClosed, Run
  <1>3. CASE r \notin ActiveRuns(t)
    BY <1>1, <1>3 DEF WithClosed, ActiveRuns
  <1>4. QED
    BY <1>2, <1>3

\* A turn of the loops closes a Run or leaves it, and is done with it.
LEMMA RecoverNextInv ==
    ASSUME IInv, NEW r \in toRecover, RecoverNext(r)
    PROVE  /\ IInv'
           /\ \/ UNCHANGED <<task, runs>>
              \/ /\ runs[r].task \in Tasks /\ RunsStep(runs[r].task)
                 /\ \E s \in Requested : s # "running" /\ UpdateStatusIn(runs[r].task, s)
  <1>1. /\ process = "recovering" /\ toRecover' = toRecover \ {r}
        /\ UNCHANGED <<process, generation, fence, fenceRecovery, effect>>
    BY DEF RecoverNext, RecoverRun
  <1>2. toRecover' \subseteq Nat
    BY <1>1 DEF IInv, TypeOK
  <1>3. Recoverable \subseteq toRecover
    BY <1>1 DEF IInv, LoopsAhead
  <1>4. ASSUME NEW s \in (Completions \cap Requested) \ {"waiting"},
               RecoverRun(runs[r].task, r, runs[r].assignee, s)
        PROVE  /\ IInv' /\ runs[r].task \in Tasks /\ RunsStep(runs[r].task)
               /\ s # "running" /\ UpdateStatusIn(runs[r].task, s)
    <2>1. /\ MayRecover(runs[r].task, r, runs[r].assignee)
          /\ UpdateStatusIn(runs[r].task, s)
      BY <1>4 DEF RecoverRun
    <2>2. r \in DOMAIN runs /\ runs \in Seq(Run)
      BY <2>1 DEF MayRecover, IsLatest, RunsOf, IInv, TypeOK
    <2>3. runs[r].task \in Tasks
      <3>1. runs[r] \in Run
        BY <2>2
      <3>2. QED
        BY <3>1 DEF Run
    <2>4. RunsStep(runs[r].task) /\ effect[runs[r].task].phase = "none"
      BY <1>4, <2>3, EndShape
    <2>5. s # "running"
      BY TaskRunsAssumption
    <2>6. r \notin Recoverable'
      <3>1. runs' = WithClosed(runs[r].task, RunStatusFor(s))
        BY <2>1 DEF UpdateStatusIn
      <3>2. RunStatusFor(s) \in RunStatus \ {"running"}
        BY TaskRunsAssumption DEF RunStatusFor, RunStatus, Terminal
      <3>3. r \in RunsOf(runs[r].task)
        BY <2>2 DEF RunsOf
      <3>4. r \in DOMAIN runs' => runs'[r].status # "running"
        BY <2>2, <2>3, <3>1, <3>2, <3>3, ClosedRun
      <3>5. QED
        BY <3>4 DEF Recoverable
    <2>7. Recoverable' \subseteq toRecover'
      BY <1>1, <1>3, <2>3, <2>4, <2>6, RecoverableInv
    <2>8. QED
      BY <1>1, <1>2, <2>1, <2>3, <2>4, <2>5, <2>7, TransactionInv
  <1>5. ASSUME LeftAlone(r), UNCHANGED <<task, runs>>
        PROVE  IInv'
    <2>1. r \notin Recoverable
      BY <1>5, LeftAloneHarmless
    <2>2. Recoverable' = Recoverable
      BY <1>1, <1>5 DEF Recoverable, Stale
    <2>3. TypeOK'
      BY <1>1, <1>2, <1>5 DEF IInv, TypeOK
    <2>4. ActiveRunOwned' /\ CheckpointContinuedOnce'
      BY <1>5, Frame
    <2>5. EffectUnderOwner'
      BY <1>1, <1>5 DEF IInv, EffectUnderOwner, ActiveRuns, RunsOf
    <2>6. NoStaleRunServing' /\ DownQuiet' /\ LoopsAhead'
      BY <1>1, <1>3, <2>1, <2>2 DEF IInv, NoStaleRunServing, DownQuiet, LoopsAhead
    <2>7. QED
      BY <2>3, <2>4, <2>5, <2>6 DEF IInv
  <1>6. CASE \E s \in (Completions \cap Requested) \ {"waiting"} :
                RecoverRun(runs[r].task, r, runs[r].assignee, s)
    BY <1>4, <1>6
  <1>7. CASE LeftAlone(r) /\ UNCHANGED <<task, runs>>
    BY <1>5, <1>7
  <1>8. QED
    BY <1>6, <1>7 DEF RecoverNext

\* The inductive step.
LEMMA NextInv == IInv /\ [Next]_vars => IInv'
  <1> SUFFICES ASSUME IInv, [Next]_vars PROVE IInv'
    OBVIOUS
  <1>1. CASE process = "serving" /\ UNCHANGED toRecover /\ \E t \in Tasks : Serve(t)
    BY <1>1, ServeInv
  <1>2. CASE UNCHANGED toRecover /\ \E t \in EffectTasks : Effect(t)
    BY <1>2, EffectStepInv, TaskRunsAssumption
  <1>3. CASE Startup
    BY <1>3, OpenStoreInv, StartupDoneInv, CrashInv, RecoverNextInv
       DEF Startup, StartupFatal
  <1>4. CASE Crash
    BY <1>4, CrashInv
  <1>5. CASE UNCHANGED vars
    BY <1>5, Frame DEF vars, IInv, TypeOK, EffectUnderOwner, NoStaleRunServing, DownQuiet,
                       LoopsAhead, ActiveRuns, RunsOf, Recoverable, Stale
  <1>6. QED
    BY <1>1, <1>2, <1>3, <1>4, <1>5 DEF Next
-----------------------------------------------------------------------------
(* Admission.  A step starts one Task that may start, or ends one, or       *)
(* changes no status; in two levels a Task that ends frees at least the     *)
(* slot its parent regains, and the scope its parent writes in.             *)

AdmissionInv ==
    /\ IsFiniteSet(RunningTasks)
    /\ LeavesWithinLimit

Starts(t) ==
    /\ CanStart(t)
    /\ RunningTasks' = RunningTasks \cup {t}

Ends(t) == RunningTasks' = RunningTasks \ {t}

LEMMA SameStatus ==
    ASSUME \A u \in Tasks : task'[u].status = task[u].status
    PROVE  RunningTasks' = RunningTasks
  BY DEF RunningTasks

LEMMA StatusSet ==
    ASSUME task \in [Tasks -> TaskRecord], NEW t \in Tasks, NEW s,
           \/ task' = [task EXCEPT ![t].status = s]
           \/ \E a \in Assignees : task' = [task EXCEPT ![t].status = s, ![t].assignee = a]
    PROVE  /\ s = "running" => RunningTasks' = RunningTasks \cup {t}
           /\ s # "running" => RunningTasks' = RunningTasks \ {t}
  <1>1. task[t] \in TaskRecord
    OBVIOUS
  <1>2. task'[t].status = s
    BY <1>1 DEF TaskRecord
  <1>3. \A u \in Tasks \ {t} : task'[u].status = task[u].status
    OBVIOUS
  <1>4. QED
    BY <1>2, <1>3 DEF RunningTasks

LEMMA CloseStatus ==
    ASSUME TypeOK, NEW t \in Tasks, NEW s, s # "running", UpdateStatusIn(t, s)
    PROVE  Ends(t)
  BY StatusSet DEF UpdateStatusIn, Ends, TypeOK

LEMMA StartStatus ==
    ASSUME TypeOK, NEW t \in Tasks, NEW reason, NEW from, StartWithReason(t, reason, from)
    PROVE  Starts(t) \/ UNCHANGED RunningTasks
  <1>1. RunningTasks' = RunningTasks \cup {t}
    BY StatusSet DEF StartWithReason, TypeOK
  <1>2. CASE task[t].status = "running"
    BY <1>1, <1>2 DEF RunningTasks
  <1>3. CASE task[t].status # "running"
    BY <1>1, <1>3 DEF StartWithReason, Starts
  <1>4. QED
    BY <1>2, <1>3

LEMMA ServeStatus ==
    ASSUME TypeOK, NEW t \in Tasks, Serve(t)
    PROVE  Starts(t) \/ Ends(t) \/ UNCHANGED RunningTasks
  <1> DEFINE Shape == Starts(t) \/ Ends(t) \/ UNCHANGED RunningTasks
  <1>0. task[t] \in TaskRecord
    BY DEF TypeOK
  <1>1. ASSUME NEW a \in Assignees, Create(t, a) PROVE Shape
    BY <1>1, StatusSet DEF Create, Ends, TypeOK
  <1>2. ASSUME NEW a \in Assignees, CreateAndStartRun(t, a) PROVE Shape
    BY <1>2, StatusSet DEF CreateAndStartRun, Starts, TypeOK
  <1>3. ASSUME NEW a \in Agents, RecordAssignment(t, a) PROVE Shape
    <2>1. \A u \in Tasks : task'[u].status = task[u].status
      BY <1>0, <1>3 DEF RecordAssignment, TypeOK, TaskRecord
    <2>2. QED
      BY <2>1, SameStatus
  <1>4. ASSUME NEW route \in Routes, RecordRouting(t, route) PROVE Shape
    <2>1. \A u \in Tasks : task'[u].status = task[u].status
      BY <1>0, <1>4 DEF RecordRouting, TypeOK, TaskRecord
    <2>2. QED
      BY <2>1, SameStatus
  <1>5. ASSUME NEW reason \in Reasons, Start(t, reason) PROVE Shape
    <2>1. StartWithReason(t, reason, 0)
      BY <1>5 DEF Start
    <2>2. QED
      BY <2>1, StartStatus
  <1>6. ASSUME NEW s \in Requested, UpdateStatus(t, s) PROVE Shape
    <2>1. s # "running" /\ UpdateStatusIn(t, s)
      BY <1>6, TaskRunsAssumption DEF UpdateStatus
    <2>2. QED
      BY <2>1, CloseStatus
  <1>7. ASSUME NEW replacement \in Tasks, Supersede(t, replacement) PROVE Shape
    <2>1. UpdateStatusIn(t, "superseded")
      BY <1>7 DEF Supersede, UpdateStatus
    <2>2. QED
      BY <2>1, CloseStatus
  <1>8. ASSUME NEW r \in RunsOf(t), InterruptRun(t, r) PROVE Shape
    BY <1>8 DEF InterruptRun, RunningTasks
  <1>9. ASSUME NEW r \in RunsOf(t), NEW a \in Agents,
               NEW reason \in {"checkpoint_resume", "explicit_rerun"},
               StartRunFromCheckpoint(t, r, a, reason)
        PROVE  Shape
    <2>1. StartWithReason(t, reason, r)
      BY <1>9 DEF StartRunFromCheckpoint
    <2>2. QED
      BY <2>1, StartStatus
  <1>10. ASSUME NEW r \in RunsOf(t), NEW a \in Agents, NEW s \in Completions \cap Requested,
                CompleteRun(t, r, a, s) \/ RecoverRun(t, r, a, s)
         PROVE  Shape
    <2>1. s # "running" /\ UpdateStatusIn(t, s)
      BY <1>10, TaskRunsAssumption DEF CompleteRun, RecoverRun
    <2>2. QED
      BY <2>1, CloseStatus
  <1>11. QED
    <2> HIDE DEF Shape
    <2>1. Shape
      BY <1>1, <1>2, <1>3, <1>4, <1>5, <1>6, <1>7, <1>8, <1>9, <1>10 DEF Serve
    <2>2. QED
      BY <2>1 DEF Shape

\* What a step may do to the set of running Tasks.
LEMMA NextStatus ==
    ASSUME IInv, [Next]_vars
    PROVE  UNCHANGED RunningTasks \/ \E t \in Tasks : Starts(t) \/ Ends(t)
  <1>1. TypeOK
    BY DEF IInv
  <1>2. CASE process = "serving" /\ UNCHANGED toRecover /\ \E t \in Tasks : Serve(t)
    BY <1>1, <1>2, ServeStatus
  <1>3. CASE Startup
    <2>1. CASE OpenStore \/ StartupDone \/ StartupFatal
      BY <2>1 DEF OpenStore, StartupDone, StartupFatal, Crash, RunningTasks
    <2>2. ASSUME NEW r \in toRecover, RecoverNext(r)
          PROVE  UNCHANGED RunningTasks \/ \E t \in Tasks : Ends(t)
      <3>1. CASE UNCHANGED <<task, runs>>
        BY <3>1 DEF RunningTasks
      <3>2. CASE /\ runs[r].task \in Tasks
                 /\ \E s \in Requested : s # "running" /\ UpdateStatusIn(runs[r].task, s)
        BY <1>1, <3>2, CloseStatus
      <3>3. QED
        BY <2>2, <3>1, <3>2, RecoverNextInv
    <2>3. QED
      BY <1>3, <2>1, <2>2 DEF Startup
  <1>4. CASE Crash \/ (\E t \in EffectTasks : Effect(t)) \/ UNCHANGED vars
    BY <1>4 DEF Crash, Effect, EffectAcquire, EffectAcquireUncertain, EffectAdmit,
                EffectReturn, EffectRelease, vars, RunningTasks
  <1>5. QED
    BY <1>2, <1>3, <1>4 DEF Next

\* A Task that starts leaves, besides itself, leaves that it counted.
LEMMA StartLeaves ==
    ASSUME NEW t \in Tasks, Starts(t)
    PROVE  Leaves' \subseteq (RunningTasks \ Coordinators(t)) \cup {t}
  BY DEF Starts, Leaves, Coordinators

\* In two levels the only new leaf, when a Task ends, is the parent of a leaf.
LEMMA EndLeaves ==
    ASSUME TwoLevels, NEW t \in Tasks, Ends(t)
    PROVE  \/ Leaves' \subseteq Leaves
           \/ /\ t \in Leaves /\ Parent[t] \in Tasks
              /\ Leaves' \subseteq (Leaves \ {t}) \cup {Parent[t]}
  <1>1. RunningTasks \subseteq Tasks /\ NoTask \notin Tasks
    BY TaskRunsAssumption DEF RunningTasks
  <1>2. ASSUME NEW u \in Leaves', u \notin Leaves
        PROVE  t \in RunningTasks /\ u = Parent[t]
    BY <1>2 DEF Leaves, Ends
  <1>3. ASSUME t \in RunningTasks, Parent[t] \in Tasks PROVE t \in Leaves
    <2>1. \A c \in Tasks : Parent[c] # t
      BY <1>1, <1>3 DEF TwoLevels
    <2>2. QED
      BY <1>1, <1>3, <2>1 DEF Leaves
  <1>4. t \notin Leaves'
    BY DEF Leaves, Ends
  <1>5. Leaves' \subseteq Tasks
    BY <1>1 DEF Leaves, Ends
  <1>6. CASE Leaves' \subseteq Leaves
    BY <1>6
  <1>7. CASE ~ (Leaves' \subseteq Leaves)
    <2>1. PICK u \in Leaves' : u \notin Leaves
      BY <1>7
    <2>2. t \in RunningTasks /\ Parent[t] \in Tasks
      BY <1>2, <1>5, <2>1
    <2>3. Leaves' \subseteq (Leaves \ {t}) \cup {Parent[t]}
      BY <1>2, <1>4
    <2>4. QED
      BY <1>3, <2>2, <2>3
  <1>8. QED
    BY <1>6, <1>7

LEMMA InitAdmission == Init => AdmissionInv
  <1> SUFFICES ASSUME Init PROVE AdmissionInv
    OBVIOUS
  <1>1. RunningTasks = {} /\ Leaves = {}
    BY DEF Init, RunningTasks, Leaves
  <1>2. QED
    BY <1>1, FS_EmptySet, TaskRunsAssumption DEF AdmissionInv, LeavesWithinLimit

LEMMA AdmissionStep ==
    ASSUME TwoLevels, IInv, AdmissionInv, [Next]_vars
    PROVE  AdmissionInv'
  <1>1. /\ IsFiniteSet(RunningTasks) /\ IsFiniteSet(Leaves)
        /\ Cardinality(Leaves) \in Nat /\ Cardinality(Leaves) <= GlobalLimit
    <2>1. IsFiniteSet(RunningTasks) /\ Leaves \subseteq RunningTasks
      BY DEF AdmissionInv, Leaves
    <2>2. IsFiniteSet(Leaves)
      BY <2>1, FS_Subset
    <2>3. QED
      BY <2>1, <2>2, FS_CardinalityType DEF AdmissionInv, LeavesWithinLimit
  <1>2. CASE UNCHANGED RunningTasks
    BY <1>2 DEF AdmissionInv, LeavesWithinLimit, Leaves
  <1>3. ASSUME NEW t \in Tasks, Starts(t) PROVE AdmissionInv'
    <2> DEFINE counted == RunningTasks \ Coordinators(t)
    <2>1. IsFiniteSet(RunningTasks')
      BY <1>1, <1>3, FS_AddElement DEF Starts
    <2>2. IsFiniteSet(counted) /\ counted \subseteq RunningTasks
      BY <1>1, FS_Subset
    <2>3. Cardinality(counted) \in Nat /\ Cardinality(counted) < GlobalLimit
      <3>1. Cardinality(counted) \in Nat
        BY <2>2, FS_CardinalityType
      <3>2. Within(Cardinality(counted), GlobalLimit)
        BY <1>3 DEF Starts, CanStart
      <3>3. QED
        BY <3>1, <3>2, TaskRunsAssumption DEF Within
    <2>4. Leaves' \subseteq counted \cup {t}
      BY <1>3, StartLeaves
    <2> HIDE DEF counted
    <2>5. /\ IsFiniteSet(counted \cup {t})
          /\ Cardinality(counted \cup {t}) \in Nat
          /\ Cardinality(counted \cup {t}) <= GlobalLimit
      <3>1. /\ IsFiniteSet(counted \cup {t})
            /\ Cardinality(counted \cup {t}) <= Cardinality(counted) + 1
        BY <2>2, <2>3, FS_AddElement
      <3>2. Cardinality(counted \cup {t}) \in Nat
        BY <3>1, FS_CardinalityType
      <3>3. QED
        BY <2>3, <3>1, <3>2, TaskRunsAssumption
    <2>6. Cardinality(Leaves') <= Cardinality(counted \cup {t}) /\ Cardinality(Leaves') \in Nat
      BY <2>4, <2>5, FS_Subset, FS_CardinalityType
    <2>7. LeavesWithinLimit'
      BY <2>5, <2>6, TaskRunsAssumption DEF LeavesWithinLimit
    <2>8. QED
      BY <2>1, <2>7 DEF AdmissionInv
  <1>4. ASSUME NEW t \in Tasks, Ends(t) PROVE AdmissionInv'
    <2>1. IsFiniteSet(RunningTasks')
      BY <1>1, <1>4, FS_RemoveElement DEF Ends
    <2>2. CASE Leaves' \subseteq Leaves
      <3>1. Cardinality(Leaves') <= Cardinality(Leaves) /\ Cardinality(Leaves') \in Nat
        BY <1>1, <2>2, FS_Subset, FS_CardinalityType
      <3>2. LeavesWithinLimit'
        BY <1>1, <3>1, TaskRunsAssumption DEF LeavesWithinLimit
      <3>3. QED
        BY <2>1, <3>2 DEF AdmissionInv
    <2>3. CASE t \in Leaves /\ Leaves' \subseteq (Leaves \ {t}) \cup {Parent[t]}
      <3> DEFINE rest == Leaves \ {t}
      <3>1. IsFiniteSet(rest) /\ Cardinality(rest) = Cardinality(Leaves) - 1
        BY <1>1, <2>3, FS_RemoveElement
      <3>2. Leaves' \subseteq rest \cup {Parent[t]}
        BY <2>3
      <3> HIDE DEF rest
      <3>3. Cardinality(rest) \in Nat
        BY <3>1, FS_CardinalityType
      <3>4. /\ IsFiniteSet(rest \cup {Parent[t]})
            /\ Cardinality(rest \cup {Parent[t]}) <= Cardinality(rest) + 1
        BY <3>1, <3>3, FS_AddElement
      <3>5. Cardinality(rest \cup {Parent[t]}) \in Nat
        BY <3>4, FS_CardinalityType
      <3>6. /\ Cardinality(Leaves') <= Cardinality(rest \cup {Parent[t]})
            /\ Cardinality(Leaves') \in Nat
        BY <3>2, <3>4, FS_Subset, FS_CardinalityType
      <3>7. LeavesWithinLimit'
        BY <1>1, <3>1, <3>3, <3>4, <3>5, <3>6, TaskRunsAssumption DEF LeavesWithinLimit
      <3>8. QED
        BY <2>1, <3>7 DEF AdmissionInv
    <2>4. QED
      BY <1>4, <2>2, <2>3, EndLeaves
  <1>5. QED
    BY <1>2, <1>3, <1>4, NextStatus

LEMMA ScopeStep ==
    ASSUME TwoLevels, ChildrenShareScope, IInv, WriteScopeExclusive, [Next]_vars
    PROVE  WriteScopeExclusive'
  <1>1. \A x, y \in Tasks : y \in SameScope[x] => x \in SameScope[y]
    BY TaskRunsAssumption
  <1>2. CASE UNCHANGED RunningTasks
    BY <1>2 DEF WriteScopeExclusive, Leaves
  <1>3. ASSUME NEW t \in Tasks, Starts(t) PROVE WriteScopeExclusive'
    <2> SUFFICES ASSUME NEW x \in Leaves', NEW y \in Leaves', x \notin ReadOnly,
                        y \notin ReadOnly, x # y, y \in SameScope[x]
                 PROVE  FALSE
      BY DEF WriteScopeExclusive
    <2>1. /\ x \in (RunningTasks \ Coordinators(t)) \cup {t}
          /\ y \in (RunningTasks \ Coordinators(t)) \cup {t}
      BY <1>3, StartLeaves
    <2>2. x \in Tasks /\ y \in Tasks
      BY <2>1 DEF RunningTasks
    <2>3. ASSUME NEW u \in RunningTasks \ Coordinators(t), u \notin ReadOnly,
                 t \notin ReadOnly
          PROVE  u \notin SameScope[t]
      BY <1>3, <2>3 DEF Starts, CanStart
    <2>4. CASE x = t
      BY <2>1, <2>3, <2>4
    <2>5. CASE y = t
      BY <1>1, <2>1, <2>2, <2>3, <2>5
    <2>6. CASE x # t /\ y # t
      <3>1. x \in Leaves /\ y \in Leaves
        BY <2>1, <2>6 DEF Leaves, Coordinators
      <3>2. QED
        BY <3>1 DEF WriteScopeExclusive
    <2>7. QED
      BY <2>4, <2>5, <2>6
  <1>4. ASSUME NEW t \in Tasks, Ends(t) PROVE WriteScopeExclusive'
    <2>1. CASE Leaves' \subseteq Leaves
      BY <2>1 DEF WriteScopeExclusive
    <2>2. CASE /\ t \in Leaves /\ Parent[t] \in Tasks
               /\ Leaves' \subseteq (Leaves \ {t}) \cup {Parent[t]}
      <3>1. Leaves \subseteq Tasks
        BY DEF Leaves, RunningTasks
      <3>2. ASSUME NEW u \in Leaves \ {t}, u \notin ReadOnly, Parent[t] \notin ReadOnly
            PROVE  u \notin SameScope[Parent[t]]
        <4>1. t \notin ReadOnly /\ SameScope[Parent[t]] \subseteq SameScope[t]
          BY <2>2, <3>2 DEF ChildrenShareScope
        <4>2. u \notin SameScope[t]
          BY <2>2, <3>2, <4>1 DEF WriteScopeExclusive
        <4>3. QED
          BY <4>1, <4>2
      <3> SUFFICES ASSUME NEW x \in Leaves', NEW y \in Leaves', x \notin ReadOnly,
                          y \notin ReadOnly, x # y, y \in SameScope[x]
                   PROVE  FALSE
        BY DEF WriteScopeExclusive
      <3>3. x \in (Leaves \ {t}) \cup {Parent[t]} /\ y \in (Leaves \ {t}) \cup {Parent[t]}
        BY <2>2
      <3>4. CASE x = Parent[t]
        BY <3>2, <3>3, <3>4
      <3>5. CASE y = Parent[t]
        <4>1. x \in SameScope[y]
          BY <1>1, <2>2, <3>1, <3>3, <3>5
        <4>2. QED
          BY <3>2, <3>3, <3>5, <4>1
      <3>6. CASE x # Parent[t] /\ y # Parent[t]
        BY <3>3, <3>6 DEF WriteScopeExclusive
      <3>7. QED
        BY <3>4, <3>5, <3>6
    <2>3. QED
      BY <1>4, <2>1, <2>2, EndLeaves
  <1>5. QED
    BY <1>2, <1>3, <1>4, NextStatus
-----------------------------------------------------------------------------
(* Theorems.                                                               *)

\* The invariant holds in every reachable state.
THEOREM TaskInvariance == Spec => []IInv
  BY InitInv, NextInv, PTL DEF Spec

\* Every variable keeps its type, for every set of Tasks and Agents.
THEOREM TaskTypeCorrect == Spec => []TypeOK
  <1>1. IInv => TypeOK
    BY DEF IInv
  <1>2. QED
    BY <1>1, TaskInvariance, PTL

\* A Task has at most one active Run, the latest; it is running and they agree
\* on the assignee (closeCurrentRun, reassignCurrentRun, startWithReason).
THEOREM OwnershipTheorem == Spec => []ActiveRunOwned
  <1>1. IInv => ActiveRunOwned
    BY DEF IInv
  <1>2. QED
    BY <1>1, TaskInvariance, PTL

\* ExecuteRunEffect runs its effect under the owner from beginning to end.
THEOREM EffectTheorem == Spec => []EffectUnderOwner
  <1>1. IInv => EffectUnderOwner
    BY DEF IInv
  <1>2. QED
    BY <1>1, TaskInvariance, PTL

\* The loops of startup recovery, whichever Runs they leave alone, leave none
\* that somebody owns and no native delegation explains.
THEOREM RecoveryTheorem == Spec => []NoStaleRunServing
  <1>1. IInv => NoStaleRunServing
    BY DEF IInv
  <1>2. QED
    BY <1>1, TaskInvariance, PTL

\* StartRunFromCheckpoint continues a checkpointed Run at most once.
THEOREM CheckpointTheorem == Spec => []CheckpointContinuedOnce
  <1>1. IInv => CheckpointContinuedOnce
    BY DEF IInv
  <1>2. QED
    BY <1>1, TaskInvariance, PTL

\* No call changes a closed Run, drops one, or moves one to another owner.
THEOREM HistoryTheorem == Spec => HistoryKept
  <1> DEFINE Kept == \A r \in DOMAIN runs :
                        /\ r \in DOMAIN runs'
                        /\ runs[r].status # "running" => runs'[r] = runs[r]
                        /\ runs'[r] = [runs[r] EXCEPT !.status = runs'[r].status]
  <1>1. ASSUME IInv, [Next]_vars PROVE [Kept]_vars
    <2>1. ASSUME NEW t \in Tasks, RunsStep(t) PROVE Kept
      BY <1>1, <2>1, HistoryFacts DEF IInv
    <2>2. CASE runs' = runs
      <3>1. ASSUME NEW r \in DOMAIN runs
            PROVE  runs[r] = [runs[r] EXCEPT !.status = runs[r].status]
        <4>1. runs \in Seq(Run)
          BY <1>1 DEF IInv, TypeOK
        <4>2. runs[r] \in Run
          BY <4>1
        <4>3. QED
          BY <4>2 DEF Run
      <3>2. QED
        BY <2>2, <3>1
    <2>3. CASE process = "serving" /\ UNCHANGED toRecover /\ \E t \in Tasks : Serve(t)
      BY <1>1, <2>1, <2>3, ServeInv
    <2>4. CASE Startup
      <3>1. CASE OpenStore \/ StartupDone \/ StartupFatal
        BY <2>2, <3>1 DEF OpenStore, StartupDone, StartupFatal, Crash
      <3>2. CASE \E r \in toRecover : RecoverNext(r)
        BY <1>1, <2>1, <2>2, <3>2, RecoverNextInv
      <3>3. QED
        BY <2>4, <3>1, <3>2 DEF Startup
    <2>5. CASE Crash \/ (\E t \in EffectTasks : Effect(t)) \/ UNCHANGED vars
      BY <2>2, <2>5 DEF Crash, Effect, EffectAcquire, EffectAcquireUncertain, EffectAdmit,
                        EffectReturn, EffectRelease, vars
    <2>6. QED
      BY <1>1, <2>3, <2>4, <2>5 DEF Next
  <1>2. QED
    BY <1>1, TaskInvariance, PTL DEF Spec, HistoryKept

\* canStartInTransaction: in two levels, the running leaves stay within the
\* global limit, whatever Tasks start and end in between.
THEOREM AdmissionTheorem ==
    ASSUME TwoLevels
    PROVE  Spec => []LeavesWithinLimit
  <1>1. IInv /\ AdmissionInv /\ [Next]_vars => AdmissionInv'
    BY AdmissionStep
  <1>2. AdmissionInv => LeavesWithinLimit
    BY DEF AdmissionInv
  <1>3. QED
    BY <1>1, <1>2, InitAdmission, TaskInvariance, PTL DEF Spec

\* canStartInTransaction: where children share their parent's scope, no two
\* running leaves write in one scope, not even when a parent is a leaf again.
THEOREM ScopeTheorem ==
    ASSUME TwoLevels, ChildrenShareScope
    PROVE  Spec => []WriteScopeExclusive
  <1>1. Init => WriteScopeExclusive
    BY DEF Init, WriteScopeExclusive, Leaves, RunningTasks
  <1>2. IInv /\ WriteScopeExclusive /\ [Next]_vars => WriteScopeExclusive'
    BY ScopeStep
  <1>3. QED
    BY <1>1, <1>2, TaskInvariance, PTL DEF Spec
=============================================================================
