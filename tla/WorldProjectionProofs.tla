------------------------ MODULE WorldProjectionProofs ------------------------
(***************************************************************************)
(* What CORE marks as sent WORLD took over, no revision is used for two    *)
(* sets, and WORLD's sets only move forward, but for a reconcile that CORE *)
(* gave up, for every number of Tasks, epochs, revisions, commits, faults  *)
(* and restarts.                                                           *)
(*                                                                         *)
(* The argument.  The outbox is a chronicle: of two records the later one  *)
(* was read later and has the greater epoch, or the same epoch and the     *)
(* greater revision (Chronicle).  It stays one because a pass reads before *)
(* it allocates (Clock) and the epochs of the records, of the counter and  *)
(* of the process only grow (Epochal).  Requests under way and whatever    *)
(* WORLD holds are records of the outbox (Known), so an epoch and a        *)
(* revision tell WORLD's head apart, and an acknowledgement is about the   *)
(* record it answers (Told).  What the worker sends is of the counter's    *)
(* epoch, the greatest there is (Claimed), so that only a request given up *)
(* before a switch can take WORLD to an earlier one.                       *)
(***************************************************************************)
EXTENDS WorldProjection, SequenceTheorems, TLAPS

Envelopes == {rows[i].envelope : i \in DOMAIN rows}
InPass == pc \in {"reading", "built", "allocated"}

Before(d, e) ==
    /\ d.since <= e.since
    /\ d.epoch < e.epoch \/ (d.epoch = e.epoch /\ d.revision < e.revision)

Chronicle ==
    \A i, j \in DOMAIN rows : i < j => Before(rows[i].envelope, rows[j].envelope)

Clock ==
    /\ InPass => snapshot.since <= commits
    /\ \A i \in DOMAIN rows :
          /\ rows[i].envelope.since <= commits
          /\ InPass => rows[i].envelope.since <= snapshot.since

Epochal ==
    /\ Counted => counter.epoch <= config.epoch
    /\ \A i \in DOMAIN rows :
          /\ Counted
          /\ rows[i].envelope.epoch <= counter.epoch
          /\ rows[i].envelope.reconcile => rows[i].envelope.epoch > 1
    /\ pc = "allocated" =>
          /\ Counted
          /\ snapshot.revision > 0
          /\ snapshot.reconcile => config.epoch > 1
    /\ pc \in {"reading", "built"} => ~snapshot.reconcile

Known ==
    /\ late \cup accepted \subseteq Envelopes
    /\ head # None => head \in accepted

Told ==
    /\ pc \in {"publish", "sent", "verify", "answered"} => batch # <<>>
    /\ pc = "answered" /\ answer \in Accepting => Current \in accepted

IInv ==
    /\ TypeOK
    /\ Chronicle
    /\ Clock
    /\ Epochal
    /\ Known
    /\ Told
    /\ SentIsTrue

\* What is under way in the outbox belongs to the epoch of the counter: a switch
\* supersedes the rest, and never finds a batch in the hands of the worker.
InHand == \A k \in DOMAIN batch :
    ~rows[batch[k]].due /\ rows[batch[k]].envelope.epoch = counter.epoch

Claimed ==
    /\ \A i \in DOMAIN rows :
          /\ rows[i].due => rows[i].status \in Unfinished
          /\ rows[i].status \in Unfinished => rows[i].envelope.epoch = counter.epoch
    /\ InHand
    /\ InPass \/ pc \in {"idle", "drain"} => batch = <<>>

-----------------------------------------------------------------------------
LEMMA ListsRange ==
    /\ Len(Lists) = 4
    /\ DOMAIN Lists = 1 .. 4
    /\ Range(Lists) = {"queued", "running", "waiting", "blocked"}
    /\ \A n \in 1 .. 4 : Lists[n] \in Range(Lists)
<1>1. Len(Lists) = 4 /\ DOMAIN Lists = 1 .. 4
  BY DEF Lists
<1>2. \A n \in 1 .. 4 : Lists[n] \in Range(Lists)
  BY <1>1 DEF Range
<1>3. Range(Lists) = {"queued", "running", "waiting", "blocked"}
  <2>1. Lists[1] = "queued" /\ Lists[2] = "running" /\ Lists[3] = "waiting" /\ Lists[4] = "blocked"
    BY DEF Lists
  <2>. QED
    BY <1>1, <2>1 DEF Range
<1>. QED
  BY <1>1, <1>2, <1>3

LEMMA StatusesAre ==
    Statuses = {"queued", "running", "waiting", "blocked", "orphaned", "ended"}
BY ListsRange DEF Statuses

LEMMA OpenSetType == TypeOK => OpenSet \in Sets
<1>. SUFFICES ASSUME TypeOK, NEW t \in Tasks, tasks[t] # "ended"
              PROVE  Listed(tasks[t]) \in Range(Lists)
  BY DEF OpenSet, Sets
<1>. QED
  BY ListsRange, StatusesAre DEF TypeOK, Listed

\* The record that is being published is a row of the outbox.
LEMMA CurrentType ==
    ASSUME TypeOK, batch # <<>>
    PROVE  /\ Head(batch) \in DOMAIN rows
           /\ Current \in Envelope
           /\ Current \in Envelopes
           /\ Tail(batch) \in Seq(DOMAIN rows)
<1>1. batch \in Seq(DOMAIN rows) /\ rows \in Seq(Row)
  BY DEF TypeOK
<1>2. Head(batch) \in DOMAIN rows /\ Tail(batch) \in Seq(DOMAIN rows)
  BY <1>1, HeadTailProperties
<1>3. rows[Head(batch)] \in Row
  BY <1>1, <1>2
<1>. QED
  BY <1>2, <1>3 DEF Current, Envelopes, Row

\* A step that changes at most the status of the records keeps what is said of
\* their envelopes.
LEMMA SameEnvelopes ==
    ASSUME DOMAIN rows' = DOMAIN rows,
           \A i \in DOMAIN rows : rows'[i].envelope = rows[i].envelope
    PROVE  /\ Envelopes' = Envelopes
           /\ Chronicle => Chronicle'
BY DEF Envelopes, Chronicle

-----------------------------------------------------------------------------
(* Types.                                                                  *)

LEMMA TypeInit == Init => TypeOK
<1>. SUFFICES ASSUME Init
              PROVE  TypeOK
  OBVIOUS
<1>1. tasks \in [Tasks -> Statuses]
  BY StatusesAre DEF Init
<1>2. config \in [epoch : Epochs, reconcile : BOOLEAN]
  BY ProjectionAssumption DEF Init, Epochs
<1>3. snapshot \in [read : 0 .. Len(Lists), set : Sets, since : Nat, revision : Nat,
                    reconcile : BOOLEAN]
  <2>1. {} \in Sets
    BY DEF Sets
  <2>2. 0 \in 0 .. Len(Lists)
    BY ListsRange
  <2>. QED
    BY <2>1, <2>2 DEF Init, NoSnapshot
<1>4. rows \in Seq(Row) /\ batch \in Seq(DOMAIN rows)
  BY DEF Init
<1>. QED
  BY <1>1, <1>2, <1>3, <1>4, ProjectionAssumption DEF Init, TypeOK, Steps, Counted

LEMMA RowType ==
    ASSUME TypeOK, NEW i \in DOMAIN rows
    PROVE  rows[i] \in Row
<1>1. rows \in Seq(Row)
  BY DEF TypeOK
<1>. QED
  BY <1>1, ElementOfSeq, LenProperties

LEMMA RowMarked ==
    ASSUME NEW r \in Row, NEW s \in RowStatus, NEW d \in BOOLEAN
    PROVE  /\ [r EXCEPT !.status = s] \in Row
           /\ [r EXCEPT !.due = d] \in Row
           /\ [r EXCEPT !.status = s, !.due = d] \in Row
BY DEF Row

LEMMA MapsType ==
    ASSUME rows \in Seq(Row), NEW f, f = [i \in DOMAIN rows |-> f[i]],
           \A i \in DOMAIN rows : f[i] \in Row
    PROVE  f \in Seq(Row) /\ DOMAIN f = DOMAIN rows
<1>1. PICK n \in Nat : rows \in [1 .. n -> Row]
  BY SeqDef
<1>2. f \in [1 .. n -> Row]
  BY <1>1
<1>. QED
  BY <1>1, <1>2, SeqDef

LEMMA ExceptType ==
    ASSUME rows \in Seq(Row), NEW i \in DOMAIN rows, NEW r \in Row
    PROVE  [rows EXCEPT ![i] = r] \in Seq(Row) /\ DOMAIN [rows EXCEPT ![i] = r] = DOMAIN rows
<1>1. PICK n \in Nat : rows \in [1 .. n -> Row]
  BY SeqDef
<1>2. [rows EXCEPT ![i] = r] \in [1 .. n -> Row]
  BY <1>1
<1>. QED
  BY <1>1, <1>2, SeqDef

LEMMA VerdictType == \A e : Verdict(e) \in {"accepted", "duplicate", "epoch_unchanged"} \cup Rejecting
BY DEF Verdict, Rejecting

LEMMA SnapshotType ==
    /\ NoSnapshot \in [read : 0 .. Len(Lists), set : Sets, since : Nat, revision : Nat,
                       reconcile : BOOLEAN]
<1>1. {} \in Sets /\ 0 \in 0 .. Len(Lists)
  BY ListsRange DEF Sets
<1>. QED
  BY <1>1 DEF NoSnapshot

LEMMA TypeProcess ==
    ASSUME TypeOK, NEW e \in Envelope, Process(e) \/ UNCHANGED world
    PROVE  /\ head' # None => head' \in Envelope
           /\ retired' \subseteq Epochs
           /\ accepted' \subseteq Envelope
BY DEF TypeOK, Process, world, Envelope

LEMMA TypeEvent == TypeOK /\ Event => events' \in 0 .. MaxEvents
BY ProjectionAssumption DEF TypeOK, Event

LEMMA TypeStep == TypeOK /\ Epochal /\ Told /\ [Next]_vars => TypeOK'
<1>. SUFFICES ASSUME TypeOK, Epochal, Told, [Next]_vars
              PROVE  TypeOK'
  OBVIOUS
<1>1. CASE SyncBegin
  <2>1. snapshot' \in [read : 0 .. Len(Lists), set : Sets, since : Nat, revision : Nat,
                       reconcile : BOOLEAN]
    BY <1>1, SnapshotType DEF TypeOK, SyncBegin
  <2>. QED
    BY <1>1, <2>1 DEF TypeOK, SyncBegin, Steps, owner, outbox, world, Counted
<1>2. CASE ListTasks
  <2>1. snapshot.set \cup {x \in OpenSet : x[2] = Lists[snapshot.read + 1]} \in Sets
    BY OpenSetType DEF TypeOK, Sets
  <2>2. snapshot.read + 1 \in 0 .. Len(Lists)
    BY <1>2, ListsRange DEF TypeOK, ListTasks
  <2>3. snapshot' \in [read : 0 .. Len(Lists), set : Sets, since : Nat, revision : Nat,
                       reconcile : BOOLEAN]
    BY <1>2, <2>1, <2>2 DEF TypeOK, ListTasks
  <2>. QED
    BY <1>2, <2>3 DEF TypeOK, ListTasks, owner, outbox, world, Counted
<1>3. CASE ListRuns \/ Skip
  BY <1>3 DEF TypeOK, ListRuns, Skip, Steps, owner, outbox, world, Counted
<1>4. CASE AllocateChanged \/ Refresh
  <2>1. Allocate
    BY <1>4 DEF AllocateChanged, Refresh
  <2>2. events' \in 0 .. MaxEvents
    BY <1>4, TypeEvent DEF TypeOK, AllocateChanged, Refresh
  <2>3. Counted' => counter' \in [epoch : Epochs, revision : 1 .. MaxRevision]
    <3>1. CASE UNCHANGED counter
      BY <3>1 DEF TypeOK, Counted
    <3>2. CASE ~UNCHANGED counter
      <4>1. PICK n \in Nat \ {0} : n <= MaxRevision /\ counter' = [epoch |-> config.epoch, revision |-> n]
        BY <2>1, <3>2 DEF TypeOK, Allocate
      <4>2. n \in 1 .. MaxRevision
        BY <4>1, ProjectionAssumption
      <4>. QED
        BY <4>1, <4>2 DEF TypeOK
    <3>. QED
      BY <3>1, <3>2
  <2>4. snapshot' \in [read : 0 .. Len(Lists), set : Sets, since : Nat, revision : Nat,
                       reconcile : BOOLEAN]
    <3>1. CASE UNCHANGED snapshot
      BY <3>1 DEF TypeOK
    <3>2. CASE ~UNCHANGED snapshot
      <4>1. PICK n \in Nat, b \in BOOLEAN :
              snapshot' = [snapshot EXCEPT !.revision = n, !.reconcile = b]
        <5>1. CASE Switching
          BY <2>1, <5>1 DEF Allocate
        <5>2. CASE ~Switching
          <6>1. PICK n \in Nat : snapshot' = [snapshot EXCEPT !.revision = n]
            <7>1. Counted => counter.revision + 1 \in Nat
              BY DEF TypeOK
            <7>. QED
              BY <2>1, <3>2, <5>2, <7>1 DEF Allocate
          <6>2. snapshot' = [snapshot EXCEPT !.revision = n, !.reconcile = snapshot.reconcile]
            BY <6>1 DEF TypeOK
          <6>. QED
            BY <6>2 DEF TypeOK
        <5>. QED
          BY <5>1, <5>2
      <4>. QED
        BY <4>1 DEF TypeOK
    <3>. QED
      BY <3>1, <3>2
  <2>. QED
    BY <2>1, <2>2, <2>3, <2>4 DEF TypeOK, Allocate, Steps, owner, world
<1>5. CASE Enqueue
  <2>1. CASE ~Fresh(Candidate)
    BY <1>5, <2>1 DEF TypeOK, Enqueue, Steps, owner, outbox, world, Counted
  <2>2. CASE Fresh(Candidate)
    <3>. DEFINE row == [envelope |-> Candidate, status |-> "pending", due |-> TRUE]
                kept == IF Switching THEN [i \in DOMAIN rows |-> Superseded(rows[i])] ELSE rows
    <3>1. row \in Row
      <4>1. Candidate \in Envelope
        BY <1>5 DEF TypeOK, Epochal, Enqueue, Candidate, Envelope
      <4>. QED
        BY <4>1 DEF Row, RowStatus, Unfinished
    <3>2. kept \in Seq(Row)
      <4>1. \A i \in DOMAIN rows : Superseded(rows[i]) \in Row
        BY RowType, RowMarked DEF Superseded, RowStatus
      <4>2. [i \in DOMAIN rows |-> Superseded(rows[i])] \in Seq(Row)
        BY <4>1, MapsType DEF TypeOK
      <4>. QED
        BY <4>2 DEF TypeOK
    <3>3. rows' = Append(kept, row) /\ DOMAIN kept = DOMAIN rows
      BY <1>5, <2>2 DEF Enqueue
    <3>4. rows' \in Seq(Row)
      BY <3>1, <3>2, <3>3, AppendProperties
    <3>5. batch' \in Seq(DOMAIN rows')
      <4>1. Len(rows') = Len(kept) + 1 /\ Len(kept) \in Nat /\ DOMAIN rows' = 1 .. Len(rows')
            /\ DOMAIN kept = 1 .. Len(kept)
        BY <3>1, <3>2, <3>3, <3>4, AppendProperties, LenProperties
      <4>2. DOMAIN rows \subseteq DOMAIN rows'
        BY <3>3, <4>1
      <4>3. batch' = batch /\ batch \in Seq(DOMAIN rows)
        BY <1>5 DEF Enqueue, TypeOK
      <4>. QED
        BY <4>2, <4>3, SeqDef
    <3>6. Counted' => counter' \in [epoch : Epochs, revision : 1 .. MaxRevision]
      <4>1. 1 \in 1 .. MaxRevision
        BY ProjectionAssumption
      <4>. QED
        BY <4>1, <1>5, <2>2 DEF TypeOK, Enqueue, Counted
    <3>. QED
      BY <1>5, <3>4, <3>5, <3>6 DEF TypeOK, Enqueue, Steps, owner, world
  <2>. QED
    BY <2>1, <2>2
<1>6. CASE \E i \in DOMAIN rows : Elapse(i)
  <2>1. rows' \in Seq(Row) /\ DOMAIN rows' = DOMAIN rows
    <3>1. PICK i \in DOMAIN rows : rows' = [rows EXCEPT ![i].due = TRUE]
      BY <1>6 DEF Elapse
    <3>2. [rows[i] EXCEPT !.due = TRUE] \in Row
      BY <3>1, RowType DEF Row
    <3>. QED
      BY <3>1, <3>2, ExceptType DEF TypeOK
  <2>. QED
    BY <1>6, <2>1 DEF TypeOK, Elapse, owner, world, Counted
<1>7. CASE Claim
  <2>1. rows' \in Seq(Row) /\ DOMAIN rows' = DOMAIN rows
    <3>1. \A i \in DOMAIN rows :
            (IF i \in Range(batch') THEN [rows[i] EXCEPT !.status = "in_flight", !.due = FALSE]
                                    ELSE rows[i]) \in Row
      BY RowType, RowMarked DEF RowStatus, Unfinished
    <3>. QED
      BY <1>7, <3>1, MapsType DEF TypeOK, Claim
  <2>2. batch' \in Seq(DOMAIN rows)
    <3>1. PICK n \in 0 .. Limit : batch' \in [1 .. n -> Due]
      BY <1>7 DEF Claim, Batches
    <3>2. n \in Nat /\ batch' \in [1 .. n -> DOMAIN rows]
      BY <3>1, ProjectionAssumption DEF Due
    <3>. QED
      BY <3>2, SeqDef
  <2>3. snapshot' \in [read : 0 .. Len(Lists), set : Sets, since : Nat, revision : Nat,
                       reconcile : BOOLEAN]
    BY <1>7, SnapshotType DEF Claim
  <2>. QED
    BY <1>7, <2>1, <2>2, <2>3 DEF TypeOK, Claim, Steps, owner, world, Counted
<1>8. CASE Publish \/ Answer \/ Timeout \/ Refuse \/ Verify
  <2>1. batch # <<>>
    BY <1>8 DEF Told, Publish, Answer, Timeout, Refuse, Verify
  <2>2. Current \in Envelope
    BY <2>1, CurrentType
  <2>3. answer' \in Accepting \cup Rejecting \cup {"none", "retry", "refused"} /\ pc' \in Steps
    BY <1>8, VerdictType
    DEF TypeOK, Publish, Answer, Timeout, Refuse, Verify, Steps, Accepting
  <2>4. late' \subseteq Envelope
    BY <1>8, <2>2 DEF TypeOK, Publish, Answer, Timeout, Refuse, Verify
  <2>5. events' \in 0 .. MaxEvents
    BY <1>8, TypeEvent DEF TypeOK, Publish, Answer, Timeout, Refuse, Verify
  <2>6. Process(Current) \/ UNCHANGED world
    BY <1>8 DEF Publish, Answer, Timeout, Refuse, Verify
  <2>7. /\ head' # None => head' \in Envelope
        /\ retired' \subseteq Epochs
        /\ accepted' \subseteq Envelope
    BY <2>2, <2>6, TypeProcess
  <2>8. UNCHANGED <<owner, config, snapshot, outbox, batch>>
    BY <1>8 DEF Publish, Answer, Timeout, Refuse, Verify
  <2>. QED
    BY <2>3, <2>4, <2>5, <2>7, <2>8 DEF TypeOK, owner, outbox, Counted
<1>9. CASE \E e \in late : ProcessLate(e)
  <2>1. PICK e \in late : ProcessLate(e)
    BY <1>9
  <2>2. e \in Envelope /\ (Process(e) \/ UNCHANGED world)
    BY <2>1 DEF TypeOK, ProcessLate
  <2>3. /\ head' # None => head' \in Envelope
        /\ retired' \subseteq Epochs
        /\ accepted' \subseteq Envelope
    BY <2>2, TypeProcess
  <2>. QED
    BY <2>1, <2>3 DEF TypeOK, ProcessLate, owner, outbox, Counted
<1>10. CASE Settle
  <2>1. batch # <<>>
    BY <1>10 DEF Told, Settle
  <2>2. rows' \in Seq(Row) /\ DOMAIN rows' = DOMAIN rows
    <3>1. Head(batch) \in DOMAIN rows
      BY <2>1, CurrentType
    <3>2. \A s \in RowStatus : [rows[Head(batch)] EXCEPT !.status = s] \in Row
      BY <3>1, RowType, RowMarked, Zenon
    <3>3. Outcome \in RowStatus
      BY DEF Outcome, RowStatus, Unfinished
    <3>4. rows[Head(batch)].status \in RowStatus
      BY <3>1, RowType DEF Row
    <3>5. (IF rows[Head(batch)].status \in Unfinished THEN Outcome
                                                      ELSE rows[Head(batch)].status) \in RowStatus
      BY <3>3, <3>4
    <3>. QED
      BY <1>10, <3>1, <3>2, <3>5, ExceptType DEF TypeOK, Settle
  <2>3. batch' \in Seq(DOMAIN rows)
    BY <1>10, <2>1, CurrentType DEF Settle
  <2>. QED
    BY <1>10, <2>2, <2>3 DEF TypeOK, Settle, Steps, owner, world, Counted
<1>11. CASE StoreFails \/ Restart
  <2>1. batch' \in Seq(DOMAIN rows)
    <3>1. <<>> \in Seq(DOMAIN rows)
      OBVIOUS
    <3>2. batch' = batch \/ batch' = <<>>
      BY <1>11 DEF StoreFails, Restart
    <3>. QED
      BY <3>1, <3>2 DEF TypeOK
  <2>2. late' \subseteq Envelope
    <3>1. pc = "sent" => Current \in Envelope
      BY CurrentType DEF Told
    <3>. QED
      BY <1>11, <3>1 DEF TypeOK, StoreFails, Restart
  <2>3. config' \in [epoch : Epochs, reconcile : BOOLEAN]
    BY <1>11, ProjectionAssumption DEF TypeOK, StoreFails, Restart, Epochs
  <2>4. events' \in 0 .. MaxEvents
    BY <1>11, TypeEvent DEF StoreFails, Restart
  <2>5. snapshot' \in [read : 0 .. Len(Lists), set : Sets, since : Nat, revision : Nat,
                       reconcile : BOOLEAN]
    BY <1>11, SnapshotType DEF StoreFails, Restart
  <2>6. answer' = "none" /\ pc' \in Steps /\ UNCHANGED <<owner, outbox, world>>
    BY <1>11 DEF StoreFails, Restart, Steps
  <2>. QED
    BY <2>1, <2>2, <2>3, <2>4, <2>5, <2>6 DEF TypeOK, owner, outbox, world, Counted
<1>12. CASE \E t \in Tasks : Commit(t)
  <2>1. PICK t \in Tasks : Commit(t)
    BY <1>12
  <2>4. PICK s \in Moves(tasks[t]) : tasks' = [tasks EXCEPT ![t] = s]
    BY <2>1 DEF Commit
  <2>2. s \in Statuses
    BY <2>4, StatusesAre DEF TypeOK, Moves
  <2>3. tasks' \in [Tasks -> Statuses] /\ commits' \in Nat
    BY <2>1, <2>2, <2>4 DEF TypeOK, Commit
  <2>. QED
    BY <2>1, <2>3, TypeEvent DEF TypeOK, Commit, outbox, world, Counted
<1>13. CASE UNCHANGED vars
  BY <1>13 DEF TypeOK, vars, owner, outbox, world, Counted
<1>. QED
  BY <1>1, <1>2, <1>3, <1>4, <1>5, <1>6, <1>7, <1>8, <1>9, <1>10, <1>11, <1>12, <1>13
  DEF Next, Sync, Drain

-----------------------------------------------------------------------------
(* The outbox.                                                             *)

LEMMA EnvelopeType ==
    ASSUME TypeOK, NEW i \in DOMAIN rows
    PROVE  /\ rows[i].envelope \in Envelope
           /\ rows[i].envelope.since \in Nat
           /\ rows[i].envelope.epoch \in Nat
           /\ rows[i].envelope.revision \in Nat
<1>1. rows[i].envelope \in Envelope
  BY RowType DEF Row
<1>2. rows[i].envelope.since \in Nat /\ rows[i].envelope.revision \in Nat
      /\ rows[i].envelope.epoch \in Epochs
  BY <1>1 DEF Envelope
<1>. QED
  BY <1>1, <1>2, ProjectionAssumption DEF Epochs

LEMMA NumberTypes ==
    TypeOK => /\ commits \in Nat
              /\ snapshot.since \in Nat
              /\ snapshot.revision \in Nat
              /\ config.epoch \in Nat
              /\ Counted => counter.epoch \in Nat
<1>. SUFFICES ASSUME TypeOK
              PROVE  /\ commits \in Nat
                     /\ snapshot.since \in Nat
                     /\ snapshot.revision \in Nat
                     /\ config.epoch \in Epochs
                     /\ Counted => counter.epoch \in Epochs
  BY ProjectionAssumption DEF Epochs
<1>. QED
  BY DEF TypeOK

\* Only Enqueue writes an envelope.
LEMMA LogKept ==
    ASSUME TypeOK, Told, [Next]_vars, ~Enqueue
    PROVE  /\ DOMAIN rows' = DOMAIN rows
           /\ \A i \in DOMAIN rows : rows'[i].envelope = rows[i].envelope
<1>1. CASE UNCHANGED rows
  BY <1>1
<1>2. CASE \E i \in DOMAIN rows : Elapse(i)
  <2>1. PICK k \in DOMAIN rows : rows' = [rows EXCEPT ![k].due = TRUE]
    BY <1>2 DEF Elapse
  <2>2. [rows[k] EXCEPT !.due = TRUE].envelope = rows[k].envelope
    BY RowType DEF Row
  <2>. QED
    BY <2>1, <2>2
<1>3. CASE Claim
  <2>1. \A i \in DOMAIN rows :
          [rows[i] EXCEPT !.status = "in_flight", !.due = FALSE].envelope = rows[i].envelope
    BY RowType DEF Row
  <2>. QED
    BY <1>3, <2>1 DEF Claim
<1>4. CASE Settle
  <2>1. Head(batch) \in DOMAIN rows
    BY <1>4, CurrentType DEF Settle, Told
  <2>2. \A s : [rows[Head(batch)] EXCEPT !.status = s].envelope = rows[Head(batch)].envelope
    BY <2>1, RowType DEF Row
  <2>. QED
    BY <1>4, <2>1, <2>2 DEF Settle
<1>5. UNCHANGED rows \/ (\E i \in DOMAIN rows : Elapse(i)) \/ Claim \/ Settle
  BY DEF Next, vars, Sync, Drain, SyncBegin, ListTasks, ListRuns, Skip, AllocateChanged, Refresh,
         Allocate, Publish, Answer, Timeout, Refuse, ProcessLate, Verify, StoreFails, Restart,
         Commit, outbox
<1>. QED
  BY <1>1, <1>2, <1>3, <1>4, <1>5

\* What Enqueue writes comes after everything that is there.
LEMMA CandidateIsNext ==
    ASSUME IInv, Enqueue, Fresh(Candidate), NEW i \in DOMAIN rows
    PROVE  Before(rows[i].envelope, Candidate)
<1>1. rows[i].envelope.since <= Candidate.since
  BY DEF IInv, Clock, InPass, Enqueue, Candidate
<1>2. CASE Switching
  <2>1. counter.epoch # config.epoch /\ Counted
    BY <1>2 DEF Switching
  <2>2. counter.epoch <= config.epoch /\ rows[i].envelope.epoch <= counter.epoch
    BY <2>1 DEF IInv, Epochal
  <2>3. rows[i].envelope.epoch < config.epoch
    BY <2>1, <2>2, EnvelopeType, NumberTypes DEF IInv
  <2>. QED
    BY <1>1, <2>3 DEF Before, Candidate
<1>3. CASE ~Switching
  <2>1. rows \in Seq(Row) /\ Len(rows) \in Nat /\ DOMAIN rows = 1 .. Len(rows)
    BY LenProperties DEF IInv, TypeOK
  <2>2. Len(rows) \in DOMAIN rows /\ i <= Len(rows) /\ Newest = rows[Len(rows)]
    BY <2>1 DEF Newest, Last
  <2>3. snapshot.revision > Newest.envelope.revision
    BY <1>3, <2>1 DEF Fresh, Candidate
  <2>4. rows[i].envelope.epoch <= config.epoch /\ Newest.envelope.epoch <= config.epoch
    <3>1. \A k \in DOMAIN rows : rows[k].envelope.epoch <= counter.epoch /\ counter.epoch <= config.epoch
                                 /\ Counted
      BY DEF IInv, Epochal
    <3>. QED
      BY <2>2, <3>1, EnvelopeType, NumberTypes DEF IInv
  <2>5. CASE i = Len(rows)
    BY <1>1, <2>2, <2>3, <2>4, <2>5, EnvelopeType, NumberTypes DEF IInv, Before, Candidate
  <2>6. CASE i # Len(rows)
    <3>1. Before(rows[i].envelope, Newest.envelope)
      BY <2>1, <2>2, <2>6 DEF IInv, Chronicle
    <3>2. /\ rows[i].envelope.epoch \in Nat /\ rows[i].envelope.revision \in Nat
          /\ Newest.envelope.epoch \in Nat /\ Newest.envelope.revision \in Nat
          /\ config.epoch \in Nat /\ snapshot.revision \in Nat
      BY <2>2, EnvelopeType, NumberTypes DEF IInv
    <3>. QED
      BY <1>1, <2>3, <2>4, <3>1, <3>2 DEF Before, Candidate
  <2>. QED
    BY <2>5, <2>6
<1>. QED
  BY <1>2, <1>3

LEMMA EnqueueAppends ==
    ASSUME IInv, Enqueue, Fresh(Candidate)
    PROVE  /\ Len(rows) \in Nat
           /\ DOMAIN rows = 1 .. Len(rows)
           /\ DOMAIN rows' = 1 .. (Len(rows) + 1)
           /\ rows'[Len(rows) + 1].envelope = Candidate
           /\ rows'[Len(rows) + 1].status = "pending"
           /\ \A i \in DOMAIN rows :
                 /\ rows'[i].envelope = rows[i].envelope
                 /\ rows'[i].status = "sent" => rows[i].status = "sent"
<1>. DEFINE row == [envelope |-> Candidate, status |-> "pending", due |-> TRUE]
            kept == IF Switching THEN [i \in DOMAIN rows |-> Superseded(rows[i])] ELSE rows
<1>1. rows' = Append(kept, row)
  BY DEF Enqueue
<1>2. rows \in Seq(Row) /\ Len(rows) \in Nat /\ DOMAIN rows = 1 .. Len(rows)
  BY LenProperties DEF IInv, TypeOK
<1>3. \A i \in DOMAIN rows :
        /\ Superseded(rows[i]) \in Row
        /\ Superseded(rows[i]).envelope = rows[i].envelope
        /\ Superseded(rows[i]).status = "sent" => rows[i].status = "sent"
  <2>. SUFFICES ASSUME NEW i \in DOMAIN rows
                PROVE  /\ Superseded(rows[i]) \in Row
                       /\ Superseded(rows[i]).envelope = rows[i].envelope
                       /\ Superseded(rows[i]).status = "sent" => rows[i].status = "sent"
    OBVIOUS
  <2>1. rows[i] \in Row
    BY RowType DEF IInv
  <2>2. CASE Superseded(rows[i]) = rows[i]
    BY <2>1, <2>2
  <2>3. CASE Superseded(rows[i]) # rows[i]
    <3>1. Superseded(rows[i]) = [rows[i] EXCEPT !.status = "superseded", !.due = FALSE]
      BY <2>3 DEF Superseded
    <3>2. [rows[i] EXCEPT !.status = "superseded", !.due = FALSE] \in Row
      BY <2>1, RowMarked DEF RowStatus
    <3>. QED
      BY <2>1, <3>1, <3>2 DEF Row
  <2>. QED
    BY <2>2, <2>3
<1>4. [i \in DOMAIN rows |-> Superseded(rows[i])] \in Seq(Row)
  BY <1>2, <1>3, MapsType
<1>5. kept \in Seq(Row) /\ DOMAIN kept = 1 .. Len(rows)
  BY <1>2, <1>4
<1>6. Len(kept) = Len(rows)
  BY <1>2, <1>5, LenProperties
<1>7. \A i \in DOMAIN rows :
        /\ kept[i].envelope = rows[i].envelope
        /\ kept[i].status = "sent" => rows[i].status = "sent"
  BY <1>3
<1>. HIDE DEF kept
<1>8. kept \in Seq(Row) => /\ Len(Append(kept, row)) = Len(kept) + 1
                           /\ DOMAIN Append(kept, row) = 1 .. (Len(kept) + 1)
                           /\ Append(kept, row)[Len(kept) + 1] = row
                           /\ \A i \in 1 .. Len(kept) : Append(kept, row)[i] = kept[i]
  OBVIOUS
<1>. QED
  BY <1>1, <1>2, <1>5, <1>6, <1>7, <1>8

-----------------------------------------------------------------------------
(* The invariant.                                                          *)

\* An epoch and a revision name one record.
LEMMA RecordNamed ==
    ASSUME TypeOK, Chronicle,
           NEW d \in Envelopes, NEW e \in Envelopes,
           d.epoch = e.epoch, d.revision = e.revision
    PROVE  d = e
<1>1. PICK i \in DOMAIN rows : d = rows[i].envelope
  BY DEF Envelopes
<1>2. PICK j \in DOMAIN rows : e = rows[j].envelope
  BY DEF Envelopes
<1>3. d.epoch \in Nat /\ d.revision \in Nat
  BY <1>1, EnvelopeType
<1>4. ~(i < j) /\ ~(j < i)
  BY <1>1, <1>2, <1>3 DEF Chronicle, Before
<1>5. i \in Nat /\ j \in Nat
  BY LenProperties DEF TypeOK
<1>6. i = j
  BY <1>4, <1>5
<1>. QED
  BY <1>1, <1>2, <1>6

\* A record WORLD calls a duplicate is the one it holds.
LEMMA DuplicateIsHead ==
    ASSUME TypeOK, Chronicle, Known, NEW e \in Envelopes,
           SameHead(e), e.revision = head.revision
    PROVE  e = head
<1>1. head \in Envelopes /\ e.epoch = head.epoch
  BY DEF Known, SameHead
<1>. QED
  BY <1>1, RecordNamed

LEMMA InitInv == Init => IInv
<1>. SUFFICES ASSUME Init
              PROVE  IInv
  OBVIOUS
<1>1. TypeOK
  BY TypeInit
<1>2. rows = <<>> /\ DOMAIN rows = {}
  BY DEF Init
<1>3. Chronicle /\ Clock /\ SentIsTrue
  BY <1>2 DEF Init, Chronicle, Clock, SentIsTrue, InPass
<1>4. Epochal /\ Known /\ Told
  BY <1>2 DEF Init, Epochal, Known, Told, Counted
<1>. QED
  BY <1>1, <1>3, <1>4 DEF IInv

LEMMA ChronicleStep == IInv /\ [Next]_vars => Chronicle'
<1>. SUFFICES ASSUME IInv, [Next]_vars
              PROVE  Chronicle'
  OBVIOUS
<1>1. CASE ~Enqueue
  BY <1>1, LogKept, SameEnvelopes DEF IInv
<1>2. CASE Enqueue /\ ~Fresh(Candidate)
  BY <1>2, SameEnvelopes DEF IInv, Enqueue, outbox
<1>3. CASE Enqueue /\ Fresh(Candidate)
  <2>. DEFINE n == Len(rows)
  <2>1. n \in Nat /\ DOMAIN rows = 1 .. n /\ DOMAIN rows' = 1 .. (n + 1)
        /\ rows'[n + 1].envelope = Candidate
        /\ \A i \in DOMAIN rows : rows'[i].envelope = rows[i].envelope
    BY <1>3, EnqueueAppends
  <2>2. \A i \in DOMAIN rows : Before(rows[i].envelope, Candidate)
    BY <1>3, CandidateIsNext
  <2>. SUFFICES ASSUME NEW i \in DOMAIN rows', NEW j \in DOMAIN rows', i < j
                PROVE  Before(rows'[i].envelope, rows'[j].envelope)
    BY DEF Chronicle, Before
  <2>. HIDE DEF n
  <2>3. i \in DOMAIN rows
    BY <2>1
  <2>4. CASE j = n + 1
    BY <2>1, <2>2, <2>3, <2>4
  <2>5. CASE j # n + 1
    <3>1. j \in DOMAIN rows
      BY <2>1, <2>5
    <3>. QED
      BY <2>1, <2>3, <3>1 DEF IInv, Chronicle
  <2>. QED
    BY <2>4, <2>5
<1>. QED
  BY <1>1, <1>2, <1>3

LEMMA ClockStep == IInv /\ [Next]_vars => Clock'
<1>. SUFFICES ASSUME IInv, [Next]_vars
              PROVE  Clock'
  OBVIOUS
<1>1. commits \in Nat /\ snapshot.since \in Nat /\ \A i \in DOMAIN rows : rows[i].envelope.since \in Nat
  BY NumberTypes, EnvelopeType DEF IInv
<1>2. CASE Enqueue /\ Fresh(Candidate)
  <2>1. snapshot.since <= commits /\ Candidate.since = snapshot.since
    BY <1>2 DEF IInv, Clock, InPass, Enqueue, Candidate
  <2>2. commits' = commits /\ pc' = "drain"
    BY <1>2 DEF Enqueue, owner
  <2>3. \A i \in DOMAIN rows' : rows'[i].envelope.since <= commits
    BY <1>2, <2>1, EnqueueAppends DEF IInv, Clock
  <2>. QED
    BY <2>2, <2>3 DEF Clock, InPass
<1>3. CASE Enqueue /\ ~Fresh(Candidate)
  BY <1>3 DEF IInv, Clock, InPass, Enqueue, owner, outbox
<1>4. CASE ~Enqueue
  <2>1. DOMAIN rows' = DOMAIN rows /\ \A i \in DOMAIN rows : rows'[i].envelope = rows[i].envelope
    BY <1>4, LogKept DEF IInv
  <2>2. CASE SyncBegin
    <3>1. snapshot'.since = commits /\ commits' = commits
      BY <2>2, SnapshotType DEF SyncBegin, owner, NoSnapshot
    <3>. QED
      BY <1>1, <2>1, <3>1 DEF IInv, Clock, InPass
  <2>3. CASE \E t \in Tasks : Commit(t)
    <3>1. commits' = commits + 1 /\ UNCHANGED <<pc, snapshot>>
      BY <2>3 DEF Commit
    <3>. QED
      BY <1>1, <2>1, <3>1 DEF IInv, Clock, InPass
  <2>4. CASE commits' = commits /\ (InPass' => InPass /\ snapshot'.since = snapshot.since)
    BY <2>1, <2>4 DEF IInv, Clock
  <2>5. CASE ListTasks \/ ListRuns \/ Skip \/ AllocateChanged \/ Refresh
    <3>1. commits' = commits /\ InPass
      BY <2>5 DEF ListTasks, ListRuns, Skip, AllocateChanged, Refresh, Allocate, owner, InPass
    <3>2. snapshot'.since = snapshot.since
      <4>1. CASE UNCHANGED snapshot
        BY <4>1
      <4>2. CASE ListTasks
        BY <4>2 DEF ListTasks, IInv, TypeOK
      <4>3. CASE Allocate
        BY <4>3 DEF Allocate, IInv, TypeOK
      <4>. QED
        BY <2>5, <4>1, <4>2, <4>3 DEF ListRuns, Skip, AllocateChanged, Refresh
    <3>. QED
      BY <2>4, <3>1, <3>2
  <2>6. SyncBegin \/ (\E t \in Tasks : Commit(t)) \/ ListTasks \/ ListRuns \/ Skip
        \/ AllocateChanged \/ Refresh
        \/ (commits' = commits /\ (InPass' => InPass /\ snapshot'.since = snapshot.since))
    BY <1>4 DEF Next, vars, Sync, Drain, InPass, owner, Claim, Publish, Answer, Timeout, Refuse,
                ProcessLate, Verify, Settle, StoreFails, Restart, Elapse
  <2>. QED
    BY <2>2, <2>3, <2>4, <2>5, <2>6
<1>. QED
  BY <1>2, <1>3, <1>4

LEMMA EpochalStep == IInv /\ [Next]_vars => Epochal'
<1>. SUFFICES ASSUME IInv, [Next]_vars
              PROVE  Epochal'
  OBVIOUS
<1>1. config.epoch \in Nat /\ (Counted => counter.epoch \in Nat)
  BY NumberTypes DEF IInv
<1>2. config.epoch >= 1 /\ (Counted => counter.epoch >= 1)
  BY ProjectionAssumption DEF IInv, TypeOK, Epochs
<1>3. CASE Enqueue /\ Fresh(Candidate)
  <2>1. /\ Counted
        /\ counter' = IF Switching THEN [epoch |-> config.epoch, revision |-> 1] ELSE counter
        /\ config' = config /\ pc' = "drain"
    BY <1>3 DEF IInv, Epochal, Enqueue
  <2>2. counter' \in [epoch : Nat, revision : Nat] /\ counter'.epoch = config.epoch
    <3>1. CASE Switching
      BY <1>1, <2>1, <3>1
    <3>2. CASE ~Switching
      <4>1. counter'.epoch = config.epoch
        BY <2>1, <3>2 DEF Switching
      <4>2. counter \in [epoch : Epochs, revision : 1 .. MaxRevision]
        BY <2>1 DEF IInv, TypeOK
      <4>. QED
        BY <2>1, <3>2, <4>1, <4>2, ProjectionAssumption DEF Epochs
    <3>. QED
      BY <3>1, <3>2
  <2>3. Counted'
    BY <2>2, ProjectionAssumption DEF Counted
  <2>4. \A i \in DOMAIN rows : rows[i].envelope.epoch <= config.epoch
                                /\ (rows[i].envelope.reconcile => rows[i].envelope.epoch > 1)
    BY <1>1, <2>1, EnvelopeType DEF IInv, Epochal
  <2>5. Candidate.epoch = config.epoch /\ (Candidate.reconcile => Candidate.epoch > 1)
    BY <1>3 DEF IInv, Epochal, Enqueue, Candidate
  <2>6. \A i \in DOMAIN rows' : rows'[i].envelope.epoch <= config.epoch
                                 /\ (rows'[i].envelope.reconcile => rows'[i].envelope.epoch > 1)
    BY <1>1, <1>3, <2>4, <2>5, EnqueueAppends
  <2>. QED
    BY <1>1, <2>1, <2>2, <2>3, <2>6 DEF Epochal
<1>4. CASE Enqueue /\ ~Fresh(Candidate)
  BY <1>4 DEF IInv, Epochal, Enqueue, outbox, Counted
<1>5. CASE ~Enqueue
  <2>1. DOMAIN rows' = DOMAIN rows /\ \A i \in DOMAIN rows : rows'[i].envelope = rows[i].envelope
    BY <1>5, LogKept DEF IInv
  <2>2. CASE AllocateChanged \/ Refresh
    <3>1. Allocate
      BY <2>2 DEF AllocateChanged, Refresh
    <3>2. CASE Switching
      <4>1. /\ UNCHANGED <<counter, config>>
            /\ snapshot'.revision = 1 /\ Counted /\ pc' = "allocated"
        BY <3>1, <3>2 DEF Allocate, IInv, TypeOK, Switching
      <4>2. counter.epoch <= config.epoch /\ counter.epoch # config.epoch
        BY <3>2 DEF IInv, Epochal, Switching
      <4>3. config.epoch > 1
        BY <1>1, <1>2, <4>1, <4>2
      <4>. QED
        BY <2>1, <4>1, <4>3 DEF IInv, Epochal, Counted
    <3>3. CASE ~Switching /\ UNCHANGED counter /\ pc' = "drain"
      BY <2>1, <3>1, <3>3 DEF Allocate, IInv, Epochal, Counted
    <3>4. CASE ~Switching /\ ~(UNCHANGED counter /\ pc' = "drain")
      <4>1. PICK n \in Nat : /\ n > 0
                             /\ counter' = [epoch |-> config.epoch, revision |-> n]
                             /\ snapshot' = [snapshot EXCEPT !.revision = n]
                             /\ UNCHANGED config
        <5>1. Counted => counter.revision + 1 \in Nat /\ counter.revision + 1 > 0
          BY DEF IInv, TypeOK
        <5>. QED
          BY <3>1, <3>4, <5>1 DEF Allocate
      <4>2. Counted'
        BY <1>1, <4>1, ProjectionAssumption DEF Counted
      <4>3. snapshot'.revision = n /\ snapshot'.reconcile = snapshot.reconcile
        BY <4>1 DEF IInv, TypeOK
      <4>4. ~snapshot.reconcile
        BY <2>2 DEF IInv, Epochal, AllocateChanged, Refresh
      <4>5. Counted => counter.epoch = config.epoch
        BY <3>4 DEF Switching
      <4>. QED
        <5>1. pc' \notin {"reading", "built"}
          BY <3>1, <3>4 DEF Allocate
        <5>2. counter'.epoch = config.epoch /\ config'.epoch = config.epoch
          BY <4>1
        <5>3. \A i \in DOMAIN rows : rows[i].envelope.epoch <= config.epoch
          BY <4>5 DEF IInv, Epochal
        <5>. QED
          BY <1>1, <2>1, <4>1, <4>2, <4>3, <4>4, <5>1, <5>2, <5>3 DEF IInv, Epochal
    <3>. QED
      BY <3>2, <3>3, <3>4
  <2>3. CASE Restart
    <3>1. config'.epoch \in Nat /\ config.epoch <= config'.epoch
      BY <1>1, <2>3, ProjectionAssumption DEF Restart
    <3>2. UNCHANGED counter /\ pc' = "idle"
      BY <2>3 DEF Restart, outbox
    <3>. QED
      BY <1>1, <2>1, <3>1, <3>2 DEF IInv, Epochal, Counted
  <2>4. CASE ListTasks
    BY <2>1, <2>4 DEF ListTasks, IInv, TypeOK, Epochal, Counted, outbox
  <2>5. CASE SyncBegin
    <3>1. ~snapshot'.reconcile /\ pc' = "reading" /\ UNCHANGED <<counter, config>>
      BY <2>5, SnapshotType DEF SyncBegin, NoSnapshot, outbox
    <3>. QED
      BY <2>1, <3>1 DEF IInv, Epochal, Counted
  <2>6. CASE ListRuns
    BY <2>1, <2>6 DEF ListRuns, IInv, Epochal, Counted, outbox
  <2>7. CASE /\ UNCHANGED <<counter, config>>
             /\ pc' \in {"reading", "built", "allocated"} => UNCHANGED <<pc, snapshot>>
    BY <2>1, <2>7 DEF IInv, Epochal, Counted
  <2>8. \/ AllocateChanged \/ Refresh \/ Restart \/ ListTasks \/ SyncBegin \/ ListRuns
        \/ /\ UNCHANGED <<counter, config>>
           /\ pc' \in {"reading", "built", "allocated"} => UNCHANGED <<pc, snapshot>>
    BY <1>5 DEF Next, vars, Sync, Drain, outbox, Skip, Claim, Publish, Answer, Timeout, Refuse,
                ProcessLate, Verify, Settle, StoreFails, Elapse, Commit
  <2>. QED
    BY <2>2, <2>3, <2>4, <2>5, <2>6, <2>7, <2>8
<1>. QED
  BY <1>3, <1>4, <1>5

LEMMA EnvelopesGrow == IInv /\ [Next]_vars => Envelopes \subseteq Envelopes'
<1>. SUFFICES ASSUME IInv, [Next]_vars, NEW i \in DOMAIN rows
              PROVE  rows[i].envelope \in Envelopes'
  BY DEF Envelopes
<1>1. CASE ~Enqueue
  BY <1>1, LogKept DEF IInv, Envelopes
<1>2. CASE Enqueue /\ ~Fresh(Candidate)
  BY <1>2 DEF Enqueue, outbox, Envelopes
<1>3. CASE Enqueue /\ Fresh(Candidate)
  <2>1. i \in DOMAIN rows' /\ rows'[i].envelope = rows[i].envelope
    BY <1>3, EnqueueAppends
  <2>. QED
    BY <2>1 DEF Envelopes
<1>. QED
  BY <1>1, <1>2, <1>3

\* WORLD takes over at most one record, which was in the outbox: the one it
\* answers, or one that CORE gave up.
LEMMA WorldStep ==
    ASSUME IInv, [Next]_vars
    PROVE  \/ UNCHANGED world
           \/ \E e \in Envelopes : Process(e) /\ ((Answer /\ e = Current) \/ e \in late)
<1>1. CASE Answer
  <2>1. Current \in Envelopes
    BY <1>1, CurrentType DEF IInv, Told, Answer
  <2>. QED
    BY <1>1, <2>1 DEF Answer
<1>2. CASE \E e \in late : ProcessLate(e)
  BY <1>2 DEF ProcessLate, IInv, Known
<1>3. CASE ~Answer /\ ~(\E e \in late : ProcessLate(e))
  BY <1>3 DEF Next, vars, Sync, Drain, SyncBegin, ListTasks, ListRuns, Skip, AllocateChanged,
              Refresh, Allocate, Enqueue, Elapse, Claim, Publish, Timeout, Refuse, Verify, Settle,
              StoreFails, Restart, Commit
<1>. QED
  BY <1>1, <1>2, <1>3

LEMMA AcceptedGrows == IInv /\ [Next]_vars => accepted \subseteq accepted'
BY WorldStep DEF Process, world

LEMMA KnownStep == IInv /\ [Next]_vars => Known'
<1>. SUFFICES ASSUME IInv, [Next]_vars
              PROVE  Known'
  OBVIOUS
<1>1. Envelopes \subseteq Envelopes'
  BY EnvelopesGrow
<1>2. accepted' \subseteq Envelopes /\ (head' # None => head' \in accepted')
  <2>1. CASE UNCHANGED world
    BY <2>1 DEF IInv, Known, world
  <2>2. CASE \E e \in Envelopes : Process(e)
    <3>1. PICK e \in Envelopes : Process(e)
      BY <2>2
    <3>. QED
      BY <3>1 DEF IInv, Known, Process, world
  <2>. QED
    BY <2>1, <2>2, WorldStep
<1>3. late' \subseteq Envelopes
  <2>1. CASE Timeout \/ Restart
    <3>1. pc = "sent" => Current \in Envelopes
      BY CurrentType DEF IInv, Told
    <3>. QED
      BY <2>1, <3>1 DEF Timeout, Restart, IInv, Known
  <2>2. CASE ~Timeout /\ ~Restart
    <3>1. late' \subseteq late
      BY <2>2 DEF Next, vars, Sync, Drain, SyncBegin, ListTasks, ListRuns, Skip, AllocateChanged,
              Refresh, Allocate, Enqueue, Elapse, Claim, Publish, Answer, Refuse, ProcessLate,
              Verify, Settle, StoreFails, Commit
    <3>. QED
      BY <3>1 DEF IInv, Known
  <2>. QED
    BY <2>1, <2>2
<1>. QED
  BY <1>1, <1>2, <1>3 DEF Known

\* An acknowledgement is about the record it answers.
LEMMA AnswerTrue ==
    ASSUME IInv, Answer, pc' = "answered", answer' \in Accepting
    PROVE  Current \in accepted'
<1>1. Current \in Envelopes
  BY CurrentType DEF IInv, Told, Answer
<1>2. answer' = Verdict(Current) /\ answer' # "epoch_unchanged" /\ Process(Current)
  BY DEF Answer
<1>3. CASE Verdict(Current) = "accepted"
  BY <1>2, <1>3 DEF Process
<1>4. CASE Verdict(Current) = "duplicate"
  <2>1. SameHead(Current) /\ Current.revision = head.revision
    BY <1>4 DEF Verdict
  <2>2. Current = head /\ head \in accepted
    BY <1>1, <2>1, DuplicateIsHead DEF IInv, Known, SameHead
  <2>. QED
    BY <1>2, <1>4, <2>2 DEF Process, world
<1>. QED
  BY <1>2, <1>3, <1>4, VerdictType DEF Accepting

LEMMA ToldStep == IInv /\ [Next]_vars => Told'
<1>. SUFFICES ASSUME IInv, [Next]_vars
              PROVE  Told'
  OBVIOUS
<1>1. pc' \in {"publish", "sent", "verify", "answered"} => batch' # <<>>
  BY DEF IInv, Told, Next, vars, Sync, Drain, SyncBegin, ListTasks, ListRuns, Skip,
         AllocateChanged, Refresh, Allocate, Enqueue, Elapse, Claim, Publish, Answer, Timeout,
         Refuse, ProcessLate, Verify, Settle, StoreFails, Restart, Commit
<1>2. ASSUME pc' = "answered", answer' \in Accepting
      PROVE  Current' \in accepted'
  <2>1. ~Enqueue /\ UNCHANGED batch /\ batch # <<>>
    BY <1>1, <1>2 DEF Next, vars, Sync, Drain, SyncBegin, ListTasks, ListRuns, Skip,
         AllocateChanged, Refresh, Allocate, Enqueue, Elapse, Claim, Publish, Answer, Timeout,
         Refuse, ProcessLate, Verify, Settle, StoreFails, Restart, Commit
  <2>2. Current' = Current
    BY <2>1, LogKept, CurrentType DEF IInv, Current
  <2>3. CASE Answer
    BY <1>2, <2>2, <2>3, AnswerTrue
  <2>4. CASE Verify
    <3>1. HeadMatches
      BY <1>2, <2>4 DEF Verify, Accepting
    <3>2. head = Current
      BY <2>1, <3>1, CurrentType, DuplicateIsHead DEF IInv, HeadMatches, SameHead
    <3>3. head \in accepted
      BY <3>1 DEF IInv, Known, HeadMatches
    <3>. QED
      BY <2>2, <3>2, <3>3, AcceptedGrows
  <2>5. CASE UNCHANGED <<pc, answer>>
    BY <1>2, <2>2, <2>5, AcceptedGrows DEF IInv, Told
  <2>6. Answer \/ Verify \/ UNCHANGED <<pc, answer>>
    BY <1>2 DEF Next, vars, Sync, Drain, SyncBegin, ListTasks, ListRuns, Skip,
         AllocateChanged, Refresh, Allocate, Enqueue, Elapse, Claim, Publish, Timeout,
         Refuse, ProcessLate, Settle, StoreFails, Restart, Commit, Accepting
  <2>. QED
    BY <2>3, <2>4, <2>5, <2>6
<1>. QED
  BY <1>1, <1>2 DEF Told

LEMMA SentStep == IInv /\ [Next]_vars => SentIsTrue'
<1>. SUFFICES ASSUME IInv, [Next]_vars, NEW i \in DOMAIN rows', rows'[i].status = "sent"
              PROVE  rows'[i].envelope \in accepted'
  BY DEF SentIsTrue
<1>1. accepted \subseteq accepted'
  BY AcceptedGrows
<1>2. CASE Enqueue /\ Fresh(Candidate)
  <2>1. i \in DOMAIN rows
    BY <1>2, EnqueueAppends
  <2>. QED
    BY <1>1, <1>2, <2>1, EnqueueAppends DEF IInv, SentIsTrue
<1>3. CASE Enqueue /\ ~Fresh(Candidate)
  BY <1>1, <1>3 DEF Enqueue, outbox, IInv, SentIsTrue
<1>4. CASE ~Enqueue
  <2>1. i \in DOMAIN rows /\ rows'[i].envelope = rows[i].envelope
    BY <1>4, LogKept DEF IInv
  <2>2. CASE rows[i].status = "sent"
    BY <1>1, <2>1, <2>2 DEF IInv, SentIsTrue
  <2>3. CASE rows[i].status # "sent" /\ Settle
    <3>1. Head(batch) \in DOMAIN rows
      BY <2>3, CurrentType DEF IInv, Told, Settle
    <3>2. i = Head(batch) /\ Outcome = "sent"
      BY <2>1, <2>3, <3>1, RowType DEF IInv, Settle, Row
    <3>3. answer \in Accepting /\ pc = "answered"
      BY <2>3, <3>2 DEF Outcome, Settle
    <3>. QED
      BY <1>1, <2>1, <3>2, <3>3 DEF IInv, Told, Current
  <2>4. CASE rows[i].status # "sent" /\ ~Settle
    <3>1. rows[i] \in Row
      BY <2>1, RowType DEF IInv
    <3>2. rows'[i].status # "sent"
      <4>1. CASE UNCHANGED rows
        BY <2>4, <4>1
      <4>2. CASE \E k \in DOMAIN rows : Elapse(k)
        BY <2>1, <2>4, <3>1, <4>2 DEF Elapse, Row
      <4>3. CASE Claim
        BY <2>1, <2>4, <3>1, <4>3 DEF Claim, Row
      <4>4. UNCHANGED rows \/ (\E k \in DOMAIN rows : Elapse(k)) \/ Claim
        BY <1>4, <2>4 DEF Next, vars, Sync, Drain, SyncBegin, ListTasks, ListRuns, Skip,
             AllocateChanged, Refresh, Allocate, Publish, Answer, Timeout, Refuse, ProcessLate,
             Verify, StoreFails, Restart, Commit, outbox
      <4>. QED
        BY <4>1, <4>2, <4>3, <4>4
    <3>. QED
      BY <3>2
  <2>. QED
    BY <2>2, <2>3, <2>4
<1>. QED
  BY <1>2, <1>3, <1>4

\* After a switch nothing of another epoch is under way.
LEMMA EnqueuedLive ==
    ASSUME IInv, Claimed, Enqueue, Fresh(Candidate), NEW i \in DOMAIN rows'
    PROVE  /\ rows'[i].due => rows'[i].status \in Unfinished
           /\ rows'[i].status \in Unfinished => rows'[i].envelope.epoch = config.epoch
<1>. DEFINE row == [envelope |-> Candidate, status |-> "pending", due |-> TRUE]
            kept == IF Switching THEN [k \in DOMAIN rows |-> Superseded(rows[k])] ELSE rows
<1>1. rows' = Append(kept, row) /\ Candidate.epoch = config.epoch
  BY DEF Enqueue, Candidate
<1>2. kept \in Seq(Row) /\ DOMAIN kept = DOMAIN rows
  <2>1. rows \in Seq(Row)
    BY DEF IInv, TypeOK
  <2>2. \A k \in DOMAIN rows : Superseded(rows[k]) \in Row
    BY RowType, RowMarked DEF IInv, Superseded, RowStatus
  <2>3. [k \in DOMAIN rows |-> Superseded(rows[k])] \in Seq(Row)
    BY <2>1, <2>2, MapsType
  <2>. QED
    BY <2>1, <2>3
<1>3. \A k \in DOMAIN kept :
        /\ kept[k].due => kept[k].status \in Unfinished
        /\ kept[k].status \in Unfinished => kept[k].envelope.epoch = config.epoch
  <2>. SUFFICES ASSUME NEW k \in DOMAIN rows
                PROVE  /\ kept[k].due => kept[k].status \in Unfinished
                       /\ kept[k].status \in Unfinished => kept[k].envelope.epoch = config.epoch
    BY <1>2
  <2>1. CASE ~Switching
    BY <2>1 DEF Claimed, Switching, IInv, Epochal
  <2>2. CASE Switching
    <3>1. kept[k] = Superseded(rows[k]) /\ rows[k] \in Row
      BY <2>2, RowType DEF IInv
    <3>2. rows[k].status \in Unfinished => rows[k].envelope.epoch # config.epoch
      BY <2>2 DEF Claimed, Switching
    <3>3. CASE rows[k].status \in Unfinished
      <4>1. kept[k] = [rows[k] EXCEPT !.status = "superseded", !.due = FALSE]
        BY <3>1, <3>2, <3>3 DEF Superseded
      <4>. QED
        BY <3>1, <4>1 DEF Row, Unfinished
    <3>4. CASE rows[k].status \notin Unfinished
      <4>1. ~rows[k].due
        BY <3>4 DEF Claimed
      <4>2. \/ kept[k] = [rows[k] EXCEPT !.status = "superseded", !.due = FALSE]
            \/ kept[k] = rows[k]
        BY <3>1 DEF Superseded
      <4>. QED
        BY <3>1, <3>4, <4>1, <4>2 DEF Row, Unfinished
    <3>. QED
      BY <3>3, <3>4
  <2>. QED
    BY <2>1, <2>2
<1>. HIDE DEF kept
<1>4. /\ DOMAIN Append(kept, row) = 1 .. (Len(kept) + 1)
      /\ Append(kept, row)[Len(kept) + 1] = row
      /\ \A k \in 1 .. Len(kept) : Append(kept, row)[k] = kept[k]
      /\ DOMAIN kept = 1 .. Len(kept) /\ Len(kept) \in Nat
  BY <1>2
<1>5. CASE i = Len(kept) + 1
  BY <1>1, <1>4, <1>5 DEF Unfinished
<1>6. CASE i # Len(kept) + 1
  <2>1. i \in DOMAIN kept /\ rows'[i] = kept[i]
    BY <1>1, <1>4, <1>6
  <2>. QED
    BY <1>3, <2>1
<1>. QED
  BY <1>5, <1>6

LEMMA ClaimedStep == IInv /\ Claimed /\ [Next]_vars => Claimed'
<1>. SUFFICES ASSUME IInv, Claimed, [Next]_vars
              PROVE  Claimed'
  OBVIOUS
<1>1. CASE /\ UNCHANGED <<rows, counter>>
           /\ batch' = batch \/ batch' = <<>>
           /\ (InPass \/ pc \in {"idle", "drain"})' => batch' = <<>>
  BY <1>1 DEF Claimed, InHand
<1>2. CASE AllocateChanged \/ Refresh
  <2>1. /\ Allocate /\ UNCHANGED <<rows, batch>> /\ batch = <<>>
    BY <1>2 DEF AllocateChanged, Refresh, Allocate, Claimed, InPass
  <2>2. CASE UNCHANGED counter
    BY <2>1, <2>2 DEF Claimed, InHand
  <2>3. CASE counter' # counter
    <3>1. ~Switching /\ counter'.epoch = config.epoch
      BY <2>1, <2>3 DEF Allocate
    <3>2. \A i \in DOMAIN rows : counter.epoch = config.epoch
      BY <3>1 DEF IInv, Epochal, Switching
    <3>. QED
      BY <2>1, <3>1, <3>2 DEF Claimed, InHand
  <2>. QED
    BY <2>2, <2>3
<1>3. CASE Enqueue
  <2>1. batch = <<>> /\ UNCHANGED batch /\ pc' = "drain"
    BY <1>3 DEF Enqueue, Claimed, InPass
  <2>2. CASE ~Fresh(Candidate)
    BY <1>3, <2>1, <2>2 DEF Enqueue, outbox, Claimed, InHand
  <2>3. CASE Fresh(Candidate)
    <3>1. /\ \A i \in DOMAIN rows' : rows'[i].due => rows'[i].status \in Unfinished
          /\ \A i \in DOMAIN rows' :
                rows'[i].status \in Unfinished => rows'[i].envelope.epoch = config.epoch
      BY <1>3, <2>3, EnqueuedLive
    <3>2. counter'.epoch = config.epoch
      BY <1>3, <2>3 DEF Enqueue, Switching, IInv, Epochal
    <3>. QED
      BY <2>1, <3>1, <3>2 DEF Claimed, InHand
  <2>. QED
    BY <2>2, <2>3
<1>4. CASE \E i \in DOMAIN rows : Elapse(i)
  <2>1. PICK j \in DOMAIN rows : Elapse(j)
    BY <1>4
  <2>2. /\ DOMAIN rows' = DOMAIN rows
        /\ rows'[j] = [rows[j] EXCEPT !.due = TRUE]
        /\ \A i \in DOMAIN rows \ {j} : rows'[i] = rows[i]
        /\ rows[j].status \in Unfinished
        /\ \A k \in DOMAIN batch : batch[k] # j
        /\ UNCHANGED <<counter, batch, pc>>
    BY <2>1 DEF Elapse
  <2>3. rows'[j].status = rows[j].status /\ rows'[j].envelope = rows[j].envelope
    BY <2>2, RowType DEF IInv, Row
  <2>4. \A k \in DOMAIN batch : batch[k] \in DOMAIN rows
    BY ElementOfSeq, LenProperties DEF IInv, TypeOK
  <2>5. \A i \in DOMAIN rows' :
          /\ rows'[i].due => rows'[i].status \in Unfinished
          /\ rows'[i].status \in Unfinished => rows'[i].envelope.epoch = counter'.epoch
    <3>1. /\ rows'[j].due => rows'[j].status \in Unfinished
          /\ rows'[j].status \in Unfinished => rows'[j].envelope.epoch = counter'.epoch
      BY <2>1, <2>2, <2>3 DEF Claimed
    <3>2. \A i \in DOMAIN rows \ {j} :
            /\ rows'[i].due => rows'[i].status \in Unfinished
            /\ rows'[i].status \in Unfinished => rows'[i].envelope.epoch = counter'.epoch
      BY <2>2 DEF Claimed
    <3>. QED
      BY <2>2, <3>1, <3>2
  <2>6. InHand'
    BY <2>2, <2>4 DEF Claimed, InHand
  <2>. QED
    BY <2>2, <2>5, <2>6 DEF Claimed, InPass
<1>5. CASE Claim
  <2>1. /\ DOMAIN rows' = DOMAIN rows
        /\ \A i \in DOMAIN rows :
              rows'[i] = IF i \in Range(batch')
                           THEN [rows[i] EXCEPT !.status = "in_flight", !.due = FALSE]
                           ELSE rows[i]
        /\ UNCHANGED counter
        /\ batch' # <<>> => pc' = "publish"
    BY <1>5 DEF Claim
  <2>2. \A k \in DOMAIN batch' : batch'[k] \in Due
    BY <1>5 DEF Claim, Batches
  <2>3. \A i \in Range(batch') : i \in DOMAIN rows /\ rows[i].due
    BY <2>2 DEF Range, Due
  <2>4. \A i \in DOMAIN rows : i \in Range(batch') =>
            ~rows'[i].due /\ rows'[i].envelope = rows[i].envelope
    BY <2>1, RowType DEF IInv, Row
  <2>5. \A i \in Range(batch') : rows[i].envelope.epoch = counter.epoch
    BY <2>3 DEF Claimed, InHand
  <2>6. \A k \in DOMAIN batch' : batch'[k] \in Range(batch')
    BY DEF Range
  <2>7. \A i \in DOMAIN rows : i \notin Range(batch') => rows'[i] = rows[i]
    BY <2>1
  <2>8. \A i \in DOMAIN rows' :
          /\ rows'[i].due => rows'[i].status \in Unfinished
          /\ rows'[i].status \in Unfinished => rows'[i].envelope.epoch = counter'.epoch
    <3>. SUFFICES ASSUME NEW i \in DOMAIN rows
                  PROVE  /\ rows'[i].due => rows'[i].status \in Unfinished
                         /\ rows'[i].status \in Unfinished => rows'[i].envelope.epoch = counter.epoch
      BY <2>1
    <3>1. CASE i \in Range(batch')
      BY <2>4, <2>5, <3>1
    <3>2. CASE i \notin Range(batch')
      BY <2>7, <3>2 DEF Claimed
    <3>. QED
      BY <3>1, <3>2
  <2>9. InHand'
    <3>. SUFFICES ASSUME NEW k \in DOMAIN batch'
                  PROVE  ~rows'[batch'[k]].due /\ rows'[batch'[k]].envelope.epoch = counter'.epoch
      BY DEF InHand
    <3>1. batch'[k] \in Range(batch') /\ batch'[k] \in DOMAIN rows
      BY <2>3, <2>6
    <3>. QED
      BY <2>1, <2>4, <2>5, <3>1
  <2>. QED
    BY <2>1, <2>8, <2>9 DEF Claimed, InPass
<1>6. CASE Settle
  <2>. DEFINE j == Head(batch)
  <2>1. batch # <<>> /\ j \in DOMAIN rows /\ j = batch[1] /\ 1 \in DOMAIN batch
        /\ \A k \in DOMAIN Tail(batch) : k + 1 \in DOMAIN batch /\ Tail(batch)[k] = batch[k + 1]
    <3>1. batch # <<>> /\ j \in DOMAIN rows
      BY <1>6, CurrentType DEF IInv, Told, Settle
    <3>2. batch \in Seq(DOMAIN rows)
      BY DEF IInv, TypeOK
    <3>. QED
      BY <3>1, <3>2
  <2>2. /\ DOMAIN rows' = DOMAIN rows
        /\ rows'[j] = [rows[j] EXCEPT !.status = IF @ \in Unfinished THEN Outcome ELSE @]
        /\ \A i \in DOMAIN rows \ {j} : rows'[i] = rows[i]
        /\ batch' = Tail(batch)
        /\ UNCHANGED counter
        /\ pc' = IF Tail(batch) = <<>> THEN "idle" ELSE "publish"
    BY <1>6, <2>1 DEF Settle
  <2>3. /\ rows'[j].envelope = rows[j].envelope /\ rows'[j].due = rows[j].due
        /\ rows'[j].envelope.epoch = counter.epoch /\ ~rows[j].due
    BY <2>1, <2>2, RowType DEF IInv, Row, Claimed, InHand
  <2>. HIDE DEF j
  <2>4. \A k \in DOMAIN batch : batch[k] \in DOMAIN rows
    BY ElementOfSeq, LenProperties DEF IInv, TypeOK
  <2>5. \A i \in DOMAIN rows' :
          /\ rows'[i].due => rows'[i].status \in Unfinished
          /\ rows'[i].status \in Unfinished => rows'[i].envelope.epoch = counter'.epoch
    <3>1. /\ rows'[j].due => rows'[j].status \in Unfinished
          /\ rows'[j].status \in Unfinished => rows'[j].envelope.epoch = counter'.epoch
      BY <2>1, <2>2, <2>3 DEF Claimed
    <3>2. \A i \in DOMAIN rows \ {j} :
            /\ rows'[i].due => rows'[i].status \in Unfinished
            /\ rows'[i].status \in Unfinished => rows'[i].envelope.epoch = counter'.epoch
      BY <2>2 DEF Claimed
    <3>. QED
      BY <2>2, <3>1, <3>2
  <2>6. \A i \in DOMAIN rows : /\ rows'[i].envelope = rows[i].envelope
                               /\ rows'[i].due = rows[i].due
    BY <2>2, <2>3
  <2>7. InHand'
    BY <2>1, <2>2, <2>4, <2>6 DEF Claimed, InHand
  <2>8. (InPass \/ pc \in {"idle", "drain"})' => batch' = <<>>
    BY <2>2 DEF InPass
  <2>. QED
    BY <2>5, <2>7, <2>8 DEF Claimed
<1>7. \/ /\ UNCHANGED <<rows, counter>>
         /\ batch' = batch \/ batch' = <<>>
         /\ (InPass \/ pc \in {"idle", "drain"})' => batch' = <<>>
      \/ AllocateChanged \/ Refresh \/ Enqueue \/ (\E i \in DOMAIN rows : Elapse(i))
      \/ Claim \/ Settle
  BY DEF Next, vars, Sync, Drain, outbox, InPass, Claimed, SyncBegin, ListTasks, ListRuns, Skip,
         Publish, Answer, Timeout, Refuse, ProcessLate, Verify, StoreFails, Restart, Commit
<1>. QED
  BY <1>1, <1>2, <1>3, <1>4, <1>5, <1>6, <1>7

-----------------------------------------------------------------------------
(* The theorems.                                                           *)

LEMMA NextInv == IInv /\ [Next]_vars => IInv'
BY TypeStep, ChronicleStep, ClockStep, EpochalStep, KnownStep, ToldStep, SentStep DEF IInv

LEMMA Inductive == Spec => []IInv
BY InitInv, NextInv, PTL DEF Spec

\* The state of the projection, the outbox and WORLD has its types.
THEOREM TypeCorrect == Spec => []TypeOK
<1>1. IInv => TypeOK
  BY DEF IInv
<1>. QED
  BY <1>1, Inductive, PTL

\* Whatever is lost, repeated or late, and wherever the process stops, a record
\* marked as sent was taken over by WORLD as it was written.
THEOREM SentRecordsTaken == Spec => []SentIsTrue
<1>1. IInv => SentIsTrue
  BY DEF IInv
<1>. QED
  BY <1>1, Inductive, PTL

\* No two sets ever carry one epoch and revision, so WORLD has no conflict to
\* report.
THEOREM RevisionsUnambiguous == Spec => []OneSetPerRevision
<1>1. IInv => OneSetPerRevision
  <2>. SUFFICES ASSUME IInv, NEW e \in late \cup {rows[i].envelope : i \in DOMAIN rows},
                       Verdict(e) = "revision_conflict"
                PROVE  FALSE
    BY DEF OneSetPerRevision
  <2>1. e \in Envelopes
    BY DEF IInv, Known, Envelopes
  <2>2. SameHead(e) /\ e.revision = head.revision /\ e.set # head.set
    BY DEF Verdict
  <2>. QED
    BY <2>1, <2>2, DuplicateIsHead DEF IInv
<1>. QED
  BY <1>1, Inductive, PTL

\* A reconcile that is answered in time starts no epoch earlier than WORLD's.
LEMMA TimelyIsForward ==
    ASSUME IInv, Claimed, pc = "sent", head # None
    PROVE  head.epoch <= Current.epoch
<1>1. batch # <<>> /\ Head(batch) = batch[1] /\ 1 \in DOMAIN batch
  BY DEF IInv, Told, TypeOK
<1>2. Current.epoch = counter.epoch
  BY <1>1 DEF Claimed, InHand, Current
<1>3. head \in Envelopes
  BY DEF IInv, Known
<1>. QED
  BY <1>2, <1>3 DEF Envelopes, IInv, Epochal

\* Of two records the one with the greater epoch, or with the same epoch and no
\* smaller revision, was read no earlier.
LEMMA LaterIsFresher ==
    ASSUME IInv, NEW d \in Envelopes, NEW e \in Envelopes,
           d.epoch < e.epoch \/ (d.epoch = e.epoch /\ ~(e.revision < d.revision))
    PROVE  d.since <= e.since
<1>1. PICK i \in DOMAIN rows : d = rows[i].envelope
  BY DEF Envelopes
<1>2. PICK j \in DOMAIN rows : e = rows[j].envelope
  BY DEF Envelopes
<1>3. /\ d.epoch \in Nat /\ d.revision \in Nat /\ d.since \in Nat
      /\ e.epoch \in Nat /\ e.revision \in Nat /\ e.since \in Nat
  BY <1>1, <1>2, EnvelopeType DEF IInv
<1>4. i \in Nat /\ j \in Nat
  BY LenProperties DEF IInv, TypeOK
<1>5. ~(j < i)
  BY <1>1, <1>2, <1>3 DEF IInv, Chronicle, Before
<1>6. CASE i < j
  BY <1>1, <1>2, <1>6 DEF IInv, Chronicle, Before
<1>7. CASE i = j
  BY <1>1, <1>2, <1>3, <1>7
<1>. QED
  BY <1>4, <1>5, <1>6, <1>7

\* WORLD never goes back to a set whose reading began earlier than that of the one
\* it holds, however often the epoch is switched, unless a reconcile that CORE
\* gave up reaches it after a later switch.
THEOREM ForwardOnly == Spec => SetsMoveForward
<1>1. IInv /\ Claimed /\ [Next]_vars
        => [head # None /\ head' # head =>
               head.since <= head'.since \/ DelayedReconcile(head')]_vars
  <2>. SUFFICES ASSUME IInv, Claimed, [Next]_vars, head # None, head' # head
                PROVE  head.since <= head'.since \/ DelayedReconcile(head')
    OBVIOUS
  <2>1. PICK e \in Envelopes : /\ Process(e) /\ Verdict(e) = "accepted" /\ head' = e
                               /\ (Answer /\ e = Current) \/ e \in late
    BY WorldStep DEF Process, world
  <2>2. head \in Envelopes
    BY DEF IInv, Known
  <2>3. CASE SameHead(e)
    <3>1. e.epoch = head.epoch /\ ~(e.revision < head.revision)
      BY <2>1, <2>3 DEF Verdict, SameHead
    <3>. QED
      BY <2>1, <2>2, <3>1, LaterIsFresher
  <2>4. CASE ~SameHead(e)
    <3>1. e.reconcile /\ e.epoch # head.epoch /\ e.epoch > 1
      BY <2>1, <2>4 DEF Verdict, SameHead, Envelopes, IInv, Epochal
    <3>2. e.epoch \in Nat /\ head.epoch \in Nat
      BY <2>2, EnvelopeType DEF IInv, Envelopes
    <3>3. CASE head.epoch < e.epoch
      BY <2>1, <2>2, <3>3, LaterIsFresher
    <3>4. CASE e.epoch < head.epoch
      <4>1. e \in late
        <5>. SUFFICES ASSUME Answer, e = Current
                      PROVE  FALSE
          BY <2>1
        <5>. QED
          BY <3>2, <3>4, TimelyIsForward DEF Answer
      <4>. QED
        BY <2>1, <3>1, <3>4, <4>1 DEF DelayedReconcile
    <3>. QED
      BY <3>1, <3>2, <3>3, <3>4
  <2>. QED
    BY <2>3, <2>4
<1>2. Init => Claimed
  BY DEF Init, Claimed, InHand
<1>. QED
  BY <1>1, <1>2, Inductive, ClaimedStep, PTL DEF Spec, SetsMoveForward
=============================================================================
