--------------------------- MODULE WorldProjection ---------------------------
(***************************************************************************)
(* CORE's projection of an Actor's open Tasks to WORLD: the full-set       *)
(* projector, the durable outbox and its worker                            *)
(* (internal/application/worldprojection, persistence/worldoutbox).        *)
(*                                                                         *)
(* One goroutine alternates a projector pass (Sync) and a delivery pass    *)
(* (Drain).  Sync reads the Task store with five separate queries, while   *)
(* Tasks go on changing, and gives a changed set the next revision of the  *)
(* configured source epoch; Drain publishes the claimed records one by one *)
(* over HTTP.  A request may be processed long after CORE gave it up, and  *)
(* the process may stop between any two steps.                             *)
(*                                                                         *)
(* One destination and one kind of projection: other destinations have     *)
(* counters and records of their own.  An item is a Task and its state;    *)
(* the Run of a running item and its presentation hints are left out.      *)
(***************************************************************************)
EXTENDS Naturals, Sequences, SequencesExt

CONSTANTS
    Tasks,          \* the Tasks assigned to the Actor
    MaxEpoch,       \* bound of the model: source epochs, in the order of their use
    None,
    Limit,          \* records a delivery pass claims
    MaxRevision,    \* domainprojection.MaxSourceRevision
    MaxEvents       \* bound of the model: commits, faults and restarts

ASSUME ProjectionAssumption ==
    /\ MaxEpoch \in Nat \ {0}
    /\ Limit \in Nat \ {0}
    /\ MaxRevision \in Nat \ {0}
    /\ MaxEvents \in Nat
    /\ None \notin [epoch : Nat, revision : Nat]

VARIABLES
    tasks,      \* the committed status of each Task
    commits,    \* how many Task commits there have been
    config,     \* the running process: its source epoch, reconcile authorised
    pc,         \* where the loop of the service stands
    snapshot,   \* the candidate set of the projector pass in progress
    counter,    \* durable: current epoch and highest revision allocated in it
    rows,       \* durable: the outbox, in rowid order
    batch,      \* the claimed rows that are still to be published
    answer,     \* what became of the publication in progress
    late,       \* requests CORE gave up, that are still under way to WORLD
    head,       \* WORLD: the projection it holds
    retired,    \* WORLD: the epochs it has left
    accepted,   \* WORLD: every projection it has taken over
    events

owner == <<tasks, commits>>
outbox == <<counter, rows>>
world == <<head, retired, accepted>>
vars == <<owner, config, pc, snapshot, outbox, batch, answer, late, world, events>>

-----------------------------------------------------------------------------
Epochs == 1 .. MaxEpoch
Lists == <<"queued", "running", "waiting", "blocked">>
\* "orphaned": the Task is running but its Run was closed (InterruptRun).
Statuses == Range(Lists) \cup {"orphaned", "ended"}
Unfinished == {"pending", "in_flight"}
RowStatus == Unfinished \cup {"sent", "failed", "superseded"}
Accepting == {"accepted", "duplicate", "epoch_unchanged"}
Rejecting == {"stale_revision", "revision_conflict", "epoch_superseded",
              "epoch_requires_reconcile"}
Steps == {"idle", "reading", "built", "allocated", "drain", "publish", "sent", "answered",
          "verify"}

Sets == SUBSET (Tasks \X Range(Lists))
Envelope == [epoch : Epochs, revision : Nat \ {0}, set : Sets, since : Nat, reconcile : BOOLEAN]
Row == [envelope : Envelope, status : RowStatus, due : BOOLEAN]
\* read: how many of the five queries have returned.
NoSnapshot == [read |-> 0, set |-> {}, since |-> 0, revision |-> 0, reconcile |-> FALSE]
Counted == counter # None
Newest == Last(rows)
Current == rows[Head(batch)].envelope

Init ==
    /\ tasks = [t \in Tasks |-> "queued"]
    /\ commits = 0
    /\ config \in [epoch : {1}, reconcile : BOOLEAN]
    /\ pc = "idle"
    /\ snapshot = NoSnapshot
    /\ counter = None
    /\ rows = <<>>
    /\ batch = <<>>
    /\ answer = "none"
    /\ late = {}
    /\ head = None
    /\ retired = {}
    /\ accepted = {}
    /\ events = 0

Event == events < MaxEvents /\ events' = events + 1

-----------------------------------------------------------------------------
(* The Task owner (module TaskRuns), one commit at a time.                 *)

Moves(s) ==
    CASE s = "queued"   -> {"running", "ended"}
      [] s = "running"  -> {"waiting", "blocked", "ended", "orphaned"}
      [] s = "orphaned" -> {"running", "waiting", "blocked", "ended"}
      [] s = "waiting"  -> {"queued", "running", "blocked", "ended"}
      [] s = "blocked"  -> {"queued", "running", "ended"}
      [] s = "ended"    -> {"running"}

Commit(t) ==
    /\ Event
    /\ \E s \in Moves(tasks[t]) : tasks' = [tasks EXCEPT ![t] = s]
    /\ commits' = commits + 1
    /\ UNCHANGED <<config, pc, snapshot, outbox, batch, answer, late, world>>

-----------------------------------------------------------------------------
(* The projector pass.                                                     *)

Listed(status) == IF status = "orphaned" THEN "running" ELSE status
OpenSet == {<<t, Listed(tasks[t])>> : t \in {u \in Tasks : tasks[u] # "ended"}}

\* Bound of the model: ticks do not use up the revisions while a record waits
\* for its backoff or lease or a request is under way, of minutes at most.
Unhurried ==
    Counted /\ counter.revision + 2 >= MaxRevision =>
        /\ late = {}
        /\ \A i \in DOMAIN rows : rows[i].status \in Unfinished => rows[i].due

\* A tick of the interval, the commit observer or the start of the process.
SyncBegin ==
    /\ pc = "idle"
    /\ Unhurried
    /\ pc' = "reading"
    /\ snapshot' = [NoSnapshot EXCEPT !.since = commits]
    /\ UNCHANGED <<owner, config, outbox, batch, answer, late, world, events>>

\* One transaction per status; a commit in between is seen or not.
ListTasks ==
    /\ pc = "reading" /\ snapshot.read < Len(Lists)
    /\ LET status == Lists[snapshot.read + 1]
       IN  snapshot' = [snapshot EXCEPT
              !.read = @ + 1,
              !.set = @ \cup {item \in OpenSet : item[2] = status}]
    /\ UNCHANGED <<owner, config, pc, outbox, batch, answer, late, world, events>>

\* A Task listed twice, or listed as running without a running Run, fails the
\* pass: the records that are already in the outbox are delivered all the same.
Consistent ==
    /\ \A i, j \in snapshot.set : i[1] = j[1] => i = j
    /\ \A i \in snapshot.set : i[2] = "running" => tasks[i[1]] = "running"

ListRuns ==
    /\ pc = "reading" /\ snapshot.read = Len(Lists)
    /\ pc' = IF Consistent THEN "built" ELSE "drain"
    /\ UNCHANGED <<owner, config, snapshot, outbox, batch, answer, late, world, events>>

\* The configured epoch is not the durable one.
Switching == Counted /\ counter.epoch # config.epoch

\* Variant: a record that failed for good counts as current.
IsCurrentAny == rows # <<>> /\ Newest.envelope.set = snapshot.set

\* The newest record carries the same set in this epoch, and is on its way or
\* sent.  A sent one is refreshed in time, which is an event of its own.
IsCurrent ==
    /\ rows # <<>>
    /\ Newest.envelope.set = snapshot.set
    /\ Newest.envelope.epoch = config.epoch
    /\ Newest.status \in Unfinished \cup {"sent"}

Skip ==
    /\ pc = "built"
    /\ IF Switching THEN ~config.reconcile ELSE IsCurrent
    /\ pc' = "drain"
    /\ UNCHANGED <<owner, config, snapshot, outbox, batch, answer, late, world, events>>

\* An authorised switch restarts at revision 1 and leaves the counter alone;
\* otherwise the next revision is durable before it is used.
Allocate ==
    /\ IF Switching
         THEN /\ snapshot' = [snapshot EXCEPT !.revision = 1, !.reconcile = TRUE]
              /\ pc' = "allocated"
              /\ UNCHANGED counter
         ELSE LET next == IF Counted THEN counter.revision + 1 ELSE 1
              IN  IF next <= MaxRevision
                    THEN /\ counter' = [epoch |-> config.epoch, revision |-> next]
                         /\ snapshot' = [snapshot EXCEPT !.revision = next]
                         /\ pc' = "allocated"
                    ELSE pc' = "drain" /\ UNCHANGED <<counter, snapshot>>
    /\ UNCHANGED <<owner, config, rows, batch, answer, late, world>>

AllocateChanged ==
    /\ pc = "built"
    /\ IF Switching THEN config.reconcile ELSE ~IsCurrent
    /\ Allocate
    /\ UNCHANGED events

\* The validity of the sent set is running out.
Refresh ==
    /\ pc = "built"
    /\ ~Switching /\ IsCurrent /\ Newest.status = "sent"
    /\ Event
    /\ Allocate

\* Variant: every record is a reconcile while reconciles are authorised.
CandidateAuthorised ==
    [epoch |-> config.epoch, revision |-> snapshot.revision, set |-> snapshot.set,
     since |-> snapshot.since, reconcile |-> config.reconcile]

Candidate == [epoch |-> config.epoch, revision |-> snapshot.revision, set |-> snapshot.set,
              since |-> snapshot.since, reconcile |-> snapshot.reconcile]

\* UNIQUE(destination, kind, source_epoch, source_revision).
Taken(e) == \E i \in DOMAIN rows :
    rows[i].envelope.epoch = e.epoch /\ rows[i].envelope.revision = e.revision

\* Within an epoch only a revision above the newest one is written.
Fresh(e) ==
    /\ Switching \/ rows = <<>> \/ e.revision > Newest.envelope.revision
    /\ ~Taken(e)

\* A switch supersedes what the other epochs have not delivered.
Superseded(r) ==
    IF r.status \in Unfinished \cup {"failed"} /\ r.envelope.epoch # config.epoch
      THEN [r EXCEPT !.status = "superseded", !.due = FALSE] ELSE r

\* Variant: the set of an unfinished record is replaced in place.
EnqueueCoalesced ==
    /\ pc = "allocated"
    /\ IF rows # <<>> /\ Newest.status \in Unfinished /\ ~Switching
         THEN rows' = [rows EXCEPT ![Len(rows)].envelope.set = snapshot.set]
         ELSE rows' = Append(rows, [envelope |-> Candidate, status |-> "pending", due |-> TRUE])
    /\ counter' = IF Switching THEN [epoch |-> config.epoch, revision |-> 1] ELSE counter
    /\ pc' = "drain"
    /\ UNCHANGED <<owner, config, snapshot, batch, answer, late, world, events>>

\* One transaction: the switch, the counter and the record, or nothing.
Enqueue ==
    /\ pc = "allocated"
    /\ IF Fresh(Candidate)
         THEN LET row == [envelope |-> Candidate, status |-> "pending", due |-> TRUE]
                  kept == IF Switching THEN [i \in DOMAIN rows |-> Superseded(rows[i])] ELSE rows
              IN  /\ rows' = Append(kept, row)
                  /\ counter' = IF Switching THEN [epoch |-> config.epoch, revision |-> 1]
                                             ELSE counter
         ELSE UNCHANGED outbox
    /\ pc' = "drain"
    /\ UNCHANGED <<owner, config, snapshot, batch, answer, late, world, events>>

-----------------------------------------------------------------------------
(* The delivery pass.                                                      *)

\* The backoff of a retry or the lease of an abandoned claim is over.
Elapse(i) ==
    /\ i \in DOMAIN rows
    /\ rows[i].status \in Unfinished /\ ~rows[i].due
    /\ \A k \in DOMAIN batch : batch[k] # i
    /\ rows' = [rows EXCEPT ![i].due = TRUE]
    /\ UNCHANGED <<owner, config, pc, snapshot, counter, batch, answer, late, world, events>>

Due == {i \in DOMAIN rows : rows[i].due}
\* ORDER BY source_revision, created_at LIMIT ...
InOrder(i, j) ==
    LET a == rows[i].envelope.revision
        b == rows[j].envelope.revision
    IN  a < b \/ (a = b /\ i < j)
\* The first Limit of them.
Batches ==
    {b \in UNION {[1 .. n -> Due] : n \in 0 .. Limit} :
        /\ \A i, j \in DOMAIN b : i < j => InOrder(b[i], b[j])
        /\ \A i \in Due \ Range(b) : Len(b) = Limit /\ \A j \in DOMAIN b : InOrder(b[j], i)}

Claim ==
    /\ pc = "drain"
    /\ snapshot' = NoSnapshot
    /\ batch' \in Batches
    /\ rows' = [i \in DOMAIN rows |->
                  IF i \in Range(batch')
                    THEN [rows[i] EXCEPT !.status = "in_flight", !.due = FALSE] ELSE rows[i]]
    /\ pc' = IF batch' = <<>> THEN "idle" ELSE "publish"
    /\ UNCHANGED <<owner, config, counter, answer, late, world, events>>

\* Without the second credential a reconcile is not even sent.
Publish ==
    /\ pc = "publish"
    /\ IF Current.reconcile /\ ~config.reconcile
         THEN pc' = "answered" /\ answer' = "refused"
         ELSE pc' = "sent" /\ UNCHANGED answer
    /\ UNCHANGED <<owner, config, snapshot, outbox, batch, late, world, events>>

-----------------------------------------------------------------------------
(* WORLD, as the statuses it answers with describe it.                     *)

SameHead(e) == head # None /\ head.epoch = e.epoch

Verdict(e) ==
    CASE e.epoch \in retired                       -> "epoch_superseded"
      [] SameHead(e) /\ e.reconcile                -> "epoch_unchanged"
      [] SameHead(e) /\ e.revision < head.revision -> "stale_revision"
      [] SameHead(e) /\ e.revision = head.revision ->
             IF e.set = head.set THEN "duplicate" ELSE "revision_conflict"
      [] head # None /\ ~SameHead(e) /\ ~e.reconcile -> "epoch_requires_reconcile"
      [] OTHER                                     -> "accepted"

Process(e) ==
    IF Verdict(e) = "accepted"
      THEN /\ head' = e
           /\ retired' = retired \cup (IF head = None THEN {} ELSE {head.epoch} \ {e.epoch})
           /\ accepted' = accepted \cup {e}
      ELSE UNCHANGED world

\* The acknowledgement arrives in time.
Answer ==
    /\ pc = "sent"
    /\ Process(Current)
    /\ answer' = Verdict(Current)
    /\ pc' = IF answer' = "epoch_unchanged" THEN "verify" ELSE "answered"
    /\ UNCHANGED <<owner, config, snapshot, outbox, batch, late, events>>

\* The client gives up, or gets a 5xx: WORLD may have the request all the same.
Timeout ==
    /\ pc = "sent"
    /\ Event
    /\ late' = late \cup {Current}
    /\ answer' = "retry"
    /\ pc' = "answered"
    /\ UNCHANGED <<owner, config, snapshot, outbox, batch, world>>

\* A 4xx: the request is not processed, and is not repeated.
Refuse ==
    /\ pc = "sent"
    /\ Event
    /\ answer' = "refused"
    /\ pc' = "answered"
    /\ UNCHANGED <<owner, config, snapshot, outbox, batch, late, world>>

\* It is processed now, or it was lost.
ProcessLate(e) ==
    /\ e \in late
    /\ late' = late \ {e}
    /\ Process(e) \/ UNCHANGED world
    /\ UNCHANGED <<owner, config, pc, snapshot, outbox, batch, answer, events>>

-----------------------------------------------------------------------------
(* The worker and the answers.                                             *)

\* Variant: epoch_unchanged completes the record, whatever the head is.
HeadIgnored == TRUE

\* ReadHead: WORLD holds exactly this record.
HeadMatches ==
    head # None /\ head.epoch = Current.epoch /\ head.revision = Current.revision
                /\ head.set = Current.set

Verify ==
    /\ pc = "verify"
    /\ \/ answer' = (IF HeadMatches THEN "accepted" ELSE "refused") /\ UNCHANGED events
       \/ Event /\ answer' \in {"retry", "refused"}
    /\ pc' = "answered"
    /\ UNCHANGED <<owner, config, snapshot, outbox, batch, late, world>>

Outcome ==
    CASE answer \in Accepting -> "sent"
      [] answer = "retry"     -> "pending"
      [] OTHER                -> "failed"

\* Complete and Fail look at the status of the record, not at the claim.
Settle ==
    /\ pc = "answered"
    /\ rows' = [rows EXCEPT ![Head(batch)].status = IF @ \in Unfinished THEN Outcome ELSE @]
    /\ batch' = Tail(batch)
    /\ answer' = "none"
    /\ pc' = IF Tail(batch) = <<>> THEN "idle" ELSE "publish"
    /\ UNCHANGED <<owner, config, snapshot, counter, late, world, events>>

\* A store call fails: the pass ends there, the claimed records wait for the
\* end of their lease.
StoreFails ==
    /\ Event
    /\ \/ pc \in {"reading", "built", "allocated"} /\ pc' = "drain" /\ UNCHANGED batch
       \/ pc \in {"drain", "answered"} /\ pc' = "idle" /\ batch' = <<>>
    /\ snapshot' = NoSnapshot
    /\ answer' = "none"
    /\ UNCHANGED <<owner, config, outbox, late, world>>

\* The process stops anywhere and starts with the configuration it then has.
Restart ==
    /\ Event
    /\ config' \in [epoch : config.epoch .. MaxEpoch, reconcile : BOOLEAN]
    /\ late' = late \cup (IF pc = "sent" THEN {Current} ELSE {})
    /\ pc' = "idle"
    /\ snapshot' = NoSnapshot
    /\ batch' = <<>>
    /\ answer' = "none"
    /\ UNCHANGED <<owner, outbox, world>>

-----------------------------------------------------------------------------
Sync == SyncBegin \/ ListTasks \/ ListRuns \/ Skip \/ AllocateChanged \/ Enqueue
Drain == Claim \/ Publish \/ Answer \/ Verify \/ Settle

Next ==
    \/ Sync \/ Drain \/ Refresh
    \/ \E t \in Tasks : Commit(t)
    \/ \E i \in DOMAIN rows : Elapse(i)
    \/ \E e \in late : ProcessLate(e)
    \/ Timeout \/ Refuse \/ StoreFails \/ Restart

Spec == Init /\ [][Next]_vars

\* No two records have the same epoch and revision.
MaxRows == MaxEpoch * MaxRevision

\* The loop runs until the process stops, time passes, and WORLD answers: only
\* MaxEvents of the other things happen.
Fairness ==
    /\ WF_vars(Sync \/ Drain)
    /\ WF_vars(\E e \in late : ProcessLate(e))
    /\ \A i \in 1 .. MaxRows : WF_vars(Elapse(i))
FairSpec == Spec /\ Fairness

-----------------------------------------------------------------------------
TypeOK ==
    /\ tasks \in [Tasks -> Statuses]
    /\ commits \in Nat
    /\ config \in [epoch : Epochs, reconcile : BOOLEAN]
    /\ pc \in Steps
    /\ snapshot \in [read : 0 .. Len(Lists), set : Sets, since : Nat, revision : Nat,
                     reconcile : BOOLEAN]
    /\ Counted => counter \in [epoch : Epochs, revision : 1 .. MaxRevision]
    /\ rows \in Seq(Row)
    /\ batch \in Seq(DOMAIN rows)
    /\ answer \in Accepting \cup Rejecting \cup {"none", "retry", "refused"}
    /\ late \subseteq Envelope
    /\ head # None => head \in Envelope
    /\ retired \subseteq Epochs
    /\ accepted \subseteq Envelope
    /\ events \in 0 .. MaxEvents

\* A record CORE marks as sent was taken over by WORLD exactly as it was written,
\* although acknowledgements get lost, requests are repeated, and an
\* epoch_unchanged says nothing about which record WORLD holds (Worker.Drain).
SentIsTrue ==
    \A i \in DOMAIN rows : rows[i].status = "sent" => rows[i].envelope \in accepted

\* WORLD is never sent a second set under a revision it holds, whatever crash,
\* switch or late request comes between the two: NextSourceRevision spends a
\* revision before its record exists.
OneSetPerRevision ==
    \A e \in late \cup {rows[i].envelope : i \in DOMAIN rows} : Verdict(e) # "revision_conflict"

\* CORE has given the request up.  It starts an epoch by a switch, not the first
\* one, and WORLD is past that: a reconcile names the epoch it starts and not the
\* one it ends.
DelayedReconcile(e) ==
    e \in late /\ e.reconcile /\ e.epoch > 1 /\ e.epoch < head.epoch

\* WORLD exchanges a set for one whose reading began earlier in one case only: a
\* reconcile that CORE gave up reaches it after the next switch.  No other late or
\* repeated request, claim by revision or restart at revision 1 takes it back.
SetsMoveForward ==
    [][head # None /\ head' # head =>
          head.since <= head'.since \/ DelayedReconcile(head')]_vars

Unfinal == {i \in DOMAIN rows : rows[i].status \in Unfinished}
Delivered == head # None /\ head.set = OpenSet /\ head.epoch = config.epoch
\* A running Task without a running Run cannot be projected.
Unreadable == \E t \in Tasks : tasks[t] = "orphaned"

\* docs/04: when the process stops between commit and delivery, the full resync of
\* the next start recovers what was not delivered.  Once the faults end, nothing is
\* under way and WORLD holds the open Tasks as they are, unless the pass reports
\* that it cannot project: a switch nobody authorised, a Task whose Run was
\* interrupted.
Recovers == <>[](Unfinal = {} /\ (Delivered \/ Switching \/ Unreadable))

\* "The caller must have completed the authenticated WORLD reconcile before using
\* the new epoch" (ResetSourceRevision), in its weakest form: WORLD is in the epoch
\* of the counter, or the reconcile that takes it there is still to be delivered.
BaselineKept ==
    head # None /\ Counted /\ head.epoch # counter.epoch =>
        \E i \in Unfinal : rows[i].envelope.reconcile

\* No commit is lost between five queries, a crash, an abandoned claim, a request
\* that failed for good and a late one, as long as no reconcile is lost.
Converges == []BaselineKept => Recovers
=============================================================================
