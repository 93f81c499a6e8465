----------------------------- MODULE StorageHost -----------------------------
(***************************************************************************)
(* The storage host protocol                                               *)
(* (internal/infrastructure/persistence/storagehost): CORE's client, the   *)
(* HTTP round trips between them and the host that owns the stores, with   *)
(* the journal that makes an operation idempotent by its op_id.            *)
(*                                                                         *)
(* One group, operation and payload: calls of another payload have another *)
(* identity and meet these only at writeMu.  The callers of Client.Call    *)
(* share one identity while its outcome is unresolved; a handle            *)
(* (NewOperation, Do) keeps its own for life.                              *)
(***************************************************************************)
EXTENDS Naturals

CONSTANTS
    Callers,        \* goroutines of CORE that use Client.Call
    Handles,        \* Operations of CORE, each used with Client.Do
    OpIds,          \* what newOpID can return
    Slots,          \* the round trips that can be under way at once
    None,           \* no op_id, no round trip
    MaxFaults,      \* bound of the model: journal appends that fail
    MaxRestarts     \* bound of the model: starts of the storage host

ASSUME StorageHostAssumption ==
    /\ Callers \cap Handles = {}
    /\ None \notin OpIds \cup Slots
    /\ MaxFaults \in Nat /\ MaxRestarts \in Nat

VARIABLES
    host,         \* "up", "down", or "refused": the journal does not open
    epoch,        \* the writer generation in the host's generation file
    index,        \* journal.index: the status of each op_id
    file,         \* the statuses a restart may read back for each op_id
    tail,         \* journal.jsonl: "clean", "torn" last line or "corrupt" inside
    serving,      \* the mutation that holds writeMu, and how far it is
    effects,      \* the owner store: how often each op_id was committed
    reconciles,   \* TRUE: the operation is recoverable (RegisterRecoverable)
    message,      \* the round trips
    generation,   \* Client.generation
    identity,     \* the entry of Client.pendingCalls
    call,         \* where each caller and each handle is
    pending,      \* Operation.pending
    issued,       \* history: the op_ids newOpID has returned
    told,         \* history: the op_ids whose caller was answered nil
    faults, restarts

journalVars == <<index, file, tail, faults>>
hostVars == <<host, epoch, serving, effects, reconciles, restarts>>
clientVars == <<generation, identity, call, pending, issued, told>>
vars == <<journalVars, hostVars, message, clientVars>>

Users == Callers \cup Handles

Status == {"absent", "begun", "done"}
Replies == {"done", "refused", "unknown", "stale"}
Steps == {"idle", "execute", "complete", "abort", "retry", "rebegin"}

NoMessage == [at |-> "free", op |-> None, epoch |-> 0, reply |-> "unknown"]
NoIdentity == [op |-> None, inFlight |-> 0, done |-> FALSE, failed |-> FALSE]
NotServing == [slot |-> None, step |-> "idle"]

TypeOK ==
    /\ host \in {"up", "down", "refused"}
    /\ epoch \in Nat
    /\ index \in [OpIds -> Status]
    /\ file \in [OpIds -> (SUBSET (Status \cup {"aborted"})) \ {{}}]
    /\ tail \in {"clean", "torn", "corrupt"}
    /\ serving \in [slot : Slots \cup {None}, step : Steps]
    /\ effects \in [OpIds -> Nat]
    /\ reconciles \in BOOLEAN
    /\ message \in [Slots -> [at : {"free", "sent", "answered", "broken"}, op : OpIds \cup {None},
                              epoch : Nat, reply : Replies]]
    /\ generation \in Nat
    /\ identity \in [op : OpIds \cup {None}, inFlight : Nat, done : BOOLEAN, failed : BOOLEAN]
    /\ call \in [Users -> [at : {"idle", "waiting", "resolving"}, op : OpIds \cup {None},
                           slot : Slots \cup {None}]]
    /\ pending \in [Handles -> BOOLEAN]
    /\ issued \subseteq OpIds
    /\ told \subseteq issued
    /\ faults \in Nat /\ restarts \in Nat

\* CORE has shaken hands with the host at startup, before it serves.
Init ==
    /\ host = "up" /\ epoch = 1
    /\ index = [op \in OpIds |-> "absent"]
    /\ file = [op \in OpIds |-> {"absent"}]
    /\ tail = "clean"
    /\ serving = NotServing
    /\ effects = [op \in OpIds |-> 0]
    /\ reconciles \in BOOLEAN
    /\ message = [s \in Slots |-> NoMessage]
    /\ generation = 1
    /\ identity = NoIdentity
    /\ call = [u \in Users |-> [at |-> "idle", op |-> None, slot |-> None]]
    /\ pending = [h \in Handles |-> FALSE]
    /\ issued = {} /\ told = {}
    /\ faults = 0 /\ restarts = 0
-----------------------------------------------------------------------------
(* The round trip.  A request may arrive late, after its caller has given  *)
(* up on it, or never; its answer may be lost.                             *)

Sent(op) == [at |-> "sent", op |-> op, epoch |-> generation, reply |-> "unknown"]

Awaited(s) == \E u \in Users : call[u].at = "waiting" /\ call[u].slot = s

\* The round trip ends with an answer, if anybody still waits for it.
Answer(s, reply) ==
    message' = [message EXCEPT ![s] = IF Awaited(s) THEN [@ EXCEPT !.at = "answered", !.reply = reply]
                                                    ELSE NoMessage]

\* postRawHook: no answer in time; the request may still be on its way.
GiveUpOn(s) ==
    message' = [message EXCEPT ![s] = IF @.at = "sent" THEN @ ELSE NoMessage]

Vanish(s) ==
    /\ message[s].at = "sent" /\ ~Awaited(s) /\ serving.slot # s
    /\ message' = [message EXCEPT ![s] = NoMessage]
    /\ UNCHANGED <<journalVars, hostVars, clientVars>>
-----------------------------------------------------------------------------
(* Client.Call.                                                            *)

\* newOpID.
Fresh == OpIds \ issued

\* prepare: the first member of a wave resets its outcomes.
Prepared(op) ==
    [op |-> op, inFlight |-> identity.inFlight + 1,
     done |-> identity.inFlight > 0 /\ identity.done,
     failed |-> identity.inFlight > 0 /\ identity.failed]

CallBegin(c) ==
    /\ call[c].at = "idle"
    /\ \E s \in Slots, op \in OpIds :
          /\ message[s] = NoMessage
          /\ IF identity.op = None THEN op \in Fresh ELSE op = identity.op
          /\ identity' = Prepared(op)
          /\ issued' = issued \cup {op}
          /\ message' = [message EXCEPT ![s] = Sent(op)]
          /\ call' = [call EXCEPT ![c] = [at |-> "waiting", op |-> op, slot |-> s]]
    /\ UNCHANGED <<journalVars, hostVars, generation, pending, told>>

\* Variant: the identity is dropped with the last call, whatever came of it.
FinishedForgetting(confirmed) ==
    IF identity.inFlight > 1 THEN [identity EXCEPT !.inFlight = @ - 1] ELSE NoIdentity

\* finishCall: the identity goes with the last call of a wave that saw DONE
\* and no failure.
Finished(confirmed) ==
    LET done   == identity.done \/ confirmed
        failed == identity.failed \/ ~confirmed
    IN  IF identity.inFlight > 1
        THEN [identity EXCEPT !.inFlight = @ - 1, !.done = done, !.failed = failed]
        ELSE IF done /\ ~failed THEN NoIdentity
        ELSE [identity EXCEPT !.inFlight = 0, !.done = FALSE, !.failed = FALSE]

CallEnd(c, confirmed) ==
    /\ identity' = Finished(confirmed)
    /\ told' = IF confirmed THEN told \cup {call[c].op} ELSE told
    /\ call' = [call EXCEPT ![c] = [at |-> "idle", op |-> None, slot |-> None]]

\* A done answer that cannot be decoded ends as outcome_unknown.
CallAnswered(c) ==
    /\ call[c].at = "waiting"
    /\ message[call[c].slot].at = "answered"
    /\ \/ message[call[c].slot].reply = "done" /\ CallEnd(c, TRUE)
       \/ CallEnd(c, FALSE)
    /\ message' = [message EXCEPT ![call[c].slot] = NoMessage]
    /\ UNCHANGED <<journalVars, hostVars, generation, pending, issued>>

CallLost(c) ==
    /\ call[c].at = "waiting"
    /\ GiveUpOn(call[c].slot)
    /\ call' = [call EXCEPT ![c].at = "resolving", ![c].slot = None]
    /\ UNCHANGED <<journalVars, hostVars, generation, identity, pending, issued, told>>

\* resolve: host.result answers from the journal; only DONE is an outcome.
Resolved(op) == host = "up" /\ index[op] = "done"

CallResolve(c) ==
    /\ call[c].at = "resolving"
    /\ \/ Resolved(call[c].op) /\ CallEnd(c, TRUE)
       \/ CallEnd(c, FALSE)
    /\ UNCHANGED <<journalVars, hostVars, message, generation, pending, issued>>
-----------------------------------------------------------------------------
(* Client.Do on a handle.                                                  *)

\* NewOperation gives the handle its op_id for life.
NewOperation(h) ==
    /\ call[h].op = None
    /\ \E op \in Fresh :
          /\ call' = [call EXCEPT ![h].op = op]
          /\ issued' = issued \cup {op}
    /\ UNCHANGED <<journalVars, hostVars, message, generation, identity, pending, told>>

Do(h) ==
    /\ call[h].at = "idle" /\ call[h].op # None
    /\ \/ /\ pending[h]
          /\ call' = [call EXCEPT ![h].at = "resolving"]
          /\ UNCHANGED message
       \/ /\ ~pending[h]
          /\ \E s \in Slots :
                /\ message[s] = NoMessage
                /\ message' = [message EXCEPT ![s] = Sent(call[h].op)]
                /\ call' = [call EXCEPT ![h].at = "waiting", ![h].slot = s]
    /\ UNCHANGED <<journalVars, hostVars, generation, identity, pending, issued, told>>

DoEnd(h, confirmed, unresolved) ==
    /\ pending' = [pending EXCEPT ![h] = unresolved]
    /\ told' = IF confirmed THEN told \cup {call[h].op} ELSE told
    /\ call' = [call EXCEPT ![h].at = "idle", ![h].slot = None]

DoAnswered(h) ==
    /\ call[h].at = "waiting"
    /\ LET m == message[call[h].slot]
       IN  /\ m.at = "answered"
           /\ \/ m.reply = "done" /\ DoEnd(h, TRUE, FALSE)
              \/ m.reply \in {"done", "unknown"} /\ DoEnd(h, FALSE, TRUE)
              \/ m.reply \in {"refused", "stale"} /\ DoEnd(h, FALSE, FALSE)
    /\ message' = [message EXCEPT ![call[h].slot] = NoMessage]
    /\ UNCHANGED <<journalVars, hostVars, generation, identity, issued>>

DoLost(h) ==
    /\ call[h].at = "waiting"
    /\ GiveUpOn(call[h].slot)
    /\ DoEnd(h, FALSE, TRUE)
    /\ UNCHANGED <<journalVars, hostVars, generation, identity, issued>>

\* resolveOperation.
DoResolve(h) ==
    /\ call[h].at = "resolving"
    /\ \/ Resolved(call[h].op) /\ DoEnd(h, TRUE, FALSE)
       \/ DoEnd(h, FALSE, TRUE)
    /\ UNCHANGED <<journalVars, hostVars, message, generation, identity, issued>>

\* The Task commit shakes hands again and sends the same operation once more.
Reconnect(h) ==
    /\ call[h].at = "idle" /\ pending[h]
    /\ host = "up"
    /\ generation' = epoch
    /\ pending' = [pending EXCEPT ![h] = FALSE]
    /\ UNCHANGED <<journalVars, hostVars, message, identity, call, issued, told>>
-----------------------------------------------------------------------------
(* The journal: one line per record, synced.                               *)

\* A line written behind a torn one makes one unreadable line of the two.
Written == tail' = IF tail = "clean" THEN "clean" ELSE "corrupt"

Journaled(op, record, status) ==
    /\ file' = [file EXCEPT ![op] = {record}]
    /\ index' = [index EXCEPT ![op] = status]
    /\ Written
    /\ UNCHANGED faults

\* Nothing, a part or all of the line is in the file when append fails.
NotJournaled(op, record) ==
    /\ faults < MaxFaults
    /\ faults' = faults + 1
    /\ \/ UNCHANGED <<file, tail>>
       \/ file' = [file EXCEPT ![op] = @ \cup {record}] /\ Written
       \/ tail' = (IF tail = "clean" THEN "torn" ELSE "corrupt") /\ UNCHANGED file
    /\ UNCHANGED index
-----------------------------------------------------------------------------
(* The host, one mutation at a time under writeMu.                         *)

At(step) == serving.step = step /\ host = "up"
Op == message[serving.slot].op

Serve(s, step) == serving' = [slot |-> s, step |-> step]
Reply(s, reply) == serving' = NotServing /\ Answer(s, reply)

\* ServeHTTP compares the generations before the mutation waits for writeMu.
Stale(s) ==
    /\ host = "up"
    /\ message[s].at = "sent" /\ serving.slot # s
    /\ message[s].epoch # epoch
    /\ Answer(s, "stale")
    /\ UNCHANGED <<journalVars, hostVars, clientVars>>

Admitted(s) ==
    /\ At("idle")
    /\ message[s].at = "sent"
    /\ message[s].epoch = epoch

Replay(s) ==
    /\ Admitted(s)
    /\ index[message[s].op] = "done"
    /\ Reply(s, "done")
    /\ UNCHANGED <<journalVars, host, epoch, effects, reconciles, restarts, clientVars>>

Begin(s) ==
    /\ Admitted(s)
    /\ index[message[s].op] = "absent"
    /\ \/ /\ Journaled(message[s].op, "begun", "begun")
          /\ Serve(s, "execute")
          /\ UNCHANGED message
       \/ /\ NotJournaled(message[s].op, "begun")
          /\ Reply(s, "refused")
    /\ UNCHANGED <<host, epoch, effects, reconciles, restarts, clientVars>>

\* Variant: an op_id without an outcome is executed again.
ReconcileBlindly(s) ==
    /\ Admitted(s)
    /\ index[message[s].op] = "begun"
    /\ Serve(s, "execute")
    /\ UNCHANGED <<journalVars, message, host, epoch, effects, reconciles, restarts, clientVars>>

\* A begun entry: only the owner's own record of the op_id can settle it.
Reconcile(s) ==
    /\ Admitted(s)
    /\ index[message[s].op] = "begun"
    /\ \/ /\ Reply(s, "unknown")
       \/ /\ reconciles
          /\ Serve(s, IF effects[message[s].op] > 0 THEN "complete" ELSE "retry")
          /\ UNCHANGED message
    /\ UNCHANGED <<journalVars, host, epoch, effects, reconciles, restarts, clientVars>>

\* ConfirmedNotCommitted: the identity is removed and begun again.
Retry ==
    /\ At("retry")
    /\ \/ Journaled(Op, "aborted", "absent") /\ Serve(serving.slot, "rebegin") /\ UNCHANGED message
       \/ NotJournaled(Op, "aborted") /\ Reply(serving.slot, "unknown")
    /\ UNCHANGED <<host, epoch, effects, reconciles, restarts, clientVars>>

Rebegin ==
    /\ At("rebegin")
    /\ \/ Journaled(Op, "begun", "begun") /\ Serve(serving.slot, "execute") /\ UNCHANGED message
       \/ NotJournaled(Op, "begun") /\ Reply(serving.slot, "unknown")
    /\ UNCHANGED <<host, epoch, effects, reconciles, restarts, clientVars>>

Committed == effects' = [effects EXCEPT ![Op] = @ + 1]

\* The owner commits or not; only a proven rollback tells the host which.
Execute ==
    /\ At("execute")
    /\ \/ Committed /\ Serve(serving.slot, "complete") /\ UNCHANGED message
       \/ Serve(serving.slot, "abort") /\ UNCHANGED <<effects, message>>
       \/ Reply(serving.slot, "unknown") /\ (Committed \/ UNCHANGED effects)
    /\ UNCHANGED <<journalVars, host, epoch, reconciles, restarts, clientVars>>

Complete ==
    /\ At("complete")
    /\ \/ Journaled(Op, "done", "done") /\ Reply(serving.slot, "done")
       \/ NotJournaled(Op, "done") /\ Reply(serving.slot, "unknown")
    /\ UNCHANGED <<host, epoch, effects, reconciles, restarts, clientVars>>

Abort ==
    /\ At("abort")
    /\ \/ Journaled(Op, "aborted", "absent") /\ Reply(serving.slot, "refused")
       \/ NotJournaled(Op, "aborted") /\ Reply(serving.slot, "unknown")
    /\ UNCHANGED <<host, epoch, effects, reconciles, restarts, clientVars>>

Serving == Retry \/ Rebegin \/ Execute \/ Complete \/ Abort

\* The process dies; the connection of the request it was serving breaks.
HostStops ==
    /\ host = "up"
    /\ host' = "down"
    /\ serving' = NotServing
    /\ message' = [s \in Slots |-> IF s # serving.slot THEN message[s]
                                   ELSE IF Awaited(s) THEN [message[s] EXCEPT !.at = "broken"]
                                   ELSE NoMessage]
    /\ UNCHANGED <<journalVars, epoch, effects, reconciles, restarts, clientVars>>

\* Variant: an aborted record is kept like any other.
ReplayedVerbatim(record) == record

\* apply: an aborted record removes the op_id.
Replayed(record) == IF record = "aborted" THEN "absent" ELSE record

\* openJournal: the next generation, then the records.  A torn last line is
\* cut off; an unreadable line inside the file is fatal.
HostStarts ==
    /\ host = "down"
    /\ restarts < MaxRestarts
    /\ restarts' = restarts + 1
    /\ epoch' = epoch + 1
    /\ \/ /\ tail = "corrupt"
          /\ host' = "refused"
          /\ UNCHANGED <<index, file, tail>>
       \/ /\ tail # "corrupt"
          /\ host' = "up"
          /\ tail' = "clean"
          /\ \E read \in [OpIds -> Status \cup {"aborted"}] :
                /\ \A op \in OpIds : read[op] \in file[op]
                /\ file' = [op \in OpIds |-> {read[op]}]
                /\ index' = [op \in OpIds |-> Replayed(read[op])]
    /\ UNCHANGED <<faults, serving, effects, reconciles, message, clientVars>>

Next ==
    \/ \E c \in Callers : CallBegin(c) \/ CallAnswered(c) \/ CallLost(c) \/ CallResolve(c)
    \/ \E h \in Handles : \/ NewOperation(h) \/ Do(h)
                          \/ DoAnswered(h) \/ DoLost(h) \/ DoResolve(h) \/ Reconnect(h)
    \/ \E s \in Slots : Vanish(s) \/ Stale(s) \/ Replay(s) \/ Begin(s) \/ Reconcile(s)
    \/ Serving
    \/ HostStops \/ HostStarts

Spec == Init /\ [][Next]_vars
-----------------------------------------------------------------------------
(* Properties.                                                             *)

\* Client and host implement an operation done once: neither a retry, nor a
\* request that arrives late, nor a restart between any two steps of an
\* operation commits it twice, and nil is answered for committed ones only.
Once == INSTANCE OperationOnce
ImplementsOnce == Once!Spec

\* An op_id the client has let go of is settled for good: its effect is there,
\* some caller was told so, and the journal on disk answers every copy of the
\* request that is still on its way.  Until then the payload keeps its op_id.
ReleasedIsSettled ==
    \A op \in issued \ {call[h].op : h \in Handles} :
        op # identity.op =>
            op \in told /\ effects[op] = 1 /\ file[op] = {"done"}
=============================================================================
