------------------------- MODULE StorageHostProofs -------------------------
(***************************************************************************)
(* The storage host protocol commits every operation at most once and      *)
(* gives an identity up only when it is settled, for every number of       *)
(* callers, handles, identities, round trips, faults and restarts.         *)
(*                                                                         *)
(* The argument.  What the journal file can be read back as says whether   *)
(* the owner has committed (Journal): a file that may lose or abort the    *)
(* operation belongs to one that has no effect, a file that may say done   *)
(* to one that has.  The host begins only what its index does not hold,    *)
(* and each step under writeMu knows the effect so far (Stage).  A file    *)
(* that says nothing but done never changes again, so an answer stays true *)
(* however late it arrives (Carried), and the client may forget.  That no  *)
(* caller is left with an identity the others have dropped needs that      *)
(* inFlight is the number of callers that are under way (Shared).          *)
(***************************************************************************)
EXTENDS StorageHost, FiniteSetTheorems, TLAPS

Journal ==
    \A op \in OpIds :
        /\ effects[op] \in {0, 1}
        /\ index[op] = "absent" => effects[op] = 0
        /\ "absent" \in file[op] \/ "aborted" \in file[op] => effects[op] = 0
        /\ "done" \in file[op] => effects[op] = 1
        /\ index[op] = "done" <=> file[op] = {"done"}

InService ==
    serving.step # "idle" =>
        /\ host = "up"
        /\ serving.slot \in Slots
        /\ message[serving.slot].at = "sent"
        /\ Op \in OpIds

Stage ==
    /\ serving.step = "execute" => index[Op] = "begun" /\ file[Op] = {"begun"} /\ effects[Op] = 0
    /\ serving.step = "complete" => index[Op] = "begun" /\ effects[Op] = 1
    /\ serving.step \in {"abort", "retry"} => index[Op] = "begun" /\ effects[Op] = 0
    /\ serving.step = "rebegin" => index[Op] = "absent"

Carried ==
    \A s \in Slots :
        /\ message[s].at # "free" => message[s].op \in OpIds
        /\ message[s].at = "answered" /\ message[s].reply = "done" => file[message[s].op] = {"done"}

Waiting(u) == call[u].at = "waiting"

Correspond ==
    /\ \A u \in Users : Waiting(u) =>
          /\ call[u].slot \in Slots
          /\ message[call[u].slot].at # "free"
          /\ message[call[u].slot].op = call[u].op
    /\ \A u, v \in Users : Waiting(u) /\ Waiting(v) /\ call[u].slot = call[v].slot => u = v

Owned ==
    /\ \A u \in Users : call[u].at # "idle" => call[u].op \in issued
    /\ \A h \in Handles : call[h].op # None => call[h].op \in issued

\* The callers that share the identity.
Active == {c \in Callers : call[c].at # "idle"}

Shared ==
    /\ IsFiniteSet(Active)
    /\ identity.inFlight = Cardinality(Active)
    /\ \A c \in Active : call[c].op = identity.op
    /\ identity.op # None => identity.op \in issued
    /\ identity.done => identity.op \in told /\ file[identity.op] = {"done"}

Truthful == \A op \in told : effects[op] = 1

\* The type invariant, in four parts.
MessageRecord == [at : {"free", "sent", "answered", "broken"}, op : OpIds \cup {None},
                  epoch : Nat, reply : Replies]
CallRecord == [at : {"idle", "waiting", "resolving"}, op : OpIds \cup {None},
               slot : Slots \cup {None}]
IdentityRecord == [op : OpIds \cup {None}, inFlight : Nat, done : BOOLEAN, failed : BOOLEAN]

FileRecords == (SUBSET (Status \cup {"aborted"})) \ {{}}

HostTypes ==
    /\ host \in {"up", "down", "refused"}
    /\ epoch \in Nat
    /\ serving \in [slot : Slots \cup {None}, step : Steps]
    /\ effects \in [OpIds -> Nat]
    /\ reconciles \in BOOLEAN
    /\ restarts \in Nat

JournalTypes ==
    /\ index \in [OpIds -> Status]
    /\ file \in [OpIds -> FileRecords]
    /\ tail \in {"clean", "torn", "corrupt"}
    /\ faults \in Nat

MessageTypes == message \in [Slots -> MessageRecord]

ClientTypes ==
    /\ generation \in Nat
    /\ identity \in IdentityRecord
    /\ call \in [Users -> CallRecord]
    /\ pending \in [Handles -> BOOLEAN]
    /\ issued \subseteq OpIds
    /\ told \subseteq issued

IInv ==
    /\ HostTypes /\ JournalTypes /\ MessageTypes /\ ClientTypes
    /\ Journal /\ InService /\ Stage /\ Carried
    /\ Correspond /\ Owned /\ Shared /\ Truthful /\ ReleasedIsSettled

LEMMA TypeParts == TypeOK <=> HostTypes /\ JournalTypes /\ MessageTypes /\ ClientTypes
  <1>1. TypeOK => HostTypes /\ JournalTypes
    BY Zenon DEF TypeOK, HostTypes, JournalTypes, FileRecords
  <1>2. TypeOK => MessageTypes /\ ClientTypes
    BY Zenon DEF TypeOK, MessageTypes, ClientTypes, MessageRecord, CallRecord, IdentityRecord
  <1>3. HostTypes /\ JournalTypes /\ MessageTypes /\ ClientTypes => TypeOK
    BY Zenon DEF TypeOK, HostTypes, JournalTypes, MessageTypes, ClientTypes, MessageRecord,
                 CallRecord, IdentityRecord, FileRecords
  <1>4. QED
    BY <1>1, <1>2, <1>3

LEMMA FileRecordsFacts ==
    ASSUME NEW record \in Status \cup {"aborted"}
    PROVE  /\ {record} \in FileRecords
           /\ \A records \in FileRecords : records \cup {record} \in FileRecords
  BY Zenon DEF FileRecords

LEMMA IInvInit == Init => IInv
  <1> SUFFICES ASSUME Init PROVE IInv
    OBVIOUS
  <1>1. HostTypes /\ JournalTypes
    <2>1. {"absent"} \in FileRecords
      BY FileRecordsFacts DEF Status
    <2>2. QED
      BY <2>1 DEF Init, HostTypes, JournalTypes, NotServing, Status, Steps
  <1>2. MessageTypes
    BY DEF Init, MessageTypes, MessageRecord, NoMessage, Replies
  <1>3. ClientTypes
    BY DEF Init, ClientTypes, IdentityRecord, CallRecord, NoIdentity
  <1>4. Journal /\ InService /\ Stage /\ Carried
    BY DEF Init, Journal, InService, Stage, Carried, NotServing, NoMessage
  <1>5. Correspond /\ Owned
    BY StorageHostAssumption DEF Init, Correspond, Waiting, Owned, Users
  <1>6. Active = {}
    BY DEF Init, Active, Users
  <1>7. Shared
    BY <1>6, FS_EmptySet DEF Init, Shared, NoIdentity
  <1>8. Truthful /\ ReleasedIsSettled
    BY DEF Init, Truthful, ReleasedIsSettled
  <1>9. QED
    BY <1>1, <1>2, <1>3, <1>4, <1>5, <1>7, <1>8 DEF IInv
-----------------------------------------------------------------------------
(* What the helpers of the host do.                                        *)

\* An operation that is settled on disk, or that has had its effect, stays so.
SettledKept ==
    \A op \in OpIds : /\ file[op] = {"done"} => file'[op] = {"done"}
                      /\ effects[op] = 1 => effects'[op] = 1

\* A message somebody waits for is not taken away.
KeepsAwaited ==
    \A s \in Slots : Awaited(s) /\ message[s].at # "free" =>
        message'[s].at # "free" /\ message'[s].op = message[s].op

LEMMA JournaledFacts ==
    ASSUME JournalTypes, NEW op \in OpIds, NEW record \in Status \cup {"aborted"},
           NEW status \in Status, Journaled(op, record, status)
    PROVE  /\ JournalTypes'
           /\ file'[op] = {record} /\ index'[op] = status
           /\ \A x \in OpIds \ {op} : file'[x] = file[x] /\ index'[x] = index[x]
  BY FileRecordsFacts DEF JournalTypes, Journaled, Written

LEMMA NotJournaledFacts ==
    ASSUME JournalTypes, NEW op \in OpIds, NEW record \in Status \cup {"aborted"},
           NotJournaled(op, record)
    PROVE  /\ JournalTypes'
           /\ file'[op] \in {file[op], file[op] \cup {record}}
           /\ \A x \in OpIds \ {op} : file'[x] = file[x]
           /\ \A x \in OpIds : index'[x] = index[x]
  <1>1. file[op] \cup {record} \in FileRecords
    BY FileRecordsFacts DEF JournalTypes
  <1>2. tail' \in {"clean", "torn", "corrupt"} /\ faults' \in Nat
    BY DEF JournalTypes, NotJournaled, Written
  <1>3. file' \in [OpIds -> FileRecords]
    BY <1>1 DEF JournalTypes, NotJournaled
  <1>4. QED
    BY <1>2, <1>3 DEF JournalTypes, NotJournaled

LEMMA AnswerFacts ==
    ASSUME MessageTypes, Carried, SettledKept, NEW s \in Slots, message[s].at = "sent",
           NEW reply \in Replies, Answer(s, reply),
           reply = "done" => file'[message[s].op] = {"done"}
    PROVE  MessageTypes' /\ Carried' /\ KeepsAwaited
  <1>1. message[s] \in MessageRecord
    BY DEF MessageTypes
  <1>2. \A x \in Slots \ {s} : message'[x] = message[x]
    BY DEF MessageTypes, Answer
  <1>3. CASE Awaited(s)
    <2>1. message'[s] = [message[s] EXCEPT !.at = "answered", !.reply = reply]
      BY <1>3 DEF MessageTypes, Answer
    <2>2. /\ message'[s] \in MessageRecord
          /\ message'[s].at = "answered" /\ message'[s].op = message[s].op
          /\ message'[s].reply = reply
      BY <1>1, <2>1 DEF MessageRecord
    <2>3. MessageTypes'
      BY <2>2, <1>2 DEF MessageTypes, Answer
    <2>4. QED
      BY <2>2, <2>3, <1>2 DEF Carried, KeepsAwaited, SettledKept
  <1>4. CASE ~Awaited(s)
    <2>1. message'[s] = NoMessage
      BY <1>4 DEF MessageTypes, Answer
    <2>2. message'[s] \in MessageRecord /\ message'[s].at = "free"
      BY <2>1 DEF MessageRecord, NoMessage, Replies
    <2>3. MessageTypes'
      BY <2>2, <1>2 DEF MessageTypes, Answer
    <2>4. QED
      BY <1>4, <2>2, <2>3, <1>2 DEF Carried, KeepsAwaited, SettledKept
  <1>5. QED
    BY <1>3, <1>4

LEMMA SilenceFacts ==
    ASSUME MessageTypes, Carried, SettledKept, UNCHANGED message
    PROVE  MessageTypes' /\ Carried' /\ KeepsAwaited
  BY DEF MessageTypes, Carried, SettledKept, KeepsAwaited

\* The client's side of the invariant through a step of the host.
LEMMA ClientKept ==
    ASSUME IInv, UNCHANGED clientVars, SettledKept, KeepsAwaited
    PROVE  ClientTypes' /\ Correspond' /\ Owned' /\ Shared' /\ Truthful' /\ ReleasedIsSettled'
  <1> USE DEF clientVars
  <1>1. ClientTypes' /\ Owned'
    BY DEF IInv, ClientTypes, Owned
  <1>2. Correspond'
    <2>1. \A u \in Users : Waiting(u) => Awaited(call[u].slot)
      BY DEF Waiting, Awaited
    <2>2. QED
      BY <2>1 DEF IInv, Correspond, Waiting, KeepsAwaited
  <1>3. issued \subseteq OpIds /\ told \subseteq OpIds
    BY DEF IInv, ClientTypes
  <1>4. Shared'
    <2>1. Active' = Active
      BY DEF Active
    <2>2. QED
      BY <2>1, <1>3 DEF IInv, Shared, SettledKept
  <1>5. Truthful' /\ ReleasedIsSettled'
    BY <1>3 DEF IInv, Truthful, ReleasedIsSettled, SettledKept
  <1>6. QED
    BY <1>1, <1>2, <1>4, <1>5

\* A step that concerns one operation leaves the journal of the others.
LEMMA JournalMove ==
    ASSUME Journal, NEW op \in OpIds,
           \A x \in OpIds \ {op} : /\ file'[x] = file[x] /\ index'[x] = index[x]
                                   /\ effects'[x] = effects[x],
           /\ effects'[op] \in {0, 1}
           /\ index'[op] = "absent" => effects'[op] = 0
           /\ "absent" \in file'[op] \/ "aborted" \in file'[op] => effects'[op] = 0
           /\ "done" \in file'[op] => effects'[op] = 1
           /\ index'[op] = "done" <=> file'[op] = {"done"}
    PROVE  Journal'
  BY DEF Journal
-----------------------------------------------------------------------------
(* The steps of the host.                                                  *)

\* What a step of the host owes the invariant besides the client's side.
HostKept ==
    /\ HostTypes' /\ JournalTypes' /\ MessageTypes'
    /\ Journal' /\ InService' /\ Stage' /\ Carried'
    /\ SettledKept /\ KeepsAwaited

LEMMA HostStep ==
    ASSUME IInv, UNCHANGED clientVars, HostKept
    PROVE  IInv'
  BY ClientKept DEF HostKept, IInv

\* The request under service, which a step of executeMutating is about.
LEMMA ServedFacts ==
    ASSUME IInv, NEW step \in Steps \ {"idle"}, At(step)
    PROVE  /\ serving.slot \in Slots
           /\ message[serving.slot].at = "sent"
           /\ Op \in OpIds /\ Op = message[serving.slot].op
           /\ host = "up"
  BY DEF IInv, InService, At, Op

LEMMA ReplyHost ==
    ASSUME HostTypes, NEW s, NEW reply, Reply(s, reply), UNCHANGED <<host, epoch, reconciles, restarts>>,
           effects' \in [OpIds -> Nat]
    PROVE  HostTypes' /\ InService' /\ Stage'
  BY DEF HostTypes, Reply, NotServing, InService, Stage, Steps

LEMMA ServeHost ==
    ASSUME HostTypes, NEW s \in Slots, NEW step \in Steps, Serve(s, step),
           UNCHANGED <<message, host, epoch, reconciles, restarts>>, effects' \in [OpIds -> Nat],
           host = "up", message[s].at = "sent", message[s].op \in OpIds
    PROVE  /\ HostTypes' /\ InService'
           /\ serving'.step = step /\ Op' = message[s].op
  BY DEF HostTypes, Serve, InService, Op

LEMMA VanishStep ==
    ASSUME IInv, NEW s \in Slots, Vanish(s)
    PROVE  IInv'
  <1>1. UNCHANGED <<journalVars, hostVars, clientVars>> /\ ~Awaited(s) /\ serving.slot # s
    BY DEF Vanish
  <1>2. /\ message'[s] = NoMessage
        /\ \A x \in Slots \ {s} : message'[x] = message[x]
    BY DEF IInv, MessageTypes, Vanish
  <1>3. NoMessage \in MessageRecord
    BY DEF NoMessage, MessageRecord, Replies
  <1>4. MessageTypes'
    BY <1>3 DEF IInv, MessageTypes, Vanish
  <1>5. Carried' /\ KeepsAwaited /\ SettledKept
    BY <1>1, <1>2 DEF IInv, Carried, KeepsAwaited, SettledKept, NoMessage, journalVars, hostVars
  <1>6. HostTypes' /\ JournalTypes' /\ Journal'
    BY <1>1 DEF IInv, HostTypes, JournalTypes, Journal, journalVars, hostVars
  <1>7. InService' /\ Stage'
    BY <1>1, <1>2 DEF IInv, InService, Stage, Op, journalVars, hostVars
  <1>8. QED
    BY <1>1, <1>4, <1>5, <1>6, <1>7, HostStep DEF HostKept

LEMMA StaleStep ==
    ASSUME IInv, NEW s \in Slots, Stale(s)
    PROVE  IInv'
  <1>1. UNCHANGED <<journalVars, hostVars, clientVars>> /\ message[s].at = "sent" /\ serving.slot # s
    BY DEF Stale
  <1>2. SettledKept
    BY <1>1 DEF SettledKept, journalVars, hostVars
  <1>3. MessageTypes' /\ Carried' /\ KeepsAwaited
    BY <1>1, <1>2, AnswerFacts DEF IInv, Stale, Replies
  <1>4. \A x \in Slots \ {s} : message'[x] = message[x]
    BY DEF IInv, MessageTypes, Stale, Answer
  <1>5. HostTypes' /\ JournalTypes' /\ Journal'
    BY <1>1 DEF IInv, HostTypes, JournalTypes, Journal, journalVars, hostVars
  <1>6. InService' /\ Stage'
    BY <1>1, <1>4 DEF IInv, InService, Stage, Op, journalVars, hostVars
  <1>7. QED
    BY <1>1, <1>2, <1>3, <1>5, <1>6, HostStep DEF HostKept

LEMMA ReplayStep ==
    ASSUME IInv, NEW s \in Slots, Replay(s)
    PROVE  IInv'
  <1>1. /\ UNCHANGED <<journalVars, host, epoch, effects, reconciles, restarts, clientVars>>
        /\ message[s].at = "sent" /\ index[message[s].op] = "done" /\ Reply(s, "done")
    BY DEF Replay, Admitted
  <1>2. SettledKept
    BY <1>1 DEF SettledKept, journalVars
  <1>3. file'[message[s].op] = {"done"}
    BY <1>1 DEF IInv, Carried, Journal, journalVars
  <1>4. MessageTypes' /\ Carried' /\ KeepsAwaited
    BY <1>1, <1>2, <1>3, AnswerFacts DEF IInv, Reply, Replies
  <1>5. JournalTypes' /\ Journal'
    BY <1>1 DEF IInv, JournalTypes, Journal, journalVars
  <1>6. HostTypes' /\ InService' /\ Stage'
    BY <1>1, ReplyHost DEF IInv, HostTypes
  <1>7. QED
    BY <1>1, <1>2, <1>4, <1>5, <1>6, HostStep DEF HostKept

LEMMA BeginStep ==
    ASSUME IInv, NEW s \in Slots, Begin(s)
    PROVE  IInv'
  <1> DEFINE op == message[s].op
  <1>1. /\ UNCHANGED <<host, epoch, effects, reconciles, restarts, clientVars>>
        /\ message[s].at = "sent" /\ host = "up" /\ op \in OpIds
        /\ index[op] = "absent" /\ effects[op] = 0
    BY DEF IInv, Carried, Journal, Begin, Admitted, At
  <1>2. effects' \in [OpIds -> Nat]
    BY <1>1 DEF IInv, HostTypes
  <1>3. CASE Journaled(op, "begun", "begun") /\ Serve(s, "execute") /\ UNCHANGED message
    <2>1. /\ JournalTypes' /\ file'[op] = {"begun"} /\ index'[op] = "begun"
          /\ \A x \in OpIds \ {op} : file'[x] = file[x] /\ index'[x] = index[x]
      BY <1>1, <1>3, JournaledFacts DEF IInv, Status
    <2>2. Journal' /\ SettledKept
      <3>1. file[op] # {"done"}
        BY <1>1 DEF IInv, Journal
      <3>2. QED
        BY <1>1, <2>1, <3>1, JournalMove DEF IInv, SettledKept
    <2>3. MessageTypes' /\ Carried' /\ KeepsAwaited
      BY <1>3, <2>2, SilenceFacts DEF IInv
    <2>4. HostTypes' /\ InService' /\ serving'.step = "execute" /\ Op' = op
      BY <1>1, <1>2, <1>3, ServeHost DEF IInv, Steps
    <2>5. Stage'
      BY <1>1, <2>1, <2>4 DEF Stage
    <2>6. QED
      BY <1>1, <2>1, <2>2, <2>3, <2>4, <2>5, HostStep DEF HostKept
  <1>4. CASE NotJournaled(op, "begun") /\ Reply(s, "refused")
    <2>1. /\ JournalTypes' /\ file'[op] \in {file[op], file[op] \cup {"begun"}}
          /\ \A x \in OpIds \ {op} : file'[x] = file[x]
          /\ \A x \in OpIds : index'[x] = index[x]
      BY <1>1, <1>4, NotJournaledFacts DEF IInv, Status
    <2>2. Journal' /\ SettledKept
      <3>1. "done" \notin file[op] /\ file[op] # {"done"}
        BY <1>1 DEF IInv, Journal
      <3>2. "done" \notin file'[op]
        BY <2>1, <3>1
      <3>3. QED
        BY <1>1, <2>1, <3>1, <3>2, JournalMove DEF IInv, SettledKept
    <2>3. MessageTypes' /\ Carried' /\ KeepsAwaited
      BY <1>1, <1>4, <2>2, AnswerFacts DEF IInv, Reply, Replies
    <2>4. HostTypes' /\ InService' /\ Stage'
      BY <1>1, <1>2, <1>4, ReplyHost DEF IInv
    <2>5. QED
      BY <1>1, <2>1, <2>2, <2>3, <2>4, HostStep DEF HostKept
  <1>5. QED
    BY <1>3, <1>4 DEF Begin

\* A step that only answers the request under service.
LEMMA ReplyOnly ==
    ASSUME IInv, NEW s \in Slots, NEW reply \in Replies \ {"done"}, message[s].at = "sent",
           Reply(s, reply), Journal', SettledKept, JournalTypes', effects' \in [OpIds -> Nat],
           UNCHANGED <<host, epoch, reconciles, restarts, clientVars>>
    PROVE  IInv'
  <1>1. MessageTypes' /\ Carried' /\ KeepsAwaited
    BY AnswerFacts DEF IInv, Reply
  <1>2. HostTypes' /\ InService' /\ Stage'
    BY ReplyHost DEF IInv
  <1>3. QED
    BY <1>1, <1>2, HostStep DEF HostKept

\* A step that leaves the journal and the owner's store alone.
LEMMA JournalKept ==
    ASSUME IInv, UNCHANGED <<journalVars, effects>>
    PROVE  JournalTypes' /\ Journal' /\ SettledKept /\ effects' \in [OpIds -> Nat]
  BY DEF IInv, JournalTypes, HostTypes, Journal, SettledKept, journalVars

LEMMA ReconcileStep ==
    ASSUME IInv, NEW s \in Slots, Reconcile(s)
    PROVE  IInv'
  <1> DEFINE op == message[s].op
  <1>1. /\ UNCHANGED <<journalVars, host, epoch, effects, reconciles, restarts, clientVars>>
        /\ message[s].at = "sent" /\ host = "up" /\ op \in OpIds
        /\ index[op] = "begun" /\ effects[op] \in {0, 1}
    BY DEF IInv, Carried, Journal, Reconcile, Admitted, At
  <1>2. JournalTypes' /\ Journal' /\ SettledKept /\ effects' \in [OpIds -> Nat]
    BY <1>1, JournalKept
  <1>3. CASE Reply(s, "unknown")
    BY <1>1, <1>2, <1>3, ReplyOnly DEF Replies
  <1>4. CASE /\ Serve(s, IF effects[op] > 0 THEN "complete" ELSE "retry")
             /\ UNCHANGED message
    <2>1. MessageTypes' /\ Carried' /\ KeepsAwaited
      BY <1>2, <1>4, SilenceFacts DEF IInv
    <2>2. PICK step \in {"complete", "retry"} :
              Serve(s, step) /\ (step = "complete" <=> effects[op] = 1)
      BY <1>1, <1>4
    <2>3. HostTypes' /\ InService' /\ serving'.step = step /\ Op' = op
      BY <1>1, <1>2, <1>4, <2>2, ServeHost DEF IInv, Steps
    <2>4. Stage'
      BY <1>1, <2>2, <2>3 DEF Stage, journalVars
    <2>5. QED
      BY <1>1, <1>2, <2>1, <2>3, <2>4, HostStep DEF HostKept
  <1>5. QED
    BY <1>3, <1>4 DEF Reconcile

\* A step of the mutation under service that has journaled its record and goes on.
LEMMA ServeOn ==
    ASSUME IInv, NEW step \in Steps, Serve(serving.slot, step), Stage',
           serving.step # "idle", Journal', SettledKept, JournalTypes',
           effects' \in [OpIds -> Nat],
           UNCHANGED <<message, host, epoch, reconciles, restarts, clientVars>>
    PROVE  IInv'
  <1>1. /\ serving.slot \in Slots /\ message[serving.slot].at = "sent"
        /\ message[serving.slot].op \in OpIds /\ host = "up"
    BY DEF IInv, InService, Op
  <1>2. MessageTypes' /\ Carried' /\ KeepsAwaited
    BY SilenceFacts DEF IInv
  <1>3. HostTypes' /\ InService'
    BY <1>1, ServeHost DEF IInv
  <1>4. QED
    BY <1>2, <1>3, HostStep DEF HostKept

\* An append that fails leaves what Journal says, as long as its record does
\* not contradict the effect.
LEMMA NotJournaledKept ==
    ASSUME IInv, NEW op \in OpIds, NEW record \in Status \cup {"aborted"},
           NotJournaled(op, record), UNCHANGED effects, index[op] # "done",
           record \in {"absent", "aborted"} => effects[op] = 0,
           record = "done" => effects[op] = 1
    PROVE  JournalTypes' /\ Journal' /\ SettledKept
  <1>1. /\ JournalTypes' /\ file'[op] \in {file[op], file[op] \cup {record}}
        /\ \A x \in OpIds \ {op} : file'[x] = file[x]
        /\ \A x \in OpIds : index'[x] = index[x]
    BY NotJournaledFacts DEF IInv
  <1>2. /\ effects[op] \in {0, 1} /\ file[op] # {"done"}
        /\ "absent" \in file[op] \/ "aborted" \in file[op] => effects[op] = 0
        /\ "done" \in file[op] => effects[op] = 1
        /\ index[op] = "absent" => effects[op] = 0
    BY DEF IInv, Journal
  <1>3. file[op] # {}
    BY DEF IInv, JournalTypes, FileRecords
  <1>4. file'[op] # {"done"}
    BY <1>1, <1>2, <1>3
  <1>5. /\ "absent" \in file'[op] \/ "aborted" \in file'[op] => effects[op] = 0
        /\ "done" \in file'[op] => effects[op] = 1
    BY <1>1, <1>2
  <1>6. Journal'
    BY <1>1, <1>2, <1>4, <1>5, JournalMove DEF IInv
  <1>7. SettledKept
    BY <1>1, <1>2 DEF SettledKept
  <1>8. QED
    BY <1>1, <1>6, <1>7

\* A record that is written and agrees with the effect.
LEMMA JournaledKept ==
    ASSUME IInv, NEW op \in OpIds, NEW record \in Status \cup {"aborted"}, NEW status \in Status,
           Journaled(op, record, status), UNCHANGED effects, index[op] # "done",
           record \in {"absent", "aborted"} \/ status = "absent" => effects[op] = 0,
           record = "done" => effects[op] = 1, record = "done" <=> status = "done"
    PROVE  /\ JournalTypes' /\ Journal' /\ SettledKept
           /\ file'[op] = {record} /\ index'[op] = status
  <1>1. /\ JournalTypes' /\ file'[op] = {record} /\ index'[op] = status
        /\ \A x \in OpIds \ {op} : file'[x] = file[x] /\ index'[x] = index[x]
    BY JournaledFacts DEF IInv
  <1>2. effects[op] \in {0, 1} /\ file[op] # {"done"}
    BY DEF IInv, Journal
  <1>3. Journal'
    BY <1>1, <1>2, JournalMove DEF IInv
  <1>4. QED
    BY <1>1, <1>2, <1>3 DEF SettledKept

LEMMA EffectsType == IInv /\ UNCHANGED effects => effects' \in [OpIds -> Nat]
  BY DEF IInv, HostTypes

LEMMA RetryStep ==
    ASSUME IInv, Retry
    PROVE  IInv'
  <1>1. /\ serving.slot \in Slots /\ message[serving.slot].at = "sent" /\ Op \in OpIds
        /\ serving.step = "retry" /\ index[Op] = "begun" /\ effects[Op] = 0
        /\ UNCHANGED <<host, epoch, effects, reconciles, restarts, clientVars>>
    BY ServedFacts DEF Retry, At, Steps, IInv, Stage
  <1>2. effects' \in [OpIds -> Nat]
    BY <1>1, EffectsType
  <1>3. CASE Journaled(Op, "aborted", "absent") /\ Serve(serving.slot, "rebegin") /\ UNCHANGED message
    <2>1. JournalTypes' /\ Journal' /\ SettledKept /\ index'[Op] = "absent"
      BY <1>1, <1>3, JournaledKept DEF Status
    <2>2. Stage'
      BY <1>1, <1>3, <2>1 DEF Stage, Serve, Op
    <2>3. QED
      BY <1>1, <1>2, <1>3, <2>1, <2>2, ServeOn DEF Steps
  <1>4. CASE NotJournaled(Op, "aborted") /\ Reply(serving.slot, "unknown")
    <2>1. JournalTypes' /\ Journal' /\ SettledKept
      BY <1>1, <1>4, NotJournaledKept
    <2>2. QED
      BY <1>1, <1>2, <1>4, <2>1, ReplyOnly DEF Replies
  <1>5. QED
    BY <1>3, <1>4 DEF Retry

LEMMA RebeginStep ==
    ASSUME IInv, Rebegin
    PROVE  IInv'
  <1>1. /\ serving.slot \in Slots /\ message[serving.slot].at = "sent" /\ Op \in OpIds
        /\ serving.step = "rebegin" /\ index[Op] = "absent" /\ effects[Op] = 0
        /\ UNCHANGED <<host, epoch, effects, reconciles, restarts, clientVars>>
    BY ServedFacts DEF Rebegin, At, Steps, IInv, Stage, Journal
  <1>2. effects' \in [OpIds -> Nat]
    BY <1>1, EffectsType
  <1>3. CASE Journaled(Op, "begun", "begun") /\ Serve(serving.slot, "execute") /\ UNCHANGED message
    <2>1. /\ JournalTypes' /\ Journal' /\ SettledKept
          /\ file'[Op] = {"begun"} /\ index'[Op] = "begun"
      BY <1>1, <1>3, JournaledKept DEF Status
    <2>2. Stage'
      BY <1>1, <1>3, <2>1 DEF Stage, Serve, Op
    <2>3. QED
      BY <1>1, <1>2, <1>3, <2>1, <2>2, ServeOn DEF Steps
  <1>4. CASE NotJournaled(Op, "begun") /\ Reply(serving.slot, "unknown")
    <2>1. JournalTypes' /\ Journal' /\ SettledKept
      BY <1>1, <1>4, NotJournaledKept DEF Status
    <2>2. QED
      BY <1>1, <1>2, <1>4, <2>1, ReplyOnly DEF Replies
  <1>5. QED
    BY <1>3, <1>4 DEF Rebegin

LEMMA ExecuteStep ==
    ASSUME IInv, Execute
    PROVE  IInv'
  <1>1. /\ serving.slot \in Slots /\ message[serving.slot].at = "sent" /\ Op \in OpIds
        /\ serving.step = "execute"
        /\ index[Op] = "begun" /\ file[Op] = {"begun"} /\ effects[Op] = 0
        /\ UNCHANGED <<journalVars, host, epoch, reconciles, restarts, clientVars>>
    BY ServedFacts DEF Execute, At, Steps, IInv, Stage
  <1>2. ASSUME Committed
        PROVE  /\ Journal' /\ SettledKept /\ JournalTypes'
               /\ effects' \in [OpIds -> Nat] /\ effects'[Op] = 1
    <2>1. /\ effects' \in [OpIds -> Nat] /\ effects'[Op] = 1
          /\ \A x \in OpIds \ {Op} : effects'[x] = effects[x]
      BY <1>1, <1>2 DEF Committed, IInv, HostTypes
    <2>2. Journal'
      BY <1>1, <2>1, JournalMove DEF IInv, journalVars
    <2>3. SettledKept /\ JournalTypes'
      BY <1>1, <2>1 DEF SettledKept, IInv, JournalTypes, journalVars
    <2>4. QED
      BY <2>1, <2>2, <2>3
  <1>3. ASSUME UNCHANGED effects
        PROVE  Journal' /\ SettledKept /\ JournalTypes' /\ effects' \in [OpIds -> Nat]
    BY <1>1, <1>3, JournalKept
  <1>4. CASE Committed /\ Serve(serving.slot, "complete") /\ UNCHANGED message
    <2>1. Stage'
      BY <1>1, <1>2, <1>4 DEF Stage, Serve, Op, journalVars
    <2>2. QED
      BY <1>1, <1>2, <1>4, <2>1, ServeOn DEF Steps
  <1>5. CASE Serve(serving.slot, "abort") /\ UNCHANGED <<effects, message>>
    <2>1. Stage'
      BY <1>1, <1>5 DEF Stage, Serve, Op, journalVars
    <2>2. QED
      BY <1>1, <1>3, <1>5, <2>1, ServeOn DEF Steps
  <1>6. CASE Reply(serving.slot, "unknown") /\ (Committed \/ UNCHANGED effects)
    BY <1>1, <1>2, <1>3, <1>6, ReplyOnly DEF Replies
  <1>7. QED
    BY <1>4, <1>5, <1>6 DEF Execute

LEMMA CompleteStep ==
    ASSUME IInv, Complete
    PROVE  IInv'
  <1>1. /\ serving.slot \in Slots /\ message[serving.slot].at = "sent"
        /\ Op \in OpIds /\ Op = message[serving.slot].op
        /\ index[Op] = "begun" /\ effects[Op] = 1
        /\ UNCHANGED <<host, epoch, effects, reconciles, restarts, clientVars>>
    BY ServedFacts DEF Complete, At, Steps, IInv, Stage
  <1>2. effects' \in [OpIds -> Nat]
    BY <1>1, EffectsType
  <1>3. CASE Journaled(Op, "done", "done") /\ Reply(serving.slot, "done")
    <2>1. JournalTypes' /\ Journal' /\ SettledKept /\ file'[Op] = {"done"}
      BY <1>1, <1>3, JournaledKept DEF Status
    <2>2. MessageTypes' /\ Carried' /\ KeepsAwaited
      BY <1>1, <1>3, <2>1, AnswerFacts DEF IInv, Reply, Replies
    <2>3. HostTypes' /\ InService' /\ Stage'
      BY <1>1, <1>2, <1>3, ReplyHost DEF IInv
    <2>4. QED
      BY <1>1, <2>1, <2>2, <2>3, HostStep DEF HostKept
  <1>4. CASE NotJournaled(Op, "done") /\ Reply(serving.slot, "unknown")
    <2>1. JournalTypes' /\ Journal' /\ SettledKept
      BY <1>1, <1>4, NotJournaledKept DEF Status
    <2>2. QED
      BY <1>1, <1>2, <1>4, <2>1, ReplyOnly DEF Replies
  <1>5. QED
    BY <1>3, <1>4 DEF Complete

LEMMA AbortStep ==
    ASSUME IInv, Abort
    PROVE  IInv'
  <1>1. /\ serving.slot \in Slots /\ message[serving.slot].at = "sent" /\ Op \in OpIds
        /\ index[Op] = "begun" /\ effects[Op] = 0
        /\ UNCHANGED <<host, epoch, effects, reconciles, restarts, clientVars>>
    BY ServedFacts DEF Abort, At, Steps, IInv, Stage
  <1>2. effects' \in [OpIds -> Nat]
    BY <1>1, EffectsType
  <1>3. CASE Journaled(Op, "aborted", "absent") /\ Reply(serving.slot, "refused")
    <2>1. JournalTypes' /\ Journal' /\ SettledKept
      BY <1>1, <1>3, JournaledKept DEF Status
    <2>2. QED
      BY <1>1, <1>2, <1>3, <2>1, ReplyOnly DEF Replies
  <1>4. CASE NotJournaled(Op, "aborted") /\ Reply(serving.slot, "unknown")
    <2>1. JournalTypes' /\ Journal' /\ SettledKept
      BY <1>1, <1>4, NotJournaledKept
    <2>2. QED
      BY <1>1, <1>2, <1>4, <2>1, ReplyOnly DEF Replies
  <1>5. QED
    BY <1>3, <1>4 DEF Abort

LEMMA HostStopsStep ==
    ASSUME IInv, HostStops
    PROVE  IInv'
  <1>1. /\ UNCHANGED <<journalVars, epoch, effects, reconciles, restarts, clientVars>>
        /\ host' = "down" /\ serving' = NotServing
    BY DEF HostStops
  <1>2. JournalTypes' /\ Journal' /\ SettledKept /\ effects' \in [OpIds -> Nat]
    BY <1>1, JournalKept
  <1>3. HostTypes' /\ InService' /\ Stage'
    BY <1>1, <1>2 DEF IInv, HostTypes, InService, Stage, NotServing, Steps
  <1>4. ASSUME NEW s \in Slots
        PROVE  /\ message'[s] \in MessageRecord
               /\ \/ message'[s] = message[s]
                  \/ /\ Awaited(s)
                     /\ message'[s].at = "broken" /\ message'[s].op = message[s].op
                  \/ ~Awaited(s) /\ message'[s] = NoMessage
    <2>1. message[s] \in MessageRecord
      BY DEF IInv, MessageTypes
    <2>2. CASE s # serving.slot
      BY <2>1, <2>2 DEF HostStops
    <2>3. CASE s = serving.slot /\ Awaited(s)
      <3>1. message'[s] = [message[s] EXCEPT !.at = "broken"]
        BY <2>3 DEF HostStops
      <3>2. QED
        BY <2>1, <2>3, <3>1 DEF MessageRecord
    <2>4. CASE s = serving.slot /\ ~Awaited(s)
      <3>1. message'[s] = NoMessage
        BY <2>4 DEF HostStops
      <3>2. QED
        BY <2>4, <3>1 DEF MessageRecord, NoMessage, Replies
    <2>5. QED
      BY <2>2, <2>3, <2>4
  <1>5. MessageTypes'
    BY <1>4 DEF MessageTypes, HostStops
  <1>6. \A s \in Slots : Awaited(s) => message[s].at # "free"
    BY DEF IInv, Correspond, Awaited, Waiting
  <1>7. Carried'
    BY <1>1, <1>4, <1>6 DEF IInv, Carried, NoMessage, journalVars
  <1>8. KeepsAwaited
    BY <1>4 DEF KeepsAwaited
  <1>9. QED
    BY <1>1, <1>2, <1>3, <1>5, <1>7, <1>8, HostStep DEF HostKept

LEMMA HostStartsStep ==
    ASSUME IInv, HostStarts
    PROVE  IInv'
  <1>1. /\ UNCHANGED <<faults, serving, effects, reconciles, message, clientVars>>
        /\ host = "down" /\ host' \in {"up", "refused"}
        /\ epoch' \in Nat /\ restarts' \in Nat /\ serving.step = "idle"
    BY DEF HostStarts, IInv, HostTypes, InService
  <1>2. HostTypes' /\ InService' /\ Stage'
    BY <1>1 DEF IInv, HostTypes, InService, Stage
  <1>3. JournalTypes' /\ Journal' /\ SettledKept
    <2>1. CASE UNCHANGED <<index, file, tail>>
      BY <1>1, <2>1, JournalKept DEF journalVars
    <2>2. CASE /\ tail' = "clean"
               /\ \E read \in [OpIds -> Status \cup {"aborted"}] :
                     /\ \A op \in OpIds : read[op] \in file[op]
                     /\ file' = [op \in OpIds |-> {read[op]}]
                     /\ index' = [op \in OpIds |-> Replayed(read[op])]
      <3>1. PICK read \in [OpIds -> Status \cup {"aborted"}] :
                /\ \A op \in OpIds : read[op] \in file[op]
                /\ file' = [op \in OpIds |-> {read[op]}]
                /\ index' = [op \in OpIds |-> Replayed(read[op])]
        BY <2>2
      <3>2. \A op \in OpIds : {read[op]} \in FileRecords /\ Replayed(read[op]) \in Status
        BY FileRecordsFacts DEF Replayed, Status
      <3>3. JournalTypes'
        BY <1>1, <2>2, <3>1, <3>2 DEF IInv, JournalTypes
      <3>4. ASSUME NEW op \in OpIds
            PROVE  /\ file'[op] = {read[op]} /\ index'[op] = Replayed(read[op])
                   /\ read[op] \in file[op] /\ read[op] \in Status \cup {"aborted"}
        BY <3>1
      <3>5. Journal'
        BY <1>1, <3>4 DEF IInv, Journal, Replayed, Status
      <3>6. SettledKept
        BY <1>1, <3>4 DEF SettledKept
      <3>7. QED
        BY <3>3, <3>5, <3>6
    <2>3. QED
      BY <2>1, <2>2 DEF HostStarts
  <1>4. MessageTypes' /\ Carried' /\ KeepsAwaited
    BY <1>1, <1>3, SilenceFacts DEF IInv
  <1>5. QED
    BY <1>1, <1>2, <1>3, <1>4, HostStep DEF HostKept
-----------------------------------------------------------------------------
(* The steps of the client.                                                *)

ClientHolds ==
    /\ MessageTypes' /\ ClientTypes' /\ Carried' /\ Correspond' /\ Owned'
    /\ Shared' /\ Truthful' /\ ReleasedIsSettled'

\* A request on its way is out of the client's hands.
KeepsSent == \A s \in Slots : message[s].at = "sent" => message'[s] = message[s]

LEMMA ClientStep ==
    ASSUME IInv, UNCHANGED <<journalVars, hostVars>>, KeepsSent, ClientHolds
    PROVE  IInv'
  <1>1. HostTypes' /\ JournalTypes' /\ Journal'
    BY DEF IInv, HostTypes, JournalTypes, Journal, journalVars, hostVars
  <1>2. InService' /\ Stage'
    <2>1. CASE serving.step = "idle"
      BY <2>1 DEF InService, Stage, hostVars
    <2>2. CASE serving.step # "idle"
      <3>1. message'[serving.slot] = message[serving.slot]
        BY <2>2 DEF IInv, InService, KeepsSent
      <3>2. QED
        BY <3>1 DEF IInv, InService, Stage, Op, journalVars, hostVars
    <2>3. QED
      BY <2>1, <2>2
  <1>3. QED
    BY <1>1, <1>2 DEF ClientHolds, IInv

\* A request is sent on a free round trip, by a user that waited for none.
LEMMA SendFacts ==
    ASSUME IInv, NEW u \in Users, NEW s \in Slots, NEW op \in OpIds, message[s] = NoMessage,
           call[u].at = "idle", message' = [message EXCEPT ![s] = Sent(op)],
           call'[u].at = "waiting", call'[u].slot = s, call'[u].op = op,
           \A v \in Users \ {u} : call'[v] = call[v], UNCHANGED file
    PROVE  MessageTypes' /\ Carried' /\ Correspond' /\ KeepsSent
  <1>1. Sent(op) \in MessageRecord
    BY DEF Sent, MessageRecord, Replies, IInv, ClientTypes
  <1>2. /\ message'[s] = Sent(op) /\ message[s].at = "free"
        /\ \A x \in Slots \ {s} : message'[x] = message[x]
    BY DEF IInv, MessageTypes, NoMessage
  <1>3. MessageTypes' /\ Carried' /\ KeepsSent
    BY <1>1, <1>2 DEF IInv, MessageTypes, Carried, KeepsSent, Sent
  <1>4. \A v \in Users \ {u} : Waiting(v) => call[v].slot # s
    BY <1>2 DEF IInv, Correspond, Waiting
  <1>5. Correspond'
    BY <1>2, <1>4 DEF IInv, Correspond, Waiting, Sent
  <1>6. QED
    BY <1>3, <1>5

\* A user leaves its round trip, which is ended unless the request is still
\* on its way.
LEMMA LeaveFacts ==
    ASSUME IInv, NEW u \in Users, Waiting(u), call'[u].at # "waiting",
           \A v \in Users \ {u} : call'[v] = call[v], UNCHANGED file,
           \/ /\ message[call[u].slot].at = "answered"
              /\ message' = [message EXCEPT ![call[u].slot] = NoMessage]
           \/ GiveUpOn(call[u].slot)
    PROVE  MessageTypes' /\ Carried' /\ Correspond' /\ KeepsSent
  <1> DEFINE s == call[u].slot
  <1>1. s \in Slots
    BY DEF IInv, Correspond
  <1>2. /\ \A x \in Slots \ {s} : message'[x] = message[x]
        /\ message'[s] = NoMessage \/ message'[s] = message[s]
        /\ message[s].at = "sent" => message'[s] = message[s]
    BY <1>1 DEF IInv, MessageTypes, GiveUpOn
  <1>3. NoMessage \in MessageRecord
    BY DEF NoMessage, MessageRecord, Replies
  <1>4. message' \in [Slots -> MessageRecord]
    BY <1>1, <1>3 DEF IInv, MessageTypes, GiveUpOn
  <1>5. Carried' /\ KeepsSent
    BY <1>2 DEF IInv, Carried, KeepsSent, NoMessage
  <1>6. Correspond'
    BY <1>2 DEF IInv, Correspond, Waiting
  <1>7. QED
    BY <1>4, <1>5, <1>6 DEF MessageTypes

\* A user that waits for no answer moves, and no message does.
LEMMA StayFacts ==
    ASSUME IInv, UNCHANGED <<message, file>>,
           \A v \in Users : call'[v].at = "waiting" => call'[v] = call[v]
    PROVE  MessageTypes' /\ Carried' /\ Correspond' /\ KeepsSent
  BY DEF IInv, MessageTypes, Carried, Correspond, Waiting, KeepsSent

\* The shared identity through the step of a handle.
LEMMA HandleKept ==
    ASSUME IInv, NEW h \in Handles, UNCHANGED <<journalVars, hostVars, identity>>,
           \A v \in Users \ {h} : call'[v] = call[v],
           call[h].op # None => call'[h].op = call[h].op,
           issued \subseteq issued', issued' \ issued \subseteq {call'[h].op},
           told \subseteq told', \A op \in told' \ told : file[op] = {"done"}, told' \subseteq OpIds
    PROVE  Shared' /\ Truthful' /\ ReleasedIsSettled'
  <1>1. \A c \in Callers : call'[c] = call[c]
    BY StorageHostAssumption DEF Users
  <1>2. Active' = Active /\ \A c \in Active : call'[c] = call[c]
    BY <1>1 DEF Active
  <1>3. UNCHANGED <<file, effects>>
    BY DEF journalVars, hostVars
  <1>4. Shared'
    BY <1>1, <1>2, <1>3 DEF IInv, Shared
  <1>5. Truthful'
    BY <1>3 DEF IInv, Truthful, Journal
  <1>6. ReleasedIsSettled'
    <2>1. SUFFICES ASSUME NEW op \in issued', \A k \in Handles : op # call'[k].op, op # identity.op
                   PROVE  op \in told' /\ effects'[op] = 1 /\ file'[op] = {"done"}
      BY DEF ReleasedIsSettled
    <2>2. op \in issued /\ op # None
      BY <2>1, StorageHostAssumption DEF IInv, ClientTypes
    <2>3. \A k \in Handles : op # call[k].op
      BY <2>1, <2>2 DEF Users
    <2>4. QED
      BY <2>1, <2>2, <2>3, <1>3 DEF IInv, ReleasedIsSettled
  <1>7. QED
    BY <1>4, <1>5, <1>6

LEMMA NewOperationStep ==
    ASSUME IInv, NEW h \in Handles, NewOperation(h)
    PROVE  IInv'
  <1>1. PICK op \in Fresh : /\ call' = [call EXCEPT ![h].op = op]
                            /\ issued' = issued \cup {op}
    BY DEF NewOperation
  <1>2. /\ UNCHANGED <<journalVars, hostVars, message, generation, identity, pending, told>>
        /\ call[h].op = None /\ op \in OpIds /\ h \in Users
    BY <1>1 DEF NewOperation, Fresh, Users
  <1>3. call[h] \in CallRecord
    BY <1>2 DEF IInv, ClientTypes
  <1>4. /\ call'[h].op = op /\ call'[h].at = call[h].at /\ call'[h] \in CallRecord
        /\ \A v \in Users \ {h} : call'[v] = call[v]
    BY <1>1, <1>2, <1>3 DEF IInv, ClientTypes, CallRecord
  <1>5. call[h].at = "idle"
    BY <1>2, StorageHostAssumption DEF IInv, Owned, ClientTypes
  <1>6. ClientTypes'
    BY <1>1, <1>2, <1>4 DEF IInv, ClientTypes
  <1>7. MessageTypes' /\ Carried' /\ Correspond' /\ KeepsSent
    BY <1>2, <1>4, <1>5, StayFacts DEF journalVars
  <1>8. Owned'
    BY <1>1, <1>4, <1>5 DEF IInv, Owned, Users
  <1>9. Shared' /\ Truthful' /\ ReleasedIsSettled'
    BY <1>1, <1>2, <1>4, HandleKept DEF IInv, ClientTypes
  <1>10. QED
    BY <1>2, <1>6, <1>7, <1>8, <1>9, ClientStep DEF ClientHolds

LEMMA DoStep ==
    ASSUME IInv, NEW h \in Handles, Do(h)
    PROVE  IInv'
  <1>1. /\ UNCHANGED <<journalVars, hostVars, generation, identity, pending, issued, told>>
        /\ call[h].at = "idle" /\ call[h].op # None /\ h \in Users
        /\ call[h].op \in issued /\ call[h].op \in OpIds /\ call[h] \in CallRecord
    BY DEF Do, Users, IInv, Owned, ClientTypes
  <1>2. ASSUME /\ call'[h].op = call[h].op /\ call'[h] \in CallRecord
               /\ \A v \in Users \ {h} : call'[v] = call[v]
               /\ call' \in [Users -> CallRecord]
        PROVE  ClientTypes' /\ Owned' /\ Shared' /\ Truthful' /\ ReleasedIsSettled'
    <2>1. ClientTypes'
      BY <1>1, <1>2 DEF IInv, ClientTypes
    <2>2. Owned'
      BY <1>1, <1>2 DEF IInv, Owned, Users
    <2>3. Shared' /\ Truthful' /\ ReleasedIsSettled'
      BY <1>1, <1>2, HandleKept DEF IInv, ClientTypes
    <2>4. QED
      BY <2>1, <2>2, <2>3
  <1>3. CASE call' = [call EXCEPT ![h].at = "resolving"] /\ UNCHANGED message
    <2>1. /\ call'[h].op = call[h].op /\ call'[h].at = "resolving" /\ call'[h] \in CallRecord
          /\ \A v \in Users \ {h} : call'[v] = call[v]
          /\ call' \in [Users -> CallRecord]
      BY <1>1, <1>3 DEF IInv, ClientTypes, CallRecord
    <2>2. MessageTypes' /\ Carried' /\ Correspond' /\ KeepsSent
      BY <1>1, <1>3, <2>1, StayFacts DEF journalVars
    <2>3. QED
      BY <1>1, <1>2, <2>1, <2>2, ClientStep DEF ClientHolds
  <1>4. CASE \E s \in Slots :
                /\ message[s] = NoMessage
                /\ message' = [message EXCEPT ![s] = Sent(call[h].op)]
                /\ call' = [call EXCEPT ![h].at = "waiting", ![h].slot = s]
    <2>1. PICK s \in Slots : /\ message[s] = NoMessage
                             /\ message' = [message EXCEPT ![s] = Sent(call[h].op)]
                             /\ call' = [call EXCEPT ![h].at = "waiting", ![h].slot = s]
      BY <1>4
    <2>2. /\ call'[h].op = call[h].op /\ call'[h].at = "waiting" /\ call'[h].slot = s
          /\ call'[h] \in CallRecord
          /\ \A v \in Users \ {h} : call'[v] = call[v]
          /\ call' \in [Users -> CallRecord]
      BY <1>1, <2>1 DEF IInv, ClientTypes, CallRecord
    <2>3. MessageTypes' /\ Carried' /\ Correspond' /\ KeepsSent
      BY <1>1, <2>1, <2>2, SendFacts DEF journalVars
    <2>4. QED
      BY <1>1, <1>2, <2>2, <2>3, ClientStep DEF ClientHolds
  <1>5. QED
    BY <1>3, <1>4 DEF Do

\* How a Do returns.
LEMMA DoEndFacts ==
    ASSUME IInv, NEW h \in Handles, NEW confirmed \in BOOLEAN, NEW unresolved \in BOOLEAN,
           DoEnd(h, confirmed, unresolved), call[h].at # "idle",
           confirmed => file[call[h].op] = {"done"},
           UNCHANGED <<journalVars, hostVars, generation, identity, issued>>
    PROVE  /\ ClientTypes' /\ Owned' /\ Shared' /\ Truthful' /\ ReleasedIsSettled'
           /\ call'[h].at = "idle" /\ \A v \in Users \ {h} : call'[v] = call[v]
  <1>1. /\ h \in Users /\ call[h] \in CallRecord /\ call[h].op \in issued
        /\ issued \subseteq OpIds
    BY DEF Users, IInv, Owned, ClientTypes
  <1>2. /\ call'[h].op = call[h].op /\ call'[h].at = "idle" /\ call'[h] \in CallRecord
        /\ \A v \in Users \ {h} : call'[v] = call[v]
        /\ call' \in [Users -> CallRecord]
    BY <1>1 DEF DoEnd, IInv, ClientTypes, CallRecord
  <1>3. /\ told \subseteq told' /\ told' \subseteq issued
        /\ \A op \in told' \ told : file[op] = {"done"}
        /\ pending' \in [Handles -> BOOLEAN]
    BY <1>1 DEF DoEnd, IInv, ClientTypes
  <1>4. ClientTypes'
    BY <1>2, <1>3 DEF IInv, ClientTypes
  <1>5. Owned'
    BY <1>1, <1>2 DEF IInv, Owned, Users
  <1>6. Shared' /\ Truthful' /\ ReleasedIsSettled'
    BY <1>1, <1>2, <1>3, HandleKept
  <1>7. QED
    BY <1>2, <1>4, <1>5, <1>6

LEMMA DoAnsweredStep ==
    ASSUME IInv, NEW h \in Handles, DoAnswered(h)
    PROVE  IInv'
  <1> DEFINE m == message[call[h].slot]
  <1>1. /\ UNCHANGED <<journalVars, hostVars, generation, identity, issued>>
        /\ Waiting(h) /\ m.at = "answered" /\ h \in Users
        /\ message' = [message EXCEPT ![call[h].slot] = NoMessage]
    BY DEF DoAnswered, Waiting, Users
  <1>2. m.reply = "done" => file[call[h].op] = {"done"}
    BY <1>1 DEF IInv, Correspond, Carried
  <1>3. PICK confirmed \in BOOLEAN, unresolved \in BOOLEAN :
            DoEnd(h, confirmed, unresolved) /\ (confirmed => m.reply = "done")
    BY DEF DoAnswered
  <1>4. /\ ClientTypes' /\ Owned' /\ Shared' /\ Truthful' /\ ReleasedIsSettled'
        /\ call'[h].at = "idle" /\ \A v \in Users \ {h} : call'[v] = call[v]
    BY <1>1, <1>2, <1>3, DoEndFacts DEF Waiting
  <1>5. MessageTypes' /\ Carried' /\ Correspond' /\ KeepsSent
    BY <1>1, <1>4, LeaveFacts DEF journalVars
  <1>6. QED
    BY <1>1, <1>4, <1>5, ClientStep DEF ClientHolds

LEMMA DoLostStep ==
    ASSUME IInv, NEW h \in Handles, DoLost(h)
    PROVE  IInv'
  <1>1. /\ UNCHANGED <<journalVars, hostVars, generation, identity, issued>>
        /\ Waiting(h) /\ h \in Users /\ GiveUpOn(call[h].slot) /\ DoEnd(h, FALSE, TRUE)
    BY DEF DoLost, Waiting, Users
  <1>2. /\ ClientTypes' /\ Owned' /\ Shared' /\ Truthful' /\ ReleasedIsSettled'
        /\ call'[h].at = "idle" /\ \A v \in Users \ {h} : call'[v] = call[v]
    BY <1>1, DoEndFacts DEF Waiting
  <1>3. MessageTypes' /\ Carried' /\ Correspond' /\ KeepsSent
    BY <1>1, <1>2, LeaveFacts DEF journalVars
  <1>4. QED
    BY <1>1, <1>2, <1>3, ClientStep DEF ClientHolds

LEMMA DoResolveStep ==
    ASSUME IInv, NEW h \in Handles, DoResolve(h)
    PROVE  IInv'
  <1>1. /\ UNCHANGED <<journalVars, hostVars, message, generation, identity, issued>>
        /\ call[h].at = "resolving" /\ call[h].op \in OpIds
    BY DEF DoResolve, IInv, Owned, ClientTypes, Users
  <1>2. PICK confirmed \in BOOLEAN, unresolved \in BOOLEAN :
            DoEnd(h, confirmed, unresolved) /\ (confirmed => Resolved(call[h].op))
    BY DEF DoResolve
  <1>3. confirmed => file[call[h].op] = {"done"}
    BY <1>1, <1>2 DEF Resolved, IInv, Journal
  <1>4. /\ ClientTypes' /\ Owned' /\ Shared' /\ Truthful' /\ ReleasedIsSettled'
        /\ call'[h].at = "idle" /\ \A v \in Users \ {h} : call'[v] = call[v]
    BY <1>1, <1>2, <1>3, DoEndFacts
  <1>5. MessageTypes' /\ Carried' /\ Correspond' /\ KeepsSent
    BY <1>1, <1>4, StayFacts DEF journalVars
  <1>6. QED
    BY <1>1, <1>4, <1>5, ClientStep DEF ClientHolds

LEMMA ReconnectStep ==
    ASSUME IInv, NEW h \in Handles, Reconnect(h)
    PROVE  IInv'
  <1>1. /\ UNCHANGED <<journalVars, hostVars, message, identity, call, issued, told>>
        /\ generation' = epoch
        /\ pending' = [pending EXCEPT ![h] = FALSE]
    BY DEF Reconnect
  <1>2. ClientTypes' /\ Owned'
    BY <1>1 DEF IInv, HostTypes, ClientTypes, Owned
  <1>3. Shared' /\ Truthful' /\ ReleasedIsSettled'
    BY <1>1, HandleKept DEF IInv, ClientTypes
  <1>4. MessageTypes' /\ Carried' /\ Correspond' /\ KeepsSent
    BY <1>1, StayFacts DEF journalVars
  <1>5. QED
    BY <1>1, <1>2, <1>3, <1>4, ClientStep DEF ClientHolds

LEMMA CallBeginStep ==
    ASSUME IInv, NEW c \in Callers, CallBegin(c)
    PROVE  IInv'
  <1>1. PICK s \in Slots, op \in OpIds :
            /\ message[s] = NoMessage
            /\ IF identity.op = None THEN op \in Fresh ELSE op = identity.op
            /\ identity' = Prepared(op)
            /\ issued' = issued \cup {op}
            /\ message' = [message EXCEPT ![s] = Sent(op)]
            /\ call' = [call EXCEPT ![c] = [at |-> "waiting", op |-> op, slot |-> s]]
    BY DEF CallBegin
  <1>2. /\ UNCHANGED <<journalVars, hostVars, generation, pending, told>>
        /\ call[c].at = "idle" /\ c \in Users
    BY DEF CallBegin, Users
  <1>3. /\ call'[c] = [at |-> "waiting", op |-> op, slot |-> s]
        /\ \A v \in Users \ {c} : call'[v] = call[v]
        /\ call' \in [Users -> CallRecord]
    BY <1>1, <1>2 DEF IInv, ClientTypes, CallRecord
  <1>4. MessageTypes' /\ Carried' /\ Correspond' /\ KeepsSent
    BY <1>1, <1>2, <1>3, SendFacts DEF journalVars
  <1>5. /\ identity \in IdentityRecord /\ identity'.op = op
        /\ identity'.inFlight = identity.inFlight + 1
        /\ identity'.done => identity.inFlight > 0 /\ identity.done
        /\ identity' \in IdentityRecord
    <2> DEFINE done == identity.inFlight > 0 /\ identity.done
               failed == identity.inFlight > 0 /\ identity.failed
    <2>1. identity \in IdentityRecord /\ identity.inFlight \in Nat
      BY DEF IInv, ClientTypes, IdentityRecord
    <2>2. identity.inFlight + 1 \in Nat
      BY <2>1
    <2>3. identity' = [op |-> op, inFlight |-> identity.inFlight + 1, done |-> done, failed |-> failed]
      BY <1>1 DEF Prepared
    <2>4. done \in BOOLEAN /\ failed \in BOOLEAN
      OBVIOUS
    <2>5. /\ identity'.op = op /\ identity'.inFlight = identity.inFlight + 1
          /\ identity'.done = done
      BY <2>3
    <2>6. identity' \in IdentityRecord
      <3> HIDE DEF done, failed
      <3>1. QED
        BY <2>2, <2>3, <2>4, Zenon DEF IdentityRecord
    <2>7. QED
      BY <2>1, <2>5, <2>6
  <1>6. ClientTypes'
    BY <1>1, <1>2, <1>3, <1>5 DEF IInv, ClientTypes
  <1>7. Owned'
    BY <1>1, <1>3, StorageHostAssumption DEF IInv, Owned, Users
  <1>8. /\ Active' = Active \cup {c} /\ c \notin Active
        /\ \A d \in Active : call'[d] = call[d]
    BY <1>2, <1>3 DEF Active, Users
  <1>9. identity.op = None => Active = {}
    BY StorageHostAssumption DEF IInv, Shared, Owned, Active, Users, ClientTypes
  <1>10. identity.done => identity.op = op
    BY <1>1, StorageHostAssumption DEF IInv, Shared, ClientTypes
  <1>11. Shared'
    <2>1. IsFiniteSet(Active') /\ identity'.inFlight = Cardinality(Active')
      BY <1>5, <1>8, FS_AddElement DEF IInv, Shared
    <2>2. \A d \in Active' : call'[d].op = identity'.op
      BY <1>1, <1>3, <1>5, <1>8, <1>9 DEF IInv, Shared
    <2>3. identity'.op \in issued'
      BY <1>1, <1>5
    <2>4. identity'.done => identity'.op \in told' /\ file'[identity'.op] = {"done"}
      BY <1>2, <1>5, <1>10 DEF IInv, Shared, journalVars
    <2>5. QED
      BY <2>1, <2>2, <2>3, <2>4 DEF Shared
  <1>12. Truthful'
    BY <1>2 DEF IInv, Truthful, hostVars
  <1>13. ReleasedIsSettled'
    <2>1. \A h \in Handles : call'[h] = call[h]
      BY <1>3, StorageHostAssumption DEF Users
    <2>2. QED
      BY <1>1, <1>2, <1>5, <2>1, StorageHostAssumption
         DEF IInv, ReleasedIsSettled, ClientTypes, journalVars, hostVars
  <1>14. QED
    BY <1>2, <1>4, <1>6, <1>7, <1>11, <1>12, <1>13, ClientStep DEF ClientHolds

LEMMA IdentityUpdate ==
    ASSUME NEW i \in IdentityRecord, NEW n \in Nat, NEW done \in BOOLEAN, NEW failed \in BOOLEAN
    PROVE  [i EXCEPT !.inFlight = n, !.done = done, !.failed = failed] \in IdentityRecord
  BY DEF IdentityRecord

\* How a call returns.
LEMMA CallEndFacts ==
    ASSUME IInv, NEW c \in Active, NEW confirmed \in BOOLEAN, CallEnd(c, confirmed),
           confirmed => file[call[c].op] = {"done"},
           UNCHANGED <<journalVars, hostVars, generation, pending, issued>>
    PROVE  /\ ClientTypes' /\ Owned' /\ Shared' /\ Truthful' /\ ReleasedIsSettled'
           /\ call'[c].at = "idle" /\ \A v \in Users \ {c} : call'[v] = call[v]
  <1>1. /\ c \in Callers /\ c \in Users /\ call[c].op = identity.op /\ call[c].op \in issued
        /\ issued \subseteq OpIds /\ identity \in IdentityRecord
    BY DEF Active, Users, IInv, Shared, Owned, ClientTypes
  <1>2. /\ call'[c] = [at |-> "idle", op |-> None, slot |-> None]
        /\ \A v \in Users \ {c} : call'[v] = call[v]
        /\ call' \in [Users -> CallRecord]
    BY <1>1 DEF CallEnd, IInv, ClientTypes, CallRecord
  <1>3. /\ told \subseteq told' /\ told' \subseteq issued
        /\ confirmed => identity.op \in told'
        /\ \A op \in told' \ told : file[op] = {"done"}
    BY <1>1 DEF CallEnd, IInv, ClientTypes
  <1>4. /\ Active' = Active \ {c}
        /\ \A d \in Active' : d \in Active /\ call'[d] = call[d]
    BY <1>1, <1>2 DEF Active, Users
  <1>5. /\ IsFiniteSet(Active') /\ Cardinality(Active') \in Nat
        /\ Cardinality(Active') = identity.inFlight - 1
    BY <1>4, FS_RemoveElement, FS_CardinalityType DEF IInv, Shared
  <1>6. \/ /\ identity.inFlight > 1
           /\ identity' = [identity EXCEPT !.inFlight = @ - 1, !.done = identity.done \/ confirmed,
                                           !.failed = identity.failed \/ ~confirmed]
        \/ /\ identity.inFlight <= 1 /\ identity' = NoIdentity
           /\ identity.done \/ confirmed
        \/ /\ identity.inFlight <= 1
           /\ identity' = [identity EXCEPT !.inFlight = 0, !.done = FALSE, !.failed = FALSE]
    BY <1>1 DEF CallEnd, Finished, IdentityRecord
  <1>7. /\ identity' \in IdentityRecord
        /\ identity'.inFlight = Cardinality(Active')
        /\ \/ identity'.op = identity.op
           \/ Active' = {} /\ identity'.op = None /\ (identity.done \/ confirmed)
        /\ identity'.done => identity'.op = identity.op /\ (identity.done \/ confirmed)
    <2>1. identity.inFlight \in Nat
      BY <1>1 DEF IdentityRecord
    <2>2. CASE /\ identity.inFlight > 1
               /\ identity' = [identity EXCEPT !.inFlight = @ - 1, !.done = identity.done \/ confirmed,
                                               !.failed = identity.failed \/ ~confirmed]
      <3>1. identity.inFlight - 1 \in Nat
        BY <2>1, <2>2
      <3>2. identity' \in IdentityRecord
        BY <1>1, <2>2, <3>1, IdentityUpdate
      <3>3. /\ identity'.inFlight = identity.inFlight - 1 /\ identity'.op = identity.op
            /\ identity'.done => identity.done \/ confirmed
        BY <1>1, <2>2 DEF IdentityRecord
      <3>4. QED
        BY <1>5, <3>2, <3>3
    <2>3. ASSUME identity.inFlight <= 1
          PROVE  Cardinality(Active') = 0 /\ Active' = {}
      <3>1. Cardinality(Active') = 0
        BY <1>5, <2>1, <2>3
      <3>2. QED
        BY <1>5, <3>1, FS_EmptySet
    <2>4. CASE identity.inFlight <= 1 /\ identity' = NoIdentity /\ (identity.done \/ confirmed)
      BY <2>3, <2>4 DEF IdentityRecord, NoIdentity
    <2>5. CASE /\ identity.inFlight <= 1
               /\ identity' = [identity EXCEPT !.inFlight = 0, !.done = FALSE, !.failed = FALSE]
      <3>1. identity' \in IdentityRecord
        BY <1>1, <2>5, IdentityUpdate
      <3>2. identity'.inFlight = 0 /\ identity'.op = identity.op /\ ~identity'.done
        BY <1>1, <2>5 DEF IdentityRecord
      <3>3. QED
        BY <2>3, <2>5, <3>1, <3>2
    <2>6. QED
      BY <1>6, <2>2, <2>4, <2>5
  <1>8. identity.done \/ confirmed => identity.op \in told' /\ file[identity.op] = {"done"}
    BY <1>1, <1>3 DEF IInv, Shared
  <1>9. ClientTypes'
    BY <1>2, <1>3, <1>7 DEF IInv, ClientTypes
  <1>10. Owned'
    BY <1>1, <1>2, StorageHostAssumption DEF IInv, Owned, Users
  <1>11. Shared'
    BY <1>1, <1>4, <1>5, <1>7, <1>8 DEF IInv, Shared, journalVars
  <1>12. Truthful'
    BY <1>1, <1>3 DEF IInv, Truthful, Journal, hostVars
  <1>13. ReleasedIsSettled'
    <2>1. \A h \in Handles : call'[h] = call[h]
      BY <1>1, <1>2, StorageHostAssumption DEF Users
    <2>2. effects[identity.op] = 1 \/ ~(identity.done \/ confirmed)
      BY <1>1, <1>8 DEF IInv, Journal
    <2>3. QED
      BY <1>3, <1>7, <1>8, <2>1, <2>2 DEF IInv, ReleasedIsSettled, journalVars, hostVars
  <1>14. QED
    BY <1>2, <1>9, <1>10, <1>11, <1>12, <1>13

LEMMA CallAnsweredStep ==
    ASSUME IInv, NEW c \in Callers, CallAnswered(c)
    PROVE  IInv'
  <1>1. /\ UNCHANGED <<journalVars, hostVars, generation, pending, issued>>
        /\ Waiting(c) /\ message[call[c].slot].at = "answered" /\ c \in Users /\ c \in Active
        /\ message' = [message EXCEPT ![call[c].slot] = NoMessage]
    BY DEF CallAnswered, Waiting, Users, Active
  <1>2. message[call[c].slot].reply = "done" => file[call[c].op] = {"done"}
    BY <1>1 DEF IInv, Correspond, Carried
  <1>3. PICK confirmed \in BOOLEAN :
            CallEnd(c, confirmed) /\ (confirmed => message[call[c].slot].reply = "done")
    BY DEF CallAnswered
  <1>4. /\ ClientTypes' /\ Owned' /\ Shared' /\ Truthful' /\ ReleasedIsSettled'
        /\ call'[c].at = "idle" /\ \A v \in Users \ {c} : call'[v] = call[v]
    BY <1>1, <1>2, <1>3, CallEndFacts
  <1>5. MessageTypes' /\ Carried' /\ Correspond' /\ KeepsSent
    BY <1>1, <1>4, LeaveFacts DEF journalVars
  <1>6. QED
    BY <1>1, <1>4, <1>5, ClientStep DEF ClientHolds

LEMMA CallLostStep ==
    ASSUME IInv, NEW c \in Callers, CallLost(c)
    PROVE  IInv'
  <1>1. /\ UNCHANGED <<journalVars, hostVars, generation, identity, pending, issued, told>>
        /\ Waiting(c) /\ c \in Users /\ GiveUpOn(call[c].slot)
        /\ call' = [call EXCEPT ![c].at = "resolving", ![c].slot = None]
    BY DEF CallLost, Waiting, Users
  <1>2. /\ call'[c].op = call[c].op /\ call'[c].at = "resolving"
        /\ \A v \in Users \ {c} : call'[v] = call[v]
        /\ call' \in [Users -> CallRecord]
    <2>1. call \in [Users -> CallRecord] /\ call[c] \in CallRecord
      BY <1>1 DEF IInv, ClientTypes
    <2>2. [call[c] EXCEPT !.at = "resolving", !.slot = None] \in CallRecord
      BY <2>1 DEF CallRecord
    <2>3. call' = [call EXCEPT ![c] = [call[c] EXCEPT !.at = "resolving", !.slot = None]]
      BY <1>1
    <2>4. /\ [call[c] EXCEPT !.at = "resolving", !.slot = None].op = call[c].op
          /\ [call[c] EXCEPT !.at = "resolving", !.slot = None].at = "resolving"
      BY <2>1 DEF CallRecord
    <2>5. QED
      BY <1>1, <2>1, <2>2, <2>3, <2>4
  <1>3. MessageTypes' /\ Carried' /\ Correspond' /\ KeepsSent
    BY <1>1, <1>2, LeaveFacts DEF journalVars
  <1>4. ClientTypes'
    BY <1>1, <1>2 DEF IInv, ClientTypes
  <1>5. Owned'
    BY <1>1, <1>2, StorageHostAssumption DEF IInv, Owned, Users, Waiting
  <1>6. Shared'
    <2>1. Active' = Active /\ \A d \in Active : call'[d].op = call[d].op
      BY <1>1, <1>2 DEF Active, Users, Waiting
    <2>2. QED
      BY <1>1, <2>1 DEF IInv, Shared, journalVars
  <1>7. Truthful' /\ ReleasedIsSettled'
    <2>1. \A h \in Handles : call'[h] = call[h]
      BY <1>2, StorageHostAssumption DEF Users
    <2>2. /\ file' = file /\ effects' = effects /\ told' = told /\ issued' = issued
          /\ identity' = identity
      BY <1>1 DEF journalVars, hostVars
    <2>3. {call'[h].op : h \in Handles} = {call[h].op : h \in Handles}
      BY <2>1
    <2>4. Truthful /\ ReleasedIsSettled
      BY DEF IInv
    <2>5. Truthful'
      BY <2>2, <2>4 DEF Truthful
    <2>6. ReleasedIsSettled'
      BY <2>2, <2>3, <2>4 DEF ReleasedIsSettled
    <2>7. QED
      BY <2>5, <2>6
  <1>8. QED
    BY <1>1, <1>3, <1>4, <1>5, <1>6, <1>7, ClientStep DEF ClientHolds

LEMMA CallResolveStep ==
    ASSUME IInv, NEW c \in Callers, CallResolve(c)
    PROVE  IInv'
  <1>1. /\ UNCHANGED <<journalVars, hostVars, message, generation, pending, issued>>
        /\ call[c].at = "resolving" /\ call[c].op \in OpIds /\ c \in Active
    BY DEF CallResolve, IInv, Owned, ClientTypes, Users, Active
  <1>2. PICK confirmed \in BOOLEAN :
            CallEnd(c, confirmed) /\ (confirmed => Resolved(call[c].op))
    BY DEF CallResolve
  <1>3. confirmed => file[call[c].op] = {"done"}
    BY <1>1, <1>2 DEF Resolved, IInv, Journal
  <1>4. /\ ClientTypes' /\ Owned' /\ Shared' /\ Truthful' /\ ReleasedIsSettled'
        /\ call'[c].at = "idle" /\ \A v \in Users \ {c} : call'[v] = call[v]
    BY <1>1, <1>2, <1>3, CallEndFacts
  <1>5. MessageTypes' /\ Carried' /\ Correspond' /\ KeepsSent
    BY <1>1, <1>4, StayFacts DEF journalVars
  <1>6. QED
    BY <1>1, <1>4, <1>5, ClientStep DEF ClientHolds
-----------------------------------------------------------------------------
(* The theorems.                                                           *)

LEMMA StutterStep ==
    ASSUME IInv, UNCHANGED vars
    PROVE  IInv'
  <1>1. HostTypes' /\ JournalTypes' /\ MessageTypes' /\ SettledKept /\ KeepsAwaited
    BY DEF IInv, HostTypes, JournalTypes, MessageTypes, SettledKept, KeepsAwaited,
           vars, journalVars, hostVars
  <1>2. Journal' /\ InService' /\ Stage' /\ Carried'
    BY DEF IInv, Journal, InService, Stage, Carried, Op, vars, journalVars, hostVars
  <1>3. UNCHANGED clientVars
    BY DEF vars
  <1>4. QED
    BY <1>1, <1>2, <1>3, HostStep DEF HostKept

LEMMA NextStep ==
    ASSUME IInv, Next
    PROVE  IInv'
  <1>1. CASE \E c \in Callers : CallBegin(c) \/ CallAnswered(c) \/ CallLost(c) \/ CallResolve(c)
    BY <1>1, CallBeginStep, CallAnsweredStep, CallLostStep, CallResolveStep
  <1>2. CASE \E h \in Handles : \/ NewOperation(h) \/ Do(h)
                                \/ DoAnswered(h) \/ DoLost(h) \/ DoResolve(h) \/ Reconnect(h)
    BY <1>2, NewOperationStep, DoStep, DoAnsweredStep, DoLostStep, DoResolveStep, ReconnectStep
  <1>3. CASE \E s \in Slots : Vanish(s) \/ Stale(s) \/ Replay(s) \/ Begin(s) \/ Reconcile(s)
    BY <1>3, VanishStep, StaleStep, ReplayStep, BeginStep, ReconcileStep
  <1>4. CASE Serving
    BY <1>4, RetryStep, RebeginStep, ExecuteStep, CompleteStep, AbortStep DEF Serving
  <1>5. CASE HostStops \/ HostStarts
    BY <1>5, HostStopsStep, HostStartsStep
  <1>6. QED
    BY <1>1, <1>2, <1>3, <1>4, <1>5 DEF Next

\* The invariant of the protocol, whatever is lost, delayed, torn or restarted
\* in journal.go, protocol.go and client.go.
THEOREM StorageHostInvariance == Spec => []IInv
  <1>1. IInv /\ [Next]_vars => IInv'
    BY NextStep, StutterStep
  <1>2. QED
    BY <1>1, IInvInit, PTL DEF Spec

\* The types of the host's and the client's state.
THEOREM StorageHostTypeCorrect == Spec => []TypeOK
  <1>1. IInv => TypeOK
    BY TypeParts DEF IInv
  <1>2. QED
    BY <1>1, StorageHostInvariance, PTL

\* Client.finishCall gives an op_id up only when its effect is there, some
\* caller was told, and the journal on disk answers every late copy.
THEOREM ReleasedTheorem == Spec => []ReleasedIsSettled
  <1>1. IInv => ReleasedIsSettled
    BY DEF IInv
  <1>2. QED
    BY <1>1, StorageHostInvariance, PTL
-----------------------------------------------------------------------------
(* The refinement.                                                         *)

\* One caller or handle is answered nil for an operation that is done.
LEMMA TellStep ==
    ASSUME IInv, UNCHANGED effects, NEW op \in OpIds,
           told' \in {told, told \cup {op}}, told' # told => file[op] = {"done"}
    PROVE  [Once!Next]_(Once!vars)
  <1>1. CASE told' = told
    BY <1>1 DEF Once!vars
  <1>2. CASE told' # told
    <2>1. effects[op] = 1
      BY <1>2 DEF IInv, Journal
    <2>2. Once!Tell(op)
      BY <1>2, <2>1 DEF Once!Tell
    <2>3. QED
      BY <2>2 DEF Once!Next
  <1>3. QED
    BY <1>1, <1>2

\* Only the owner's commit under writeMu changes the effects, once for each op_id.
LEMMA ExecuteOnce ==
    ASSUME IInv, Execute
    PROVE  [Once!Next]_(Once!vars)
  <1>1. At("execute") /\ Op \in OpIds /\ UNCHANGED clientVars
    <2>1. At("execute") /\ UNCHANGED clientVars
      BY DEF Execute
    <2>2. QED
      BY <2>1, ServedFacts DEF Steps
  <1>2. effects[Op] = 0
    BY <1>1 DEF IInv, Stage, At
  <1>3. told' = told
    BY <1>1 DEF clientVars
  <1>4. CASE Committed
    <2>1. effects' = [effects EXCEPT ![Op] = 1]
      BY <1>2, <1>4 DEF Committed
    <2>2. Once!Commit(Op)
      BY <1>2, <1>3, <2>1 DEF Once!Commit
    <2>3. QED
      BY <1>1, <2>2 DEF Once!Next
  <1>5. CASE UNCHANGED effects
    BY <1>3, <1>5 DEF Once!vars
  <1>6. QED
    BY <1>4, <1>5 DEF Execute

LEMMA CallerOnce ==
    ASSUME IInv, NEW c \in Callers,
           CallBegin(c) \/ CallAnswered(c) \/ CallLost(c) \/ CallResolve(c)
    PROVE  [Once!Next]_(Once!vars)
  <1>1. c \in Users
    BY DEF Users
  <1>2. CASE CallBegin(c) \/ CallLost(c)
    BY <1>2 DEF CallBegin, CallLost, hostVars, Once!vars
  <1>3. CASE CallAnswered(c)
    <2>1. PICK confirmed \in BOOLEAN :
              CallEnd(c, confirmed) /\ (confirmed => message[call[c].slot].reply = "done")
      BY <1>3 DEF CallAnswered
    <2>2. call[c].op \in OpIds /\ (confirmed => file[call[c].op] = {"done"})
      BY <1>1, <1>3, <2>1 DEF CallAnswered, IInv, Correspond, Carried, Waiting, Owned, ClientTypes
    <2>3. effects' = effects
      BY <1>3 DEF CallAnswered, hostVars
    <2>4. QED
      BY <2>1, <2>2, <2>3, TellStep DEF CallEnd
  <1>4. CASE CallResolve(c)
    <2>1. PICK confirmed \in BOOLEAN : CallEnd(c, confirmed) /\ (confirmed => Resolved(call[c].op))
      BY <1>4 DEF CallResolve
    <2>2. call[c].op \in OpIds /\ (confirmed => file[call[c].op] = {"done"})
      BY <1>1, <1>4, <2>1 DEF CallResolve, Resolved, IInv, Journal, Owned, ClientTypes
    <2>3. effects' = effects
      BY <1>4 DEF CallResolve, hostVars
    <2>4. QED
      BY <2>1, <2>2, <2>3, TellStep DEF CallEnd
  <1>5. QED
    BY <1>2, <1>3, <1>4

LEMMA HandleOnce ==
    ASSUME IInv, NEW h \in Handles,
           \/ NewOperation(h) \/ Do(h)
           \/ DoAnswered(h) \/ DoLost(h) \/ DoResolve(h) \/ Reconnect(h)
    PROVE  [Once!Next]_(Once!vars)
  <1>1. h \in Users
    BY DEF Users
  <1>2. CASE NewOperation(h) \/ Do(h) \/ Reconnect(h)
    BY <1>2 DEF NewOperation, Do, Reconnect, hostVars, Once!vars
  <1>3. CASE DoLost(h)
    BY <1>3 DEF DoLost, DoEnd, hostVars, Once!vars
  <1>4. CASE DoAnswered(h)
    <2>1. PICK confirmed \in BOOLEAN, unresolved \in BOOLEAN :
              /\ DoEnd(h, confirmed, unresolved)
              /\ confirmed => message[call[h].slot].reply = "done"
      BY <1>4 DEF DoAnswered
    <2>2. call[h].op \in OpIds /\ (confirmed => file[call[h].op] = {"done"})
      BY <1>1, <1>4, <2>1 DEF DoAnswered, IInv, Correspond, Carried, Waiting, Owned, ClientTypes
    <2>3. effects' = effects
      BY <1>4 DEF DoAnswered, hostVars
    <2>4. QED
      BY <2>1, <2>2, <2>3, TellStep DEF DoEnd
  <1>5. CASE DoResolve(h)
    <2>1. PICK confirmed \in BOOLEAN, unresolved \in BOOLEAN :
              /\ DoEnd(h, confirmed, unresolved)
              /\ confirmed => Resolved(call[h].op)
      BY <1>5 DEF DoResolve
    <2>2. call[h].op \in OpIds /\ (confirmed => file[call[h].op] = {"done"})
      BY <1>1, <1>5, <2>1 DEF DoResolve, Resolved, IInv, Journal, Owned, ClientTypes
    <2>3. effects' = effects
      BY <1>5 DEF DoResolve, hostVars
    <2>4. QED
      BY <2>1, <2>2, <2>3, TellStep DEF DoEnd
  <1>6. QED
    BY <1>2, <1>3, <1>4, <1>5

LEMMA OnceStep ==
    ASSUME IInv, Next
    PROVE  [Once!Next]_(Once!vars)
  <1>1. CASE \E c \in Callers : CallBegin(c) \/ CallAnswered(c) \/ CallLost(c) \/ CallResolve(c)
    BY <1>1, CallerOnce
  <1>2. CASE \E h \in Handles : \/ NewOperation(h) \/ Do(h)
                                \/ DoAnswered(h) \/ DoLost(h) \/ DoResolve(h) \/ Reconnect(h)
    BY <1>2, HandleOnce
  <1>3. CASE \E s \in Slots : Vanish(s) \/ Stale(s) \/ Replay(s) \/ Begin(s) \/ Reconcile(s)
    BY <1>3 DEF Vanish, Stale, Replay, Begin, Reconcile, hostVars, clientVars, Once!vars
  <1>4. CASE Retry \/ Rebegin \/ Complete \/ Abort
    BY <1>4 DEF Retry, Rebegin, Complete, Abort, clientVars, Once!vars
  <1>5. CASE HostStops \/ HostStarts
    BY <1>5 DEF HostStops, HostStarts, clientVars, Once!vars
  <1>6. QED
    BY <1>1, <1>2, <1>3, <1>4, <1>5, ExecuteOnce DEF Next, Serving

\* Client and host implement an operation done once (OperationOnce): no retry,
\* late copy or restart between two steps of executeMutating commits an op_id
\* twice, and Call or Do answers nil for committed operations only.
THEOREM OnceTheorem == Spec => ImplementsOnce
  <1>1. Init => Once!Init
    BY DEF Init, Once!Init
  <1>2. IInv /\ [Next]_vars => [Once!Next]_(Once!vars)
    <2>1. UNCHANGED vars => UNCHANGED Once!vars
      BY DEF vars, hostVars, clientVars, Once!vars
    <2>2. QED
      BY <2>1, OnceStep
  <1>3. QED
    BY <1>1, <1>2, StorageHostInvariance, PTL DEF Spec, ImplementsOnce, Once!Spec
=============================================================================
