------------------------ MODULE TaskWriteQueueProofs ------------------------
(***************************************************************************)
(* The safety properties of the Task store's write-behind path, for every  *)
(* set of admitted and synchronous transactions.                           *)
(*                                                                         *)
(* The argument.  Writes reach the log from two sides, so the invariant    *)
(* says first why they never mix: a synchronous writer holds the gate from *)
(* before its decision to after its index update, and while it does the    *)
(* overlay is empty and the worker rests (Exclusion); the overlay and the  *)
(* queue are the same transactions (Lined); the index lags only between a  *)
(* commit and its hook, or is marked dirty (Absorbed).  Then what a        *)
(* transaction decided on can be stated about its position alone: in the   *)
(* overlay, the log and the transactions ahead of it (Decided).  A queue   *)
(* that failed never writes again, so nothing is said of its overlay.      *)
(***************************************************************************)
EXTENDS TaskWriteQueue, SequenceTheorems, TLAPS

\* The log without the commit whose hook has not run.
Base == IF worker = "committed" THEN SubSeq(disk, 1, Len(disk) - 1) ELSE disk

\* The worker may still write what is queued.
Healthy == worker \in {"idle", "writing", "committed", "applied"}

HoldsGate == {"gated", "writing", "committed", "applied", "uncertain", "erred"}

Exclusion ==
    /\ \A a \in Admitted : pc[a] \in {"overlay", "callback"} => mu = a
    /\ mu # None => gate = None
    /\ \A w \in Writers : pc[w] \in HoldsGate => gate = w
    /\ gate # None => pending = <<>> /\ worker \in {"idle", "applied"}
    /\ \A a \in Admitted : pc[a] \notin HoldsGate

OsLocked ==
    /\ worker \in {"writing", "committed"} => os = "worker"
    /\ \A w \in Writers : pc[w] \in {"writing", "committed"} => os = w

Lined ==
    /\ IF worker = "applied" THEN queue # <<>> /\ pending = Tail(queue) ELSE pending = queue
    /\ worker # "idle" => queue # <<>>
    /\ worker \notin {"idle", "failing"} => ~failed
    /\ worker = "committed" => disk # <<>> /\ disk[Len(disk)] = Head(queue)

Unabsorbed == worker = "committed" \/ \E w \in Writers : pc[w] = "committed"
Unknown == worker = "uncertain" \/ \E w \in Writers : pc[w] = "uncertain"
Absorbed == ~dirty /\ ~Unknown => indexed = IF Unabsorbed THEN Len(disk) - 1 ELSE Len(disk)

Decided ==
    /\ \A a \in Admitted : pc[a] \in {"overlay", "callback"} => overlay = pending
    /\ \A a \in Admitted : Healthy /\ pc[a] = "callback" => basis[a] = Base \o pending
    /\ Healthy => \A i \in 1..Len(pending) : basis[pending[i]] = Base \o SubSeq(pending, 1, i - 1)
    /\ \A w \in Writers : pc[w] = "writing" => basis[w] = disk

\* Where a transaction in the log can be.
OnDisk == {"accepted", "committed", "applied", "uncertain", "erred", "written", "failed"}

Placed ==
    /\ \A i \in 1..Len(pending) : pc[pending[i]] = "accepted"
    /\ \A i \in 1..Len(disk) : pc[disk[i]] \in OnDisk
    /\ \A a \in Admitted : pc[a] = "accepted" =>
          (\E i \in 1..Len(pending) : pending[i] = a) \/ (\E i \in 1..Len(disk) : disk[i] = a)

Closing ==
    /\ store \notin {"open", "closing"} => InFlight = {}
    /\ store \in {"drained", "closed"} => pending = <<>>

\* The type invariant, in three parts.
QueueTypes ==
    /\ mu \in Admitted \cup {None}
    /\ gate \in Writers \cup {None}
    /\ pending \in Seq(Admitted)
    /\ doomed \in Admitted \cup {None}
    /\ queue \in Seq(Admitted)
    /\ failed \in BOOLEAN

LogTypes ==
    /\ worker \in {"idle", "writing", "committed", "applied", "uncertain", "erred", "failing"}
    /\ os \in Writers \cup {"worker", None}
    /\ disk \in Seq(Transactions)
    /\ settled \in BOOLEAN
    /\ indexed \in 0..Len(disk)
    /\ dirty \in BOOLEAN

CallTypes ==
    /\ store \in {"open", "closing", "draining", "drained", "undrained", "closed", "closed undrained"}
    /\ pc \in [Transactions -> Points]
    /\ barrier \in [Writers -> SUBSET Admitted]
    /\ overlay \in Seq(Admitted)
    /\ basis \in [Transactions -> Seq(Transactions)]

IInv ==
    /\ TypeOK /\ Exclusion /\ OsLocked /\ Lined
    /\ Absorbed /\ Decided /\ Placed /\ Closing /\ Serializable

-----------------------------------------------------------------------------
(* Where transactions are.                                                 *)

\* A signal at most wakes a parked transaction.
Kept(t) ==
    \/ pc'[t] = pc[t]
    \/ pc[t] = "parked" /\ pc'[t] = "entered"

Others(t) == \A u \in Transactions \ {t} : Kept(u)

\* A transaction moves, with or without a signal, and the others stay or wake.
LEMMA MoveFacts ==
    ASSUME TypeOK, NEW t \in Transactions, NEW at \in Points, Move(t, at) \/ SignalAndMove(t, at)
    PROVE  pc' \in [Transactions -> Points] /\ pc'[t] = at /\ Others(t)
  <1>1. pc \in [Transactions -> Points]
    BY DEF TypeOK, Points
  <1>2. Woken \in [Transactions -> Points]
    BY <1>1 DEF Woken, Points
  <1>3. QED
    BY <1>1, <1>2 DEF Move, SignalAndMove, Woken, Others, Kept

LEMMA WokenFacts ==
    ASSUME TypeOK, pc' = Woken
    PROVE  pc' \in [Transactions -> Points] /\ \A t \in Transactions : Kept(t)
  <1>1. pc \in [Transactions -> Points]
    BY DEF TypeOK, Points
  <1>2. QED
    BY <1>1 DEF Woken, Points, Kept

-----------------------------------------------------------------------------
(* Sequences.                                                              *)

LEMMA AppendFacts ==
    ASSUME NEW S, NEW s \in Seq(S), NEW e \in S
    PROVE  /\ Append(s, e) \in Seq(S) /\ Len(Append(s, e)) = Len(s) + 1 /\ Append(s, e) # <<>>
           /\ Append(s, e)[Len(s) + 1] = e
           /\ \A i \in 1..Len(s) : Append(s, e)[i] = s[i]
           /\ \A i \in 0..Len(s) : SubSeq(Append(s, e), 1, i) = SubSeq(s, 1, i)
  <1>1. /\ Append(s, e) \in Seq(S) /\ Len(Append(s, e)) = Len(s) + 1 /\ Append(s, e) # <<>>
        /\ Append(s, e)[Len(s) + 1] = e
        /\ \A i \in 1..Len(s) : Append(s, e)[i] = s[i]
    BY AppendProperties, LenProperties
  <1>2. ASSUME NEW i \in 0..Len(s)
        PROVE  SubSeq(Append(s, e), 1, i) = SubSeq(s, 1, i)
    <2>1. Len(s) \in Nat /\ i \in Nat
      BY LenProperties
    <2>2. /\ SubSeq(s, 1, i) \in Seq(S) /\ Len(SubSeq(s, 1, i)) = i
          /\ \A j \in 1..i : SubSeq(s, 1, i)[j] = s[j]
      BY <2>1, SubSeqProperties, ElementOfSeq
    <2>3. /\ SubSeq(Append(s, e), 1, i) \in Seq(S) /\ Len(SubSeq(Append(s, e), 1, i)) = i
          /\ \A j \in 1..i : SubSeq(Append(s, e), 1, i)[j] = Append(s, e)[j]
      BY <1>1, <2>1, SubSeqProperties, ElementOfSeq
    <2>4. QED
      BY <1>1, <2>1, <2>2, <2>3, SeqEqual
  <1>3. QED
    BY <1>1, <1>2

Regroups(S) == \A r, s, t \in Seq(S) : (r \o s) \o t = r \o (s \o t)

LEMMA Regroup ==
    ASSUME NEW S
    PROVE  Regroups(S)
  <1>1. \A r, s, t \in Seq(S) : (r \o s) \o t = r \o (s \o t)
    BY ConcatAssociative
  <1>2. QED
    BY <1>1 DEF Regroups

\* Moving the head of s to the end of b leaves what lies before its successors.
LEMMA HeadMoves ==
    ASSUME NEW S, NEW b \in Seq(S), NEW s \in Seq(S), s # <<>>, NEW i \in 1..Len(Tail(s))
    PROVE  Append(b, Head(s)) \o SubSeq(Tail(s), 1, i - 1) = b \o SubSeq(s, 1, i)
  <1> DEFINE rest == SubSeq(Tail(s), 1, i - 1)
  <1>1. /\ Head(s) \in S /\ Tail(s) \in Seq(S) /\ Len(Tail(s)) = Len(s) - 1
        /\ \A j \in 1..Len(Tail(s)) : Tail(s)[j] = s[j + 1]
        /\ Head(s) = s[1]
    BY HeadTailProperties
  <1>2. Len(s) \in Nat /\ i \in 1..Len(s) /\ i + 1 <= Len(s) /\ i - 1 \in Nat
    BY <1>1, LenProperties
  <1>3. /\ rest \in Seq(S) /\ Len(rest) = i - 1
        /\ \A j \in 1..i - 1 : rest[j] = s[j + 1]
    BY <1>1, <1>2, SubSeqProperties, ElementOfSeq
  <1>4. /\ SubSeq(s, 2, i) \in Seq(S) /\ Len(SubSeq(s, 2, i)) = i - 1
        /\ \A j \in 1..i - 1 : SubSeq(s, 2, i)[j] = s[j + 1]
    <2>1. \A j \in 2..i : s[j] \in S
      BY <1>2, ElementOfSeq
    <2>2. /\ SubSeq(s, 2, i) \in Seq(S)
          /\ Len(SubSeq(s, 2, i)) = IF 2 <= i THEN i - 2 + 1 ELSE 0
          /\ \A j \in 1..i - 2 + 1 : SubSeq(s, 2, i)[j] = s[2 + j - 1]
      BY <1>2, <2>1, SubSeqProperties
    <2>3. QED
      BY <1>2, <2>2
  <1>5. rest = SubSeq(s, 2, i)
    BY <1>3, <1>4, SeqEqual
  <1>6. SubSeq(s, 1, i) = <<Head(s)>> \o rest
    BY <1>1, <1>2, <1>5, SubSeqRecursiveFirst
  <1>7. Append(b, Head(s)) = b \o <<Head(s)>> /\ <<Head(s)>> \in Seq(S)
    BY <1>1, AppendIsConcat
  <1> HIDE DEF rest
  <1>8. (b \o <<Head(s)>>) \o rest = b \o (<<Head(s)>> \o rest)
    <2>1. Regroups(S)
      BY Regroup
    <2>2. QED
      BY <1>3, <1>7, <2>1 DEF Regroups
  <1>9. Append(b, Head(s)) \o rest = b \o SubSeq(s, 1, i)
    BY <1>6, <1>7, <1>8, Zenon
  <1>10. QED
    BY <1>9 DEF rest

-----------------------------------------------------------------------------
(* The log, the overlay and what their transactions decided on.            *)

LEMMA LogGrows ==
    ASSUME TypeOK, NEW t \in Transactions, disk' = Append(disk, t)
    PROVE  /\ disk' \in Seq(Transactions) /\ disk' # <<>>
           /\ Len(disk) \in Nat /\ indexed \in 0..Len(disk)
           /\ Len(disk') = Len(disk) + 1 /\ Len(disk') - 1 = Len(disk)
           /\ disk'[Len(disk) + 1] = t
           /\ \A i \in 1..Len(disk) : disk'[i] = disk[i]
           /\ \A i \in 0..Len(disk) : SubSeq(disk', 1, i) = SubSeq(disk, 1, i)
           /\ SubSeq(disk', 1, Len(disk') - 1) = disk
  <1>1. disk \in Seq(Transactions) /\ Len(disk) \in Nat /\ indexed \in 0..Len(disk)
    BY LenProperties DEF TypeOK
  <1>2. /\ disk' \in Seq(Transactions) /\ disk' # <<>>
        /\ Len(disk') = Len(disk) + 1 /\ disk'[Len(disk) + 1] = t
        /\ \A i \in 1..Len(disk) : disk'[i] = disk[i]
        /\ \A i \in 0..Len(disk) : SubSeq(disk', 1, i) = SubSeq(disk, 1, i)
    BY <1>1, AppendFacts
  <1>3. Len(disk') - 1 = Len(disk) /\ Len(disk) \in 0..Len(disk)
    BY <1>1, <1>2
  <1>4. SubSeq(disk', 1, Len(disk') - 1) = disk
    BY <1>1, <1>2, <1>3, SubSeqFull
  <1>5. QED
    BY <1>1, <1>2, <1>3, <1>4

LEMMA IndexTyped ==
    ASSUME TypeOK, disk' = disk, indexed' \in {indexed, Len(disk)}
    PROVE  disk' \in Seq(Transactions) /\ indexed' \in 0..Len(disk')
  <1>1. disk \in Seq(Transactions) /\ Len(disk) \in Nat /\ indexed \in 0..Len(disk)
    BY LenProperties DEF TypeOK
  <1>2. QED
    BY <1>1

\* A transaction that decided on the whole log may be appended to it.
LEMMA SerializableGrows ==
    ASSUME TypeOK, Serializable, NEW t \in Transactions, disk' = Append(disk, t),
           basis[t] = disk, basis' = basis
    PROVE  Serializable'
  <1>1. /\ Len(disk) \in Nat /\ Len(disk') = Len(disk) + 1
        /\ DOMAIN disk = 1..Len(disk) /\ DOMAIN disk' = 1..Len(disk')
    BY LogGrows, LenProperties DEF TypeOK
  <1>2. ASSUME NEW i \in 1..Len(disk')
        PROVE  basis'[disk'[i]] = SubSeq(disk', 1, i - 1)
    <2>1. CASE i \in 1..Len(disk)
      <3>1. basis[disk[i]] = SubSeq(disk, 1, i - 1) /\ i - 1 \in 0..Len(disk)
        BY <1>1, <2>1 DEF Serializable
      <3>2. QED
        BY <2>1, <3>1, LogGrows
    <2>2. CASE i = Len(disk) + 1
      <3>1. disk'[i] = t /\ SubSeq(disk', 1, i - 1) = disk
        BY <1>1, <2>2, LogGrows
      <3>2. QED
        BY <3>1
    <2>3. QED
      BY <1>1, <2>1, <2>2
  <1>3. QED
    BY <1>1, <1>2 DEF Serializable

\* A transaction that is not in the log may decide.
LEMMA SerializableDecides ==
    ASSUME TypeOK, Serializable, Placed, NEW t \in Transactions, pc[t] \notin OnDisk,
           disk' = disk, \A u \in Transactions \ {t} : basis'[u] = basis[u]
    PROVE  Serializable'
  <1>1. DOMAIN disk = 1..Len(disk) /\ \A i \in 1..Len(disk) : disk[i] \in Transactions
    BY LenProperties, ElementOfSeq DEF TypeOK
  <1>2. \A i \in 1..Len(disk) : disk[i] # t
    BY DEF Placed
  <1>3. QED
    BY <1>1, <1>2 DEF Serializable

LEMMA PlacedFrame ==
    ASSUME TypeOK, Placed, pending' = pending, disk' = disk,
           \A t \in Transactions : /\ pc[t] \in OnDisk => pc'[t] \in OnDisk
                                   /\ pc'[t] = "accepted" <=> pc[t] = "accepted"
    PROVE  Placed'
  <1>1. /\ \A i \in 1..Len(disk) : disk[i] \in Transactions
        /\ \A i \in 1..Len(pending) : pending[i] \in Transactions
        /\ Admitted \subseteq Transactions
    BY ElementOfSeq DEF TypeOK, Transactions
  <1>2. QED
    BY <1>1 DEF Placed

LEMMA PlacedGrows ==
    ASSUME TypeOK, Placed, NEW t \in Transactions, disk' = Append(disk, t), pending' = pending,
           pc'[t] \in OnDisk,
           \A u \in Transactions : /\ pc[u] \in OnDisk => pc'[u] \in OnDisk
                                   /\ pc'[u] = "accepted" <=> pc[u] = "accepted"
    PROVE  Placed'
  <1>1. /\ \A i \in 1..Len(disk) : disk[i] \in Transactions
        /\ \A i \in 1..Len(pending) : pending[i] \in Transactions
        /\ Admitted \subseteq Transactions
    BY ElementOfSeq DEF TypeOK, Transactions
  <1>2. /\ Len(disk) \in Nat /\ Len(disk') = Len(disk) + 1 /\ disk'[Len(disk) + 1] = t
        /\ \A i \in 1..Len(disk) : disk'[i] = disk[i] /\ i \in 1..Len(disk')
    BY LogGrows
  <1>3. \A i \in 1..Len(disk') : i \in 1..Len(disk) \/ i = Len(disk) + 1
    BY <1>2
  <1>4. \A i \in 1..Len(disk') : pc'[disk'[i]] \in OnDisk
    BY <1>1, <1>2, <1>3 DEF Placed
  <1>5. \A i \in 1..Len(pending') : pc'[pending'[i]] = "accepted"
    BY <1>1 DEF Placed
  <1>6. ASSUME NEW a \in Admitted, pc'[a] = "accepted"
        PROVE  (\E i \in 1..Len(pending') : pending'[i] = a) \/ (\E i \in 1..Len(disk') : disk'[i] = a)
    <2>1. pc[a] = "accepted"
      BY <1>1, <1>6
    <2>2. QED
      BY <1>2, <2>1 DEF Placed
  <1>7. QED
    BY <1>4, <1>5, <1>6 DEF Placed

\* The gate's holder finds an empty overlay and a resting worker.
LEMMA GateHeld ==
    ASSUME TypeOK, Exclusion, NEW w \in Writers, pc[w] \in HoldsGate
    PROVE  /\ gate = w /\ pending = <<>> /\ Len(pending) = 0 /\ mu = None
           /\ worker \in {"idle", "applied"}
           /\ \A v \in Writers : pc[v] \in HoldsGate => v = w
           /\ \A a \in Admitted : pc[a] \notin {"overlay", "callback"}
  <1>1. gate = w /\ w # None
    BY TransactionAssumption DEF Exclusion, Transactions
  <1>2. pending = <<>> /\ worker \in {"idle", "applied"} /\ mu = None
    BY <1>1 DEF Exclusion
  <1>3. \A a \in Admitted : a # None
    BY TransactionAssumption DEF Transactions
  <1>4. QED
    BY <1>1, <1>2, <1>3 DEF Exclusion

\* While the worker writes, no synchronous writer is between gate and release,
\* and what it writes is the head of the overlay.
LEMMA WorkerWrites ==
    ASSUME TypeOK, Exclusion, Lined, Placed, worker \notin {"idle", "applied"}
    PROVE  /\ \A w \in Writers : pc[w] \notin HoldsGate
           /\ gate = None /\ queue = pending /\ queue # <<>>
           /\ Head(queue) \in Admitted /\ Head(queue) \in Transactions
           /\ Head(queue) = pending[1] /\ 1 \in 1..Len(pending)
           /\ pc[Head(queue)] = "accepted"
  <1>1. \A w \in Writers : pc[w] \notin HoldsGate
    BY GateHeld
  <1>2. gate = None /\ queue = pending /\ queue # <<>>
    BY DEF Exclusion, Lined
  <1>3. pending \in Seq(Admitted) /\ pending # <<>>
    BY <1>2 DEF TypeOK
  <1>4. Len(pending) \in Nat \ {0} /\ Head(pending) = pending[1] /\ Head(pending) \in Admitted
    BY <1>3, EmptySeq, HeadTailProperties
  <1>5. 1 \in 1..Len(pending)
    BY <1>4
  <1>6. pc[pending[1]] = "accepted"
    BY <1>5 DEF Placed
  <1>7. QED
    BY <1>1, <1>2, <1>4, <1>5, <1>6 DEF Transactions

LEMMA LastSplit ==
    ASSUME NEW S, NEW s \in Seq(S), s # <<>>
    PROVE  /\ SubSeq(s, 1, Len(s) - 1) \in Seq(S)
           /\ s = Append(SubSeq(s, 1, Len(s) - 1), s[Len(s)])
  <1>1. Len(s) \in Nat \ {0}
    BY EmptySeq
  <1>2. Len(s) \in 1..Len(s) /\ 1 \in 1..Len(s) /\ Len(s) - 1 \in Int /\ s[Len(s)] \in S
    BY <1>1, ElementOfSeq
  <1>3. SubSeq(s, 1, Len(s) - 1) \in Seq(S)
    BY <1>1, <1>2, SubSeqProperties, ElementOfSeq
  <1>4. s = SubSeq(s, 1, Len(s) - 1) \o <<s[Len(s)]>>
    BY <1>2, SubSeqRecursiveSecond, SubSeqFull
  <1>5. QED
    BY <1>2, <1>3, <1>4, AppendIsConcat

-----------------------------------------------------------------------------
(* One lemma per action.                                                   *)

\* The points no part of the invariant speaks of.
Resting == {"start", "entered", "refused", "parked", "barrier"}

\* A transaction that only goes from one such point to another, and a close that
\* goes on, disturb nothing but what Closing says.
LEMMA QuietInv ==
    ASSUME IInv, Closing',
           UNCHANGED <<mu, gate, pending, doomed, queue, failed, worker, os, disk, settled, indexed, dirty,
                       overlay, basis>>,
           store' \in {"open", "closing", "draining", "drained", "undrained", "closed", "closed undrained"},
           pc' \in [Transactions -> Points], barrier' \in [Writers -> SUBSET Admitted],
           \A u \in Transactions : pc'[u] = pc[u] \/ {pc[u], pc'[u]} \subseteq Resting
    PROVE  IInv'
  <1>1. TypeOK'
    <2>1. QueueTypes /\ LogTypes /\ CallTypes
      BY DEF IInv, TypeOK, QueueTypes, LogTypes, CallTypes
    <2>2. QueueTypes'
      BY <2>1 DEF QueueTypes
    <2>3. LogTypes'
      BY <2>1 DEF LogTypes
    <2>4. CallTypes'
      BY <2>1 DEF CallTypes
    <2>5. QED
      BY <2>2, <2>3, <2>4 DEF TypeOK, QueueTypes, LogTypes, CallTypes
  <1>2. Exclusion'
    BY DEF IInv, Exclusion, HoldsGate, Resting, Transactions
  <1>3. OsLocked' /\ Lined'
    BY DEF IInv, OsLocked, Lined, Resting, Transactions
  <1>4. Absorbed'
    BY DEF IInv, Absorbed, Unabsorbed, Unknown, Resting, Transactions
  <1>5. Decided'
    BY DEF IInv, Decided, Healthy, Base, Resting, Transactions
  <1>6. Placed'
    <2>1. \A u \in Transactions : /\ pc[u] \in OnDisk => pc'[u] \in OnDisk
                                  /\ pc'[u] = "accepted" <=> pc[u] = "accepted"
      BY DEF Resting, OnDisk
    <2>2. QED
      BY <2>1, PlacedFrame DEF IInv
  <1>7. Serializable'
    BY DEF IInv, Serializable
  <1>8. QED
    BY <1>1, <1>2, <1>3, <1>4, <1>5, <1>6, <1>7 DEF IInv

LEMMA EnterInv ==
    ASSUME IInv, NEW t \in Transactions, Enter(t)
    PROVE  IInv'
  <1>1. pc' \in [Transactions -> Points] /\ pc'[t] = "entered" /\ Others(t)
    BY MoveFacts DEF IInv, Enter, Points, Ended
  <1>2. \A u \in Transactions : pc'[u] = pc[u] \/ {pc[u], pc'[u]} \subseteq Resting
    BY <1>1 DEF Enter, Others, Kept, Resting
  <1>3. Closing'
    BY <1>1 DEF IInv, Enter, Closing, InFlight, Ended, Others, Kept
  <1>4. barrier' \in [Writers -> SUBSET Admitted]
    BY DEF IInv, TypeOK, Enter, callVars
  <1>5. QED
    BY <1>1, <1>2, <1>3, <1>4, QuietInv DEF IInv, TypeOK, Enter, queueVars, fileVars, indexVars,
       callVars

LEMMA NotEnteredInv ==
    ASSUME IInv, NEW t \in Transactions, NotEntered(t)
    PROVE  IInv'
  <1>1. pc' \in [Transactions -> Points] /\ pc'[t] = "refused" /\ Others(t)
    BY MoveFacts DEF IInv, NotEntered, Points, Ended
  <1>2. \A u \in Transactions : pc'[u] = pc[u] \/ {pc[u], pc'[u]} \subseteq Resting
    BY <1>1 DEF NotEntered, Others, Kept, Resting
  <1>3. Closing'
    BY <1>1 DEF IInv, NotEntered, Closing, InFlight, Ended, Others, Kept
  <1>4. barrier' \in [Writers -> SUBSET Admitted]
    BY DEF IInv, TypeOK, NotEntered, callVars
  <1>5. QED
    BY <1>1, <1>2, <1>3, <1>4, QuietInv DEF IInv, TypeOK, NotEntered, queueVars, fileVars, indexVars,
       callVars

LEMMA AdmittedBeginInv ==
    ASSUME IInv, NEW a \in Admitted, AdmittedBegin(a)
    PROVE  IInv'
  <1>0. /\ TypeOK /\ QueueTypes /\ LogTypes /\ CallTypes
        /\ Exclusion /\ OsLocked /\ Lined /\ Absorbed /\ Decided /\ Placed /\ Closing /\ Serializable
    BY DEF IInv, TypeOK, QueueTypes, LogTypes, CallTypes
  <1>1. pc' \in [Transactions -> Points] /\ pc'[a] = "overlay" /\ Others(a)
    BY <1>0, MoveFacts DEF AdmittedBegin, Transactions, Points, Ended
  <1>2. QueueTypes'
    BY <1>0 DEF AdmittedBegin, queueVars, QueueTypes
  <1>3. LogTypes'
    BY <1>0 DEF AdmittedBegin, fileVars, indexVars, LogTypes
  <1>4. CallTypes'
    BY <1>0, <1>1 DEF AdmittedBegin, CallTypes, Others, Kept, Transactions, QueueTypes
  <1>5. Exclusion'
    BY <1>0, <1>1, TransactionAssumption DEF AdmittedBegin, Exclusion, HoldsGate, Others, Kept,
       Transactions
  <1>6. OsLocked'
    BY <1>0, <1>1, TransactionAssumption DEF AdmittedBegin, OsLocked, Others, Kept, Transactions
  <1>7. Lined'
    BY <1>0 DEF AdmittedBegin, queueVars, fileVars, Lined
  <1>8. Absorbed'
    BY <1>0, <1>1, TransactionAssumption DEF AdmittedBegin, fileVars, indexVars, Absorbed, Unabsorbed,
       Unknown, Others, Kept, Transactions
  <1>9. Decided'
    BY <1>0, <1>1, TransactionAssumption DEF AdmittedBegin, fileVars, Decided, Healthy, Base, Others,
       Kept, Transactions
  <1>10. Placed'
    <2>1. \A u \in Transactions : /\ pc[u] \in OnDisk => pc'[u] \in OnDisk
                                  /\ pc'[u] = "accepted" <=> pc[u] = "accepted"
      BY <1>1 DEF AdmittedBegin, Others, Kept, OnDisk, Transactions
    <2>2. pending' = pending /\ disk' = disk
      BY DEF AdmittedBegin, fileVars
    <2>3. QED
      BY <1>0, <2>1, <2>2, PlacedFrame
  <1>11. Closing'
    BY <1>0, <1>1, TransactionAssumption DEF AdmittedBegin, Closing, InFlight, Ended, Others, Kept,
       Transactions
  <1>12. Serializable'
    BY <1>0 DEF AdmittedBegin, fileVars, Serializable
  <1>13. QED
    BY <1>2, <1>3, <1>4, <1>5, <1>6, <1>7, <1>8, <1>9, <1>10, <1>11, <1>12 DEF IInv, TypeOK, QueueTypes,
       LogTypes, CallTypes

LEMMA AdmittedViewInv ==
    ASSUME IInv, NEW a \in Admitted, AdmittedView(a)
    PROVE  IInv'
  <1>0. /\ TypeOK /\ QueueTypes /\ LogTypes /\ CallTypes
        /\ Exclusion /\ OsLocked /\ Lined /\ Absorbed /\ Decided /\ Placed /\ Closing /\ Serializable
    BY DEF IInv, TypeOK, QueueTypes, LogTypes, CallTypes
  <1>1. pc' \in [Transactions -> Points] /\ pc'[a] = "callback" /\ Others(a)
    BY <1>0, MoveFacts DEF AdmittedView, Transactions, Points, Ended
  <1>2. QueueTypes'
    BY <1>0 DEF AdmittedView, queueVars, QueueTypes
  <1>3. LogTypes'
    BY <1>0 DEF AdmittedView, fileVars, indexVars, LogTypes
  <1>4. CallTypes'
    <2>1. Index \in Seq(Transactions)
      <3>1. disk \in Seq(Transactions) /\ Len(disk) \in Nat /\ indexed \in 0..Len(disk)
        BY <1>0, LenProperties DEF LogTypes
      <3>2. \A i \in 1..indexed : disk[i] \in Transactions
        BY <3>1, ElementOfSeq
      <3>3. QED
        BY <3>1, <3>2, SubSeqProperties DEF Index
    <2>2. overlay \in Seq(Transactions)
      BY <1>0, SeqMonotonic DEF CallTypes, Transactions
    <2>3. Index \o overlay \in Seq(Transactions)
      BY <2>1, <2>2, ConcatProperties
    <2>4. basis' \in [Transactions -> Seq(Transactions)]
      BY <1>0, <2>3 DEF AdmittedView, CallTypes
    <2>5. QED
      BY <1>0, <1>1, <2>4 DEF AdmittedView, CallTypes
  <1>5. Exclusion'
    BY <1>0, <1>1, TransactionAssumption DEF AdmittedView, Exclusion, HoldsGate, Others, Kept,
       Transactions
  <1>6. OsLocked'
    BY <1>0, <1>1, TransactionAssumption DEF AdmittedView, OsLocked, Others, Kept, Transactions
  <1>7. Lined'
    BY <1>0 DEF AdmittedView, queueVars, fileVars, Lined
  <1>8. Absorbed'
    BY <1>0, <1>1, TransactionAssumption DEF AdmittedView, fileVars, indexVars, Absorbed, Unabsorbed,
       Unknown, Others, Kept, Transactions
  <1>9. Decided'
    <2>1. /\ pc[a] = "overlay" /\ mu = a /\ gate = None /\ overlay = pending
          /\ \A b \in Admitted : pc[b] \in {"overlay", "callback"} => b = a
          /\ \A w \in Writers : pc[w] \notin HoldsGate
      BY <1>0, TransactionAssumption DEF AdmittedView, Exclusion, Decided, Transactions
    <2>2. UNCHANGED <<pending, worker, disk, overlay>> /\ basis'[a] = Index \o overlay
      BY <1>0 DEF AdmittedView, CallTypes, Transactions, fileVars
    <2>3. \A u \in Transactions \ {a} : basis'[u] = basis[u]
      BY <1>0 DEF AdmittedView, CallTypes
    <2>4. Healthy => Index = Base
      <3>1. SUFFICES ASSUME Healthy PROVE Index = Base
        OBVIOUS
      <3>2. indexed = IF worker = "committed" THEN Len(disk) - 1 ELSE Len(disk)
        BY <1>0, <2>1, <3>1 DEF AdmittedView, IndexTrusted, Absorbed, Unabsorbed, Unknown, Healthy,
           HoldsGate
      <3>3. SubSeq(disk, 1, Len(disk)) = disk
        BY <1>0, SubSeqFull DEF LogTypes
      <3>4. QED
        BY <3>2, <3>3 DEF Index, Base
    <2>5. \A b \in Admitted : pc'[b] \in {"overlay", "callback"} => b = a
      BY <1>1, <2>1 DEF Others, Kept, Transactions
    <2>6. \A w \in Writers : pc'[w] # "writing"
      BY <1>1, <2>1, TransactionAssumption DEF Others, Kept, Transactions, HoldsGate
    <2>7. Healthy' => \A i \in 1..Len(pending') : basis'[pending'[i]] = Base' \o SubSeq(pending', 1, i - 1)
      <3>1. \A i \in 1..Len(pending) : pending[i] \in Transactions \ {a}
        BY <1>0, <2>1, ElementOfSeq DEF Placed, QueueTypes, Transactions
      <3>2. Healthy' = Healthy /\ Base' = Base
        BY <2>2 DEF Healthy, Base
      <3>3. QED
        BY <1>0, <2>2, <2>3, <3>1, <3>2 DEF Decided
    <2>8. \A b \in Admitted : Healthy' /\ pc'[b] = "callback" => basis'[b] = Base' \o pending'
      BY <2>1, <2>2, <2>4, <2>5 DEF Healthy, Base
    <2>9. QED
      BY <2>1, <2>2, <2>5, <2>6, <2>7, <2>8 DEF Decided
  <1>10. Placed'
    <2>1. \A u \in Transactions : /\ pc[u] \in OnDisk => pc'[u] \in OnDisk
                                  /\ pc'[u] = "accepted" <=> pc[u] = "accepted"
      BY <1>1 DEF AdmittedView, Others, Kept, OnDisk, Transactions
    <2>2. pending' = pending /\ disk' = disk
      BY DEF AdmittedView, fileVars
    <2>3. QED
      BY <1>0, <2>1, <2>2, PlacedFrame
  <1>11. Closing'
    BY <1>0, <1>1, TransactionAssumption DEF AdmittedView, Closing, InFlight, Ended, Others, Kept,
       Transactions
  <1>12. Serializable'
    <2>1. a \in Transactions /\ pc[a] \notin OnDisk /\ disk' = disk
      BY DEF AdmittedView, OnDisk, Transactions, fileVars
    <2>2. \A u \in Transactions \ {a} : basis'[u] = basis[u]
      BY <1>0 DEF AdmittedView, CallTypes
    <2>3. QED
      BY <1>0, <2>1, <2>2, SerializableDecides
  <1>13. QED
    BY <1>2, <1>3, <1>4, <1>5, <1>6, <1>7, <1>8, <1>9, <1>10, <1>11, <1>12 DEF IInv, TypeOK, QueueTypes,
       LogTypes, CallTypes

LEMMA AdmittedAcceptInv ==
    ASSUME IInv, NEW a \in Admitted, AdmittedAccept(a)
    PROVE  IInv'
  <1>0. /\ TypeOK /\ QueueTypes /\ LogTypes /\ CallTypes
        /\ Exclusion /\ OsLocked /\ Lined /\ Absorbed /\ Decided /\ Placed /\ Closing /\ Serializable
    BY DEF IInv, TypeOK, QueueTypes, LogTypes, CallTypes
  <1>1. pc' \in [Transactions -> Points] /\ pc'[a] = "accepted" /\ Others(a)
    BY <1>0, MoveFacts DEF AdmittedAccept, Transactions, Points, Ended
  <1>2. QueueTypes'
    BY <1>0 DEF AdmittedAccept, QueueTypes
  <1>3. LogTypes'
    BY <1>0 DEF AdmittedAccept, fileVars, indexVars, LogTypes
  <1>4. CallTypes'
    BY <1>0, <1>1 DEF AdmittedAccept, callVars, CallTypes, Others, Kept, Transactions
  <1>5. Exclusion'
    BY <1>0, <1>1, TransactionAssumption DEF AdmittedAccept, Exclusion, HoldsGate, Others, Kept,
       Transactions
  <1>6. OsLocked'
    BY <1>0, <1>1, TransactionAssumption DEF AdmittedAccept, OsLocked, Others, Kept, Transactions
  <1>7. Lined'
    <2>1. /\ queue' = Append(queue, a) /\ pending' = Append(pending, a)
          /\ worker' = worker /\ disk' = disk /\ failed' = failed
      BY DEF AdmittedAccept, fileVars
    <2>2. queue \in Seq(Admitted) /\ pending \in Seq(Admitted)
      BY <1>0 DEF QueueTypes
    <2>3. /\ Append(queue, a) # <<>>
          /\ queue # <<>> => /\ Head(Append(queue, a)) = Head(queue)
                            /\ Tail(Append(queue, a)) = Append(Tail(queue), a)
      BY <2>2
    <2>4. QED
      BY <1>0, <2>1, <2>3 DEF Lined
  <1>8. Absorbed'
    <2>1. worker' = worker /\ dirty' = dirty /\ indexed' = indexed /\ disk' = disk
      BY DEF AdmittedAccept, fileVars, indexVars
    <2>2. \A w \in Writers : (pc'[w] = "committed" <=> pc[w] = "committed")
                             /\ (pc'[w] = "uncertain" <=> pc[w] = "uncertain")
      BY <1>1, TransactionAssumption DEF Others, Kept, Transactions
    <2>3. Unabsorbed' = Unabsorbed /\ Unknown' = Unknown
      BY <2>1, <2>2 DEF Unabsorbed, Unknown
    <2>4. QED
      BY <1>0, <2>1, <2>3 DEF Absorbed
  <1>9. Decided'
    <2>1. /\ pc[a] = "callback" /\ \A b \in Admitted : pc[b] \in {"overlay", "callback"} => b = a
          /\ pending \in Seq(Admitted) /\ pending' = Append(pending, a)
          /\ UNCHANGED <<worker, disk, basis>>
      BY <1>0 DEF AdmittedAccept, Exclusion, QueueTypes, fileVars, callVars
    <2>2. \A b \in Admitted : pc'[b] \notin {"overlay", "callback"}
      BY <1>1, <2>1 DEF Others, Kept, Transactions
    <2>3. \A w \in Writers : pc'[w] = "writing" => pc[w] = "writing"
      BY <1>1, TransactionAssumption DEF Others, Kept, Transactions
    <2>4. Healthy' = Healthy /\ Base' = Base
      BY <2>1 DEF Healthy, Base
    <2>5. /\ Len(pending) \in Nat /\ Len(pending') = Len(pending) + 1 /\ pending'[Len(pending) + 1] = a
          /\ \A i \in 1..Len(pending) : pending'[i] = pending[i]
          /\ \A i \in 0..Len(pending) : SubSeq(pending', 1, i) = SubSeq(pending, 1, i)
          /\ SubSeq(pending, 1, Len(pending)) = pending
      BY <2>1, AppendFacts, LenProperties, SubSeqFull
    <2>6. ASSUME Healthy, NEW i \in 1..Len(pending')
          PROVE  basis[pending'[i]] = Base \o SubSeq(pending', 1, i - 1)
      <3>1. CASE i \in 1..Len(pending)
        <4>1. i - 1 \in 0..Len(pending)
          BY <2>5, <3>1
        <4>2. basis[pending[i]] = Base \o SubSeq(pending, 1, i - 1)
          BY <1>0, <2>6, <3>1 DEF Decided
        <4>3. QED
          BY <2>5, <3>1, <4>1, <4>2
      <3>2. CASE i = Len(pending) + 1
        <4>1. i - 1 = Len(pending) /\ Len(pending) \in 0..Len(pending)
          BY <2>5, <3>2
        <4>2. SubSeq(pending', 1, i - 1) = pending /\ pending'[i] = a
          BY <2>5, <3>2, <4>1
        <4>3. basis[a] = Base \o pending
          BY <1>0, <2>1, <2>6 DEF Decided
        <4>4. QED
          BY <4>2, <4>3
      <3>3. QED
        BY <2>5, <3>1, <3>2
    <2>7. QED
      BY <1>0, <2>1, <2>2, <2>3, <2>4, <2>6 DEF Decided
  <1>10. Placed'
    <2>1. /\ pending' \in Seq(Admitted) /\ Len(pending) \in Nat /\ Len(pending') = Len(pending) + 1
          /\ pending'[Len(pending) + 1] = a /\ disk' = disk
          /\ \A i \in 1..Len(pending) : pending'[i] = pending[i] /\ pending[i] \in Admitted
      BY <1>0, AppendFacts, LenProperties, ElementOfSeq DEF QueueTypes, AdmittedAccept, fileVars
    <2>2. \A u \in Transactions : /\ pc[u] \in OnDisk => pc'[u] = pc[u]
                                  /\ pc'[u] = "accepted" => pc[u] = "accepted" \/ u = a
      BY <1>1 DEF AdmittedAccept, Others, Kept, OnDisk, Transactions
    <2>3. \A i \in 1..Len(disk') : pc'[disk'[i]] \in OnDisk
      BY <1>0, <2>1, <2>2, ElementOfSeq DEF Placed, LogTypes
    <2>4. \A i \in 1..Len(pending') : i \in 1..Len(pending) \/ i = Len(pending) + 1
      BY <2>1
    <2>5. \A i \in 1..Len(pending') : pc'[pending'[i]] = "accepted"
      BY <1>0, <1>1, <2>1, <2>2, <2>4 DEF Placed, OnDisk, Transactions
    <2>6. ASSUME NEW b \in Admitted, pc'[b] = "accepted"
          PROVE  (\E i \in 1..Len(pending') : pending'[i] = b) \/ (\E i \in 1..Len(disk') : disk'[i] = b)
      <3>1. CASE b = a
        <4>1. Len(pending) + 1 \in 1..Len(pending')
          BY <2>1
        <4>2. QED
          BY <2>1, <3>1, <4>1
      <3>2. CASE b # a
        <4>1. (\E i \in 1..Len(pending) : pending[i] = b) \/ (\E i \in 1..Len(disk) : disk[i] = b)
          BY <1>0, <2>2, <2>6, <3>2 DEF Placed, Transactions
        <4>2. \A i \in 1..Len(pending) : i \in 1..Len(pending')
          BY <2>1
        <4>3. QED
          BY <2>1, <4>1, <4>2
      <3>3. QED
        BY <3>1, <3>2
    <2>7. QED
      BY <2>3, <2>5, <2>6 DEF Placed
  <1>11. Closing'
    BY <1>0, <1>1, TransactionAssumption DEF AdmittedAccept, Closing, InFlight, Ended, Others, Kept,
       Transactions
  <1>12. Serializable'
    BY <1>0 DEF AdmittedAccept, fileVars, callVars, Serializable
  <1>13. QED
    BY <1>2, <1>3, <1>4, <1>5, <1>6, <1>7, <1>8, <1>9, <1>10, <1>11, <1>12 DEF IInv, TypeOK, QueueTypes,
       LogTypes, CallTypes

LEMMA AdmittedRefusedInv ==
    ASSUME IInv, NEW a \in Admitted, AdmittedRefused(a)
    PROVE  IInv'
  <1>0. /\ TypeOK /\ QueueTypes /\ LogTypes /\ CallTypes
        /\ Exclusion /\ OsLocked /\ Lined /\ Absorbed /\ Decided /\ Placed /\ Closing /\ Serializable
    BY DEF IInv, TypeOK, QueueTypes, LogTypes, CallTypes
  <1>1. pc' \in [Transactions -> Points] /\ pc'[a] = "refused" /\ Others(a)
    BY <1>0, MoveFacts DEF AdmittedRefused, Transactions, Points, Ended
  <1>2. QueueTypes'
    BY <1>0 DEF AdmittedRefused, queueVars, QueueTypes
  <1>3. LogTypes'
    BY <1>0 DEF AdmittedRefused, fileVars, indexVars, LogTypes
  <1>4. CallTypes'
    BY <1>0, <1>1 DEF AdmittedRefused, callVars, CallTypes, Others, Kept, Transactions
  <1>5. Exclusion'
    BY <1>0, <1>1, TransactionAssumption DEF AdmittedRefused, Exclusion, HoldsGate, Others, Kept,
       Transactions
  <1>6. OsLocked'
    BY <1>0, <1>1, TransactionAssumption DEF AdmittedRefused, OsLocked, Others, Kept, Transactions
  <1>7. Lined'
    BY <1>0 DEF AdmittedRefused, queueVars, fileVars, Lined
  <1>8. Absorbed'
    BY <1>0, <1>1, TransactionAssumption DEF AdmittedRefused, fileVars, indexVars, Absorbed, Unabsorbed,
       Unknown, Others, Kept, Transactions
  <1>9. Decided'
    BY <1>0, <1>1, TransactionAssumption DEF AdmittedRefused, fileVars, callVars, Decided, Healthy,
       Base, Others, Kept, Transactions
  <1>10. Placed'
    <2>1. \A u \in Transactions : /\ pc[u] \in OnDisk => pc'[u] \in OnDisk
                                  /\ pc'[u] = "accepted" <=> pc[u] = "accepted"
      BY <1>1 DEF AdmittedRefused, Others, Kept, OnDisk, Transactions
    <2>2. pending' = pending /\ disk' = disk
      BY DEF AdmittedRefused, fileVars
    <2>3. QED
      BY <1>0, <2>1, <2>2, PlacedFrame
  <1>11. Closing'
    BY <1>0, <1>1, TransactionAssumption DEF AdmittedRefused, Closing, InFlight, Ended, Others, Kept,
       Transactions
  <1>12. Serializable'
    BY <1>0 DEF AdmittedRefused, fileVars, callVars, Serializable
  <1>13. QED
    BY <1>2, <1>3, <1>4, <1>5, <1>6, <1>7, <1>8, <1>9, <1>10, <1>11, <1>12 DEF IInv, TypeOK, QueueTypes,
       LogTypes, CallTypes

LEMMA WorkerLockInv ==
    ASSUME IInv, WorkerLock
    PROVE  IInv'
  <1>0. /\ TypeOK /\ QueueTypes /\ LogTypes /\ CallTypes
        /\ Exclusion /\ OsLocked /\ Lined /\ Absorbed /\ Decided /\ Placed /\ Closing /\ Serializable
    BY DEF IInv, TypeOK, QueueTypes, LogTypes, CallTypes
  <1>1. pc' = pc
    BY DEF WorkerLock
  <1>2. QueueTypes'
    BY <1>0 DEF WorkerLock, queueVars, QueueTypes
  <1>3. LogTypes'
    <2>1. disk' \in Seq(Transactions) /\ indexed' \in 0..Len(disk')
      BY <1>0, IndexTyped DEF WorkerLock, Recovered, Synced, fileVars, indexVars
    <2>2. QED
      BY <1>0, <2>1 DEF WorkerLock, Recovered, Synced, fileVars, indexVars, LogTypes
  <1>4. CallTypes'
    BY <1>0, <1>1 DEF WorkerLock, callVars, CallTypes
  <1>5. Exclusion'
    BY <1>0, <1>1, TransactionAssumption DEF WorkerLock, Exclusion, HoldsGate, Lined
  <1>6. OsLocked'
    BY <1>0, <1>1, TransactionAssumption DEF WorkerLock, OsLocked, Transactions
  <1>7. Lined'
    BY <1>0 DEF WorkerLock, Recovered, queueVars, fileVars, Lined
  <1>8. Absorbed'
    <2>1. CASE worker' = "erred"
      BY <1>0, <1>1, <2>1 DEF WorkerLock, Absorbed, Unabsorbed, Unknown, fileVars, indexVars
    <2>2. CASE os = None /\ Recovered /\ Synced /\ worker' = "writing"
      <3>1. \A w \in Writers : pc[w] # "committed"
        BY <1>0, <2>2, TransactionAssumption DEF OsLocked, Transactions
      <3>2. QED
        BY <1>1, <2>2, <3>1 DEF Recovered, Synced, Absorbed, Unabsorbed
    <2>3. QED
      BY <2>1, <2>2 DEF WorkerLock
  <1>9. Decided'
    BY <1>0, <1>1, TransactionAssumption DEF WorkerLock, Recovered, fileVars, callVars, Decided,
       Healthy, Base
  <1>10. Placed'
    BY <1>0, <1>1, TransactionAssumption DEF WorkerLock, Recovered, fileVars, Placed
  <1>11. Closing'
    BY <1>0, <1>1, TransactionAssumption DEF WorkerLock, Closing, InFlight, Ended
  <1>12. Serializable'
    BY <1>0 DEF WorkerLock, Recovered, fileVars, callVars, Serializable
  <1>13. QED
    BY <1>2, <1>3, <1>4, <1>5, <1>6, <1>7, <1>8, <1>9, <1>10, <1>11, <1>12 DEF IInv, TypeOK, QueueTypes,
       LogTypes, CallTypes

LEMMA WorkerCommitInv ==
    ASSUME IInv, WorkerCommit
    PROVE  IInv'
  <1>0. /\ TypeOK /\ QueueTypes /\ LogTypes /\ CallTypes
        /\ Exclusion /\ OsLocked /\ Lined /\ Absorbed /\ Decided /\ Placed /\ Closing /\ Serializable
    BY DEF IInv, TypeOK, QueueTypes, LogTypes, CallTypes
  <1>1. pc' = pc
    BY DEF WorkerCommit
  <1>2. QueueTypes'
    BY <1>0 DEF WorkerCommit, queueVars, QueueTypes
  <1>3. LogTypes'
    BY <1>0, WorkerWrites, LogGrows DEF WorkerCommit, indexVars, LogTypes
  <1>4. CallTypes'
    BY <1>0, <1>1 DEF WorkerCommit, callVars, CallTypes
  <1>5. Exclusion'
    BY <1>0, <1>1, TransactionAssumption DEF WorkerCommit, Exclusion, HoldsGate
  <1>6. OsLocked'
    BY <1>0, <1>1, TransactionAssumption DEF WorkerCommit, OsLocked
  <1>7. Lined'
    BY <1>0 DEF WorkerCommit, queueVars, Lined
  <1>8. Absorbed'
    BY <1>0, <1>1, TransactionAssumption, WorkerWrites, LogGrows, LenProperties DEF WorkerCommit,
       indexVars, Absorbed, Unabsorbed, Unknown, HoldsGate, LogTypes
  <1>9. Decided'
    <2>1. Head(queue) \in Transactions /\ \A w \in Writers : pc'[w] # "writing"
      BY <1>0, <1>1, WorkerWrites DEF WorkerCommit, HoldsGate
    <2>2. Healthy /\ Base' = Base
      <3>1. disk' = Append(disk, Head(queue)) /\ worker = "writing" /\ worker' = "committed"
        BY DEF WorkerCommit
      <3>2. SubSeq(disk', 1, Len(disk') - 1) = disk
        BY <1>0, <2>1, <3>1, LogGrows
      <3>3. QED
        BY <3>1, <3>2 DEF Healthy, Base
    <2>3. UNCHANGED <<pending, overlay, basis, pc>>
      BY DEF WorkerCommit, callVars
    <2>4. QED
      BY <1>0, <2>1, <2>2, <2>3 DEF Decided
  <1>10. Placed'
    <2>1. /\ Head(queue) \in Transactions /\ pc'[Head(queue)] \in OnDisk
          /\ disk' = Append(disk, Head(queue)) /\ pending' = pending
      BY <1>0, <1>1, WorkerWrites DEF WorkerCommit, OnDisk
    <2>2. QED
      BY <1>0, <1>1, <2>1, PlacedGrows
  <1>11. Closing'
    BY <1>0, <1>1, TransactionAssumption DEF WorkerCommit, Closing, InFlight, Ended
  <1>12. Serializable'
    <2>1. Head(queue) = pending[1] /\ Head(queue) \in Transactions /\ 1 \in 1..Len(pending)
      BY <1>0, WorkerWrites DEF WorkerCommit
    <2>2. basis[Head(queue)] = disk
      <3>1. Healthy /\ Base = disk
        BY DEF WorkerCommit, Healthy, Base
      <3>2. basis[pending[1]] = disk \o SubSeq(pending, 1, 1 - 1)
        BY <1>0, <2>1, <3>1 DEF Decided
      <3>3. SubSeq(pending, 1, 1 - 1) = <<>>
        BY SubSeqEmpty
      <3>4. disk \o <<>> = disk
        BY <1>0, ConcatEmptySeq DEF LogTypes
      <3>5. QED
        BY <2>1, <3>2, <3>3, <3>4
    <2>3. disk' = Append(disk, Head(queue)) /\ basis' = basis
      BY DEF WorkerCommit, callVars
    <2>4. QED
      BY <1>0, <2>1, <2>2, <2>3, SerializableGrows
  <1>13. QED
    BY <1>2, <1>3, <1>4, <1>5, <1>6, <1>7, <1>8, <1>9, <1>10, <1>11, <1>12 DEF IInv, TypeOK, QueueTypes,
       LogTypes, CallTypes

LEMMA WorkerHookInv ==
    ASSUME IInv, WorkerHook
    PROVE  IInv'
  <1>0. /\ TypeOK /\ QueueTypes /\ LogTypes /\ CallTypes
        /\ Exclusion /\ OsLocked /\ Lined /\ Absorbed /\ Decided /\ Placed /\ Closing /\ Serializable
    BY DEF IInv, TypeOK, QueueTypes, LogTypes, CallTypes
  <1>1. pc' \in [Transactions -> Points] /\ \A t \in Transactions : Kept(t)
    BY <1>0, WokenFacts DEF WorkerHook
  <1>2. QueueTypes'
    BY <1>0, WorkerWrites, HeadTailProperties DEF WorkerHook, HookAlone, queueVars, QueueTypes
  <1>3. LogTypes'
    <2>1. disk' \in Seq(Transactions) /\ indexed' \in 0..Len(disk')
      BY <1>0, IndexTyped DEF WorkerHook, fileVars
    <2>2. QED
      BY <1>0, <2>1 DEF WorkerHook, fileVars, LogTypes
  <1>4. CallTypes'
    BY <1>0, <1>1 DEF WorkerHook, HookAlone, callVars, CallTypes, Kept, Transactions
  <1>5. Exclusion'
    BY <1>0, <1>1, TransactionAssumption DEF WorkerHook, HookAlone, Exclusion, HoldsGate, Kept,
       Transactions
  <1>6. OsLocked'
    BY <1>0, <1>1, TransactionAssumption DEF WorkerHook, OsLocked, Kept, Transactions
  <1>7. Lined'
    BY <1>0 DEF WorkerHook, queueVars, fileVars, Lined
  <1>8. Absorbed'
    BY <1>0, <1>1, TransactionAssumption, WorkerWrites DEF WorkerHook, fileVars, Absorbed, Unabsorbed,
       Unknown, Kept, Transactions, HoldsGate, LogTypes
  <1>9. Decided'
    <2>1. /\ queue = pending /\ pending # <<>> /\ \A w \in Writers : pc[w] # "writing"
          /\ pending \in Seq(Admitted) /\ disk \in Seq(Transactions) /\ Admitted \subseteq Transactions
      BY <1>0, WorkerWrites DEF WorkerHook, QueueTypes, LogTypes, HoldsGate, Transactions
    <2>2. /\ worker = "committed" /\ worker' = "applied" /\ pending' = Tail(pending)
          /\ UNCHANGED <<disk, basis>>
      BY DEF WorkerHook, fileVars, callVars
    <2>3. \A a \in Admitted : pc'[a] \notin {"overlay", "callback"}
      BY <1>0, <1>1, TransactionAssumption DEF WorkerHook, HookAlone, Exclusion, Kept, Transactions
    <2>4. \A w \in Writers : pc'[w] # "writing"
      BY <1>1, <2>1 DEF Kept, Transactions
    <2>5. disk = Append(Base, Head(pending)) /\ Base \in Seq(Transactions)
      BY <1>0, <2>1, <2>2, LastSplit DEF Lined, Base
    <2>6. Healthy /\ Base' = disk
      BY <2>2 DEF Healthy, Base
    <2>7. ASSUME NEW i \in 1..Len(pending')
          PROVE  basis'[pending'[i]] = disk \o SubSeq(pending', 1, i - 1)
      <3>1. /\ Len(Tail(pending)) = Len(pending) - 1 /\ Tail(pending)[i] = pending[i + 1]
            /\ Len(pending) \in Nat
        BY <2>1, <2>2, HeadTailProperties, LenProperties
      <3>2. i + 1 \in 1..Len(pending) /\ (i + 1) - 1 = i
        BY <2>2, <3>1
      <3>3. basis[pending[i + 1]] = Base \o SubSeq(pending, 1, i)
        BY <1>0, <2>6, <3>2 DEF Decided
      <3>4. pending \in Seq(Transactions)
        BY <2>1, SeqMonotonic
      <3>5. Append(Base, Head(pending)) \o SubSeq(Tail(pending), 1, i - 1) = Base \o SubSeq(pending, 1, i)
        BY <2>1, <2>2, <2>5, <3>4, HeadMoves
      <3>6. QED
        BY <2>2, <2>5, <3>1, <3>3, <3>5
    <2>8. QED
      BY <2>3, <2>4, <2>6, <2>7 DEF Decided
  <1>10. Placed'
    <2>1. /\ pending \in Seq(Admitted) /\ pending # <<>> /\ disk \in Seq(Transactions)
          /\ pending' = Tail(pending) /\ disk' = disk
          /\ disk # <<>> /\ disk[Len(disk)] = pending[1]
      BY <1>0, WorkerWrites DEF WorkerHook, QueueTypes, LogTypes, Lined, fileVars
    <2>2. /\ Len(pending') = Len(pending) - 1 /\ Len(pending) \in Nat /\ Len(disk) \in 1..Len(disk)
          /\ \A i \in 1..Len(pending') : pending'[i] = pending[i + 1] /\ i + 1 \in 1..Len(pending)
      <3>1. /\ Len(pending') = Len(pending) - 1 /\ \A i \in 1..Len(pending') : pending'[i] = pending[i + 1]
        BY <2>1, HeadTailProperties
      <3>2. Len(pending) \in Nat /\ Len(disk) \in Nat \ {0}
        BY <2>1, LenProperties, EmptySeq
      <3>3. QED
        BY <3>1, <3>2
    <2>3. \A u \in Transactions : /\ pc[u] \in OnDisk => pc'[u] \in OnDisk
                                  /\ pc'[u] = "accepted" <=> pc[u] = "accepted"
      BY <1>1 DEF Kept, OnDisk
    <2>4. /\ \A i \in 1..Len(disk) : disk[i] \in Transactions
          /\ \A i \in 1..Len(pending) : pending[i] \in Transactions
      BY <2>1, ElementOfSeq DEF Transactions
    <2>5. \A i \in 1..Len(disk') : pc'[disk'[i]] \in OnDisk
      BY <1>0, <2>1, <2>3, <2>4 DEF Placed
    <2>6. \A i \in 1..Len(pending') : pc'[pending'[i]] = "accepted"
      BY <1>0, <2>2, <2>3, <2>4 DEF Placed
    <2>7. ASSUME NEW a \in Admitted, pc'[a] = "accepted"
          PROVE  (\E i \in 1..Len(pending') : pending'[i] = a) \/ (\E i \in 1..Len(disk') : disk'[i] = a)
      <3>1. CASE \E i \in 1..Len(disk) : disk[i] = a
        BY <2>1, <3>1
      <3>2. ASSUME NEW i \in 1..Len(pending), pending[i] = a
            PROVE  (\E j \in 1..Len(pending') : pending'[j] = a) \/ (\E j \in 1..Len(disk') : disk'[j] = a)
        <4>1. CASE i = 1
          BY <2>1, <2>2, <3>2, <4>1
        <4>2. CASE i # 1
          <5>1. i - 1 \in 1..Len(pending') /\ (i - 1) + 1 = i
            BY <2>2, <4>2
          <5>2. QED
            BY <2>2, <3>2, <5>1
        <4>3. QED
          BY <4>1, <4>2
      <3>3. pc[a] = "accepted"
        BY <2>3, <2>7 DEF Transactions
      <3>4. QED
        BY <1>0, <3>1, <3>2, <3>3 DEF Placed
    <2>8. QED
      BY <2>5, <2>6, <2>7 DEF Placed
  <1>11. Closing'
    BY <1>0, <1>1, TransactionAssumption, WorkerWrites DEF WorkerHook, Closing, InFlight, Ended, Kept,
       Transactions, QueueTypes
  <1>12. Serializable'
    BY <1>0 DEF WorkerHook, fileVars, callVars, Serializable
  <1>13. QED
    BY <1>2, <1>3, <1>4, <1>5, <1>6, <1>7, <1>8, <1>9, <1>10, <1>11, <1>12 DEF IInv, TypeOK, QueueTypes,
       LogTypes, CallTypes

LEMMA WorkerFinishInv ==
    ASSUME IInv, WorkerFinish
    PROVE  IInv'
  <1>0. /\ TypeOK /\ QueueTypes /\ LogTypes /\ CallTypes
        /\ Exclusion /\ OsLocked /\ Lined /\ Absorbed /\ Decided /\ Placed /\ Closing /\ Serializable
    BY DEF IInv, TypeOK, QueueTypes, LogTypes, CallTypes
  <1>1. pc' = pc
    BY DEF WorkerFinish
  <1>2. QueueTypes'
    BY <1>0, HeadTailProperties DEF WorkerFinish, QueueTypes, Lined
  <1>3. LogTypes'
    BY <1>0 DEF WorkerFinish, fileVars, indexVars, LogTypes
  <1>4. CallTypes'
    BY <1>0, <1>1 DEF WorkerFinish, callVars, CallTypes
  <1>5. Exclusion'
    BY <1>0, <1>1, TransactionAssumption DEF WorkerFinish, Exclusion, HoldsGate
  <1>6. OsLocked'
    BY <1>0, <1>1, TransactionAssumption DEF WorkerFinish, OsLocked
  <1>7. Lined'
    BY <1>0 DEF WorkerFinish, fileVars, Lined
  <1>8. Absorbed'
    BY <1>0, <1>1, TransactionAssumption DEF WorkerFinish, fileVars, indexVars, Absorbed, Unabsorbed,
       Unknown
  <1>9. Decided'
    BY <1>0, <1>1, TransactionAssumption DEF WorkerFinish, fileVars, callVars, Decided, Healthy, Base
  <1>10. Placed'
    BY <1>0, <1>1, TransactionAssumption DEF WorkerFinish, fileVars, Placed
  <1>11. Closing'
    BY <1>0, <1>1, TransactionAssumption DEF WorkerFinish, Closing, InFlight, Ended
  <1>12. Serializable'
    BY <1>0 DEF WorkerFinish, fileVars, callVars, Serializable
  <1>13. QED
    BY <1>2, <1>3, <1>4, <1>5, <1>6, <1>7, <1>8, <1>9, <1>10, <1>11, <1>12 DEF IInv, TypeOK, QueueTypes,
       LogTypes, CallTypes

LEMMA WorkerErrInv ==
    ASSUME IInv, WorkerErr
    PROVE  IInv'
  <1>0. /\ TypeOK /\ QueueTypes /\ LogTypes /\ CallTypes
        /\ Exclusion /\ OsLocked /\ Lined /\ Absorbed /\ Decided /\ Placed /\ Closing /\ Serializable
    BY DEF IInv, TypeOK, QueueTypes, LogTypes, CallTypes
  <1>1. pc' = pc
    BY DEF WorkerErr
  <1>2. QueueTypes'
    BY <1>0 DEF WorkerErr, queueVars, QueueTypes
  <1>3. LogTypes'
    <2>1. Head(queue) \in Transactions
      BY <1>0, WorkerWrites DEF WorkerErr
    <2>2. CASE disk' = Append(disk, Head(queue))
      <3>1. disk' \in Seq(Transactions) /\ indexed \in 0..Len(disk')
        BY <1>0, <2>1, <2>2, LogGrows
      <3>2. QED
        BY <1>0, <3>1 DEF WorkerErr, WriteFails, fileVars, indexVars, LogTypes
    <2>3. CASE disk' = disk
      BY <1>0, <2>3 DEF WorkerErr, WriteFails, fileVars, indexVars, LogTypes
    <2>4. QED
      BY <2>2, <2>3 DEF WorkerErr, WriteFails, fileVars, indexVars
  <1>4. CallTypes'
    BY <1>0, <1>1 DEF WorkerErr, callVars, CallTypes
  <1>5. Exclusion'
    BY <1>0, <1>1, TransactionAssumption DEF WorkerErr, Exclusion, HoldsGate
  <1>6. OsLocked'
    BY <1>0, <1>1, TransactionAssumption, WorkerWrites DEF WorkerErr, OsLocked, HoldsGate
  <1>7. Lined'
    BY <1>0 DEF WorkerErr, WriteFails, queueVars, Lined
  <1>8. Absorbed'
    <2>1. UNCHANGED <<indexed, dirty>> /\ worker = "writing"
      BY DEF WorkerErr, indexVars
    <2>2. CASE worker' = "uncertain"
      BY <2>2 DEF Absorbed, Unknown
    <2>3. CASE worker' = "erred" /\ disk' = disk
      BY <1>0, <1>1, <2>1, <2>3 DEF Absorbed, Unabsorbed, Unknown
    <2>4. QED
      BY <2>2, <2>3 DEF WorkerErr, WriteFails, fileVars
  <1>9. Decided'
    <2>1. /\ \A w \in Writers : pc'[w] # "writing"
          /\ ~Healthy' /\ UNCHANGED <<pending, overlay, pc>>
      BY <1>0, <1>1, WorkerWrites DEF WorkerErr, HoldsGate, Healthy, callVars
    <2>2. QED
      BY <1>0, <2>1 DEF Decided
  <1>10. Placed'
    <2>1. Head(queue) \in Transactions /\ pc'[Head(queue)] \in OnDisk /\ pending' = pending
      BY <1>0, <1>1, WorkerWrites DEF WorkerErr, OnDisk
    <2>2. CASE disk' = disk
      BY <1>0, <1>1, <2>1, <2>2, PlacedFrame
    <2>3. CASE disk' = Append(disk, Head(queue))
      BY <1>0, <1>1, <2>1, <2>3, PlacedGrows
    <2>4. QED
      BY <2>2, <2>3 DEF WorkerErr, WriteFails, fileVars
  <1>11. Closing'
    BY <1>0, <1>1, TransactionAssumption DEF WorkerErr, Closing, InFlight, Ended
  <1>12. Serializable'
    <2>1. Head(queue) = pending[1] /\ Head(queue) \in Transactions /\ 1 \in 1..Len(pending)
      BY <1>0, WorkerWrites DEF WorkerErr
    <2>2. basis[Head(queue)] = disk
      <3>1. Healthy /\ Base = disk
        BY DEF WorkerErr, Healthy, Base
      <3>2. basis[pending[1]] = disk \o SubSeq(pending, 1, 1 - 1)
        BY <1>0, <2>1, <3>1 DEF Decided
      <3>3. SubSeq(pending, 1, 1 - 1) = <<>>
        BY SubSeqEmpty
      <3>4. disk \o <<>> = disk
        BY <1>0, ConcatEmptySeq DEF LogTypes
      <3>5. QED
        BY <2>1, <3>2, <3>3, <3>4
    <2>3. basis' = basis /\ (disk' = disk \/ disk' = Append(disk, Head(queue)))
      BY DEF WorkerErr, WriteFails, callVars, fileVars
    <2>4. CASE disk' = disk
      BY <1>0, <2>3, <2>4 DEF Serializable
    <2>5. QED
      BY <1>0, <2>1, <2>2, <2>3, <2>4, SerializableGrows
  <1>13. QED
    BY <1>2, <1>3, <1>4, <1>5, <1>6, <1>7, <1>8, <1>9, <1>10, <1>11, <1>12 DEF IInv, TypeOK, QueueTypes,
       LogTypes, CallTypes

LEMMA WorkerNoteInv ==
    ASSUME IInv, WorkerNote
    PROVE  IInv'
  <1>0. /\ TypeOK /\ QueueTypes /\ LogTypes /\ CallTypes
        /\ Exclusion /\ OsLocked /\ Lined /\ Absorbed /\ Decided /\ Placed /\ Closing /\ Serializable
    BY DEF IInv, TypeOK, QueueTypes, LogTypes, CallTypes
  <1>1. pc' = pc
    BY DEF WorkerNote
  <1>2. QueueTypes'
    BY <1>0 DEF WorkerNote, queueVars, QueueTypes
  <1>3. LogTypes'
    BY <1>0 DEF WorkerNote, Noted, fileVars, LogTypes
  <1>4. CallTypes'
    BY <1>0, <1>1 DEF WorkerNote, callVars, CallTypes
  <1>5. Exclusion'
    BY <1>0, <1>1, TransactionAssumption DEF WorkerNote, Exclusion, HoldsGate
  <1>6. OsLocked'
    BY <1>0, <1>1, TransactionAssumption DEF WorkerNote, OsLocked
  <1>7. Lined'
    BY <1>0 DEF WorkerNote, queueVars, fileVars, Lined
  <1>8. Absorbed'
    BY <1>0, <1>1, TransactionAssumption DEF WorkerNote, Noted, fileVars, Absorbed, Unabsorbed, Unknown
  <1>9. Decided'
    BY <1>0, <1>1, TransactionAssumption DEF WorkerNote, fileVars, callVars, Decided, Healthy, Base
  <1>10. Placed'
    BY <1>0, <1>1, TransactionAssumption DEF WorkerNote, fileVars, Placed
  <1>11. Closing'
    BY <1>0, <1>1, TransactionAssumption DEF WorkerNote, Closing, InFlight, Ended
  <1>12. Serializable'
    BY <1>0 DEF WorkerNote, fileVars, callVars, Serializable
  <1>13. QED
    BY <1>2, <1>3, <1>4, <1>5, <1>6, <1>7, <1>8, <1>9, <1>10, <1>11, <1>12 DEF IInv, TypeOK, QueueTypes,
       LogTypes, CallTypes

LEMMA WorkerFailInv ==
    ASSUME IInv, WorkerFail
    PROVE  IInv'
  <1>0. /\ TypeOK /\ QueueTypes /\ LogTypes /\ CallTypes
        /\ Exclusion /\ OsLocked /\ Lined /\ Absorbed /\ Decided /\ Placed /\ Closing /\ Serializable
    BY DEF IInv, TypeOK, QueueTypes, LogTypes, CallTypes
  <1>1. pc' \in [Transactions -> Points] /\ \A t \in Transactions : Kept(t)
    BY <1>0, WokenFacts DEF WorkerFail
  <1>2. QueueTypes'
    BY <1>0, WorkerWrites DEF WorkerFail, queueVars, QueueTypes
  <1>3. LogTypes'
    BY <1>0 DEF WorkerFail, fileVars, indexVars, LogTypes
  <1>4. CallTypes'
    BY <1>0, <1>1 DEF WorkerFail, callVars, CallTypes, Kept, Transactions
  <1>5. Exclusion'
    BY <1>0, <1>1, TransactionAssumption DEF WorkerFail, Exclusion, HoldsGate, Kept, Transactions
  <1>6. OsLocked'
    BY <1>0, <1>1, TransactionAssumption DEF WorkerFail, OsLocked, Kept, Transactions
  <1>7. Lined'
    BY <1>0 DEF WorkerFail, queueVars, fileVars, Lined
  <1>8. Absorbed'
    BY <1>0, <1>1, TransactionAssumption DEF WorkerFail, fileVars, indexVars, Absorbed, Unabsorbed,
       Unknown, Kept, Transactions
  <1>9. Decided'
    BY <1>0, <1>1, TransactionAssumption DEF WorkerFail, fileVars, callVars, Decided, Healthy, Base,
       Kept, Transactions
  <1>10. Placed'
    <2>1. \A u \in Transactions : /\ pc[u] \in OnDisk => pc'[u] \in OnDisk
                                  /\ pc'[u] = "accepted" <=> pc[u] = "accepted"
      BY <1>1 DEF WorkerFail, Kept, OnDisk
    <2>2. pending' = pending /\ disk' = disk
      BY DEF WorkerFail, fileVars
    <2>3. QED
      BY <1>0, <2>1, <2>2, PlacedFrame
  <1>11. Closing'
    BY <1>0, <1>1, TransactionAssumption, WorkerWrites DEF WorkerFail, Closing, InFlight, Ended, Kept,
       Transactions, QueueTypes
  <1>12. Serializable'
    BY <1>0 DEF WorkerFail, fileVars, callVars, Serializable
  <1>13. QED
    BY <1>2, <1>3, <1>4, <1>5, <1>6, <1>7, <1>8, <1>9, <1>10, <1>11, <1>12 DEF IInv, TypeOK, QueueTypes,
       LogTypes, CallTypes

LEMMA QueueFailsInv ==
    ASSUME IInv, QueueFails
    PROVE  IInv'
  <1>0. /\ TypeOK /\ QueueTypes /\ LogTypes /\ CallTypes
        /\ Exclusion /\ OsLocked /\ Lined /\ Absorbed /\ Decided /\ Placed /\ Closing /\ Serializable
    BY DEF IInv, TypeOK, QueueTypes, LogTypes, CallTypes
  <1>1. pc' = pc
    BY DEF QueueFails
  <1>2. QueueTypes'
    BY <1>0 DEF QueueFails, QueueTypes
  <1>3. LogTypes'
    BY <1>0 DEF QueueFails, fileVars, indexVars, LogTypes
  <1>4. CallTypes'
    BY <1>0, <1>1 DEF QueueFails, callVars, CallTypes
  <1>5. Exclusion'
    BY <1>0, <1>1, TransactionAssumption DEF QueueFails, Exclusion, HoldsGate
  <1>6. OsLocked'
    BY <1>0, <1>1, TransactionAssumption DEF QueueFails, OsLocked
  <1>7. Lined'
    BY <1>0 DEF QueueFails, fileVars, Lined
  <1>8. Absorbed'
    BY <1>0, <1>1, TransactionAssumption DEF QueueFails, fileVars, indexVars, Absorbed, Unabsorbed,
       Unknown
  <1>9. Decided'
    BY <1>0, <1>1, TransactionAssumption DEF QueueFails, fileVars, callVars, Decided, Healthy, Base
  <1>10. Placed'
    BY <1>0, <1>1, TransactionAssumption DEF QueueFails, fileVars, Placed
  <1>11. Closing'
    BY <1>0, <1>1, TransactionAssumption DEF QueueFails, Closing, InFlight, Ended
  <1>12. Serializable'
    BY <1>0 DEF QueueFails, fileVars, callVars, Serializable
  <1>13. QED
    BY <1>2, <1>3, <1>4, <1>5, <1>6, <1>7, <1>8, <1>9, <1>10, <1>11, <1>12 DEF IInv, TypeOK, QueueTypes,
       LogTypes, CallTypes

LEMMA SyncGateInv ==
    ASSUME IInv, NEW w \in Writers, SyncGate(w)
    PROVE  IInv'
  <1>0. /\ TypeOK /\ QueueTypes /\ LogTypes /\ CallTypes
        /\ Exclusion /\ OsLocked /\ Lined /\ Absorbed /\ Decided /\ Placed /\ Closing /\ Serializable
    BY DEF IInv, TypeOK, QueueTypes, LogTypes, CallTypes
  <1>1. pc' \in [Transactions -> Points] /\ pc'[w] = "gated" /\ Others(w)
    BY <1>0, MoveFacts DEF SyncGate, Transactions, Points, Ended
  <1>2. QueueTypes'
    BY <1>0 DEF SyncGate, GateFree, queueVars, QueueTypes
  <1>3. LogTypes'
    BY <1>0 DEF SyncGate, fileVars, indexVars, LogTypes
  <1>4. CallTypes'
    BY <1>0, <1>1 DEF SyncGate, callVars, CallTypes, Others, Kept, Transactions
  <1>5. Exclusion'
    BY <1>0, <1>1, TransactionAssumption DEF SyncGate, GateFree, Exclusion, HoldsGate, Others, Kept,
       Transactions, Lined
  <1>6. OsLocked'
    BY <1>0, <1>1, TransactionAssumption DEF SyncGate, OsLocked, Others, Kept, Transactions
  <1>7. Lined'
    BY <1>0 DEF SyncGate, queueVars, fileVars, Lined
  <1>8. Absorbed'
    BY <1>0, <1>1, TransactionAssumption DEF SyncGate, fileVars, indexVars, Absorbed, Unabsorbed,
       Unknown, Others, Kept, Transactions
  <1>9. Decided'
    BY <1>0, <1>1, TransactionAssumption DEF SyncGate, fileVars, callVars, Decided, Healthy, Base,
       Others, Kept, Transactions
  <1>10. Placed'
    <2>1. \A u \in Transactions : /\ pc[u] \in OnDisk => pc'[u] \in OnDisk
                                  /\ pc'[u] = "accepted" <=> pc[u] = "accepted"
      BY <1>1 DEF SyncGate, Others, Kept, OnDisk, Transactions
    <2>2. pending' = pending /\ disk' = disk
      BY DEF SyncGate, fileVars
    <2>3. QED
      BY <1>0, <2>1, <2>2, PlacedFrame
  <1>11. Closing'
    BY <1>0, <1>1, TransactionAssumption DEF SyncGate, Closing, InFlight, Ended, Others, Kept,
       Transactions
  <1>12. Serializable'
    BY <1>0 DEF SyncGate, fileVars, callVars, Serializable
  <1>13. QED
    BY <1>2, <1>3, <1>4, <1>5, <1>6, <1>7, <1>8, <1>9, <1>10, <1>11, <1>12 DEF IInv, TypeOK, QueueTypes,
       LogTypes, CallTypes

LEMMA SyncWaitInv ==
    ASSUME IInv, NEW w \in Writers, SyncWait(w)
    PROVE  IInv'
  <1>1. pc' \in [Transactions -> Points] /\ pc'[w] \in {"parked", "barrier"} /\ Others(w)
    BY MoveFacts DEF IInv, SyncWait, Transactions, Points, Ended
  <1>2. \A u \in Transactions : pc'[u] = pc[u] \/ {pc[u], pc'[u]} \subseteq Resting
    BY <1>1 DEF SyncWait, Others, Kept, Resting
  <1>3. Closing'
    BY <1>1 DEF IInv, SyncWait, Closing, InFlight, Ended, Others, Kept, Transactions
  <1>4. barrier' \in [Writers -> SUBSET Admitted]
    <2>1. {pending[i] : i \in DOMAIN pending} \subseteq Admitted
      <3>1. pending \in Seq(Admitted)
        BY DEF IInv, TypeOK
      <3>2. QED
        BY <3>1, LenProperties, ElementOfSeq
    <2>2. QED
      BY <2>1 DEF IInv, TypeOK, SyncWait
  <1>5. QED
    BY <1>1, <1>2, <1>3, <1>4, QuietInv DEF IInv, TypeOK, SyncWait, queueVars, fileVars, indexVars,
       callVars

LEMMA SyncBarrierInv ==
    ASSUME IInv, NEW w \in Writers, SyncBarrier(w)
    PROVE  IInv'
  <1>1. pc' \in [Transactions -> Points] /\ pc'[w] = "entered" /\ Others(w)
    BY MoveFacts DEF IInv, SyncBarrier, Transactions, Points, Ended
  <1>2. \A u \in Transactions : pc'[u] = pc[u] \/ {pc[u], pc'[u]} \subseteq Resting
    BY <1>1 DEF SyncBarrier, Others, Kept, Resting
  <1>3. Closing'
    BY <1>1 DEF IInv, SyncBarrier, Closing, InFlight, Ended, Others, Kept, Transactions
  <1>4. barrier' \in [Writers -> SUBSET Admitted]
    BY DEF IInv, TypeOK, SyncBarrier, callVars
  <1>5. QED
    BY <1>1, <1>2, <1>3, <1>4, QuietInv DEF IInv, TypeOK, SyncBarrier, queueVars, fileVars, indexVars,
       callVars

LEMMA SyncRefusedInv ==
    ASSUME IInv, NEW w \in Writers, SyncRefused(w)
    PROVE  IInv'
  <1>1. pc' \in [Transactions -> Points] /\ pc'[w] = "refused" /\ Others(w)
    BY MoveFacts DEF IInv, SyncRefused, Transactions, Points, Ended
  <1>2. \A u \in Transactions : pc'[u] = pc[u] \/ {pc[u], pc'[u]} \subseteq Resting
    BY <1>1 DEF SyncRefused, Others, Kept, Resting
  <1>3. Closing'
    BY <1>1 DEF IInv, SyncRefused, Closing, InFlight, Ended, Others, Kept, Transactions
  <1>4. barrier' \in [Writers -> SUBSET Admitted]
    BY DEF IInv, TypeOK, SyncRefused, callVars
  <1>5. QED
    BY <1>1, <1>2, <1>3, <1>4, QuietInv DEF IInv, TypeOK, SyncRefused, queueVars, fileVars, indexVars,
       callVars

LEMMA SyncGiveUpInv ==
    ASSUME IInv, NEW w \in Writers, SyncGiveUp(w)
    PROVE  IInv'
  <1>1. pc' \in [Transactions -> Points] /\ pc'[w] = "refused" /\ Others(w)
    BY MoveFacts DEF IInv, SyncGiveUp, Transactions, Points, Ended
  <1>2. \A u \in Transactions : pc'[u] = pc[u] \/ {pc[u], pc'[u]} \subseteq Resting
    BY <1>1 DEF SyncGiveUp, Others, Kept, Resting
  <1>3. Closing'
    BY <1>1 DEF IInv, SyncGiveUp, Closing, InFlight, Ended, Others, Kept, Transactions
  <1>4. barrier' \in [Writers -> SUBSET Admitted]
    BY DEF IInv, TypeOK, SyncGiveUp, callVars
  <1>5. QED
    BY <1>1, <1>2, <1>3, <1>4, QuietInv DEF IInv, TypeOK, SyncGiveUp, queueVars, fileVars, indexVars,
       callVars

LEMMA SyncLockInv ==
    ASSUME IInv, NEW w \in Writers, SyncLock(w)
    PROVE  IInv'
  <1>0. /\ TypeOK /\ QueueTypes /\ LogTypes /\ CallTypes
        /\ Exclusion /\ OsLocked /\ Lined /\ Absorbed /\ Decided /\ Placed /\ Closing /\ Serializable
    BY DEF IInv, TypeOK, QueueTypes, LogTypes, CallTypes
  <1>1. pc' \in [Transactions -> Points] /\ pc'[w] = "writing" /\ Others(w)
    BY <1>0, MoveFacts DEF SyncLock, Transactions, Points, Ended
  <1>2. QueueTypes'
    BY <1>0 DEF SyncLock, queueVars, QueueTypes
  <1>3. LogTypes'
    <2>1. disk' \in Seq(Transactions) /\ indexed' \in 0..Len(disk')
      BY <1>0, IndexTyped DEF SyncLock, Recovered, Synced
    <2>2. QED
      BY <1>0, <2>1 DEF SyncLock, Recovered, Synced, LogTypes
  <1>4. CallTypes'
    BY <1>0, <1>1 DEF SyncLock, CallTypes, Others, Kept, Transactions, LogTypes
  <1>5. Exclusion'
    BY <1>0, <1>1, TransactionAssumption DEF SyncLock, Exclusion, HoldsGate, Others, Kept, Transactions
  <1>6. OsLocked'
    BY <1>0, <1>1, TransactionAssumption, GateHeld DEF SyncLock, OsLocked, Others, Kept, Transactions,
       HoldsGate
  <1>7. Lined'
    BY <1>0 DEF SyncLock, Recovered, queueVars, Lined
  <1>8. Absorbed'
    BY <1>0, <1>1, TransactionAssumption, GateHeld, LogGrows, LenProperties DEF SyncLock, Recovered,
       Synced, Absorbed, Unabsorbed, Unknown, Others, Kept, Transactions, HoldsGate, LogTypes, OsLocked
  <1>9. Decided'
    <2>1. /\ pending' = pending /\ Len(pending) = 0
          /\ \A a \in Admitted : pc[a] \notin {"overlay", "callback"}
          /\ \A v \in Writers : pc[v] = "writing" => v = w
      BY <1>0, GateHeld DEF SyncLock, HoldsGate
    <2>2. \A a \in Admitted : pc'[a] \notin {"overlay", "callback"}
      BY <1>1, <2>1, TransactionAssumption DEF Others, Kept, Transactions
    <2>3. \A i \in 1..Len(pending') : FALSE
      BY <2>1
    <2>4. \A v \in Writers : pc'[v] = "writing" => v = w
      BY <1>1, <2>1 DEF SyncLock, HoldsGate, Others, Kept, Transactions
    <2>5. basis'[w] = disk /\ disk' = disk
      BY <1>0 DEF SyncLock, Recovered, CallTypes, Transactions
    <2>6. QED
      BY <2>2, <2>3, <2>4, <2>5 DEF Decided
  <1>10. Placed'
    <2>1. \A u \in Transactions : /\ pc[u] \in OnDisk => pc'[u] \in OnDisk
                                  /\ pc'[u] = "accepted" <=> pc[u] = "accepted"
      BY <1>1 DEF SyncLock, Others, Kept, OnDisk, Transactions
    <2>2. pending' = pending /\ disk' = disk
      BY DEF SyncLock, fileVars, Recovered
    <2>3. QED
      BY <1>0, <2>1, <2>2, PlacedFrame
  <1>11. Closing'
    BY <1>0, <1>1, TransactionAssumption DEF SyncLock, Closing, InFlight, Ended, Others, Kept,
       Transactions
  <1>12. Serializable'
    <2>1. w \in Transactions /\ pc[w] \notin OnDisk /\ disk' = disk
      BY DEF SyncLock, OnDisk, Transactions, Recovered
    <2>2. \A u \in Transactions \ {w} : basis'[u] = basis[u]
      BY <1>0 DEF SyncLock, CallTypes
    <2>3. QED
      BY <1>0, <2>1, <2>2, SerializableDecides
  <1>13. QED
    BY <1>2, <1>3, <1>4, <1>5, <1>6, <1>7, <1>8, <1>9, <1>10, <1>11, <1>12 DEF IInv, TypeOK, QueueTypes,
       LogTypes, CallTypes

LEMMA SyncCommitInv ==
    ASSUME IInv, NEW w \in Writers, SyncCommit(w)
    PROVE  IInv'
  <1>0. /\ TypeOK /\ QueueTypes /\ LogTypes /\ CallTypes
        /\ Exclusion /\ OsLocked /\ Lined /\ Absorbed /\ Decided /\ Placed /\ Closing /\ Serializable
    BY DEF IInv, TypeOK, QueueTypes, LogTypes, CallTypes
  <1>1. pc' \in [Transactions -> Points] /\ pc'[w] = "committed" /\ Others(w)
    BY <1>0, MoveFacts DEF SyncCommit, Transactions, Points, Ended
  <1>2. QueueTypes'
    BY <1>0 DEF SyncCommit, queueVars, QueueTypes
  <1>3. LogTypes'
    <2>1. w \in Transactions
      BY DEF Transactions
    <2>2. CASE disk' = Append(disk, w)
      <3>1. disk' \in Seq(Transactions) /\ indexed \in 0..Len(disk')
        BY <1>0, <2>1, <2>2, LogGrows
      <3>2. QED
        BY <1>0, <3>1 DEF SyncCommit, indexVars, LogTypes
    <2>3. CASE disk' = disk
      BY <1>0, <2>3 DEF SyncCommit, indexVars, LogTypes
    <2>4. QED
      BY <2>2, <2>3 DEF SyncCommit, indexVars
  <1>4. CallTypes'
    BY <1>0, <1>1 DEF SyncCommit, callVars, CallTypes, Others, Kept, Transactions
  <1>5. Exclusion'
    BY <1>0, <1>1, TransactionAssumption DEF SyncCommit, Exclusion, HoldsGate, Others, Kept,
       Transactions
  <1>6. OsLocked'
    BY <1>0, <1>1, TransactionAssumption DEF SyncCommit, OsLocked, Others, Kept, Transactions
  <1>7. Lined'
    BY <1>0, GateHeld DEF SyncCommit, queueVars, Lined, HoldsGate
  <1>8. Absorbed'
    BY <1>0, <1>1, TransactionAssumption, GateHeld, LogGrows, LenProperties DEF SyncCommit, indexVars,
       Absorbed, Unabsorbed, Unknown, Others, Kept, Transactions, HoldsGate, LogTypes, OsLocked
  <1>9. Decided'
    <2>1. /\ pending' = pending /\ Len(pending) = 0
          /\ \A a \in Admitted : pc[a] \notin {"overlay", "callback"}
          /\ \A v \in Writers : pc[v] = "writing" => v = w
      BY <1>0, GateHeld DEF SyncCommit, HoldsGate
    <2>2. \A a \in Admitted : pc'[a] \notin {"overlay", "callback"}
      BY <1>1, <2>1, TransactionAssumption DEF Others, Kept, Transactions
    <2>3. \A i \in 1..Len(pending') : FALSE
      BY <2>1
    <2>4. \A v \in Writers : pc'[v] = "writing" => FALSE
      BY <1>1, <2>1 DEF SyncCommit, HoldsGate, Others, Kept, Transactions
    <2>5. QED
      BY <2>2, <2>3, <2>4 DEF Decided
  <1>10. Placed'
    <2>1. /\ w \in Transactions /\ pc'[w] \in OnDisk /\ disk' = Append(disk, w) /\ pending' = pending
          /\ \A u \in Transactions : /\ pc[u] \in OnDisk => pc'[u] \in OnDisk
                                     /\ pc'[u] = "accepted" <=> pc[u] = "accepted"
      BY <1>1 DEF SyncCommit, Others, Kept, OnDisk, Transactions
    <2>2. QED
      BY <1>0, <2>1, PlacedGrows
  <1>11. Closing'
    BY <1>0, <1>1, TransactionAssumption DEF SyncCommit, Closing, InFlight, Ended, Others, Kept,
       Transactions
  <1>12. Serializable'
    <2>1. w \in Transactions /\ basis[w] = disk /\ disk' = Append(disk, w) /\ basis' = basis
      BY <1>0 DEF SyncCommit, Decided, callVars, Transactions
    <2>2. QED
      BY <1>0, <2>1, SerializableGrows
  <1>13. QED
    BY <1>2, <1>3, <1>4, <1>5, <1>6, <1>7, <1>8, <1>9, <1>10, <1>11, <1>12 DEF IInv, TypeOK, QueueTypes,
       LogTypes, CallTypes

LEMMA SyncHookInv ==
    ASSUME IInv, NEW w \in Writers, SyncHook(w)
    PROVE  IInv'
  <1>0. /\ TypeOK /\ QueueTypes /\ LogTypes /\ CallTypes
        /\ Exclusion /\ OsLocked /\ Lined /\ Absorbed /\ Decided /\ Placed /\ Closing /\ Serializable
    BY DEF IInv, TypeOK, QueueTypes, LogTypes, CallTypes
  <1>1. pc' \in [Transactions -> Points] /\ pc'[w] = "applied" /\ Others(w)
    BY <1>0, MoveFacts DEF SyncHook, Transactions, Points, Ended
  <1>2. QueueTypes'
    BY <1>0 DEF SyncHook, queueVars, QueueTypes
  <1>3. LogTypes'
    <2>1. disk' \in Seq(Transactions) /\ indexed' \in 0..Len(disk')
      BY <1>0, IndexTyped DEF SyncHook, fileVars
    <2>2. QED
      BY <1>0, <2>1 DEF SyncHook, fileVars, LogTypes
  <1>4. CallTypes'
    BY <1>0, <1>1 DEF SyncHook, callVars, CallTypes, Others, Kept, Transactions
  <1>5. Exclusion'
    BY <1>0, <1>1, TransactionAssumption DEF SyncHook, Exclusion, HoldsGate, Others, Kept, Transactions
  <1>6. OsLocked'
    BY <1>0, <1>1, TransactionAssumption DEF SyncHook, OsLocked, Others, Kept, Transactions
  <1>7. Lined'
    BY <1>0 DEF SyncHook, queueVars, fileVars, Lined
  <1>8. Absorbed'
    BY <1>0, <1>1, TransactionAssumption, GateHeld, LogGrows, LenProperties DEF SyncHook, fileVars,
       Absorbed, Unabsorbed, Unknown, Others, Kept, Transactions, HoldsGate, LogTypes, OsLocked
  <1>9. Decided'
    BY <1>0, <1>1, TransactionAssumption DEF SyncHook, fileVars, callVars, Decided, Healthy, Base,
       Others, Kept, Transactions
  <1>10. Placed'
    <2>1. \A u \in Transactions : /\ pc[u] \in OnDisk => pc'[u] \in OnDisk
                                  /\ pc'[u] = "accepted" <=> pc[u] = "accepted"
      BY <1>1 DEF SyncHook, Others, Kept, OnDisk, Transactions
    <2>2. pending' = pending /\ disk' = disk
      BY DEF SyncHook, fileVars
    <2>3. QED
      BY <1>0, <2>1, <2>2, PlacedFrame
  <1>11. Closing'
    BY <1>0, <1>1, TransactionAssumption DEF SyncHook, Closing, InFlight, Ended, Others, Kept,
       Transactions
  <1>12. Serializable'
    BY <1>0 DEF SyncHook, fileVars, callVars, Serializable
  <1>13. QED
    BY <1>2, <1>3, <1>4, <1>5, <1>6, <1>7, <1>8, <1>9, <1>10, <1>11, <1>12 DEF IInv, TypeOK, QueueTypes,
       LogTypes, CallTypes

LEMMA SyncErrInv ==
    ASSUME IInv, NEW w \in Writers, SyncErr(w)
    PROVE  IInv'
  <1>0. /\ TypeOK /\ QueueTypes /\ LogTypes /\ CallTypes
        /\ Exclusion /\ OsLocked /\ Lined /\ Absorbed /\ Decided /\ Placed /\ Closing /\ Serializable
    BY DEF IInv, TypeOK, QueueTypes, LogTypes, CallTypes
  <1>1. pc' \in [Transactions -> Points] /\ pc'[w] \in {"erred", "uncertain"} /\ Others(w)
    BY <1>0, MoveFacts DEF SyncErr, Transactions, Points, Ended
  <1>2. QueueTypes'
    BY <1>0 DEF SyncErr, queueVars, QueueTypes
  <1>3. LogTypes'
    <2>1. w \in Transactions
      BY DEF Transactions
    <2>2. CASE disk' = Append(disk, w)
      <3>1. disk' \in Seq(Transactions) /\ indexed \in 0..Len(disk')
        BY <1>0, <2>1, <2>2, LogGrows
      <3>2. QED
        BY <1>0, <3>1 DEF SyncErr, WriteFails, fileVars, indexVars, LogTypes
    <2>3. CASE disk' = disk
      BY <1>0, <2>3 DEF SyncErr, WriteFails, fileVars, indexVars, LogTypes
    <2>4. QED
      BY <2>2, <2>3 DEF SyncErr, WriteFails, fileVars, indexVars
  <1>4. CallTypes'
    BY <1>0, <1>1 DEF SyncErr, callVars, CallTypes, Others, Kept, Transactions
  <1>5. Exclusion'
    BY <1>0, <1>1, TransactionAssumption DEF SyncErr, Exclusion, HoldsGate, Others, Kept, Transactions
  <1>6. OsLocked'
    BY <1>0, <1>1, TransactionAssumption DEF SyncErr, OsLocked, Others, Kept, Transactions
  <1>7. Lined'
    BY <1>0, GateHeld DEF SyncErr, WriteFails, queueVars, Lined, HoldsGate
  <1>8. Absorbed'
    <2>1. UNCHANGED <<indexed, dirty, worker>> /\ pc[w] = "writing"
      BY DEF SyncErr, indexVars
    <2>2. /\ worker # "committed"
          /\ \A v \in Writers : pc[v] \notin {"committed", "uncertain"}
          /\ \A v \in Writers : pc'[v] # "committed"
      BY <1>0, <1>1, <2>1, GateHeld DEF HoldsGate, Others, Kept, Transactions
    <2>3. CASE pc'[w] = "uncertain"
      BY <2>3 DEF Absorbed, Unknown
    <2>4. CASE disk' = disk
      BY <1>0, <2>1, <2>2, <2>4, GateHeld DEF Absorbed, Unabsorbed, Unknown, HoldsGate
    <2>5. QED
      BY <1>0, <1>1, <2>3, <2>4 DEF SyncErr, WriteFails, Move, CallTypes, Transactions, fileVars
  <1>9. Decided'
    <2>1. /\ pending' = pending /\ Len(pending) = 0
          /\ \A a \in Admitted : pc[a] \notin {"overlay", "callback"}
          /\ \A v \in Writers : pc[v] = "writing" => v = w
      BY <1>0, GateHeld DEF SyncErr, HoldsGate
    <2>2. \A a \in Admitted : pc'[a] \notin {"overlay", "callback"}
      BY <1>1, <2>1, TransactionAssumption DEF Others, Kept, Transactions
    <2>3. \A i \in 1..Len(pending') : FALSE
      BY <2>1
    <2>4. \A v \in Writers : pc'[v] = "writing" => FALSE
      BY <1>1, <2>1 DEF SyncErr, HoldsGate, Others, Kept, Transactions
    <2>5. QED
      BY <2>2, <2>3, <2>4 DEF Decided
  <1>10. Placed'
    <2>1. /\ w \in Transactions /\ pc'[w] \in OnDisk /\ pending' = pending
          /\ \A u \in Transactions : /\ pc[u] \in OnDisk => pc'[u] \in OnDisk
                                     /\ pc'[u] = "accepted" <=> pc[u] = "accepted"
      BY <1>1 DEF SyncErr, Others, Kept, OnDisk, Transactions
    <2>2. CASE disk' = disk
      BY <1>0, <2>1, <2>2, PlacedFrame
    <2>3. CASE disk' = Append(disk, w)
      BY <1>0, <2>1, <2>3, PlacedGrows
    <2>4. QED
      BY <2>2, <2>3 DEF SyncErr, WriteFails, fileVars
  <1>11. Closing'
    BY <1>0, <1>1, TransactionAssumption DEF SyncErr, Closing, InFlight, Ended, Others, Kept,
       Transactions
  <1>12. Serializable'
    <2>1. /\ w \in Transactions /\ basis[w] = disk /\ basis' = basis
          /\ disk' = disk \/ disk' = Append(disk, w)
      BY <1>0 DEF SyncErr, WriteFails, Decided, callVars, fileVars, Transactions
    <2>2. CASE disk' = disk
      BY <1>0, <2>1, <2>2 DEF Serializable
    <2>3. QED
      BY <1>0, <2>1, <2>2, SerializableGrows
  <1>13. QED
    BY <1>2, <1>3, <1>4, <1>5, <1>6, <1>7, <1>8, <1>9, <1>10, <1>11, <1>12 DEF IInv, TypeOK, QueueTypes,
       LogTypes, CallTypes

LEMMA SyncNoteInv ==
    ASSUME IInv, NEW w \in Writers, SyncNote(w)
    PROVE  IInv'
  <1>0. /\ TypeOK /\ QueueTypes /\ LogTypes /\ CallTypes
        /\ Exclusion /\ OsLocked /\ Lined /\ Absorbed /\ Decided /\ Placed /\ Closing /\ Serializable
    BY DEF IInv, TypeOK, QueueTypes, LogTypes, CallTypes
  <1>1. pc' \in [Transactions -> Points] /\ pc'[w] = "erred" /\ Others(w)
    BY <1>0, MoveFacts DEF SyncNote, Transactions, Points, Ended
  <1>2. QueueTypes'
    BY <1>0 DEF SyncNote, queueVars, QueueTypes
  <1>3. LogTypes'
    BY <1>0 DEF SyncNote, Noted, fileVars, LogTypes
  <1>4. CallTypes'
    BY <1>0, <1>1 DEF SyncNote, callVars, CallTypes, Others, Kept, Transactions
  <1>5. Exclusion'
    BY <1>0, <1>1, TransactionAssumption DEF SyncNote, Exclusion, HoldsGate, Others, Kept, Transactions
  <1>6. OsLocked'
    BY <1>0, <1>1, TransactionAssumption DEF SyncNote, OsLocked, Others, Kept, Transactions
  <1>7. Lined'
    BY <1>0 DEF SyncNote, queueVars, fileVars, Lined
  <1>8. Absorbed'
    BY <1>0, <1>1, TransactionAssumption DEF SyncNote, Noted, fileVars, Absorbed, Unabsorbed, Unknown,
       Others, Kept, Transactions
  <1>9. Decided'
    BY <1>0, <1>1, TransactionAssumption DEF SyncNote, fileVars, callVars, Decided, Healthy, Base,
       Others, Kept, Transactions
  <1>10. Placed'
    <2>1. \A u \in Transactions : /\ pc[u] \in OnDisk => pc'[u] \in OnDisk
                                  /\ pc'[u] = "accepted" <=> pc[u] = "accepted"
      BY <1>1 DEF SyncNote, Others, Kept, OnDisk, Transactions
    <2>2. pending' = pending /\ disk' = disk
      BY DEF SyncNote, fileVars
    <2>3. QED
      BY <1>0, <2>1, <2>2, PlacedFrame
  <1>11. Closing'
    BY <1>0, <1>1, TransactionAssumption DEF SyncNote, Closing, InFlight, Ended, Others, Kept,
       Transactions
  <1>12. Serializable'
    BY <1>0 DEF SyncNote, fileVars, callVars, Serializable
  <1>13. QED
    BY <1>2, <1>3, <1>4, <1>5, <1>6, <1>7, <1>8, <1>9, <1>10, <1>11, <1>12 DEF IInv, TypeOK, QueueTypes,
       LogTypes, CallTypes

LEMMA SyncReleaseInv ==
    ASSUME IInv, NEW w \in Writers, SyncRelease(w)
    PROVE  IInv'
  <1>0. /\ TypeOK /\ QueueTypes /\ LogTypes /\ CallTypes
        /\ Exclusion /\ OsLocked /\ Lined /\ Absorbed /\ Decided /\ Placed /\ Closing /\ Serializable
    BY DEF IInv, TypeOK, QueueTypes, LogTypes, CallTypes
  <1>1. pc' \in [Transactions -> Points] /\ pc'[w] \in {"written", "failed"} /\ Others(w)
    BY <1>0, MoveFacts DEF SyncRelease, Released, Transactions, Points, Ended
  <1>2. QueueTypes'
    BY <1>0 DEF SyncRelease, queueVars, QueueTypes
  <1>3. LogTypes'
    BY <1>0 DEF SyncRelease, fileVars, indexVars, LogTypes
  <1>4. CallTypes'
    BY <1>0, <1>1 DEF SyncRelease, callVars, CallTypes, Others, Kept, Transactions
  <1>5. Exclusion'
    BY <1>0, <1>1, TransactionAssumption DEF SyncRelease, Exclusion, HoldsGate, Others, Kept,
       Transactions
  <1>6. OsLocked'
    BY <1>0, <1>1, TransactionAssumption DEF SyncRelease, OsLocked, Others, Kept, Transactions
  <1>7. Lined'
    BY <1>0 DEF SyncRelease, queueVars, fileVars, Lined
  <1>8. Absorbed'
    BY <1>0, <1>1, TransactionAssumption DEF SyncRelease, fileVars, indexVars, Absorbed, Unabsorbed,
       Unknown, Others, Kept, Transactions
  <1>9. Decided'
    BY <1>0, <1>1, TransactionAssumption DEF SyncRelease, fileVars, callVars, Decided, Healthy, Base,
       Others, Kept, Transactions
  <1>10. Placed'
    <2>1. \A u \in Transactions : /\ pc[u] \in OnDisk => pc'[u] \in OnDisk
                                  /\ pc'[u] = "accepted" <=> pc[u] = "accepted"
      BY <1>1 DEF SyncRelease, Others, Kept, OnDisk, Transactions
    <2>2. pending' = pending /\ disk' = disk
      BY DEF SyncRelease, fileVars
    <2>3. QED
      BY <1>0, <2>1, <2>2, PlacedFrame
  <1>11. Closing'
    BY <1>0, <1>1, TransactionAssumption DEF SyncRelease, Closing, InFlight, Ended, Others, Kept,
       Transactions
  <1>12. Serializable'
    BY <1>0 DEF SyncRelease, fileVars, callVars, Serializable
  <1>13. QED
    BY <1>2, <1>3, <1>4, <1>5, <1>6, <1>7, <1>8, <1>9, <1>10, <1>11, <1>12 DEF IInv, TypeOK, QueueTypes,
       LogTypes, CallTypes

LEMMA ResyncInv ==
    ASSUME IInv, Resync
    PROVE  IInv'
  <1>0. /\ TypeOK /\ QueueTypes /\ LogTypes /\ CallTypes
        /\ Exclusion /\ OsLocked /\ Lined /\ Absorbed /\ Decided /\ Placed /\ Closing /\ Serializable
    BY DEF IInv, TypeOK, QueueTypes, LogTypes, CallTypes
  <1>1. pc' = pc
    BY DEF Resync
  <1>2. QueueTypes'
    BY <1>0 DEF Resync, queueVars, QueueTypes
  <1>3. LogTypes'
    <2>1. disk' \in Seq(Transactions) /\ indexed' \in 0..Len(disk')
      BY <1>0, IndexTyped DEF Resync, Synced, fileVars
    <2>2. QED
      BY <1>0, <2>1 DEF Resync, Synced, fileVars, LogTypes
  <1>4. CallTypes'
    BY <1>0, <1>1 DEF Resync, callVars, CallTypes
  <1>5. Exclusion'
    BY <1>0, <1>1, TransactionAssumption DEF Resync, Exclusion, HoldsGate
  <1>6. OsLocked'
    BY <1>0, <1>1, TransactionAssumption DEF Resync, OsLocked
  <1>7. Lined'
    BY <1>0 DEF Resync, queueVars, fileVars, Lined
  <1>8. Absorbed'
    BY <1>0, <1>1, TransactionAssumption DEF Resync, Synced, fileVars, Absorbed, Unabsorbed, Unknown,
       OsLocked, Transactions
  <1>9. Decided'
    BY <1>0, <1>1, TransactionAssumption DEF Resync, fileVars, callVars, Decided, Healthy, Base
  <1>10. Placed'
    BY <1>0, <1>1, TransactionAssumption DEF Resync, fileVars, Placed
  <1>11. Closing'
    BY <1>0, <1>1, TransactionAssumption DEF Resync, Closing, InFlight, Ended
  <1>12. Serializable'
    BY <1>0 DEF Resync, fileVars, callVars, Serializable
  <1>13. QED
    BY <1>2, <1>3, <1>4, <1>5, <1>6, <1>7, <1>8, <1>9, <1>10, <1>11, <1>12 DEF IInv, TypeOK, QueueTypes,
       LogTypes, CallTypes

LEMMA CloseInv ==
    ASSUME IInv, CloseBegin \/ Close
    PROVE  IInv'
  <1>1. UNCHANGED <<mu, gate, pending, doomed, queue, failed, worker, os, disk, settled, indexed, dirty, pc,
                    barrier, overlay, basis>>
    BY DEF CloseBegin, Close, CloseWait, CloseDrain, CloseDone, queueVars, fileVars, indexVars, callVars
  <1>2. Closing'
    BY <1>1 DEF IInv, Closing, InFlight, CloseBegin, Close, CloseWait, CloseReady, CloseDrain, CloseDone
  <1>3. store' \in {"closing", "draining", "drained", "undrained", "closed", "closed undrained"}
    BY DEF CloseBegin, Close, CloseWait, CloseDrain, CloseDone
  <1>4. pc' \in [Transactions -> Points] /\ barrier' \in [Writers -> SUBSET Admitted]
    BY <1>1 DEF IInv, TypeOK
  <1>5. QED
    BY <1>1, <1>2, <1>3, <1>4, QuietInv

-----------------------------------------------------------------------------
(* The invariant.                                                          *)

LEMMA InitInv == Init => IInv
  <1> SUFFICES ASSUME Init PROVE IInv
    OBVIOUS
  <1>1. TypeOK
    <2>1. <<>> \in Seq(Admitted) /\ <<>> \in Seq(Transactions) /\ Len(<<>>) = 0
      BY EmptySeq
    <2>2. pc \in [Transactions -> Points]
      BY DEF Init, Points
    <2>3. QueueTypes /\ LogTypes
      <3>1. QueueTypes
        BY <2>1 DEF Init, QueueTypes
      <3>2. indexed \in 0..Len(disk)
        BY <2>1 DEF Init
      <3>3. QED
        BY <2>1, <3>1, <3>2 DEF Init, LogTypes
    <2>4. CallTypes
      BY <2>1, <2>2 DEF Init, CallTypes
    <2>5. QED
      BY <2>3, <2>4 DEF TypeOK, QueueTypes, LogTypes, CallTypes
  <1>2. Len(pending) = 0 /\ Len(disk) = 0 /\ DOMAIN disk = 1..0
    BY EmptySeq DEF Init
  <1>3. \A t \in Transactions : pc[t] = "start"
    BY DEF Init
  <1>4. Admitted \subseteq Transactions /\ Writers \subseteq Transactions
    BY DEF Transactions
  <1>5. Exclusion /\ OsLocked /\ Lined
    BY <1>3, <1>4 DEF Init, Exclusion, HoldsGate, OsLocked, Lined
  <1>6. Absorbed
    BY <1>2, <1>3, <1>4 DEF Init, Absorbed, Unabsorbed, Unknown
  <1>7. Decided /\ Placed /\ Serializable
    BY <1>2, <1>3, <1>4 DEF Init, Decided, Healthy, Placed, Serializable
  <1>8. Closing
    BY DEF Init, Closing
  <1>9. QED
    BY <1>1, <1>5, <1>6, <1>7, <1>8 DEF IInv

LEMMA NextInv == IInv /\ [Next]_vars => IInv'
  <1> SUFFICES ASSUME IInv, [Next]_vars PROVE IInv'
    OBVIOUS
  <1>1. ASSUME NEW a \in Admitted, AdmittedTransaction(a) PROVE IInv'
    <2>1. a \in Transactions
      BY DEF Transactions
    <2>2. QED
      BY <1>1, <2>1, EnterInv, NotEnteredInv, AdmittedBeginInv, AdmittedViewInv, AdmittedAcceptInv,
         AdmittedRefusedInv DEF AdmittedTransaction
  <1>2. ASSUME Worker PROVE IInv'
    BY <1>2, WorkerLockInv, WorkerCommitInv, WorkerHookInv, WorkerFinishInv, WorkerErrInv,
       WorkerNoteInv,
       WorkerFailInv DEF Worker
  <1>3. ASSUME NEW w \in Writers, SynchronousTransaction(w) \/ SyncGiveUp(w) PROVE IInv'
    <2>1. w \in Transactions
      BY DEF Transactions
    <2>2. QED
      BY <1>3, <2>1, EnterInv, NotEnteredInv, SyncGateInv, SyncWaitInv, SyncBarrierInv, SyncRefusedInv,
         SyncGiveUpInv, SyncLockInv, SyncCommitInv, SyncHookInv, SyncErrInv, SyncNoteInv, SyncReleaseInv
         DEF SynchronousTransaction
  <1>4. ASSUME CloseBegin \/ Close PROVE IInv'
    BY <1>4, CloseInv
  <1>5. ASSUME UNCHANGED vars PROVE IInv'
    <2>1. /\ UNCHANGED <<mu, gate, pending, doomed, queue, failed, worker, os, disk, settled, indexed, dirty>>
          /\ UNCHANGED <<store, pc, barrier, overlay, basis>>
      BY <1>5 DEF vars, queueVars, fileVars, indexVars, callVars
    <2>2. Closing' /\ pc' \in [Transactions -> Points] /\ barrier' \in [Writers -> SUBSET Admitted]
      BY <2>1 DEF IInv, TypeOK, Closing, InFlight
    <2>3. store' \in {"open", "closing", "draining", "drained", "undrained", "closed", "closed undrained"}
      BY <2>1 DEF IInv, TypeOK
    <2>4. QED
      BY <2>1, <2>2, <2>3, QuietInv
  <1>6. QED
    BY <1>1, <1>2, <1>3, <1>4, QueueFailsInv, ResyncInv, <1>5 DEF Next

\* The inductive invariant: exclusion, order, absorption, decisions and places.
THEOREM WriteBehindInvariance == Spec => []IInv
  BY InitInv, NextInv, PTL DEF Spec

-----------------------------------------------------------------------------
(* What the store promises.                                                *)

\* Type correctness of the write-behind path.
THEOREM WriteBehindTypeCorrect == Spec => []TypeOK
  <1>1. IInv => TypeOK
    BY DEF IInv
  <1>2. QED
    BY <1>1, WriteBehindInvariance, PTL

\* Every committed transaction decided on exactly the log before it, for any
\* number of admitted and synchronous transactions (beginAdmitted,
\* beginSynchronous, applyTaskTransaction).
THEOREM SerializableTheorem == Spec => []Serializable
  <1>1. IInv => Serializable
    BY DEF IInv
  <1>2. QED
    BY <1>1, WriteBehindInvariance, PTL

\* An index that is not marked dirty holds the whole log whenever no write is
\* between its commit and the end of Write (noteWriteResult, the hooks).
THEOREM IndexTheorem == Spec => []IndexCurrent
  <1>1. IInv => IndexCurrent
    <2> SUFFICES ASSUME IInv, ~dirty, ~Settling PROVE indexed = Len(disk)
      BY DEF IndexCurrent
    <2>1. ~Unknown /\ os = None
      BY DEF Settling, Unknown
    <2>2. worker # "committed" /\ \A w \in Writers : pc[w] # "committed"
      BY <2>1, TransactionAssumption DEF IInv, OsLocked, Transactions
    <2>3. QED
      BY <2>1, <2>2 DEF IInv, Absorbed, Unabsorbed
  <1>2. QED
    BY <1>1, WriteBehindInvariance, PTL

\* A store that closed without an error wrote every transaction it accepted
\* (closeStore).
THEOREM CloseTheorem == Spec => []CloseDrains
  <1>1. IInv => CloseDrains
    <2> SUFFICES ASSUME IInv, store = "closed", NEW a \in Admitted, pc[a] = "accepted"
                 PROVE  \E i \in DOMAIN disk : disk[i] = a
      BY DEF CloseDrains
    <2>1. pending = <<>> /\ Len(pending) = 0
      BY EmptySeq DEF IInv, Closing
    <2>2. \E i \in 1..Len(disk) : disk[i] = a
      BY <2>1 DEF IInv, Placed
    <2>3. DOMAIN disk = 1..Len(disk)
      BY LenProperties DEF IInv, TypeOK
    <2>4. QED
      BY <2>2, <2>3
  <1>2. QED
    BY <1>1, WriteBehindInvariance, PTL

\* Nothing is accepted and nothing is committed over accepted transactions of a
\* queue that failed (pendingPayloadsLocked, enqueue, beginSynchronous).
THEOREM FailsClosedTheorem == Spec => FailsClosed
  <1> DEFINE Closed == failed /\ pending # <<>> => UNCHANGED <<pending, disk>>
  <1>1. IInv /\ [Next]_vars => [Closed]_vars
    <2> SUFFICES ASSUME IInv, Next, failed, pending # <<>> PROVE UNCHANGED <<pending, disk>>
      OBVIOUS
    <2>1. worker \in {"idle", "failing"}
      BY DEF IInv, Lined, TypeOK
    <2>2. \A w \in Writers : pc[w] \notin HoldsGate
      BY GateHeld DEF IInv
    <2>3. ASSUME NEW a \in Admitted, AdmittedTransaction(a) PROVE UNCHANGED <<pending, disk>>
      BY <2>3 DEF AdmittedTransaction, Enter, NotEntered, AdmittedBegin, AdmittedView, AdmittedAccept,
                  AdmittedRefused, fileVars
    <2>4. ASSUME Worker PROVE UNCHANGED <<pending, disk>>
      BY <2>1, <2>4 DEF Worker, WorkerLock, WorkerCommit, WorkerHook, WorkerFinish, WorkerErr,
                        WorkerNote, WorkerFail, Recovered, fileVars
    <2>5. ASSUME NEW w \in Writers, SynchronousTransaction(w) \/ SyncGiveUp(w)
          PROVE  UNCHANGED <<pending, disk>>
      BY <2>2, <2>5 DEF SynchronousTransaction, HoldsGate, Enter, NotEntered, SyncGate, SyncWait,
                        SyncBarrier, SyncRefused, SyncGiveUp, SyncLock, SyncCommit, SyncHook, SyncErr, SyncNote,
                        SyncRelease, fileVars
    <2>6. ASSUME CloseBegin \/ Close \/ Resync \/ QueueFails PROVE UNCHANGED <<pending, disk>>
      BY <2>6 DEF CloseBegin, Close, CloseWait, CloseDrain, CloseDone, Resync, QueueFails, fileVars
    <2>7. QED
      BY <2>3, <2>4, <2>5, <2>6 DEF Next
  <1>2. QED
    BY <1>1, WriteBehindInvariance, PTL DEF Spec, FailsClosed

=============================================================================
