----------------------- MODULE EventPublicationProofs -----------------------
(***************************************************************************)
(* The durable log is in EventSeq order, a CHAT's lease keeps synchronous  *)
(* writers out of the queue, a fallback leaves nothing in RAM, the live    *)
(* feed goes along the log and passes unshown what it may and no more, and *)
(* a client can replay all of it, for every number of CHATs and writers.   *)
(*                                                                         *)
(* The argument.  Numbers are issued in the order commands enter the queue *)
(* and the queue is written from its head, so what is durable is below     *)
(* what is queued, which is below the last number issued (Sequenced).  A   *)
(* lease begins when the two counters are 0, which means something because *)
(* they count exactly (Counted), and no synchronous writer enters after    *)
(* that.  A barrier is the greatest number the CHAT had in the queue, and  *)
(* once its trace is synchronous nothing joins it (Scoped, Behind).        *)
(* Each writer hands over one event and one at a time holds publicationMu  *)
(* (HandOver).  What a CHAT has left in the queue the live cursor has      *)
(* passed, unless its emitter is about to publish it or was told that it   *)
(* could not (Unseen); what a synchronous writer has left it has not; and  *)
(* nothing durable waits for the drain while a CHAT may publish (Shown).   *)
(* So the next event shown or passed follows in the log on what has been   *)
(* passed, with none between but those the abstract feed excuses.          *)
(***************************************************************************)
EXTENDS EventPublication, SequenceTheorems, FunctionTheorems, FiniteSetTheorems,
        WellFoundedInduction, TLAPS

Row == [seq : Nat, by : Writers]
Entry == [event : Row, chat : Chats \cup {None}]
Places == Gone \cup {"start", "parked", "admit", "publish", "lock", "append", "waiting", "queued",
                     "stored", "drain"}
Scopes == {"unbound", "admitted", "synchronous"}
Requests == Bound \cup {"new", "refused", "released", "fallen back"}

\* The types the argument needs.
Types ==
    /\ last \in Nat /\ highWater \in Nat
    /\ waiting \in Int /\ pending \in Int
    /\ queue \in Seq(Entry)
    /\ stored \in Seq(Row)
    /\ lease \in Chats \cup {None}
    /\ binding \in Chats \cup {None}
    /\ applied \in BOOLEAN
    /\ pc \in [Writers -> Places]
    /\ scope \in [Chats -> Scopes]
    /\ chat \in [Chats -> Requests]
    /\ barrier \in [Chats -> Nat]
    /\ seen \in [Emitters -> Chats \cup {None}]

Sequenced ==
    /\ highWater <= last
    /\ \A i \in DOMAIN queue : queue[i].event.seq <= last
    /\ \A i, j \in DOMAIN queue : i < j => queue[i].event.seq < queue[j].event.seq
    /\ \A i \in DOMAIN stored : stored[i].seq <= highWater
    /\ applied => queue # <<>> /\ highWater = Head1.event.seq
    /\ ~applied => \A i \in DOMAIN queue : highWater < queue[i].event.seq

Waiters == {w \in Writers : pc[w] = "waiting"}

Counted == IsFiniteSet(Waiters) /\ SyncCountsExact

\* An emitter is admitted under the binding of its own trace.
Admitting == \A e \in Emitters : pc[e] = "admit" => seen[e] = TraceOf[e] /\ seen[e] # None

Scoped ==
    \A c \in Chats : scope[c] = "admitted" => chat[c] \in {"bound", "barrier", "drained", "leaving"}

Behind ==
    \A c \in Chats :
        /\ chat[c] = "barrier again" => \A seq \in AcceptedFor(c) : seq <= barrier[c]
        /\ chat[c] = "fallen back" => AcceptedFor(c) = {}

IInv ==
    /\ Types
    /\ Sequenced
    /\ CommittedInSequence
    /\ LeaseExcludesSynchronous
    /\ Counted
    /\ Admitting
    /\ Scoped
    /\ Behind

-----------------------------------------------------------------------------
(* The queue.                                                              *)

LEMMA EntryType ==
    ASSUME Types, NEW i \in DOMAIN queue
    PROVE  /\ queue[i] \in Entry
           /\ queue[i].event \in Row
           /\ queue[i].event.seq \in Nat
           /\ queue[i].event.by \in Writers
<1>1. queue[i] \in Entry
  BY ElementOfSeq, LenProperties DEF Types
<1>. QED
  BY <1>1 DEF Entry, Row

\* The queue without its head.
Shifted ==
    /\ Len(queue) \in Nat \ {0}
    /\ DOMAIN queue = 1 .. Len(queue)
    /\ queue' \in Seq(Entry)
    /\ DOMAIN queue' = 1 .. (Len(queue) - 1)
    /\ \A i \in DOMAIN queue' : i + 1 \in DOMAIN queue /\ queue'[i] = queue[i + 1]

LEMMA TailShifts ==
    ASSUME Types, queue # <<>>, queue' = Tail(queue)
    PROVE  Shifted
<1>1. queue \in Seq(Entry)
  BY DEF Types
<1>2. /\ Tail(queue) \in Seq(Entry)
      /\ Len(Tail(queue)) = Len(queue) - 1
      /\ \A i \in 1 .. Len(Tail(queue)) : Tail(queue)[i] = queue[i + 1]
  BY <1>1, HeadTailProperties
<1>3. Len(queue) \in Nat /\ DOMAIN queue = 1 .. Len(queue) /\ Len(queue) # 0
  BY <1>1, LenProperties, EmptySeq
<1>4. DOMAIN queue' = 1 .. Len(queue')
  BY <1>2, LenProperties
<1>. QED
  BY <1>2, <1>3, <1>4 DEF Shifted

\* The queue with one more command, which has the next number.
Extended(by, c) ==
    /\ Len(queue) \in Nat
    /\ DOMAIN queue = 1 .. Len(queue)
    /\ queue' \in Seq(Entry)
    /\ DOMAIN queue' = 1 .. (Len(queue) + 1)
    /\ \A i \in DOMAIN queue : queue'[i] = queue[i]
    /\ queue'[Len(queue) + 1].event.seq = last + 1
    /\ queue'[Len(queue) + 1].chat = c

LEMMA EnqueueExtends ==
    ASSUME Types, NEW w \in Writers, NEW c \in Chats \cup {None}, Enqueue(w, c)
    PROVE  Extended(w, c)
<1>. DEFINE new == [event |-> [seq |-> last + 1, by |-> w], chat |-> c]
<1>1. queue \in Seq(Entry) /\ last \in Nat
  BY DEF Types
<1>2. new \in Entry
  BY <1>1 DEF Entry, Row
<1>3. queue' = Append(queue, new)
  BY DEF Enqueue
<1>4. new.event.seq = last + 1 /\ new.chat = c
  OBVIOUS
<1>. HIDE DEF new
<1>5. /\ queue' \in Seq(Entry)
      /\ Len(queue') = Len(queue) + 1
      /\ \A i \in 1 .. Len(queue) : queue'[i] = queue[i]
      /\ queue'[Len(queue) + 1] = new
  BY <1>1, <1>2, <1>3, AppendProperties
<1>6. /\ Len(queue) \in Nat
      /\ DOMAIN queue = 1 .. Len(queue)
      /\ DOMAIN queue' = 1 .. Len(queue')
  BY <1>1, <1>5, LenProperties
<1>. QED
  BY <1>4, <1>5, <1>6 DEF Extended

LEMMA OutstandingFinite ==
    ASSUME Types
    PROVE  IsFiniteSet(Outstanding) /\ Cardinality(Outstanding) \in Nat
<1>1. Len(queue) \in Nat /\ DOMAIN queue = 1 .. Len(queue)
  BY LenProperties DEF Types
<1>2. IsFiniteSet(1 .. Len(queue))
  BY <1>1, FS_Interval
<1>. QED
  BY <1>1, <1>2, FS_Subset, FS_CardinalityType DEF Outstanding

\* Taking a command out takes it out of the count, the others move up.
LEMMA OutstandingShifts ==
    ASSUME Types, queue # <<>>, queue' = Tail(queue)
    PROVE  Cardinality(Outstanding') = Cardinality(Outstanding) - (IF Head1.chat = None THEN 1 ELSE 0)
<1>. DEFINE Rest == Outstanding \ {1}
<1>1. Shifted
  BY TailShifts
<1>2. IsFiniteSet(Outstanding)
  BY OutstandingFinite
<1>3. /\ IsFiniteSet(Rest)
      /\ Cardinality(Rest) = Cardinality(Outstanding) - (IF 1 \in Outstanding THEN 1 ELSE 0)
  <2>1. Cardinality(Outstanding) \in Nat
    BY OutstandingFinite
  <2>. QED
    BY <1>2, <2>1, FS_RemoveElement
<1>4. 1 \in Outstanding <=> Head1.chat = None
  BY <1>1 DEF Outstanding, Head1, Shifted
<1>5. Cardinality(Outstanding') = Cardinality(Rest)
  <2>. DEFINE f == [i \in Rest |-> i - 1]
  <2>1. \A i \in Rest : i \in 2 .. Len(queue) /\ queue[i].chat = None
    BY <1>1 DEF Outstanding, Shifted
  <2>2. \A i \in Rest : i - 1 \in Outstanding'
    BY <1>1, <2>1 DEF Outstanding, Shifted
  <2>3. \A k \in Outstanding' : k \in Nat /\ k + 1 \in Rest
    BY <1>1 DEF Outstanding, Shifted
  <2>4. f \in Bijection(Rest, Outstanding')
    <3>1. f \in [Rest -> Outstanding']
      BY <2>2
    <3>2. \A a, b \in Rest : f[a] = f[b] => a = b
      BY <2>1
    <3>3. \A k \in Outstanding' : \E a \in Rest : f[a] = k
      <4>. SUFFICES ASSUME NEW k \in Outstanding'
                    PROVE  f[k + 1] = k
        BY <2>3
      <4>. QED
        BY <2>3
    <3>. QED
      BY <3>1, <3>2, <3>3, Fun_IsBij
  <2>5. ExistsBijection(Rest, Outstanding')
    BY <2>4 DEF ExistsBijection
  <2>. QED
    BY <1>3, <2>5, FS_Bijection
<1>. QED
  BY <1>3, <1>4, <1>5

LEMMA OutstandingGrows ==
    ASSUME Types, NEW w \in Writers, NEW c \in Chats \cup {None}, Extended(w, c)
    PROVE  Cardinality(Outstanding') = Cardinality(Outstanding) + (IF c = None THEN 1 ELSE 0)
<1>1. IsFiniteSet(Outstanding) /\ Cardinality(Outstanding) \in Nat
  BY OutstandingFinite
<1>2. CASE c = None
  <2>1. Outstanding' = Outstanding \cup {Len(queue) + 1} /\ Len(queue) + 1 \notin Outstanding
    BY <1>2 DEF Outstanding, Extended
  <2>. QED
    BY <1>1, <1>2, <2>1, FS_AddElement
<1>3. CASE c # None
  <2>1. Outstanding' = Outstanding
    BY <1>3 DEF Outstanding, Extended
  <2>. QED
    BY <1>1, <1>3, <2>1
<1>. QED
  BY <1>2, <1>3

Less == {p \in Nat \X Nat : p[1] < p[2]}

LEMMA LessWellFounded == IsWellFoundedOn(Less, Nat)
BY NatLessThanWellFounded, Zenon DEF OpToRel, Less

\* A bounded set of numbers has a greatest one.
LEMMA BoundedMax ==
    ASSUME NEW S, S \subseteq Nat, S # {}, NEW n \in Nat, \A y \in S : y <= n
    PROVE  Max(S) \in S /\ \A y \in S : y <= Max(S)
<1>. DEFINE T == {n - y : y \in S}
<1>1. T \subseteq Nat /\ T # {}
  <2>1. \A y \in S : y \in Nat /\ n - y \in Nat
    OBVIOUS
  <2>2. PICK y \in S : TRUE
    OBVIOUS
  <2>3. n - y \in T
    BY <2>2
  <2>. QED
    BY <2>1, <2>3
<1>2. PICK t \in T : \A u \in T : ~(u < t)
  <2>. HIDE DEF T
  <2>1. \E t \in T : \A u \in T : ~(<<u, t>> \in Less)
    BY <1>1, LessWellFounded, WFMin, Zenon
  <2>. QED
    BY <1>1, <2>1 DEF Less
<1>4. PICK x \in S : t = n - x
  OBVIOUS
<1>5. \A y \in S : x >= y
  <2>. SUFFICES ASSUME NEW y \in S
                PROVE  x >= y
    OBVIOUS
  <2>1. ~(n - y < t)
    BY <1>2
  <2>. QED
    BY <1>4, <2>1
<1>. HIDE DEF T
<1>6. \E m \in S : \A y \in S : m >= y
  BY <1>5
<1>7. Max(S) \in S /\ \A y \in S : Max(S) >= y
  BY <1>6 DEF Max
<1>. QED
  BY <1>7

LEMMA AcceptedMax ==
    ASSUME Types, Sequenced, NEW c \in Chats
    PROVE  /\ Max({0} \cup AcceptedFor(c)) \in Nat
           /\ \A seq \in AcceptedFor(c) : seq <= Max({0} \cup AcceptedFor(c))
<1>. DEFINE S == {0} \cup AcceptedFor(c)
<1>1. S \subseteq Nat
  BY EntryType DEF AcceptedFor
<1>2. last \in Nat /\ \A y \in S : y <= last
  BY DEF Types, Sequenced, AcceptedFor
<1>. HIDE DEF S
<1>3. Max(S) \in S /\ \A y \in S : y <= Max(S)
  <2>1. S # {}
    BY DEF S
  <2>. QED
    BY <1>1, <1>2, <2>1, BoundedMax
<1>4. AcceptedFor(c) \subseteq S
  BY DEF S
<1>. QED
  BY <1>1, <1>3, <1>4 DEF S

-----------------------------------------------------------------------------
(* The steps.                                                              *)

LEMMA TypesInit == Init => Types
<1>. SUFFICES ASSUME Init
              PROVE  Types
  OBVIOUS
<1>1. <<>> \in Seq(Entry) /\ <<>> \in Seq(Row)
  OBVIOUS
<1>2. pc \in [Writers -> Places]
  BY DEF Init, Places
<1>3. scope \in [Chats -> Scopes] /\ chat \in [Chats -> Requests]
  BY DEF Init, Scopes, Requests
<1>4. barrier \in [Chats -> Nat] /\ seen \in [Emitters -> Chats \cup {None}]
  BY DEF Init
<1>5. queue \in Seq(Entry) /\ stored \in Seq(Row)
  BY <1>1 DEF Init
<1>6. last \in Nat /\ highWater \in Nat /\ waiting \in Int /\ pending \in Int
  BY DEF Init
<1>7. /\ lease \in Chats \cup {None} /\ binding \in Chats \cup {None} /\ applied \in BOOLEAN
  BY DEF Init
<1>. QED
  BY <1>2, <1>3, <1>4, <1>5, <1>6, <1>7 DEF Types

LEMMA InitInv == Init => IInv
<1>. SUFFICES ASSUME Init
              PROVE  IInv
  OBVIOUS
<1>1. Types
  BY TypesInit
<1>2. queue = <<>> /\ stored = <<>> /\ DOMAIN queue = {} /\ DOMAIN stored = {}
  BY DEF Init
<1>3. Sequenced /\ CommittedInSequence /\ LeaseExcludesSynchronous
  BY <1>2 DEF Init, Sequenced, CommittedInSequence, LeaseExcludesSynchronous
<1>4. Counted
  <2>1. Waiters = {} /\ Outstanding = {}
    BY <1>2 DEF Init, Waiters, Outstanding, Writers
  <2>. QED
    BY <2>1, FS_EmptySet DEF Init, Counted, SyncCountsExact, Waiters
<1>5. Admitting /\ Scoped /\ Behind
  BY DEF Init, Admitting, Scoped, Behind, Writers
<1>. QED
  BY <1>1, <1>3, <1>4, <1>5 DEF IInv

\* A writer moves, of whom nobody knew or will know that it waits.
LEMMA WaitersKept ==
    ASSUME Types, NEW w \in Writers, NEW at, Move(w, at), pc[w] # "waiting", at # "waiting"
    PROVE  Waiters' = Waiters
BY DEF Types, Move, Waiters

LEMMA FinishShape ==
    ASSUME Types, queue # <<>>, NEW at \in {"stored", "refused"}, Finish(at)
    PROVE  /\ Waiters' = Waiters
           /\ pc' \in [Writers -> Places]
           /\ \A w \in Writers : pc'[w] = pc[w] \/ pc'[w] = at
           /\ Shifted
           /\ pending' = pending - (IF Head1.chat = None THEN 1 ELSE 0)
           /\ Cardinality(Outstanding') = Cardinality(Outstanding)
                                          - (IF Head1.chat = None THEN 1 ELSE 0)
<1>1. queue' = Tail(queue)
  BY DEF Finish
<1>2. Shifted
  BY <1>1, TailShifts
<1>3. Head1.event.by \in Writers
  BY <1>2, EntryType DEF Shifted, Head1
<1>4. /\ Waiters' = Waiters
      /\ pc' \in [Writers -> Places]
      /\ \A w \in Writers : pc'[w] = pc[w] \/ pc'[w] = at
  <2>1. CASE UNCHANGED pc
    BY <2>1 DEF Waiters, Types
  <2>2. CASE pc[Head1.event.by] = "queued" /\ Move(Head1.event.by, at)
    BY <1>3, <2>2, WaitersKept DEF Types, Move, Places, Gone
  <2>. QED
    BY <2>1, <2>2 DEF Finish
<1>5. pending' = pending - (IF Head1.chat = None THEN 1 ELSE 0)
  BY DEF Finish, Types
<1>. QED
  BY <1>1, <1>2, <1>4, <1>5, OutstandingShifts

\* A step that leaves the store's rows and commands alone.
StoreQuiet == UNCHANGED <<last, pending, queue, applied, stored, highWater>>

LEMMA QuietKeeps ==
    ASSUME IInv, StoreQuiet
    PROVE  /\ Sequenced'
           /\ CommittedInSequence'
           /\ Outstanding' = Outstanding
           /\ \A c \in Chats : AcceptedFor(c)' = AcceptedFor(c)
BY DEF IInv, StoreQuiet, Sequenced, CommittedInSequence, Outstanding, AcceptedFor, Head1

\* The steps that touch them.
StoreStep ==
    \/ WorkerCommit \/ WorkerFinish \/ WorkerSkip
    \/ \E w \in Writers : SyncEnqueue(w)
    \/ \E e \in Emitters : EmitterAdmit(e)

LEMMA OtherStepsQuiet == [Next]_vars => StoreStep \/ StoreQuiet
<1>. SUFFICES ASSUME [Next]_vars, ~StoreStep
              PROVE  StoreQuiet
  OBVIOUS
<1>1. CASE Worker
  BY <1>1 DEF Worker, WorkerFail, StoreStep, StoreQuiet, admissionVars
<1>2. CASE \E w \in Writers : Synchronous(w)
  BY <1>2 DEF Synchronous, SyncCancelled, SyncWait, SyncOwnLease, SyncRefused, SyncFailed, StoreStep, StoreQuiet,
              storeVars, admissionVars, diskVars
<1>3. CASE \E w \in Writers : Drain(w)
  BY <1>3 DEF Drain, DrainBegin, DrainRow, DrainStop, StoreQuiet, storeVars, admissionVars, diskVars
<1>4. CASE \E j \in Journals : Cancel(j)
  BY <1>4 DEF Cancel, StoreQuiet, storeVars, admissionVars, diskVars
<1>5. CASE \E e \in Emitters : OnEvent(e)
  BY <1>5 DEF OnEvent, EmitterRead, EmitterUnpark, EmitterReadAgain, EmitterRefused, EmitterDeclined, EmitterPublish,
              EmitterLock, StoreStep, StoreQuiet, storeVars, admissionVars, diskVars
<1>6. CASE \E c \in Chats : Chat(c)
  BY <1>6 DEF Chat, BindChat, BindRefused, BarrierBegin, BarrierDone, BarrierFails,
              MarkChatSynchronous, FallBack, ReleaseChat, Release, StoreQuiet, storeVars,
              admissionVars, diskVars
<1>7. CASE UNCHANGED vars
  BY <1>7 DEF vars, StoreQuiet, storeVars, admissionVars, diskVars
<1>. QED
  BY <1>1, <1>2, <1>3, <1>4, <1>5, <1>6, <1>7 DEF Next

LEMMA CommitStep ==
    ASSUME IInv, WorkerCommit
    PROVE  Sequenced' /\ CommittedInSequence' /\ stored' \in Seq(Row) /\ highWater' \in Nat
<1>1. queue \in Seq(Entry) /\ queue # <<>> /\ 1 \in DOMAIN queue
  BY LenProperties, EmptySeq DEF IInv, Types, WorkerCommit
<1>2. Head1.event \in Row /\ Head1.event.seq \in Nat /\ Head1.event.seq <= last
      /\ highWater < Head1.event.seq
  BY <1>1, EntryType DEF IInv, Sequenced, Head1, WorkerCommit
<1>3. stored \in Seq(Row) /\ stored' = Append(stored, Head1.event) /\ highWater' = Head1.event.seq
      /\ UNCHANGED <<last, queue>> /\ applied'
  BY DEF IInv, Types, WorkerCommit, admissionVars
<1>4. /\ stored' \in Seq(Row)
      /\ Len(stored) \in Nat /\ DOMAIN stored = 1 .. Len(stored)
      /\ DOMAIN stored' = 1 .. (Len(stored) + 1)
      /\ \A i \in DOMAIN stored : stored'[i] = stored[i]
      /\ stored'[Len(stored) + 1] = Head1.event
  BY <1>2, <1>3, AppendProperties, LenProperties
<1>5. \A i \in DOMAIN stored : stored[i] \in Row /\ stored[i].seq \in Nat /\ stored[i].seq <= highWater
  <2>1. \A i \in DOMAIN stored : stored[i] \in Row
    BY <1>3, ElementOfSeq, LenProperties
  <2>. QED
    BY <2>1 DEF Row, IInv, Sequenced
<1>6. highWater \in Nat
  BY DEF IInv, Types
<1>7. \A i \in DOMAIN stored : stored[i].seq < Head1.event.seq
  BY <1>2, <1>5, <1>6
<1>8. \A i \in DOMAIN stored' : stored'[i].seq <= highWater'
  BY <1>2, <1>3, <1>4, <1>7, <1>5
<1>9. CommittedInSequence'
  <2>. SUFFICES ASSUME NEW i \in DOMAIN stored', NEW j \in DOMAIN stored', i < j
                PROVE  stored'[i].seq < stored'[j].seq
    BY DEF CommittedInSequence
  <2>1. i \in DOMAIN stored
    BY <1>4
  <2>2. CASE j = Len(stored) + 1
    BY <1>4, <1>7, <2>1, <2>2
  <2>3. CASE j # Len(stored) + 1
    <3>1. j \in DOMAIN stored
      BY <1>4, <2>3
    <3>. QED
      BY <1>4, <2>1, <3>1 DEF IInv, CommittedInSequence
  <2>. QED
    BY <2>2, <2>3
<1>10. Sequenced'
  BY <1>1, <1>2, <1>3, <1>8 DEF IInv, Sequenced, Head1
<1>. QED
  BY <1>2, <1>3, <1>4, <1>9, <1>10

\* The head leaves: what is behind it is above what is durable.
LEMMA ShiftedSequence ==
    ASSUME IInv, Shifted, queue # <<>>, UNCHANGED <<last, stored, highWater>>, ~applied'
    PROVE  Sequenced' /\ CommittedInSequence'
<1>1. 1 \in DOMAIN queue /\ DOMAIN queue = 1 .. Len(queue)
  BY DEF Shifted
<1>2. highWater \in Nat /\ \A i \in DOMAIN queue : queue[i].event.seq \in Nat
  BY EntryType DEF IInv, Types
<1>3. highWater <= Head1.event.seq
  <2>1. CASE applied
    BY <1>1, <1>2, <2>1 DEF IInv, Sequenced, Head1
  <2>2. CASE ~applied
    BY <1>1, <1>2, <2>2 DEF IInv, Sequenced, Head1
  <2>. QED
    BY <2>1, <2>2
<1>4. \A i \in DOMAIN queue' : highWater < queue'[i].event.seq
  <2>. SUFFICES ASSUME NEW i \in DOMAIN queue'
                PROVE  highWater < queue'[i].event.seq
    OBVIOUS
  <2>1. i + 1 \in DOMAIN queue /\ 1 < i + 1 /\ queue'[i] = queue[i + 1]
    BY DEF Shifted
  <2>2. Head1.event.seq < queue[i + 1].event.seq
    BY <1>1, <2>1 DEF IInv, Sequenced, Head1
  <2>. QED
    BY <1>1, <1>2, <1>3, <2>1, <2>2 DEF Head1
<1>5. \A i, j \in DOMAIN queue' : i < j => queue'[i].event.seq < queue'[j].event.seq
  <2>. SUFFICES ASSUME NEW i \in DOMAIN queue', NEW j \in DOMAIN queue', i < j
                PROVE  queue'[i].event.seq < queue'[j].event.seq
    OBVIOUS
  <2>1. i + 1 \in DOMAIN queue /\ j + 1 \in DOMAIN queue /\ i + 1 < j + 1
        /\ queue'[i] = queue[i + 1] /\ queue'[j] = queue[j + 1]
    BY DEF Shifted
  <2>. QED
    BY <2>1 DEF IInv, Sequenced
<1>6. \A i \in DOMAIN queue' : queue'[i].event.seq <= last
  BY DEF Shifted, IInv, Sequenced
<1>7. CommittedInSequence'
  BY DEF IInv, CommittedInSequence
<1>. QED
  BY <1>4, <1>5, <1>6, <1>7 DEF IInv, Sequenced

\* A command joins with the next number.
LEMMA ExtendedSequence ==
    ASSUME IInv, NEW w \in Writers, NEW c \in Chats \cup {None}, Enqueue(w, c),
           UNCHANGED <<stored, highWater, applied>>
    PROVE  Sequenced' /\ CommittedInSequence'
<1>1. Extended(w, c) /\ last' = last + 1
  BY EnqueueExtends DEF IInv, Enqueue
<1>2. last \in Nat /\ highWater \in Nat /\ \A i \in DOMAIN queue : queue[i].event.seq \in Nat
  BY EntryType DEF IInv, Types
<1>3. \A i \in DOMAIN queue' : queue'[i].event.seq <= last'
  BY <1>1, <1>2 DEF Extended, IInv, Sequenced
<1>4. \A i, j \in DOMAIN queue' : i < j => queue'[i].event.seq < queue'[j].event.seq
  <2>. SUFFICES ASSUME NEW i \in DOMAIN queue', NEW j \in DOMAIN queue', i < j
                PROVE  queue'[i].event.seq < queue'[j].event.seq
    OBVIOUS
  <2>1. i \in DOMAIN queue
    BY <1>1 DEF Extended
  <2>2. CASE j = Len(queue) + 1
    BY <1>1, <1>2, <2>1, <2>2 DEF Extended, IInv, Sequenced
  <2>3. CASE j # Len(queue) + 1
    <3>1. j \in DOMAIN queue
      BY <1>1, <2>3 DEF Extended
    <3>. QED
      BY <1>1, <2>1, <3>1 DEF Extended, IInv, Sequenced
  <2>. QED
    BY <2>2, <2>3
<1>5. ~applied => \A i \in DOMAIN queue' : highWater < queue'[i].event.seq
  BY <1>1, <1>2 DEF Extended, IInv, Sequenced
<1>6. applied => queue' # <<>> /\ Head1' = Head1
  <2>. SUFFICES ASSUME applied
                PROVE  queue' # <<>> /\ Head1' = Head1
    OBVIOUS
  <2>1. queue # <<>> /\ queue \in Seq(Entry)
    BY DEF IInv, Sequenced, Types
  <2>2. 1 \in DOMAIN queue /\ 1 \in DOMAIN queue'
    BY <1>1, <2>1, EmptySeq DEF Extended
  <2>. QED
    BY <1>1, <2>2 DEF Extended, Head1
<1>7. CommittedInSequence'
  BY DEF IInv, CommittedInSequence
<1>8. /\ highWater <= last'
      /\ \A i \in DOMAIN stored : stored[i].seq <= highWater
  BY <1>1, <1>2 DEF IInv, Sequenced
<1>. QED
  BY <1>3, <1>4, <1>5, <1>6, <1>7, <1>8 DEF IInv, Sequenced

LEMMA StoreTypes ==
    ASSUME IInv, [Next]_vars
    PROVE  /\ queue' \in Seq(Entry) /\ stored' \in Seq(Row)
           /\ last' \in Nat /\ highWater' \in Nat /\ pending' \in Int /\ applied' \in BOOLEAN
           /\ Sequenced' /\ CommittedInSequence'
           /\ pending' = Cardinality(Outstanding')
<1>1. /\ queue \in Seq(Entry) /\ stored \in Seq(Row)
      /\ last \in Nat /\ highWater \in Nat /\ pending \in Int /\ applied \in BOOLEAN
      /\ pending = Cardinality(Outstanding)
  BY DEF IInv, Types, Counted, SyncCountsExact
<1>2. CASE WorkerCommit
  <2>1. UNCHANGED <<queue, last, pending>> /\ applied' \in BOOLEAN
    BY <1>2 DEF WorkerCommit, admissionVars
  <2>2. Outstanding' = Outstanding
    BY <2>1 DEF Outstanding
  <2>. QED
    BY <1>1, <1>2, <2>1, <2>2, CommitStep
<1>3. CASE WorkerFinish
  <2>1. queue # <<>> /\ Finish("stored") /\ UNCHANGED <<last, stored, highWater>> /\ ~applied'
        /\ applied' \in BOOLEAN
    BY <1>3 DEF WorkerFinish, IInv, Sequenced
  <2>2. /\ Shifted
        /\ pending' = pending - (IF Head1.chat = None THEN 1 ELSE 0)
        /\ Cardinality(Outstanding') = Cardinality(Outstanding)
                                       - (IF Head1.chat = None THEN 1 ELSE 0)
    BY <2>1, FinishShape DEF IInv
  <2>3. Sequenced' /\ CommittedInSequence'
    BY <2>1, <2>2, ShiftedSequence
  <2>4. queue' \in Seq(Entry)
    BY <2>2 DEF Shifted
  <2>. QED
    BY <1>1, <2>1, <2>2, <2>3, <2>4
<1>4. CASE WorkerSkip
  <2>1. queue # <<>> /\ Finish("refused") /\ UNCHANGED <<last, stored, highWater, applied>> /\ ~applied'
    BY <1>4 DEF WorkerSkip, diskVars
  <2>2. /\ Shifted
        /\ pending' = pending - (IF Head1.chat = None THEN 1 ELSE 0)
        /\ Cardinality(Outstanding') = Cardinality(Outstanding)
                                       - (IF Head1.chat = None THEN 1 ELSE 0)
    BY <2>1, FinishShape DEF IInv
  <2>3. Sequenced' /\ CommittedInSequence'
    BY <2>1, <2>2, ShiftedSequence
  <2>4. queue' \in Seq(Entry)
    BY <2>2 DEF Shifted
  <2>. QED
    BY <1>1, <2>1, <2>2, <2>3, <2>4
<1>5. CASE \E w \in Writers : SyncEnqueue(w)
  <2>1. PICK w \in Writers : SyncEnqueue(w)
    BY <1>5
  <2>2. Enqueue(w, None) /\ UNCHANGED <<stored, highWater, applied>> /\ pending' = pending + 1
    BY <2>1 DEF SyncEnqueue, diskVars
  <2>3. Extended(w, None) /\ last' = last + 1
    BY <2>2, EnqueueExtends DEF IInv, Enqueue
  <2>4. Cardinality(Outstanding') = Cardinality(Outstanding) + 1
    BY <2>3, OutstandingGrows DEF IInv
  <2>5. Sequenced' /\ CommittedInSequence'
    BY <2>2, ExtendedSequence
  <2>6. queue' \in Seq(Entry)
    BY <2>3 DEF Extended
  <2>. QED
    BY <1>1, <2>2, <2>3, <2>4, <2>5, <2>6
<1>6. CASE \E e \in Emitters : EmitterAdmit(e)
  <2>1. PICK e \in Emitters : EmitterAdmit(e)
    BY <1>6
  <2>2. /\ Enqueue(e, lease) /\ UNCHANGED <<stored, highWater, applied, pending>>
        /\ e \in Writers /\ lease \in Chats \cup {None}
    BY <2>1 DEF EmitterAdmit, diskVars, Writers, IInv, Types
  <2>3. lease # None
    BY <2>1 DEF EmitterAdmit, StillAdmitted, IInv, Admitting
  <2>4. Extended(e, lease) /\ last' = last + 1
    BY <2>2, EnqueueExtends DEF IInv, Enqueue
  <2>5. Cardinality(Outstanding') = Cardinality(Outstanding)
    <3>1. Cardinality(Outstanding) \in Nat
      BY OutstandingFinite DEF IInv
    <3>. QED
      BY <2>2, <2>3, <2>4, <3>1, OutstandingGrows DEF IInv
  <2>6. Sequenced' /\ CommittedInSequence'
    BY <2>2, ExtendedSequence
  <2>7. queue' \in Seq(Entry)
    BY <2>4 DEF Extended
  <2>. QED
    BY <1>1, <2>2, <2>4, <2>5, <2>6, <2>7
<1>7. CASE StoreQuiet
  BY <1>1, <1>7, QuietKeeps DEF StoreQuiet
<1>. QED
  BY <1>2, <1>3, <1>4, <1>5, <1>6, <1>7, OtherStepsQuiet DEF StoreStep

LEMMA MoveType ==
    ASSUME Types, NEW w \in Writers, NEW at \in Places, Move(w, at)
    PROVE  /\ pc' \in [Writers -> Places]
           /\ at # "admit" => \A v \in Writers : pc'[v] = "admit" => pc[v] = "admit"
BY DEF Types, Move

\* A writer that does not wait moves to a place where it does not wait.
Moves(w) ==
    \E at \in Places \ {"waiting", "admit"} : pc[w] # "waiting" /\ Move(w, at)

StopsWaitingStep(w) == SyncCancelled(w) \/ SyncOwnLease(w) \/ SyncEnqueue(w) \/ SyncRefused(w)

\* How a step moves the writers.
LEMMA StepKinds ==
    ASSUME Types, [Next]_vars
    PROVE  \/ WorkerFinish \/ WorkerSkip
           \/ \E e \in Emitters : EmitterRead(e)
           \/ \E w \in Writers : SyncWait(w) \/ StopsWaitingStep(w)
           \/ UNCHANGED <<waiting, seen>> /\ (UNCHANGED pc \/ \E w \in Writers : Moves(w))
<1>1. CASE Worker
  BY <1>1 DEF Worker, WorkerCommit, WorkerFail, admissionVars, callerVars, requestVars
<1>2. CASE \E w \in Writers : Synchronous(w)
  <2>1. ASSUME NEW w \in Writers, SyncFailed(w)
        PROVE  UNCHANGED <<waiting, seen>> /\ Moves(w)
    BY <2>1 DEF SyncFailed, storeVars, admissionVars, requestVars, Moves, Places, Gone
  <2>. QED
    BY <1>2, <2>1 DEF Synchronous, StopsWaitingStep
<1>3. CASE \E w \in Writers : Drain(w)
  <2>1. ASSUME NEW w \in Writers, Drain(w)
        PROVE  UNCHANGED <<waiting, seen>> /\ (UNCHANGED pc \/ Moves(w))
    <3>1. UNCHANGED <<waiting, seen>>
      BY <2>1 DEF Drain, DrainBegin, DrainRow, DrainStop, storeVars, admissionVars, requestVars
    <3>2. UNCHANGED pc \/ (pc[w] \in {"stored", "drain"} /\ (Move(w, "drain") \/ Move(w, "done")))
      BY <2>1 DEF Drain, DrainBegin, DrainRow, DrainStop
    <3>. QED
      BY <3>1, <3>2 DEF Moves, Places, Gone
  <2>. QED
    BY <1>3, <2>1
<1>4. CASE \E j \in Journals : Cancel(j)
  <2>1. ASSUME NEW j \in Journals, Cancel(j)
        PROVE  UNCHANGED <<waiting, seen>> /\ (UNCHANGED pc \/ Moves(j))
    BY <2>1 DEF Cancel, storeVars, admissionVars, Moves, Places, Gone
  <2>. QED
    BY <1>4, <2>1 DEF Writers
<1>5. CASE \E e \in Emitters : OnEvent(e)
  <2>1. ASSUME NEW e \in Emitters, OnEvent(e), ~EmitterRead(e)
        PROVE  UNCHANGED <<waiting, seen>> /\ Moves(e)
    <3>1. UNCHANGED <<waiting, seen>>
      BY <2>1 DEF OnEvent, EmitterUnpark, EmitterReadAgain, EmitterAdmit, EmitterRefused, EmitterDeclined,
                  EmitterPublish, EmitterLock, storeVars, admissionVars, requestVars
    <3>2. /\ pc[e] \in {"start", "parked", "lock", "admit", "publish"}
          /\ \E at \in {"start", "parked", "publish", "refused", "done", "out of order", "unshown",
                         "append"} :
                Move(e, at)
      BY <2>1 DEF OnEvent, EmitterUnpark, EmitterReadAgain, EmitterAdmit, EmitterRefused, EmitterDeclined,
                  EmitterPublish, EmitterLock, StillAdmitted
    <3>. QED
      BY <3>1, <3>2 DEF Moves, Places, Gone
  <2>. QED
    BY <1>5, <2>1 DEF Writers
<1>6. CASE \E c \in Chats : Chat(c)
  BY <1>6 DEF Chat, BindChat, BindRefused, BarrierBegin, BarrierDone, BarrierFails,
              MarkChatSynchronous, FallBack, ReleaseChat, Release, storeVars, admissionVars
<1>7. CASE UNCHANGED vars
  BY <1>7 DEF vars, storeVars, admissionVars, callerVars, requestVars
<1>. QED
  BY <1>1, <1>2, <1>3, <1>4, <1>5, <1>6, <1>7 DEF Next, Worker

LEMMA StoppingShape ==
    ASSUME Types, NEW w \in Writers, StopsWaitingStep(w)
    PROVE  /\ StopsWaiting(w) /\ UNCHANGED seen
           /\ pc[w] \in {"append", "waiting"}
           /\ \E at \in {"cancelled", "queued", "refused"} : Move(w, at)
BY DEF StopsWaitingStep, SyncCancelled, SyncOwnLease, SyncEnqueue, SyncRefused, Arriving, requestVars

\* The place an emitter is routed to.
LEMMA RouteType ==
    ASSUME NEW e \in Emitters
    PROVE  /\ Route(e) \in Places \ {"waiting", "publish", "unshown"}
           /\ Route(e) = "admit" => binding = TraceOf[e] /\ binding # None
BY DEF Route, OfBound, Places

LEMMA PlacesStep ==
    ASSUME IInv, [Next]_vars
    PROVE  /\ pc' \in [Writers -> Places]
           /\ seen' \in [Emitters -> Chats \cup {None}]
           /\ Admitting'
<1>1. Types /\ pc \in [Writers -> Places] /\ seen \in [Emitters -> Chats \cup {None}]
      /\ binding \in Chats \cup {None}
  BY DEF IInv, Types
<1>2. ASSUME UNCHANGED seen, \A v \in Writers : pc'[v] = "admit" => pc[v] = "admit"
      PROVE  Admitting'
  BY <1>2 DEF IInv, Admitting, Writers
<1>3. CASE WorkerFinish \/ WorkerSkip
  <2>1. queue # <<>> /\ UNCHANGED seen /\ (Finish("stored") \/ Finish("refused"))
    BY <1>3 DEF WorkerFinish, WorkerSkip, requestVars, IInv, Sequenced
  <2>2. /\ pc' \in [Writers -> Places]
        /\ \A w \in Writers : pc'[w] = pc[w] \/ pc'[w] \in {"stored", "refused"}
    BY <1>1, <2>1, FinishShape
  <2>. QED
    BY <1>1, <1>2, <2>1, <2>2
<1>4. CASE \E e \in Emitters : EmitterRead(e)
  <2>1. PICK e \in Emitters : EmitterRead(e)
    BY <1>4
  <2>2. e \in Writers /\ Move(e, Route(e)) /\ seen' = [seen EXCEPT ![e] = binding]
    BY <2>1 DEF EmitterRead, Writers
  <2>3. pc' \in [Writers -> Places]
    BY <1>1, <2>2, RouteType, MoveType
  <2>4. Admitting'
    BY <1>1, <2>2, RouteType DEF IInv, Admitting, Move, Writers
  <2>. QED
    BY <1>1, <2>2, <2>3, <2>4
<1>5. ASSUME NEW w \in Writers, NEW at \in Places \ {"admit"}, Move(w, at), UNCHANGED seen
      PROVE  pc' \in [Writers -> Places] /\ Admitting'
  BY <1>1, <1>2, <1>5, MoveType
<1>6. CASE \E w \in Writers : SyncWait(w)
  <2>1. "waiting" \in Places \ {"admit"}
    BY DEF Places
  <2>. QED
    BY <1>1, <1>5, <1>6, <2>1 DEF SyncWait, requestVars
<1>7. CASE \E w \in Writers : StopsWaitingStep(w)
  <2>1. {"cancelled", "queued", "refused"} \subseteq Places \ {"admit"}
    BY DEF Places, Gone
  <2>. QED
    BY <1>1, <1>5, <1>7, <2>1, StoppingShape
<1>8. CASE UNCHANGED <<pc, seen>>
  BY <1>1, <1>2, <1>8
<1>9. CASE UNCHANGED seen /\ \E w \in Writers : Moves(w)
  BY <1>1, <1>5, <1>9 DEF Moves
<1>. QED
  BY <1>1, <1>3, <1>4, <1>6, <1>7, <1>8, <1>9, StepKinds

\* waiting counts the writers that wait.
LEMMA WaitersStep ==
    ASSUME IInv, [Next]_vars
    PROVE  waiting' \in Int /\ IsFiniteSet(Waiters') /\ waiting' = Cardinality(Waiters')
<1>1. Types /\ waiting \in Int /\ IsFiniteSet(Waiters) /\ waiting = Cardinality(Waiters)
  BY DEF IInv, Types, Counted, SyncCountsExact, Waiters
<1>2. Cardinality(Waiters) \in Nat
  BY <1>1, FS_CardinalityType
<1>3. CASE UNCHANGED waiting /\ Waiters' = Waiters
  BY <1>1, <1>3
<1>4. CASE WorkerFinish \/ WorkerSkip
  <2>1. queue # <<>> /\ UNCHANGED waiting /\ (Finish("stored") \/ Finish("refused"))
    BY <1>4 DEF WorkerFinish, WorkerSkip, IInv, Sequenced
  <2>. QED
    BY <1>1, <1>3, <2>1, FinishShape
<1>5. CASE \E e \in Emitters : EmitterRead(e)
  <2>1. PICK e \in Emitters : EmitterRead(e)
    BY <1>5
  <2>2. e \in Writers /\ Move(e, Route(e)) /\ pc[e] # "waiting" /\ UNCHANGED waiting
    BY <2>1 DEF EmitterRead, Writers, storeVars, admissionVars
  <2>. QED
    BY <1>1, <1>3, <2>2, RouteType, WaitersKept
<1>6. CASE \E w \in Writers : SyncWait(w)
  <2>1. PICK w \in Writers : SyncWait(w)
    BY <1>6
  <2>2. Waiters' = Waiters \cup {w} /\ w \notin Waiters /\ waiting' = waiting + 1
    BY <1>1, <2>1 DEF SyncWait, Move, Waiters, Types
  <2>. QED
    BY <1>1, <1>2, <2>2, FS_AddElement
<1>7. CASE \E w \in Writers : StopsWaitingStep(w)
  <2>1. PICK w \in Writers : StopsWaitingStep(w)
    BY <1>7
  <2>2. PICK at \in {"cancelled", "queued", "refused"} :
          Move(w, at) /\ StopsWaiting(w) /\ pc[w] \in {"append", "waiting"}
    BY <1>1, <2>1, StoppingShape
  <2>3. CASE pc[w] = "append"
    BY <1>1, <1>3, <2>2, <2>3, WaitersKept DEF StopsWaiting
  <2>4. CASE pc[w] = "waiting"
    <3>1. Waiters' = Waiters \ {w} /\ w \in Waiters /\ waiting' = waiting - 1
      BY <1>1, <2>2, <2>4 DEF StopsWaiting, Move, Waiters, Types
    <3>2. IsFiniteSet(Waiters') /\ Cardinality(Waiters') = Cardinality(Waiters) - 1
      BY <1>1, <3>1, FS_RemoveElement
    <3>. QED
      BY <1>1, <1>2, <3>1, <3>2
  <2>. QED
    BY <2>2, <2>3, <2>4
<1>8. CASE UNCHANGED <<waiting, pc>>
  BY <1>3, <1>8 DEF Waiters
<1>9. CASE UNCHANGED waiting /\ \E w \in Writers : Moves(w)
  BY <1>1, <1>3, <1>9, WaitersKept DEF Moves
<1>. QED
  BY <1>1, <1>4, <1>5, <1>6, <1>7, <1>8, <1>9, StepKinds

-----------------------------------------------------------------------------
(* The requests.                                                           *)

RequestQuiet == UNCHANGED <<lease, binding, scope, chat, barrier>>

LEMMA OtherStepsKeepRequests == [Next]_vars => RequestQuiet \/ \E c \in Chats : Chat(c)
<1>. SUFFICES ASSUME [Next]_vars, ~\E c \in Chats : Chat(c)
              PROVE  RequestQuiet
  OBVIOUS
<1>1. CASE Worker
  BY <1>1 DEF Worker, WorkerCommit, WorkerFinish, WorkerSkip, WorkerFail, RequestQuiet, admissionVars,
              relayVars, bindVars, callerVars, requestVars
<1>2. CASE \E w \in Writers : Synchronous(w)
  BY <1>2 DEF Synchronous, SyncCancelled, SyncWait, SyncOwnLease, SyncEnqueue, SyncRefused, SyncFailed, RequestQuiet,
              storeVars, admissionVars, relayVars, bindVars, requestVars
<1>3. CASE \E w \in Writers : Drain(w)
  BY <1>3 DEF Drain, DrainBegin, DrainRow, DrainStop, RequestQuiet, storeVars, admissionVars,
              bindVars, requestVars
<1>4. CASE \E j \in Journals : Cancel(j)
  BY <1>4 DEF Cancel, RequestQuiet, storeVars, admissionVars, relayVars, bindVars
<1>5. CASE \E e \in Emitters : OnEvent(e)
  BY <1>5 DEF OnEvent, EmitterRead, EmitterUnpark, EmitterReadAgain, EmitterAdmit, EmitterRefused, EmitterDeclined,
              EmitterPublish, EmitterLock, RequestQuiet, storeVars, admissionVars, relayVars,
              bindVars, requestVars
<1>6. CASE UNCHANGED vars
  BY <1>6 DEF vars, RequestQuiet, storeVars, admissionVars, relayVars, bindVars, callerVars,
              requestVars
<1>. QED
  BY <1>1, <1>2, <1>3, <1>4, <1>5, <1>6 DEF Next

\* A request's own steps move only its scope and its place.
LEMMA RequestStep ==
    ASSUME IInv, [Next]_vars
    PROVE  /\ lease' \in Chats \cup {None} /\ binding' \in Chats \cup {None}
           /\ scope' \in [Chats -> Scopes]
           /\ chat' \in [Chats -> Requests]
           /\ barrier' \in [Chats -> Nat]
           /\ Scoped'
<1>1. Types /\ Sequenced /\ Scoped
  BY DEF IInv
<1>2. CASE RequestQuiet
  BY <1>1, <1>2 DEF RequestQuiet, Types, Scoped
<1>3. ASSUME NEW c \in Chats, BindChat(c)
      PROVE  /\ lease' \in Chats \cup {None} /\ binding' \in Chats \cup {None}
             /\ scope' \in [Chats -> Scopes] /\ chat' \in [Chats -> Requests]
             /\ barrier' \in [Chats -> Nat] /\ Scoped'
  BY <1>1, <1>3 DEF BindChat, Types, Scoped, Scopes, Requests, Bound
<1>4. ASSUME NEW c \in Chats, BarrierBegin(c)
      PROVE  /\ lease' \in Chats \cup {None} /\ binding' \in Chats \cup {None}
             /\ scope' \in [Chats -> Scopes] /\ chat' \in [Chats -> Requests]
             /\ barrier' \in [Chats -> Nat] /\ Scoped'
  <2>1. barrier' \in [Chats -> Nat]
    BY <1>1, <1>4, AcceptedMax DEF BarrierBegin, Types
  <2>2. UNCHANGED <<lease, binding, scope>>
    BY <1>4 DEF BarrierBegin, storeVars, admissionVars, relayVars, bindVars
  <2>3. chat' \in [Chats -> Requests] /\ Scoped'
    BY <1>1, <1>4, <2>2 DEF BarrierBegin, Types, Scoped, Requests, Bound
  <2>. QED
    BY <1>1, <2>1, <2>2, <2>3 DEF Types
<1>5. ASSUME NEW c \in Chats, BindRefused(c) \/ BarrierDone(c) \/ BarrierFails(c)
      PROVE  /\ lease' \in Chats \cup {None} /\ binding' \in Chats \cup {None}
             /\ scope' \in [Chats -> Scopes] /\ chat' \in [Chats -> Requests]
             /\ barrier' \in [Chats -> Nat] /\ Scoped'
  <2>1. UNCHANGED <<lease, binding, scope, barrier>>
    BY <1>5 DEF BindRefused, BarrierDone, BarrierFails, storeVars, admissionVars, relayVars, bindVars
  <2>2. chat' \in [Chats -> Requests] /\ Scoped'
    BY <1>1, <1>5, <2>1 DEF BindRefused, BarrierDone, BarrierFails, Types, Scoped, Requests, Bound
  <2>. QED
    BY <1>1, <2>1, <2>2 DEF Types
<1>6. ASSUME NEW c \in Chats, MarkChatSynchronous(c)
      PROVE  /\ lease' \in Chats \cup {None} /\ binding' \in Chats \cup {None}
             /\ scope' \in [Chats -> Scopes] /\ chat' \in [Chats -> Requests]
             /\ barrier' \in [Chats -> Nat] /\ Scoped'
  BY <1>1, <1>6 DEF MarkChatSynchronous, storeVars, admissionVars, Types, Scoped, Scopes, Requests, Bound
<1>7. ASSUME NEW c \in Chats, FallBack(c) \/ ReleaseChat(c)
      PROVE  /\ lease' \in Chats \cup {None} /\ binding' \in Chats \cup {None}
             /\ scope' \in [Chats -> Scopes] /\ chat' \in [Chats -> Requests]
             /\ barrier' \in [Chats -> Nat] /\ Scoped'
  BY <1>1, <1>7 DEF FallBack, ReleaseChat, Release, Types, Scoped, Scopes, Requests, Bound
<1>. QED
  BY <1>2, <1>3, <1>4, <1>5, <1>6, <1>7, OtherStepsKeepRequests DEF Chat

\* A request's steps leave the store alone.
LEMMA RequestsStoreQuiet ==
    ASSUME NEW c \in Chats, Chat(c)
    PROVE  StoreQuiet
BY DEF Chat, BindChat, BindRefused, BarrierBegin, BarrierDone, BarrierFails, MarkChatSynchronous,
       FallBack, ReleaseChat, Release, StoreQuiet, storeVars, admissionVars, diskVars

\* The lease begins on an empty count and keeps synchronous writers out.
LEMMA LeaseStep == IInv /\ [Next]_vars => LeaseExcludesSynchronous'
<1>. SUFFICES ASSUME IInv, [Next]_vars
              PROVE  LeaseExcludesSynchronous'
  OBVIOUS
<1>1. Types /\ LeaseExcludesSynchronous
  BY DEF IInv
<1>2. CASE UNCHANGED <<lease, queue>>
  BY <1>1, <1>2 DEF LeaseExcludesSynchronous
<1>3. CASE WorkerFinish \/ WorkerSkip
  <2>1. queue # <<>> /\ UNCHANGED lease /\ (Finish("stored") \/ Finish("refused"))
    BY <1>3 DEF WorkerFinish, WorkerSkip, IInv, Sequenced
  <2>2. Shifted
    BY <1>1, <2>1, FinishShape
  <2>. QED
    BY <1>1, <2>1, <2>2 DEF Shifted, LeaseExcludesSynchronous
<1>4. CASE \E w \in Writers : SyncEnqueue(w)
  BY <1>4 DEF SyncEnqueue, LeaseExcludesSynchronous
<1>5. CASE \E e \in Emitters : EmitterAdmit(e)
  <2>1. PICK e \in Emitters : EmitterAdmit(e)
    BY <1>5
  <2>2. Enqueue(e, lease) /\ UNCHANGED lease /\ e \in Writers /\ lease \in Chats \cup {None}
    BY <1>1, <2>1 DEF EmitterAdmit, Writers, Types
  <2>3. Extended(e, lease)
    BY <1>1, <2>2, EnqueueExtends
  <2>. QED
    BY <1>1, <2>2, <2>3 DEF Extended, LeaseExcludesSynchronous
<1>6. ASSUME NEW c \in Chats, Chat(c)
      PROVE  LeaseExcludesSynchronous'
  <2>1. UNCHANGED queue
    BY <1>6, RequestsStoreQuiet DEF StoreQuiet
  <2>2. CASE BindChat(c)
    <3>1. Cardinality(Outstanding) = 0 /\ IsFiniteSet(Outstanding)
      BY <1>1, <2>2, OutstandingFinite DEF BindChat, MayBind, LeaseFree, IInv, Counted, SyncCountsExact
    <3>2. Outstanding = {}
      BY <3>1, FS_EmptySet
    <3>. QED
      BY <2>1, <3>2 DEF Outstanding, LeaseExcludesSynchronous
  <2>3. CASE FallBack(c) \/ ReleaseChat(c)
    BY <2>3 DEF FallBack, ReleaseChat, Release, LeaseExcludesSynchronous
  <2>4. CASE ~BindChat(c) /\ ~FallBack(c) /\ ~ReleaseChat(c)
    BY <1>2, <1>6, <2>1, <2>4 DEF Chat, BindRefused, BarrierBegin, BarrierDone, BarrierFails,
                                  MarkChatSynchronous, storeVars, admissionVars
  <2>. QED
    BY <2>2, <2>3, <2>4
<1>7. CASE WorkerCommit
  BY <1>2, <1>7 DEF WorkerCommit, admissionVars
<1>8. CASE StoreQuiet /\ ~\E c \in Chats : Chat(c)
  BY <1>2, <1>8, OtherStepsKeepRequests DEF StoreQuiet, RequestQuiet
<1>. QED
  BY <1>3, <1>4, <1>5, <1>6, <1>7, <1>8, OtherStepsQuiet DEF StoreStep

\* Only a CHAT whose trace is admitted gets one more event into the queue.
LEMMA AcceptedStep ==
    ASSUME IInv, [Next]_vars, NEW c \in Chats
    PROVE  \/ AcceptedFor(c)' \subseteq AcceptedFor(c)
           \/ scope[c] = "admitted" /\ RequestQuiet
<1>1. Types
  BY DEF IInv
<1>2. CASE UNCHANGED queue
  BY <1>2 DEF AcceptedFor
<1>3. CASE WorkerFinish \/ WorkerSkip
  <2>1. queue # <<>> /\ (Finish("stored") \/ Finish("refused"))
    BY <1>3 DEF WorkerFinish, WorkerSkip, IInv, Sequenced
  <2>2. Shifted
    BY <1>1, <2>1, FinishShape
  <2>. QED
    BY <2>2 DEF Shifted, AcceptedFor
<1>4. CASE \E w \in Writers : SyncEnqueue(w)
  <2>1. PICK w \in Writers : SyncEnqueue(w)
    BY <1>4
  <2>2. Extended(w, None)
    BY <1>1, <2>1, EnqueueExtends DEF SyncEnqueue
  <2>. QED
    BY <2>2, PublicationAssumption DEF Extended, AcceptedFor
<1>5. CASE \E e \in Emitters : EmitterAdmit(e)
  <2>1. PICK e \in Emitters : EmitterAdmit(e)
    BY <1>5
  <2>2. Enqueue(e, lease) /\ e \in Writers /\ lease \in Chats \cup {None}
    BY <1>1, <2>1 DEF EmitterAdmit, Writers, Types
  <2>3. Extended(e, lease)
    BY <1>1, <2>2, EnqueueExtends
  <2>4. lease = binding /\ scope[binding] = "admitted"
    BY <2>1 DEF EmitterAdmit, StillAdmitted, IInv, Admitting
  <2>5. RequestQuiet
    BY <2>1 DEF EmitterAdmit, RequestQuiet, bindVars, requestVars
  <2>6. CASE c = lease
    BY <2>4, <2>5, <2>6
  <2>7. CASE c # lease
    BY <2>3, <2>7 DEF Extended, AcceptedFor
  <2>. QED
    BY <2>6, <2>7
<1>6. CASE WorkerCommit
  BY <1>2, <1>6 DEF WorkerCommit, admissionVars
<1>7. CASE StoreQuiet
  BY <1>2, <1>7 DEF StoreQuiet
<1>. QED
  BY <1>3, <1>4, <1>5, <1>6, <1>7, OtherStepsQuiet DEF StoreStep

LEMMA BehindStep == IInv /\ [Next]_vars => Behind'
<1>. SUFFICES ASSUME IInv, [Next]_vars, NEW c \in Chats
              PROVE  /\ chat'[c] = "barrier again" => \A seq \in AcceptedFor(c)' : seq <= barrier'[c]
                     /\ chat'[c] = "fallen back" => AcceptedFor(c)' = {}
  BY DEF Behind
<1>1. /\ chat[c] = "barrier again" => \A seq \in AcceptedFor(c) : seq <= barrier[c]
      /\ chat[c] = "fallen back" => AcceptedFor(c) = {}
      /\ scope[c] = "admitted" => chat[c] \in {"bound", "barrier", "drained", "leaving"}
  BY DEF IInv, Behind, Scoped
<1>2. Types /\ Sequenced
  BY DEF IInv
<1>3. CASE chat'[c] = chat[c] /\ barrier'[c] = barrier[c]
  <2>1. CASE AcceptedFor(c)' \subseteq AcceptedFor(c)
    BY <1>1, <1>3, <2>1
  <2>2. CASE scope[c] = "admitted"
    BY <1>1, <1>3, <2>2
  <2>. QED
    BY <2>1, <2>2, AcceptedStep
<1>4. CASE RequestQuiet
  BY <1>3, <1>4 DEF RequestQuiet
<1>5. ASSUME NEW d \in Chats, Chat(d)
      PROVE  /\ chat'[c] = "barrier again" => \A seq \in AcceptedFor(c)' : seq <= barrier'[c]
             /\ chat'[c] = "fallen back" => AcceptedFor(c)' = {}
  <2>1. AcceptedFor(c)' = AcceptedFor(c)
    BY <1>5, RequestsStoreQuiet, QuietKeeps
  <2>2. CASE c # d
    <3>1. chat'[c] = chat[c] /\ barrier'[c] = barrier[c]
      BY <1>2, <1>5, <2>2 DEF Chat, BindChat, BindRefused, BarrierBegin, BarrierDone, BarrierFails,
           MarkChatSynchronous, FallBack, ReleaseChat, Release, Types
    <3>. QED
      BY <1>3, <3>1
  <2>3. CASE c = d /\ BarrierBegin(d)
    <3>1. barrier'[c] = Max({0} \cup AcceptedFor(c)) /\ chat'[c] \in {"barrier", "barrier again"}
      BY <1>2, <2>3 DEF BarrierBegin, Types
    <3>. QED
      BY <1>2, <2>1, <3>1, AcceptedMax
  <2>4. CASE c = d /\ FallBack(d)
    <3>1. /\ chat[c] = "barrier again" /\ \A seq \in AcceptedFor(c) : seq > barrier[c]
          /\ chat'[c] = "fallen back"
      BY <1>2, <2>4 DEF FallBack, FallbackReady, BarrierPassed, Types
    <3>2. AcceptedFor(c) \subseteq Nat /\ barrier[c] \in Nat
      BY <1>2, EntryType DEF AcceptedFor, Types
    <3>3. ASSUME NEW seq \in AcceptedFor(c)
          PROVE  FALSE
      <4>1. seq <= barrier[c] /\ seq > barrier[c]
        BY <1>1, <3>1
      <4>2. seq \in Nat
        BY <3>2
      <4>. QED
        BY <3>2, <4>1, <4>2
    <3>. QED
      BY <2>1, <3>1, <3>3
  <2>5. CASE c = d /\ ~BarrierBegin(d) /\ ~FallBack(d)
    <3>1. chat'[c] \notin {"barrier again", "fallen back"}
      BY <1>2, <1>5, <2>5 DEF Chat, BindChat, BindRefused, BarrierDone, BarrierFails,
           MarkChatSynchronous, ReleaseChat, Types
    <3>. QED
      BY <3>1
  <2>. QED
    BY <2>2, <2>3, <2>4, <2>5
<1>. QED
  BY <1>4, <1>5, OtherStepsKeepRequests

-----------------------------------------------------------------------------
LEMMA StepInv == IInv /\ [Next]_vars => IInv'
<1>. SUFFICES ASSUME IInv, [Next]_vars
              PROVE  IInv'
  OBVIOUS
<1>1. Types'
  BY StoreTypes, PlacesStep, WaitersStep, RequestStep DEF Types
<1>2. Sequenced' /\ CommittedInSequence'
  BY StoreTypes
<1>3. Counted'
  BY StoreTypes, WaitersStep DEF Counted, SyncCountsExact, Waiters
<1>4. LeaseExcludesSynchronous' /\ Behind'
  BY LeaseStep, BehindStep
<1>5. Admitting' /\ Scoped'
  BY PlacesStep, RequestStep
<1>. QED
  BY <1>1, <1>2, <1>3, <1>4, <1>5 DEF IInv

LEMMA Invariant == Spec => []IInv
BY InitInv, StepInv, PTL DEF Spec

\* The durable log is in EventSeq order: rows become durable in the order
\* their numbers were issued, whatever is refused, skipped or cancelled in
\* between (eventSeqAllocator, enqueueOrderedWrite, AdmitSequenced).
THEOREM LogInOrder == Spec => []CommittedInSequence
<1>1. IInv => CommittedInSequence
  BY DEF IInv
<1>. QED
  BY <1>1, Invariant, PTL

\* No synchronous command is in the queue while a CHAT holds the lease:
\* TryBeginChat decides on counters, and the counters are exact.
THEOREM LeaseIsExclusive == Spec => []LeaseExcludesSynchronous
<1>1. IInv => LeaseExcludesSynchronous
  BY DEF IInv
<1>. QED
  BY <1>1, Invariant, PTL

\* pendingSyncSequenceWrites and waitingSyncSequenceWrites count exactly the
\* commands in the queue and the writers parked on the lease, so a lease is
\* neither refused for ever nor begun too early (enqueueOrderedWrite).
THEOREM CountsAreExact == Spec => []SyncCountsExact
<1>1. IInv => SyncCountsExact
  BY DEF IInv, Counted
<1>. QED
  BY <1>1, Invariant, PTL

\* A CHAT that fell back has nothing left in RAM: the second barrier of
\* runtime_tasks.go catches what raced the first.
THEOREM FallbackLeavesNothing == Spec => []FallbackDrained
<1>1. IInv => FallbackDrained
  BY DEF IInv, Behind, FallbackDrained
<1>. QED
  BY <1>1, Invariant, PTL

-----------------------------------------------------------------------------
(* Filters.                                                                *)

\* A set of numbers has a least one.
LEMMA LeastNumber ==
    ASSUME NEW S, S \subseteq Nat, S # {}
    PROVE  \E m \in S : \A k \in Nat : k < m => k \notin S
<1>1. \E m \in S : \A u \in S : ~(<<u, m>> \in Less)
  BY LessWellFounded, WFMin, Zenon
<1>2. PICK m \in S : \A u \in S : ~(<<u, m>> \in Less)
  BY <1>1
<1>. QED
  BY <1>2 DEF Less

\* f computes what is kept of the first n elements of s.
Keeps(f, s, T) ==
    f = [n \in 0 .. Len(s) |-> IF n = 0 THEN <<>>
                               ELSE IF s[n] \in T THEN Append(f[n - 1], s[n]) ELSE f[n - 1]]

LEMMA KeptByAny ==
    ASSUME NEW s, NEW T, NEW g, Keeps(g, s, T)
    PROVE  \E f : Keeps(f, s, T) /\ Kept(s, T) = f[Len(s)]
BY DEF Kept, Keeps

LEMMA KeepsPointwise ==
    ASSUME NEW s, NEW T, NEW f, Keeps(f, s, T), Len(s) \in Nat
    PROVE /\ f[0] = <<>>
          /\ \A n \in 1 .. Len(s) : f[n] = IF s[n] \in T THEN Append(f[n - 1], s[n]) ELSE f[n - 1]
<1>. DEFINE F == [n \in 0 .. Len(s) |-> IF n = 0 THEN <<>>
                               ELSE IF s[n] \in T THEN Append(f[n - 1], s[n]) ELSE f[n - 1]]
<1>1. f = F 
  BY DEF Keeps
<1>2. F[0] = <<>>
  OBVIOUS
<1>3. \A n \in 1 .. Len(s) : F[n] = IF s[n] \in T THEN Append(f[n - 1], s[n]) ELSE f[n - 1]
  OBVIOUS
<1>. HIDE DEF F
<1>. QED
  BY <1>1, <1>2, <1>3

LEMMA OneAnswer ==
    ASSUME NEW s, NEW T, NEW f, NEW g, Keeps(f, s, T), Keeps(g, s, T), Len(s) \in Nat
    PROVE  f[Len(s)] = g[Len(s)]
<1>. DEFINE Differ == {n \in 0 .. Len(s) : f[n] # g[n]}
<1>1. SUFFICES ASSUME Differ # {} PROVE FALSE
  OBVIOUS
<1>2. Differ \subseteq Nat
  OBVIOUS
<1>3. PICK m \in Differ : \A k \in Nat : k < m => k \notin Differ
  <2>. HIDE DEF Differ
  <2>. QED
    BY <1>1, <1>2, LeastNumber
<1>4. f[0] = g[0]
  BY KeepsPointwise
<1>5. m \in 1 .. Len(s) /\ f[m] # g[m]
  BY <1>4
<1>6. f[m - 1] = g[m - 1]
  BY <1>3, <1>5
<1>7. /\ f[m] = IF s[m] \in T THEN Append(f[m - 1], s[m]) ELSE f[m - 1]
      /\ g[m] = IF s[m] \in T THEN Append(g[m - 1], s[m]) ELSE g[m - 1]
  BY <1>5, KeepsPointwise
<1>. QED
  BY <1>5, <1>6, <1>7

LEMMA KeptBlock ==
    ASSUME NEW S, NEW s \in Seq(S), NEW T, NEW a \in 0 .. Len(s), NEW b \in a .. Len(s),
           \A i \in 1 .. Len(s) : s[i] \in T <=> a < i /\ i <= b
    PROVE  Kept(s, T) = SubSeq(s, a + 1, b)
<1>. DEFINE upto(n) == IF n < b THEN n ELSE b
            g == [n \in 0 .. Len(s) |-> SubSeq(s, a + 1, upto(n))]
<1>1. Len(s) \in Nat /\ a \in Nat /\ b \in Nat /\ a <= b /\ b <= Len(s)
  OBVIOUS
<1>2. g[0] = <<>>
  <2>1. g[0] = SubSeq(s, a + 1, 0)
    BY <1>1
  <2>. QED
    BY <1>1, <2>1, SubSeqEmpty
<1>3. ASSUME NEW n \in 1 .. Len(s)
      PROVE  g[n] = IF s[n] \in T THEN Append(g[n - 1], s[n]) ELSE g[n - 1]
  <2>0. n \in Nat /\ n - 1 \in 0 .. Len(s) /\ n \in 0 .. Len(s)
     BY <1>1
  <2>1. g[n] = SubSeq(s, a + 1, upto(n)) /\ g[n - 1] = SubSeq(s, a + 1, upto(n - 1))
    BY <2>0
  <2>2. CASE n <= a
    <3>1. s[n] \notin T /\ upto(n) = n /\ upto(n - 1) = n - 1
      BY <1>1, <2>2
    <3>2. SubSeq(s, a + 1, n) = <<>> /\ SubSeq(s, a + 1, n - 1) = <<>>
      BY <1>1, <2>2, <2>0, SubSeqEmpty
    <3>. QED
      BY <2>1, <3>1, <3>2
  <2>3. CASE a < n /\ n <= b
    <3>1. s[n] \in T /\ upto(n) = n /\ upto(n - 1) = n - 1
      BY <1>1, <2>3
    <3>2. SubSeq(s, a + 1, n) = SubSeq(s, a + 1, n - 1) \o << s[n] >>
      BY <1>1, <2>3, SubSeqRecursiveSecond
    <3>3. SubSeq(s, a + 1, n - 1) \in Seq(S) /\ s[n] \in S
      <4>1. \A i \in a + 1 .. n - 1 : s[i] \in S
         BY <1>1
      <4>. QED
        BY <1>1, <2>0, <4>1, SubSeqProperties
    <3>4. Append(SubSeq(s, a + 1, n - 1), s[n]) = SubSeq(s, a + 1, n - 1) \o << s[n] >>
      BY <3>3, AppendIsConcat
    <3>. QED
      BY <2>1, <3>1, <3>2, <3>4
  <2>4. CASE b < n
    <3>1. s[n] \notin T /\ upto(n) = b /\ upto(n - 1) = b
      BY <1>1, <2>4
    <3>. QED
      BY <2>1, <3>1
  <2>. QED
    BY <1>1, <2>2, <2>3, <2>4
<1>4. g = [n \in 0 .. Len(s) |-> g[n]]
  OBVIOUS
<1>5. g[Len(s)] = SubSeq(s, a + 1, b)
  BY <1>1
<1>. HIDE DEF g
<1>6. Keeps(g, s, T)
  <2>. DEFINE G == [n \in 0 .. Len(s) |-> IF n = 0 THEN <<>>
                               ELSE IF s[n] \in T THEN Append(g[n - 1], s[n]) ELSE g[n - 1]]
  <2>1. \A n \in 0 .. Len(s) : g[n] = G[n]
    BY <1>1, <1>2, <1>3
  <2>2. [n \in 0 .. Len(s) |-> g[n]] = G
    BY <2>1
  <2>. QED
    BY <1>4, <2>2 DEF Keeps
<1>7. PICK f : Keeps(f, s, T) /\ Kept(s, T) = f[Len(s)]
  BY <1>6, KeptByAny
<1>. QED
  BY <1>1, <1>5, <1>6, <1>7, OneAnswer

-----------------------------------------------------------------------------
(* What is durable and what is left to write.                              *)

\* The commands that are not durable yet.
Left == IF applied THEN Tail(queue) ELSE queue

\* The event of every command that was accepted and not skipped.
Rows == ToSet(stored) \cup {Left[i].event : i \in DOMAIN Left}

\* The head that was written and not finished is the last row.
HeadWritten == applied => stored # <<>> /\ stored[Len(stored)] = Head1.event

\* What is left is in order, above what is durable.
LeftOrdered ==
    /\ Left \in Seq(Entry)
    /\ Len(Left) \in Nat
    /\ DOMAIN Left = 1 .. Len(Left)
    /\ \A i \in DOMAIN Left :
          /\ Left[i] \in Entry
          /\ Left[i].event \in Row /\ Left[i].event.seq \in Nat /\ Left[i].event.by \in Writers
          /\ Left[i].chat \in Chats \cup {None}
          /\ highWater < Left[i].event.seq /\ Left[i].event.seq <= last
          /\ lease # None => Left[i].chat # None
    /\ \A i, j \in DOMAIN Left : i < j => Left[i].event.seq < Left[j].event.seq

LEMMA LeftFacts == IInv => LeftOrdered
<1>. SUFFICES ASSUME IInv
              PROVE  LeftOrdered
  OBVIOUS
<1>1. queue \in Seq(Entry) /\ Len(queue) \in Nat /\ DOMAIN queue = 1 .. Len(queue)
  BY LenProperties DEF IInv, Types
<1>2. \A i \in DOMAIN queue :
        /\ queue[i] \in Entry
        /\ queue[i].event \in Row /\ queue[i].event.seq \in Nat /\ queue[i].event.by \in Writers
        /\ queue[i].chat \in Chats \cup {None}
        /\ queue[i].event.seq <= last
        /\ lease # None => queue[i].chat # None
  BY EntryType DEF IInv, Sequenced, LeaseExcludesSynchronous, Entry
<1>3. \A i, j \in DOMAIN queue : i < j => queue[i].event.seq < queue[j].event.seq
  BY DEF IInv, Sequenced
<1>4. CASE ~applied
  <2>1. Left = queue
    BY <1>4 DEF Left
  <2>2. \A i \in DOMAIN queue : highWater < queue[i].event.seq
    BY <1>4 DEF IInv, Sequenced
  <2>. QED
    BY <1>1, <1>2, <1>3, <2>1, <2>2 DEF LeftOrdered
<1>5. CASE applied
  <2>1. Left = Tail(queue) /\ queue # <<>> /\ highWater = queue[1].event.seq
    BY <1>5 DEF Left, IInv, Sequenced, Head1
  <2>2. /\ Left \in Seq(Entry)
        /\ Len(Left) = Len(queue) - 1
        /\ \A i \in 1 .. Len(Left) : Left[i] = queue[i + 1]
    BY <1>1, <2>1, HeadTailProperties
  <2>3. Len(queue) # 0
    BY <1>1, <2>1, EmptySeq
  <2>4. Len(Left) \in Nat /\ DOMAIN Left = 1 .. Len(Left)
    BY <2>2, LenProperties
  <2>5. \A i \in DOMAIN Left : i + 1 \in DOMAIN queue /\ Left[i] = queue[i + 1] /\ 1 < i + 1
    BY <1>1, <2>2, <2>4
  <2>6. 1 \in DOMAIN queue
    BY <1>1, <2>3
  <2>7. \A i \in DOMAIN Left : highWater < Left[i].event.seq
    BY <1>3, <2>1, <2>5, <2>6
  <2>8. \A i, j \in DOMAIN Left : i < j => Left[i].event.seq < Left[j].event.seq
    <3>. SUFFICES ASSUME NEW i \in DOMAIN Left, NEW j \in DOMAIN Left, i < j
                  PROVE  Left[i].event.seq < Left[j].event.seq
      OBVIOUS
    <3>1. i + 1 < j + 1
      BY <2>4
    <3>. QED
      BY <1>3, <2>5, <3>1
  <2>. QED
    BY <1>2, <2>2, <2>4, <2>5, <2>7, <2>8 DEF LeftOrdered
<1>. QED
  BY <1>4, <1>5

\* How the commands that are left, and the rows, change.
Written ==
    /\ Left # <<>>
    /\ Left' = Tail(Left)
    /\ stored' = Append(stored, Left[1].event)
    /\ UNCHANGED last

Dropped ==
    /\ Left # <<>>
    /\ Left[1].chat = None
    /\ Left' = Tail(Left)
    /\ UNCHANGED <<stored, last>>

Joined(w, c) ==
    /\ Left' = Append(Left, [event |-> [seq |-> last + 1, by |-> w], chat |-> c])
    /\ last' = last + 1
    /\ UNCHANGED stored

LeftKept == UNCHANGED <<Left, stored, last>>

LEMMA EnqueueJoins ==
    ASSUME IInv, NEW w \in Writers, NEW c \in Chats \cup {None}, Enqueue(w, c),
           UNCHANGED <<stored, applied>>
    PROVE  Joined(w, c)
<1>. DEFINE new == [event |-> [seq |-> last + 1, by |-> w], chat |-> c]
<1>1. queue' = Append(queue, new) /\ last' = last + 1
  BY DEF Enqueue
<1>2. queue \in Seq(Entry)
  BY DEF IInv, Types
<1>. HIDE DEF new
<1>3. CASE ~applied
  BY <1>1, <1>3 DEF Joined, Left, new
<1>4. CASE applied
  <2>1. queue # <<>>
    BY <1>4 DEF IInv, Sequenced
  <2>2. Tail(Append(queue, new)) = Append(Tail(queue), new)
    BY <1>2, <2>1, HeadTailAppend
  <2>. QED
    BY <1>1, <1>4, <2>2 DEF Joined, Left, new
<1>. QED
  BY <1>3, <1>4

LEMMA LeftStep ==
    ASSUME IInv, [Next]_vars
    PROVE  \/ WorkerCommit /\ Written
           \/ WorkerFinish /\ LeftKept
           \/ WorkerSkip /\ Dropped
           \/ \E w \in Writers : SyncEnqueue(w) /\ Joined(w, None)
           \/ \E e \in Emitters : EmitterAdmit(e) /\ Joined(e, lease)
           \/ StoreQuiet /\ LeftKept
<1>1. ASSUME WorkerCommit
      PROVE  Written
  BY <1>1 DEF WorkerCommit, admissionVars, Written, Left, Head1
<1>2. ASSUME WorkerFinish
      PROVE  LeftKept
  BY <1>2 DEF WorkerFinish, Finish, LeftKept, Left
<1>3. ASSUME WorkerSkip
      PROVE  Dropped
  BY <1>3 DEF WorkerSkip, Finish, diskVars, Dropped, Left, Head1
<1>4. ASSUME NEW w \in Writers, SyncEnqueue(w)
      PROVE  Joined(w, None)
  BY <1>4, EnqueueJoins DEF SyncEnqueue, diskVars
<1>5. ASSUME NEW e \in Emitters, EmitterAdmit(e)
      PROVE  Joined(e, lease)
  BY <1>5, EnqueueJoins DEF EmitterAdmit, diskVars, Writers, IInv, Types
<1>6. ASSUME StoreQuiet
      PROVE  LeftKept
  BY <1>6 DEF StoreQuiet, LeftKept, Left
<1>. QED
  BY <1>1, <1>2, <1>3, <1>4, <1>5, <1>6, OtherStepsQuiet DEF StoreStep

\* The head leaves.
Headless ==
    /\ Left # <<>> /\ 1 \in DOMAIN Left
    /\ Left' \in Seq(Entry)
    /\ Len(Left') = Len(Left) - 1
    /\ DOMAIN Left' = 1 .. (Len(Left) - 1)
    /\ \A i \in DOMAIN Left' : i + 1 \in DOMAIN Left /\ Left'[i] = Left[i + 1]
    /\ \A i \in DOMAIN Left : i # 1 => i - 1 \in DOMAIN Left' /\ Left[i] = Left'[i - 1]

LEMMA TailHeadless ==
    ASSUME LeftOrdered, Left # <<>>, Left' = Tail(Left)
    PROVE  Headless
<1>1. Left \in Seq(Entry) /\ Len(Left) \in Nat /\ DOMAIN Left = 1 .. Len(Left)
  BY DEF LeftOrdered
<1>2. Len(Left) # 0
  BY <1>1, EmptySeq
<1>3. /\ Left' \in Seq(Entry)
      /\ Len(Left') = Len(Left) - 1
      /\ \A i \in 1 .. Len(Left') : Left'[i] = Left[i + 1]
  BY <1>1, HeadTailProperties
<1>4. DOMAIN Left' = 1 .. Len(Left')
  BY <1>3, LenProperties
<1>5. \A i \in DOMAIN Left' : i + 1 \in DOMAIN Left /\ Left'[i] = Left[i + 1]
  BY <1>1, <1>3, <1>4
<1>6. ASSUME NEW i \in DOMAIN Left, i # 1
      PROVE  i - 1 \in DOMAIN Left' /\ Left[i] = Left'[i - 1]
  <2>1. i \in Nat /\ 1 <= i /\ i <= Len(Left)
    BY <1>1
  <2>2. i - 1 \in 1 .. Len(Left')
    BY <1>1, <1>3, <1>6, <2>1
  <2>3. Left'[i - 1] = Left[(i - 1) + 1]
    BY <1>3, <2>2
  <2>. QED
    BY <1>4, <2>1, <2>2, <2>3
<1>. QED
  BY <1>1, <1>2, <1>3, <1>4, <1>5, <1>6 DEF Headless

\* One more row.
Longer(ev) ==
    /\ stored' \in Seq(Row)
    /\ Len(stored) \in Nat /\ DOMAIN stored = 1 .. Len(stored)
    /\ Len(stored') = Len(stored) + 1
    /\ DOMAIN stored' = 1 .. (Len(stored) + 1)
    /\ \A k \in DOMAIN stored : k \in DOMAIN stored' /\ stored'[k] = stored[k]
    /\ stored'[Len(stored) + 1] = ev

LEMMA WrittenLonger ==
    ASSUME IInv, Written
    PROVE  Longer(Left[1].event) /\ Headless
<1>1. LeftOrdered
  BY LeftFacts
<1>2. Headless
  BY <1>1, TailHeadless DEF Written
<1>3. Left[1].event \in Row /\ stored \in Seq(Row)
  BY <1>1, <1>2 DEF Headless, LeftOrdered, IInv, Types
<1>4. /\ stored' \in Seq(Row)
      /\ Len(stored') = Len(stored) + 1
      /\ \A k \in 1 .. Len(stored) : stored'[k] = stored[k]
      /\ stored'[Len(stored) + 1] = Left[1].event
  BY <1>3, AppendProperties DEF Written
<1>5. Len(stored) \in Nat /\ DOMAIN stored = 1 .. Len(stored) /\ DOMAIN stored' = 1 .. Len(stored')
  BY <1>3, <1>4, LenProperties
<1>. QED
  BY <1>2, <1>4, <1>5 DEF Longer

\* One more command.
Joins(w, c) ==
    /\ Left' \in Seq(Entry)
    /\ Len(Left) \in Nat /\ DOMAIN Left = 1 .. Len(Left)
    /\ Len(Left') = Len(Left) + 1
    /\ DOMAIN Left' = 1 .. (Len(Left) + 1)
    /\ \A i \in DOMAIN Left : i \in DOMAIN Left' /\ Left'[i] = Left[i]
    /\ Left'[Len(Left) + 1].event = [seq |-> last + 1, by |-> w]
    /\ Left'[Len(Left) + 1].chat = c

LEMMA JoinedJoins ==
    ASSUME IInv, NEW w \in Writers, NEW c \in Chats \cup {None}, Joined(w, c)
    PROVE  Joins(w, c)
<1>. DEFINE new == [event |-> [seq |-> last + 1, by |-> w], chat |-> c]
<1>1. /\ Left \in Seq(Entry) /\ Len(Left) \in Nat /\ DOMAIN Left = 1 .. Len(Left)
      /\ last \in Nat
  BY LeftFacts DEF LeftOrdered, IInv, Types
<1>2. new \in Entry
  BY <1>1 DEF Entry, Row
<1>3. Left' = Append(Left, new)
  BY DEF Joined
<1>4. new.event = [seq |-> last + 1, by |-> w] /\ new.chat = c
  OBVIOUS
<1>. HIDE DEF new
<1>5. /\ Left' \in Seq(Entry)
      /\ Len(Left') = Len(Left) + 1
      /\ \A i \in 1 .. Len(Left) : Left'[i] = Left[i]
      /\ Left'[Len(Left) + 1] = new
  BY <1>1, <1>2, <1>3, AppendProperties
<1>6. DOMAIN Left' = 1 .. Len(Left')
  BY <1>5, LenProperties
<1>. QED
  BY <1>1, <1>4, <1>5, <1>6 DEF Joins

LEMMA RowsKept ==
    ASSUME LeftKept
    PROVE  Rows' = Rows
BY DEF LeftKept, Rows, ToSet

LEMMA RowsWritten ==
    ASSUME IInv, Written
    PROVE  Rows' = Rows
<1>1. Longer(Left[1].event) /\ Headless
  BY WrittenLonger
<1>2. ASSUME NEW x \in Rows'
      PROVE  x \in Rows
  <2>1. CASE x \in ToSet(stored')
    <3>1. PICK k \in DOMAIN stored' : x = stored'[k]
      BY <2>1 DEF ToSet
    <3>2. CASE k \in DOMAIN stored
      BY <1>1, <3>1, <3>2 DEF Longer, Rows, ToSet
    <3>3. CASE k \notin DOMAIN stored
      <4>1. x = Left[1].event /\ 1 \in DOMAIN Left
        BY <1>1, <3>1, <3>3 DEF Longer, Headless
      <4>. QED
        BY <4>1 DEF Rows
    <3>. QED
      BY <3>2, <3>3
  <2>2. CASE \E i \in DOMAIN Left' : x = Left'[i].event
    BY <1>1, <2>2 DEF Headless, Rows
  <2>. QED
    BY <1>2, <2>1, <2>2 DEF Rows, ToSet
<1>3. ASSUME NEW x \in Rows
      PROVE  x \in Rows'
  <2>1. CASE x \in ToSet(stored)
    <3>1. PICK k \in DOMAIN stored : x = stored[k]
      BY <2>1 DEF ToSet
    <3>2. k \in DOMAIN stored' /\ stored'[k] = x
      BY <1>1, <3>1 DEF Longer
    <3>. QED
      BY <3>2 DEF Rows, ToSet
  <2>2. CASE \E i \in DOMAIN Left : x = Left[i].event
    <3>1. PICK i \in DOMAIN Left : x = Left[i].event
      BY <2>2
    <3>2. CASE i = 1
      <4>1. Len(stored) + 1 \in DOMAIN stored' /\ stored'[Len(stored) + 1] = x
        BY <1>1, <3>1, <3>2 DEF Longer
      <4>. QED
        BY <4>1 DEF Rows, ToSet
    <3>3. CASE i # 1
      <4>1. i - 1 \in DOMAIN Left' /\ Left'[i - 1].event = x
        BY <1>1, <3>1, <3>3 DEF Headless
      <4>. QED
        BY <4>1 DEF Rows
    <3>. QED
      BY <3>2, <3>3
  <2>. QED
    BY <2>1, <2>2 DEF Rows, ToSet
<1>. QED
  BY <1>2, <1>3

LEMMA RowsDropped ==
    ASSUME IInv, Dropped
    PROVE  Rows' \subseteq Rows /\ Headless
<1>1. Headless /\ stored' = stored
  BY LeftFacts, TailHeadless DEF Dropped
<1>. QED
  BY <1>1 DEF Headless, Rows, ToSet

LEMMA RowsJoined ==
    ASSUME IInv, NEW w \in Writers, NEW c \in Chats \cup {None}, Joined(w, c)
    PROVE  Rows' \subseteq Rows \cup {[seq |-> last + 1, by |-> w]}
<1>1. Joins(w, c) /\ stored' = stored
  BY JoinedJoins DEF Joined
<1>2. ASSUME NEW i \in DOMAIN Left'
      PROVE  Left'[i].event \in Rows \cup {[seq |-> last + 1, by |-> w]}
  <2>1. CASE i \in DOMAIN Left
    BY <1>1, <2>1 DEF Joins, Rows
  <2>2. CASE i \notin DOMAIN Left
    BY <1>1, <2>2 DEF Joins
  <2>. QED
    BY <2>1, <2>2
<1>. QED
  BY <1>1, <1>2 DEF Rows, ToSet

LEMMA RowType ==
    ASSUME IInv, NEW x \in Rows
    PROVE  x \in Row /\ x.seq \in Nat /\ x.by \in Writers
<1>1. x \in Row
  <2>1. CASE x \in ToSet(stored)
    <3>1. PICK k \in DOMAIN stored : x = stored[k]
      BY <2>1 DEF ToSet
    <3>. QED
      BY <3>1, LenProperties, ElementOfSeq DEF IInv, Types
  <2>2. CASE \E i \in DOMAIN Left : x = Left[i].event
    BY <2>2, LeftFacts DEF LeftOrdered
  <2>. QED
    BY <2>1, <2>2 DEF Rows
<1>. QED
  BY <1>1 DEF Row

-----------------------------------------------------------------------------
(* A writer hands over one event, and the relay's mutex has one holder.    *)

\* Where a writer is that has not handed its event over.
Before == {"start", "parked", "admit", "lock", "append", "waiting"}

\* Where an emitter holds publicationMu on the durable path.
Holding == {"append", "waiting", "queued", "stored", "drain"}

\* Its command in the queue, a synchronous writer waits for it or has left.
Awaiting == {"queued", "refused", "cancelled"}

Spent == {w \in Writers : pc[w] \notin Before}

Once ==
    /\ \A x, y \in Rows : x.by = y.by => x = y
    /\ \A x \in Rows : x.by \in Spent /\ x.seq \in 1 .. last

SyncAwaited ==
    \A i \in DOMAIN Left : Left[i].chat = None => pc[Left[i].event.by] \in Awaiting

Locks ==
    /\ mu \in Writers \cup {None}
    /\ lease = binding
    /\ \A e \in Emitters : pc[e] \in Holding \cup {"publish"} => mu = e
    /\ \A j \in Journals : pc[j] \in Holding \cup Gone /\ (pc[j] = "drain" <=> mu = j)
    /\ \A w \in Writers : mu = w /\ pc[w] = "publish" => lease # None
    /\ \A w \in Writers : mu = w /\ pc[w] # "publish" => pc[w] \in Holding /\ lease = None

HandOver ==
    /\ HeadWritten
    /\ Once
    /\ SyncAwaited
    /\ Locks
    /\ cancelled \subseteq Journals
    /\ last <= Cardinality(Spent)

\* A step moves one writer, none back to where its event is not handed over,
\* one that waits for its command or has left only when that is finished, and
\* to and from publishing only by the two steps of OnEvent.
Turns(w) ==
    \E at \in Places :
        /\ Move(w, at)
        /\ at \in Before => pc[w] \in Before
        /\ pc[w] \in Awaiting => at \in Awaiting \/ WorkerFinish
        /\ at = "publish" => \E e \in Emitters : EmitterAdmit(e)
        /\ pc[w] = "publish" => w \in Emitters /\ EmitterPublish(w)
        /\ pc[w] # "unshown"
        /\ at = "unshown" => w \in Emitters /\ EmitterPublish(w)

LEMMA TurnsTo ==
    ASSUME NEW w \in Writers, NEW at \in Places, Move(w, at), at \in Before => pc[w] \in Before,
           pc[w] \in Awaiting => at \in Awaiting \/ WorkerFinish,
           at = "publish" => \E e \in Emitters : EmitterAdmit(e),
           pc[w] = "publish" => w \in Emitters /\ EmitterPublish(w), pc[w] # "unshown",
           at = "unshown" => w \in Emitters /\ EmitterPublish(w)
    PROVE  Turns(w)
BY DEF Turns

LEMMA PcStep ==
    ASSUME IInv, [Next]_vars
    PROVE  UNCHANGED pc \/ \E w \in Writers : Turns(w)
<1>1. CASE Worker
  <2>1. ASSUME NEW at \in {"stored", "refused"}, Finish(at), queue # <<>>, WorkerFinish \/ at = "refused"
        PROVE  UNCHANGED pc \/ \E w \in Writers : Turns(w)
    <3>1. CASE UNCHANGED pc
      BY <3>1
    <3>2. CASE pc[Head1.event.by] = "queued" /\ Move(Head1.event.by, at)
      <4>1. Len(queue) \in Nat \ {0} /\ DOMAIN queue = 1 .. Len(queue)
        BY <2>1, EmptySeq, LenProperties DEF IInv, Types
      <4>2. Head1.event.by \in Writers
        BY <4>1, EntryType DEF Head1, IInv
      <4>. QED
        BY <2>1, <3>2, <4>2, TurnsTo DEF Places, Gone, Before, Awaiting
    <3>. QED
      BY <2>1, <3>1, <3>2 DEF Finish
  <2>2. CASE WorkerCommit \/ WorkerFail
    BY <2>2 DEF WorkerCommit, WorkerFail, callerVars
  <2>3. CASE WorkerFinish \/ WorkerSkip
    BY <2>1, <2>3 DEF WorkerFinish, WorkerSkip, IInv, Sequenced
  <2>. QED
    BY <1>1, <2>2, <2>3 DEF Worker
<1>2. ASSUME NEW w \in Writers, Synchronous(w)
      PROVE  Turns(w)
  <2>1. CASE SyncWait(w)
    BY <2>1, TurnsTo DEF SyncWait, Places, Before, Awaiting
  <2>2. CASE SyncCancelled(w)
    BY <2>2, TurnsTo DEF SyncCancelled, Arriving, Places, Gone, Before, Awaiting
  <2>3. CASE SyncEnqueue(w)
    BY <2>3, TurnsTo DEF SyncEnqueue, Arriving, Places, Before, Awaiting
  <2>4. CASE SyncRefused(w)
    BY <2>4, TurnsTo DEF SyncRefused, Arriving, Places, Gone, Before, Awaiting
  <2>5. CASE SyncFailed(w)
    BY <2>5, TurnsTo DEF SyncFailed, Places, Gone, Before, Awaiting
  <2>6. CASE SyncOwnLease(w)
    BY <2>6, TurnsTo DEF SyncOwnLease, Places, Gone, Before, Awaiting
  <2>. QED
    BY <1>2, <2>1, <2>2, <2>3, <2>4, <2>5, <2>6 DEF Synchronous
<1>7. ASSUME NEW w \in Writers, Drain(w)
      PROVE  UNCHANGED pc \/ Turns(w)
  <2>1. /\ pc[w] \in {"stored", "drain"}
        /\ UNCHANGED pc \/ Move(w, "drain") \/ Move(w, "done")
    BY <1>7 DEF Drain, DrainBegin, DrainRow, DrainStop
  <2>. QED
    BY <2>1, TurnsTo DEF Places, Gone, Before, Awaiting
<1>3. ASSUME NEW j \in Journals, Cancel(j)
      PROVE  UNCHANGED pc \/ Turns(j)
  <2>0. j \in Writers
    BY DEF Writers
  <2>1. /\ pc[j] \notin {"publish", "unshown"}
        /\ UNCHANGED pc \/ Move(j, "cancelled")
    BY <1>3 DEF Cancel
  <2>. QED
    BY <2>0, <2>1, TurnsTo DEF Places, Gone, Before, Awaiting
<1>4. ASSUME NEW e \in Emitters, OnEvent(e)
      PROVE  Turns(e)
  <2>0. e \in Writers
    BY DEF Writers
  <2>1. CASE EmitterRead(e)
    BY <2>0, <2>1, RouteType, TurnsTo DEF EmitterRead, Before, Awaiting
  <2>2. CASE EmitterUnpark(e) \/ EmitterReadAgain(e)
    <3>1. pc[e] \in Before /\ (Move(e, "start") \/ Move(e, "parked"))
      BY <2>2 DEF EmitterUnpark, EmitterReadAgain, Before
    <3>. QED
      BY <2>0, <3>1, TurnsTo DEF Places, Before, Awaiting
  <2>3. CASE EmitterAdmit(e)
    <3>1. pc[e] = "admit" /\ Move(e, "publish")
      BY <2>3 DEF EmitterAdmit, StillAdmitted
    <3>. QED
      BY <2>0, <2>3, <3>1, TurnsTo DEF Places, Before, Awaiting
  <2>4. CASE EmitterRefused(e)
    BY <2>0, <2>4, TurnsTo DEF EmitterRefused, EmitterDeclined, StillAdmitted, Places, Gone, Before, Awaiting
  <2>5. CASE EmitterPublish(e)
    <3>1. pc[e] = "publish" /\ \E at \in {"done", "out of order", "unshown"} : Move(e, at)
      BY <2>5 DEF EmitterPublish
    <3>. QED
      BY <2>0, <2>5, <3>1, TurnsTo DEF Places, Gone, Before, Awaiting
  <2>6. CASE EmitterLock(e)
    <3>1. pc[e] \in Before /\ Move(e, "append")
      BY <2>6 DEF EmitterLock, Before
    <3>. QED
      BY <2>0, <3>1, TurnsTo DEF Places, Before, Awaiting
  <2>7. CASE EmitterDeclined(e)
    <3>1. pc[e] \in Before /\ Move(e, "done")
      BY <2>7 DEF EmitterDeclined, Before
    <3>. QED
      BY <2>0, <3>1, TurnsTo DEF Places, Gone, Before, Awaiting
  <2>. QED
    BY <1>4, <2>1, <2>2, <2>3, <2>4, <2>5, <2>6, <2>7 DEF OnEvent
<1>5. CASE \E c \in Chats : Chat(c)
  BY <1>5 DEF Chat, BindChat, BindRefused, BarrierBegin, BarrierDone, BarrierFails,
              MarkChatSynchronous, FallBack, ReleaseChat, Release
<1>6. CASE UNCHANGED vars
  BY <1>6 DEF vars, callerVars
<1>. QED
  BY <1>1, <1>2, <1>3, <1>4, <1>5, <1>6, <1>7 DEF Next, Writers

LEMMA SpentGrows ==
    ASSUME IInv, [Next]_vars
    PROVE  Spent \subseteq Spent'
<1>1. pc \in [Writers -> Places]
  BY DEF IInv, Types
<1>2. CASE UNCHANGED pc
  BY <1>2 DEF Spent
<1>3. ASSUME NEW w \in Writers, Turns(w)
      PROVE  Spent \subseteq Spent'
  BY <1>1, <1>3 DEF Turns, Move, Spent
<1>. QED
  BY <1>2, <1>3, PcStep

\* The writer whose event joins has handed over nothing before.
LEMMA Joiner ==
    ASSUME IInv, [Next]_vars
    PROVE  \/ Rows' \subseteq Rows /\ last' = last
           \/ \E w \in Writers :
                 /\ w \in Spent' \ Spent
                 /\ last' = last + 1
                 /\ Rows' \subseteq Rows \cup {[seq |-> last + 1, by |-> w]}
<1>1. pc \in [Writers -> Places] /\ lease \in Chats \cup {None}
  BY DEF IInv, Types
<1>2. CASE LeftKept
  BY <1>2, RowsKept DEF LeftKept
<1>3. CASE Written
  BY <1>3, RowsWritten DEF Written
<1>4. CASE Dropped
  BY <1>4, RowsDropped DEF Dropped
<1>5. ASSUME NEW w \in Writers, SyncEnqueue(w), Joined(w, None)
      PROVE  /\ w \in Spent' \ Spent
             /\ last' = last + 1
             /\ Rows' \subseteq Rows \cup {[seq |-> last + 1, by |-> w]}
  <2>1. w \in Spent' \ Spent
    BY <1>1, <1>5 DEF SyncEnqueue, Arriving, Move, Spent, Before
  <2>. QED
    BY <1>5, <2>1, RowsJoined DEF Joined
<1>6. ASSUME NEW e \in Emitters, EmitterAdmit(e), Joined(e, lease)
      PROVE  /\ e \in Spent' \ Spent
             /\ last' = last + 1
             /\ Rows' \subseteq Rows \cup {[seq |-> last + 1, by |-> e]}
  <2>1. e \in Writers
    BY DEF Writers
  <2>2. e \in Spent' \ Spent
    BY <1>1, <1>6, <2>1 DEF EmitterAdmit, StillAdmitted, Move, Spent, Before
  <2>. QED
    BY <1>1, <1>6, <2>1, <2>2, RowsJoined DEF Joined
<1>. QED
  BY <1>2, <1>3, <1>4, <1>5, <1>6, LeftStep DEF Writers

LEMMA OnceStep ==
    ASSUME IInv, Once, [Next]_vars
    PROVE  Once'
<1>1. last \in Nat /\ Spent \subseteq Spent'
  BY SpentGrows DEF IInv, Types
<1>2. CASE Rows' \subseteq Rows /\ last' = last
  BY <1>1, <1>2 DEF Once
<1>3. ASSUME NEW w \in Writers, w \in Spent' \ Spent, last' = last + 1,
             Rows' \subseteq Rows \cup {[seq |-> last + 1, by |-> w]}
      PROVE  Once'
  <2>. DEFINE new == [seq |-> last + 1, by |-> w]
  <2>1. new.by = w /\ new.seq = last + 1
    OBVIOUS
  <2>. HIDE DEF new
  <2>2. Rows' \subseteq Rows \cup {new}
    BY <1>3 DEF new
  <2>3. \A x \in Rows : x.by # w
    BY <1>3 DEF Once
  <2>4. ASSUME NEW x \in Rows', NEW y \in Rows', x.by = y.by
        PROVE  x = y
    BY <2>1, <2>2, <2>3, <2>4 DEF Once
  <2>5. ASSUME NEW x \in Rows'
        PROVE  x.by \in Spent' /\ x.seq \in 1 .. last'
    <3>1. CASE x \in Rows
      BY <1>1, <1>3, <3>1 DEF Once
    <3>2. CASE x = new
      BY <1>1, <1>3, <2>1, <3>2
    <3>. QED
      BY <2>2, <3>1, <3>2
  <2>. QED
    BY <2>4, <2>5 DEF Once
<1>. QED
  BY <1>2, <1>3, Joiner

LEMMA SpentFinite ==
    /\ IsFiniteSet(Writers) /\ Cardinality(Writers) \in Nat
    /\ IsFiniteSet(Spent) /\ Cardinality(Spent) \in Nat
    /\ Cardinality(Spent) <= Cardinality(Writers)
<1>1. IsFiniteSet(Writers)
  BY PublicationAssumption, FS_Union DEF Writers
<1>2. Spent \subseteq Writers
  BY DEF Spent
<1>. QED
  BY <1>1, <1>2, FS_Subset, FS_CardinalityType

LEMMA BoundStep ==
    ASSUME IInv, last <= Cardinality(Spent), [Next]_vars
    PROVE  last' <= Cardinality(Spent')
<1>1. IsFiniteSet(Spent) /\ Cardinality(Spent) \in Nat /\ last \in Nat
  BY SpentFinite DEF IInv, Types
<1>2. IsFiniteSet(Spent') /\ Cardinality(Spent') \in Nat
  <2>1. IsFiniteSet(Writers) /\ Spent' \subseteq Writers
    BY SpentFinite DEF Spent
  <2>. QED
    BY <2>1, FS_Subset, FS_CardinalityType
<1>3. Spent \subseteq Spent'
  BY SpentGrows
<1>4. CASE last' = last
  BY <1>1, <1>2, <1>3, <1>4, FS_Subset
<1>5. ASSUME NEW w \in Spent' \ Spent, last' = last + 1
      PROVE  last' <= Cardinality(Spent')
  <2>1. /\ IsFiniteSet(Spent \cup {w})
        /\ Cardinality(Spent \cup {w}) = Cardinality(Spent) + 1
    BY <1>1, <1>5, FS_AddElement
  <2>2. Spent \cup {w} \subseteq Spent'
    BY <1>3
  <2>3. Cardinality(Spent \cup {w}) <= Cardinality(Spent')
    BY <1>2, <2>2, FS_Subset
  <2>. QED
    BY <1>1, <1>2, <1>5, <2>1, <2>3
<1>. QED
  BY <1>4, <1>5, Joiner

LEMMA HeadWrittenStep ==
    ASSUME IInv, HeadWritten, [Next]_vars
    PROVE  HeadWritten'
<1>1. queue \in Seq(Entry) /\ stored \in Seq(Row)
  BY DEF IInv, Types
<1>2. CASE WorkerCommit
  <2>1. Written /\ UNCHANGED queue
    BY <1>2 DEF WorkerCommit, admissionVars, Written, Left, Head1
  <2>2. Longer(Left[1].event)
    BY <2>1, WrittenLonger
  <2>3. stored' # <<>> /\ stored'[Len(stored')] = Left[1].event
    BY <2>2, EmptySeq DEF Longer
  <2>4. Left = queue
    BY <1>2 DEF WorkerCommit, Left
  <2>. QED
    BY <2>1, <2>3, <2>4 DEF HeadWritten, Head1
<1>3. CASE WorkerFinish \/ WorkerSkip
  BY <1>3 DEF WorkerFinish, WorkerSkip, diskVars, HeadWritten
<1>4. ASSUME NEW w \in Writers, NEW c \in Chats \cup {None}, Enqueue(w, c), UNCHANGED <<stored, applied>>
      PROVE  HeadWritten'
  <2>. SUFFICES ASSUME applied
                PROVE  stored # <<>> /\ stored[Len(stored)] = Head1'.event
    BY <1>4 DEF HeadWritten
  <2>1. queue # <<>>
    BY DEF IInv, Sequenced
  <2>2. Extended(w, c)
    BY <1>4, EnqueueExtends DEF IInv
  <2>3. Len(queue) \in Nat \ {0}
    BY <1>1, <2>1, EmptySeq
  <2>4. 1 \in DOMAIN queue
    BY <2>2, <2>3 DEF Extended
  <2>5. Head1' = Head1
    BY <2>2, <2>4 DEF Extended, Head1
  <2>. QED
    BY <2>5 DEF HeadWritten
<1>5. CASE \E w \in Writers : SyncEnqueue(w)
  BY <1>4, <1>5 DEF SyncEnqueue, diskVars
<1>6. CASE \E e \in Emitters : EmitterAdmit(e)
  BY <1>4, <1>6 DEF EmitterAdmit, diskVars, Writers, IInv, Types
<1>7. CASE StoreQuiet
  BY <1>7 DEF StoreQuiet, HeadWritten, Head1
<1>. QED
  BY <1>2, <1>3, <1>5, <1>6, <1>7, OtherStepsQuiet DEF StoreStep

\* A command that is left is not its head's, which is written.
LEMMA LeftNotHead ==
    ASSUME IInv, HeadWritten, Once, applied, NEW i \in DOMAIN Left
    PROVE  Left[i].event.by # Head1.event.by
<1>1. /\ highWater = Head1.event.seq /\ highWater \in Nat
      /\ stored # <<>> /\ stored[Len(stored)] = Head1.event
  BY DEF IInv, Sequenced, HeadWritten, Types
<1>2. Len(stored) \in DOMAIN stored
  BY <1>1, LenProperties, EmptySeq DEF IInv, Types
<1>3. Head1.event \in Rows /\ Left[i].event \in Rows
  BY <1>1, <1>2 DEF Rows, ToSet
<1>4. highWater < Left[i].event.seq /\ Left[i].event.seq \in Nat
  BY LeftFacts DEF LeftOrdered
<1>. QED
  BY <1>1, <1>3, <1>4 DEF Once

LEMMA AwaitingStays ==
    ASSUME IInv, [Next]_vars, ~WorkerFinish, NEW w \in Writers, pc[w] \in Awaiting
    PROVE  pc'[w] \in Awaiting
<1>1. pc \in [Writers -> Places]
  BY DEF IInv, Types
<1>2. ASSUME NEW v \in Writers, Turns(v)
      PROVE  pc'[w] \in Awaiting
  BY <1>1, <1>2 DEF Turns, Move
<1>. QED
  BY <1>2, PcStep

LEMMA SyncAwaitedStep ==
    ASSUME IInv, HeadWritten, Once, SyncAwaited, [Next]_vars
    PROVE  SyncAwaited'
<1>1. pc \in [Writers -> Places] /\ LeftOrdered
  BY LeftFacts DEF IInv, Types
<1>2. CASE WorkerFinish
  <2>1. LeftKept /\ applied /\ Finish("stored")
    BY <1>2 DEF WorkerFinish, Finish, LeftKept, Left
  <2>2. \A i \in DOMAIN Left : pc'[Left[i].event.by] = pc[Left[i].event.by]
    <3>1. CASE UNCHANGED pc
      BY <3>1
    <3>2. CASE Move(Head1.event.by, "stored")
      <4>1. \A i \in DOMAIN Left : Left[i].event.by \in Writers /\ Left[i].event.by # Head1.event.by
        BY <1>1, <2>1, LeftNotHead DEF LeftOrdered
      <4>. QED
        BY <1>1, <3>2, <4>1 DEF Move
    <3>. QED
      BY <2>1, <3>1, <3>2 DEF Finish
  <2>. QED
    BY <2>1, <2>2 DEF LeftKept, SyncAwaited
<1>3. ASSUME ~WorkerFinish, NEW i \in DOMAIN Left, Left[i].chat = None
      PROVE  pc'[Left[i].event.by] \in Awaiting
  BY <1>1, <1>3, AwaitingStays DEF LeftOrdered, SyncAwaited
<1>4. CASE ~WorkerFinish /\ LeftKept
  BY <1>3, <1>4 DEF LeftKept, SyncAwaited
<1>5. CASE ~WorkerFinish /\ Headless
  BY <1>3, <1>5 DEF Headless, SyncAwaited
<1>6. ASSUME ~WorkerFinish, NEW w \in Writers, SyncEnqueue(w), Joined(w, None)
      PROVE  SyncAwaited'
  <2>1. Joins(w, None)
    BY <1>6, JoinedJoins
  <2>2. pc'[w] = "queued" /\ Left'[Len(Left) + 1].event.by = w
    BY <1>1, <1>6, <2>1 DEF SyncEnqueue, Move, Joins
  <2>3. ASSUME NEW i \in DOMAIN Left', Left'[i].chat = None
        PROVE  pc'[Left'[i].event.by] \in Awaiting
    <3>1. CASE i \in DOMAIN Left
      BY <1>3, <1>6, <2>1, <2>3, <3>1 DEF Joins
    <3>2. CASE i \notin DOMAIN Left
      BY <2>1, <2>2, <3>2 DEF Joins, Awaiting
    <3>. QED
      BY <3>1, <3>2
  <2>. QED
    BY <2>3 DEF SyncAwaited
<1>7. ASSUME ~WorkerFinish, NEW e \in Emitters, EmitterAdmit(e), Joined(e, lease)
      PROVE  SyncAwaited'
  <2>1. lease \in Chats \cup {None} /\ lease # None /\ e \in Writers
    BY <1>7 DEF EmitterAdmit, StillAdmitted, IInv, Types, Admitting, Writers
  <2>2. Joins(e, lease)
    BY <1>7, <2>1, JoinedJoins
  <2>3. ASSUME NEW i \in DOMAIN Left', Left'[i].chat = None
        PROVE  pc'[Left'[i].event.by] \in Awaiting
    <3>1. i \in DOMAIN Left
      BY <2>1, <2>2, <2>3 DEF Joins
    <3>. QED
      BY <1>3, <1>7, <2>2, <2>3, <3>1 DEF Joins
  <2>. QED
    BY <2>3 DEF SyncAwaited
<1>8. Written => Headless
  BY WrittenLonger
<1>9. Dropped => Headless
  BY RowsDropped
<1>. QED
  BY <1>2, <1>4, <1>5, <1>6, <1>7, <1>8, <1>9, LeftStep

LEMMA HolderFacts ==
    /\ Holding \cap Before = {"append", "waiting"} /\ Holding \cap Gone = {}
    /\ Awaiting \cap Holding = {"queued"}
    /\ "publish" \notin Holding \cup Gone \cup Before \cup Awaiting
    /\ None \notin Writers
    /\ \A w \in Writers : w \in Emitters <=> w \notin Journals
BY PublicationAssumption DEF Holding, Before, Awaiting, Gone, Writers

\* A step of one writer that leaves the mutex and the lease alone.
LEMMA LocksMove ==
    ASSUME IInv, Locks, UNCHANGED <<mu, lease, binding>>, NEW w \in Writers, NEW at, Move(w, at),
           \/ at \in Gone /\ mu # w
           \/ at \in Before \ Holding /\ mu # w /\ w \in Emitters
           \/ at \in Holding \ {"drain"} /\ pc[w] \in Holding \ {"drain"}
    PROVE  Locks'
<1>1. pc \in [Writers -> Places] /\ mu \in Writers \cup {None}
  BY DEF IInv, Types, Locks
<1>2. pc'[w] = at /\ \A v \in Writers : v # w => pc'[v] = pc[v]
  BY <1>1 DEF Move
<1>3. at # "publish" /\ at # "drain"
  BY DEF Holding, Before, Gone
<1>4. \A e \in Emitters : pc'[e] \in Holding \cup {"publish"} => mu = e
  <2>. SUFFICES ASSUME NEW e \in Emitters, pc'[e] \in Holding \cup {"publish"}
                PROVE  mu = e
    OBVIOUS
  <2>1. CASE e = w
    <3>1. at \in Holding
      BY <1>2, <1>3, <2>1
    <3>2. pc[w] \in Holding
      BY <3>1 DEF Holding, Before, Gone
    <3>. QED
      BY <2>1, <3>2 DEF Locks
  <2>2. CASE e # w
    BY <1>2, <2>2 DEF Locks, Writers
  <2>. QED
    BY <2>1, <2>2
<1>5. \A j \in Journals : pc'[j] \in Holding \cup Gone /\ (pc'[j] = "drain" <=> mu = j)
  <2>. SUFFICES ASSUME NEW j \in Journals
                PROVE  pc'[j] \in Holding \cup Gone /\ (pc'[j] = "drain" <=> mu = j)
    OBVIOUS
  <2>1. CASE j = w
    <3>1. at \in Holding \cup Gone
      BY <2>1, HolderFacts
    <3>2. mu # j
      BY <2>1 DEF Locks
    <3>. QED
      BY <1>2, <1>3, <2>1, <3>1, <3>2
  <2>2. CASE j # w
    BY <1>2, <2>2 DEF Locks, Writers
  <2>. QED
    BY <2>1, <2>2
<1>6. \A v \in Writers : mu = v /\ pc'[v] = "publish" => lease # None
  BY <1>2, <1>3 DEF Locks
<1>7. \A v \in Writers : mu = v /\ pc'[v] # "publish" => pc'[v] \in Holding /\ lease = None
  <2>. SUFFICES ASSUME NEW v \in Writers, mu = v, pc'[v] # "publish"
                PROVE  pc'[v] \in Holding /\ lease = None
    OBVIOUS
  <2>1. CASE v = w
    <3>1. at \in Holding /\ pc[w] \in Holding
      BY <2>1
    <3>2. pc[w] # "publish"
      BY <3>1, HolderFacts
    <3>. QED
      BY <1>2, <2>1, <3>1, <3>2 DEF Locks
  <2>2. CASE v # w
    BY <1>2, <2>2 DEF Locks
  <2>. QED
    BY <2>1, <2>2
<1>. QED
  BY <1>1, <1>4, <1>5, <1>6, <1>7 DEF Locks

\* The holder returns and gives the mutex back.
LEMMA LocksRelease ==
    ASSUME IInv, Locks, UNCHANGED <<lease, binding>>, NEW w \in Writers, mu = w, mu' = None,
           NEW at \in Gone, Move(w, at)
    PROVE  Locks'
<1>1. pc \in [Writers -> Places]
  BY DEF IInv, Types
<1>2. pc'[w] = at /\ \A v \in Writers : v # w => pc'[v] = pc[v]
  BY <1>1 DEF Move
<1>3. at \notin Holding \cup {"publish"} /\ at # "drain"
  BY DEF Holding, Gone
<1>4. \A e \in Emitters : pc'[e] \notin Holding \cup {"publish"}
  BY <1>2, <1>3 DEF Locks, Writers
<1>5. \A j \in Journals : pc'[j] \in Holding \cup Gone /\ pc'[j] # "drain" /\ j # None
  BY <1>2, <1>3, HolderFacts DEF Locks, Writers
<1>6. \A v \in Writers : v # None
  BY HolderFacts
<1>. QED
  BY <1>4, <1>5, <1>6 DEF Locks

\* A writer takes the mutex, or goes on with it.
LEMMA LocksAcquire ==
    ASSUME IInv, Locks, UNCHANGED <<lease, binding>>, NEW w \in Writers, mu \in {None, w}, mu' = w,
           NEW at, Move(w, at),
           \/ at = "publish" /\ w \in Emitters /\ lease # None
           \/ at = "append" /\ w \in Emitters /\ lease = None
           \/ at = "drain" /\ lease = None
    PROVE  Locks'
<1>1. pc \in [Writers -> Places]
  BY DEF IInv, Types
<1>2. pc'[w] = at /\ \A v \in Writers : v # w => pc'[v] = pc[v]
  BY <1>1 DEF Move
<1>3. \A v \in Writers : v # w => mu # v
  BY HolderFacts
<1>4. \A e \in Emitters : pc'[e] \in Holding \cup {"publish"} => e = w
  BY <1>2, <1>3 DEF Locks, Writers
<1>5. \A j \in Journals : pc'[j] \in Holding \cup Gone /\ (pc'[j] = "drain" <=> j = w)
  <2>. SUFFICES ASSUME NEW j \in Journals
                PROVE  pc'[j] \in Holding \cup Gone /\ (pc'[j] = "drain" <=> j = w)
    OBVIOUS
  <2>1. CASE j = w
    <3>1. at = "drain"
      BY <2>1, HolderFacts
    <3>. QED
      BY <1>2, <2>1, <3>1 DEF Holding
  <2>2. CASE j # w
    BY <1>2, <1>3, <2>2 DEF Locks, Writers
  <2>. QED
    BY <2>1, <2>2
<1>6. at = "publish" => lease # None
  OBVIOUS
<1>7. at # "publish" => at \in Holding /\ lease = None
  BY DEF Holding
<1>. QED
  BY <1>2, <1>4, <1>5, <1>6, <1>7 DEF Locks

LEMMA LocksStay ==
    ASSUME Locks, UNCHANGED <<mu, lease, binding, pc>>
    PROVE  Locks'
BY DEF Locks

LEMMA WorkerLocks ==
    ASSUME IInv, HandOver, Worker
    PROVE  Locks'
<1>1. Locks /\ pc \in [Writers -> Places] /\ mu \in Writers \cup {None}
  BY DEF HandOver, IInv, Types, Locks
<1>2. CASE WorkerCommit \/ WorkerFail
  BY <1>1, <1>2, LocksStay DEF WorkerCommit, WorkerFail, admissionVars, relayVars, bindVars, callerVars
<1>3. ASSUME queue # <<>>
      PROVE  Head1.event.by \in Writers
  <2>1. Len(queue) \in Nat \ {0} /\ DOMAIN queue = 1 .. Len(queue)
    BY <1>3, EmptySeq, LenProperties DEF IInv, Types
  <2>. QED
    BY <2>1, EntryType DEF Head1, IInv
<1>4. CASE WorkerFinish
  <2>1. UNCHANGED <<mu, lease, binding>> /\ queue # <<>>
    BY <1>4 DEF WorkerFinish, relayVars, bindVars, IInv, Sequenced
  <2>2. CASE UNCHANGED pc
    BY <1>1, <2>1, <2>2, LocksStay
  <2>3. CASE pc[Head1.event.by] = "queued" /\ Move(Head1.event.by, "stored")
    BY <1>1, <1>3, <2>1, <2>3, LocksMove DEF Holding
  <2>. QED
    BY <1>4, <2>2, <2>3 DEF WorkerFinish, Finish
<1>5. CASE WorkerSkip
  <2>. DEFINE b == Head1.event.by
  <2>1. /\ UNCHANGED <<lease, binding>> /\ queue # <<>>
        /\ mu' = IF mu = b THEN None ELSE mu
        /\ Head1.chat = None /\ ~applied
    BY <1>5 DEF WorkerSkip, bindVars
  <2>2. b \in Writers
    BY <1>3, <2>1
  <2>3. pc[b] \in Awaiting
    <3>1. Left = queue /\ 1 \in DOMAIN Left
      BY <2>1, EmptySeq, LenProperties DEF Left, IInv, Types
    <3>. QED
      BY <2>1, <3>1 DEF HandOver, SyncAwaited, Head1
  <2>4. CASE pc[b] = "queued" /\ Move(b, "refused")
    <3>1. CASE mu = b
      BY <1>1, <2>1, <2>2, <2>4, <3>1, LocksRelease DEF Gone
    <3>2. CASE mu # b
      BY <1>1, <2>1, <2>2, <2>4, <3>2, LocksMove DEF Gone
    <3>. QED
      BY <3>1, <3>2
  <2>5. CASE pc[b] # "queued" /\ UNCHANGED pc
    <3>1. mu # b
      <4>1. pc[b] \notin Holding /\ pc[b] # "publish"
        BY <2>3, <2>5 DEF Awaiting, Holding
      <4>. QED
        BY <1>1, <2>2, <4>1 DEF Locks
    <3>. QED
      BY <1>1, <2>1, <2>5, <3>1, LocksStay
  <2>. QED
    BY <1>5, <2>1, <2>4, <2>5 DEF WorkerSkip, Finish
<1>. QED
  BY <1>2, <1>4, <1>5 DEF Worker

LEMMA SynchronousLocks ==
    ASSUME IInv, HandOver, NEW w \in Writers, Synchronous(w)
    PROVE  Locks'
<1>1. Locks /\ cancelled \subseteq Journals
  BY DEF HandOver
<1>2. CASE SyncCancelled(w)
  <2>1. w \in Journals /\ pc[w] \in {"append", "waiting"}
    BY <1>1, <1>2 DEF SyncCancelled, Arriving
  <2>2. mu # w
    BY <1>1, <2>1 DEF Locks
  <2>3. UNCHANGED <<mu, lease, binding>> /\ Move(w, "cancelled")
    BY <1>2 DEF SyncCancelled, relayVars, bindVars
  <2>. QED
    BY <1>1, <2>2, <2>3, LocksMove DEF Gone
<1>3. CASE SyncWait(w)
  <2>1. UNCHANGED <<mu, lease, binding>> /\ Move(w, "waiting") /\ pc[w] = "append"
    BY <1>3 DEF SyncWait, relayVars, bindVars
  <2>. QED
    BY <1>1, <2>1, LocksMove DEF Holding
<1>4. CASE SyncEnqueue(w)
  <2>1. UNCHANGED <<mu, lease, binding>> /\ Move(w, "queued") /\ pc[w] \in {"append", "waiting"}
    BY <1>4 DEF SyncEnqueue, Arriving, relayVars, bindVars
  <2>. QED
    BY <1>1, <2>1, LocksMove DEF Holding
<1>5. CASE SyncRefused(w) \/ SyncFailed(w)
  <2>1. UNCHANGED <<lease, binding>> /\ Move(w, "refused") /\ mu' = Unlocked(w)
    BY <1>5 DEF SyncRefused, SyncFailed, storeVars, admissionVars, bindVars
  <2>2. CASE mu = w
    BY <1>1, <2>1, <2>2, LocksRelease DEF Gone, Unlocked
  <2>3. CASE mu # w
    BY <1>1, <2>1, <2>3, LocksMove DEF Gone, Unlocked
  <2>. QED
    BY <2>2, <2>3
<1>6. CASE SyncOwnLease(w)
  <2>1. w \in Journals /\ pc[w] \in {"append", "waiting"}
    BY <1>6 DEF SyncOwnLease
  <2>2. mu # w
    BY <1>1, <2>1 DEF Locks
  <2>3. UNCHANGED <<mu, lease, binding>> /\ Move(w, "refused")
    BY <1>6 DEF SyncOwnLease, relayVars, bindVars
  <2>. QED
    BY <1>1, <2>2, <2>3, LocksMove DEF Gone
<1>. QED
  BY <1>2, <1>3, <1>4, <1>5, <1>6 DEF Synchronous

LEMMA DrainLocks ==
    ASSUME IInv, HandOver, NEW w \in Writers, Drain(w)
    PROVE  Locks'
<1>1. Locks
  BY DEF HandOver
<1>2. UNCHANGED <<lease, binding>>
  BY DEF Drain, DrainBegin, DrainRow, DrainStop, storeVars, admissionVars, bindVars
<1>3. CASE DrainBegin(w)
  <2>1. pc[w] = "stored" /\ mu' = w /\ Move(w, "drain") /\ mu \in {None, w}
    BY <1>3 DEF DrainBegin
  <2>2. lease = None
    BY <1>1, <1>3, <2>1 DEF DrainBegin, Locks
  <2>. QED
    BY <1>1, <1>2, <2>1, <2>2, LocksAcquire
<1>4. ASSUME pc[w] = "drain"
      PROVE  mu = w
  BY <1>1, <1>4 DEF Locks, Holding, Writers
<1>5. CASE pc[w] = "drain" /\ mu' = None /\ Move(w, "done")
  BY <1>1, <1>2, <1>4, <1>5, LocksRelease DEF Gone
<1>6. CASE UNCHANGED <<mu, pc>>
  BY <1>1, <1>2, <1>6, LocksStay
<1>. QED
  BY <1>3, <1>5, <1>6 DEF Drain, DrainRow, DrainStop

LEMMA OnEventLocks ==
    ASSUME IInv, HandOver, NEW e \in Emitters, OnEvent(e)
    PROVE  Locks'
<1>1. Locks /\ e \in Writers
  BY DEF HandOver, Writers
<1>2. UNCHANGED <<lease, binding>>
  BY DEF OnEvent, EmitterRead, EmitterUnpark, EmitterReadAgain, EmitterAdmit, EmitterRefused, EmitterDeclined,
         EmitterPublish, EmitterLock, storeVars, admissionVars, relayVars, bindVars
<1>3. ASSUME pc[e] \in {"start", "parked", "lock", "admit"}
      PROVE  mu # e
  BY <1>1, <1>3 DEF Locks, Holding
<1>4. CASE EmitterRead(e) \/ EmitterUnpark(e) \/ EmitterReadAgain(e)
  <2>1. UNCHANGED mu /\ pc[e] \in {"start", "parked", "lock", "admit"}
    BY <1>4 DEF EmitterRead, EmitterUnpark, EmitterReadAgain, relayVars
  <2>2. \E at \in {"start", "parked", "lock", "admit"} : Move(e, at)
    BY <1>4 DEF EmitterRead, EmitterUnpark, EmitterReadAgain, Route
  <2>3. {"start", "parked", "lock", "admit"} \subseteq Before \ Holding
    BY DEF Before, Holding
  <2>. QED
    BY <1>1, <1>2, <1>3, <2>1, <2>2, <2>3, LocksMove
<1>5. CASE EmitterAdmit(e)
  <2>1. mu = None /\ mu' = e /\ Move(e, "publish")
    BY <1>5 DEF EmitterAdmit
  <2>2. lease # None
    BY <1>5 DEF EmitterAdmit, StillAdmitted, IInv, Admitting
  <2>. QED
    BY <1>1, <1>2, <2>1, <2>2, LocksAcquire
<1>6. CASE EmitterRefused(e)
  <2>1. UNCHANGED mu /\ mu # e /\ Move(e, "refused")
    BY <1>1, <1>6, HolderFacts DEF EmitterRefused, EmitterDeclined, relayVars
  <2>. QED
    BY <1>1, <1>2, <2>1, LocksMove DEF Gone
<1>7. CASE EmitterPublish(e)
  <2>1. mu = e /\ mu' = None /\ \E at \in {"done", "out of order", "unshown"} : Move(e, at)
    BY <1>1, <1>7 DEF EmitterPublish, Locks
  <2>. QED
    BY <1>1, <1>2, <2>1, LocksRelease DEF Gone
<1>8. CASE EmitterLock(e)
  <2>1. mu = None /\ mu' = e /\ Move(e, "append") /\ lease = None
    BY <1>1, <1>8 DEF EmitterLock, Locks
  <2>. QED
    BY <1>1, <1>2, <2>1, LocksAcquire
<1>9. CASE EmitterDeclined(e)
  <2>1. pc[e] \in {"start", "parked", "lock", "admit"} /\ UNCHANGED mu /\ Move(e, "done")
    BY <1>9 DEF EmitterDeclined, relayVars
  <2>2. mu # e
    BY <1>3, <2>1
  <2>. QED
    BY <1>1, <1>2, <2>1, <2>2, LocksMove DEF Gone
<1>. QED
  BY <1>4, <1>5, <1>6, <1>7, <1>8, <1>9 DEF OnEvent

LEMMA ChatLocks ==
    ASSUME IInv, HandOver, NEW c \in Chats, Chat(c)
    PROVE  Locks'
<1>1. Locks
  BY DEF HandOver
<1>2. UNCHANGED pc /\ UNCHANGED mu
  BY DEF Chat, BindChat, BindRefused, BarrierBegin, BarrierDone, BarrierFails, MarkChatSynchronous,
         FallBack, ReleaseChat, Release, relayVars
<1>3. CASE UNCHANGED <<lease, binding>>
  BY <1>1, <1>2, <1>3, LocksStay
<1>4. CASE mu = None /\ lease' = binding'
  BY <1>1, <1>2, <1>4, HolderFacts DEF Locks
<1>5. CASE BindChat(c)
  BY <1>4, <1>5 DEF BindChat, MayBind
<1>6. CASE FallBack(c) \/ ReleaseChat(c)
  BY <1>4, <1>6 DEF FallBack, ReleaseChat, Release
<1>7. CASE BindRefused(c) \/ BarrierBegin(c) \/ BarrierDone(c) \/ BarrierFails(c) \/ MarkChatSynchronous(c)
  BY <1>3, <1>7 DEF BindRefused, BarrierBegin, BarrierDone, BarrierFails, MarkChatSynchronous,
                    storeVars, admissionVars, relayVars, bindVars
<1>. QED
  BY <1>5, <1>6, <1>7 DEF Chat

LEMMA LocksStep ==
    ASSUME IInv, HandOver, [Next]_vars
    PROVE  Locks'
<1>1. Locks
  BY DEF HandOver
<1>2. CASE \E j \in Journals : Cancel(j)
  <2>1. PICK j \in Journals : Cancel(j)
    BY <1>2
  <2>2. UNCHANGED <<mu, lease, binding>> /\ j \in Writers
    BY <2>1 DEF Cancel, storeVars, admissionVars, relayVars, bindVars, Writers
  <2>3. CASE UNCHANGED pc
    BY <1>1, <2>2, <2>3, LocksStay
  <2>4. CASE pc[j] = "queued" /\ Move(j, "cancelled")
    <3>1. mu # j
      BY <1>1, <2>4 DEF Locks
    <3>. QED
      BY <1>1, <2>2, <2>4, <3>1, LocksMove DEF Gone
  <2>. QED
    BY <2>1, <2>3, <2>4 DEF Cancel
<1>3. CASE UNCHANGED vars
  BY <1>1, <1>3, LocksStay DEF vars, storeVars, admissionVars, relayVars, bindVars, callerVars
<1>. QED
  BY <1>2, <1>3, WorkerLocks, SynchronousLocks, DrainLocks, OnEventLocks, ChatLocks DEF Next

LEMMA CancelledStep ==
    ASSUME cancelled \subseteq Journals, [Next]_vars
    PROVE  cancelled' \subseteq Journals
<1>1. CASE Worker
  BY <1>1 DEF Worker, WorkerCommit, WorkerFinish, WorkerSkip, WorkerFail, callerVars, requestVars
<1>2. CASE \E w \in Writers : Synchronous(w)
  BY <1>2 DEF Synchronous, SyncCancelled, SyncWait, SyncOwnLease, SyncEnqueue, SyncRefused, SyncFailed, requestVars
<1>3. CASE \E w \in Writers : Drain(w)
  BY <1>3 DEF Drain, DrainBegin, DrainRow, DrainStop, requestVars
<1>4. CASE \E j \in Journals : Cancel(j)
  BY <1>4 DEF Cancel
<1>5. CASE \E e \in Emitters : OnEvent(e)
  BY <1>5 DEF OnEvent, EmitterRead, EmitterUnpark, EmitterReadAgain, EmitterAdmit, EmitterRefused, EmitterDeclined,
              EmitterPublish, EmitterLock, requestVars
<1>6. CASE \E c \in Chats : Chat(c)
  BY <1>6 DEF Chat, BindChat, BindRefused, BarrierBegin, BarrierDone, BarrierFails,
              MarkChatSynchronous, FallBack, ReleaseChat, Release
<1>7. CASE UNCHANGED vars
  BY <1>7 DEF vars, callerVars, requestVars
<1>. QED
  BY <1>1, <1>2, <1>3, <1>4, <1>5, <1>6, <1>7 DEF Next

LEMMA HandOverInit == Init => HandOver
<1>. SUFFICES ASSUME Init
              PROVE  HandOver
  OBVIOUS
<1>1. queue = <<>> /\ stored = <<>> /\ ~applied /\ last = 0 /\ cancelled = {}
  BY DEF Init
<1>2. Rows = {} /\ DOMAIN Left = {}
  BY <1>1 DEF Rows, ToSet, Left
<1>3. HeadWritten /\ Once /\ SyncAwaited
  BY <1>1, <1>2 DEF HeadWritten, Once, SyncAwaited
<1>4. Locks
  <2>1. \A w \in Writers : pc[w] = IF w \in Emitters THEN "start" ELSE "append"
    BY DEF Init
  <2>2. mu = None /\ lease = None /\ binding = None
    BY DEF Init
  <2>. QED
    BY <2>1, <2>2, HolderFacts DEF Locks, Writers, Holding
<1>. QED
  BY <1>1, <1>3, <1>4, SpentFinite DEF HandOver

LEMMA HandOverStep ==
    ASSUME IInv, HandOver, [Next]_vars
    PROVE  HandOver'
BY HeadWrittenStep, OnceStep, SyncAwaitedStep, LocksStep, CancelledStep, BoundStep DEF HandOver

-----------------------------------------------------------------------------
(* The accepted order: the rows, then the CHATs' commands that are left.   *)

ChatsFirst == \A i, j \in DOMAIN Left : i < j /\ Left[i].chat = None => Left[j].chat = None

\* RamAccepted and Log of any commands and rows.
RamOf(cmds) ==
    LET ram == Kept(cmds, {cmd \in ToSet(cmds) : cmd.chat # None})
    IN  [i \in 1 .. Len(ram) |-> ram[i].event]

LogOf(rows, cmds) == rows \o RamOf(cmds)

LEMMA LogIsLogOf == Log = LogOf(stored, Left) /\ Log' = LogOf(stored', Left')
BY DEF Log, LogOf, RamAccepted, RamOf, Left

\* The first m commands are a CHAT's, the others a synchronous writer's.
FirstChats(cmds, m) ==
    /\ cmds \in Seq(Entry)
    /\ m \in 0 .. Len(cmds)
    /\ \A i \in 1 .. Len(cmds) : cmds[i].chat # None <=> i <= m

LEMMA ChatCount ==
    ASSUME LeftOrdered, ChatsFirst
    PROVE  \E m \in 0 .. Len(Left) : FirstChats(Left, m)
<1>. DEFINE Sync == {i \in DOMAIN Left : Left[i].chat = None}
<1>1. Left \in Seq(Entry) /\ Len(Left) \in Nat /\ DOMAIN Left = 1 .. Len(Left)
  BY DEF LeftOrdered
<1>2. CASE Sync = {}
  <2>1. \A i \in 1 .. Len(Left) : Left[i].chat # None
    BY <1>1, <1>2
  <2>2. FirstChats(Left, Len(Left))
    BY <1>1, <2>1 DEF FirstChats
  <2>. QED
    BY <1>1, <2>2
<1>3. CASE Sync # {}
  <2>1. Sync \subseteq Nat
    BY <1>1
  <2>2. PICK n \in Sync : \A k \in Nat : k < n => k \notin Sync
    <3>. HIDE DEF Sync
    <3>. QED
      BY <1>3, <2>1, LeastNumber
  <2>3. n \in 1 .. Len(Left) /\ Left[n].chat = None
    BY <1>1
  <2>4. \A i \in 1 .. Len(Left) : i < n => Left[i].chat # None
    BY <1>1, <2>2
  <2>5. \A i \in 1 .. Len(Left) : n <= i => Left[i].chat = None
    BY <1>1, <2>3 DEF ChatsFirst
  <2>6. n - 1 \in 0 .. Len(Left)
    BY <1>1, <2>3
  <2>7. \A i \in 1 .. Len(Left) : Left[i].chat # None <=> i <= n - 1
    <3>. SUFFICES ASSUME NEW i \in 1 .. Len(Left)
                  PROVE  Left[i].chat # None <=> i <= n - 1
      OBVIOUS
    <3>1. i < n \/ n <= i
      BY <1>1, <2>3
    <3>2. i < n <=> i <= n - 1
      BY <1>1, <2>3
    <3>3. ~(i < n /\ n <= i)
      BY <1>1, <2>3
    <3>. QED
      BY <2>4, <2>5, <3>1, <3>2, <3>3
  <2>. QED
    BY <1>1, <2>6, <2>7 DEF FirstChats
<1>. QED
  BY <1>2, <1>3

LEMMA RamOfFirst ==
    ASSUME NEW cmds, NEW m, FirstChats(cmds, m)
    PROVE  /\ RamOf(cmds) \in Seq(Row)
           /\ Len(RamOf(cmds)) = m
           /\ \A i \in 1 .. m : RamOf(cmds)[i] = cmds[i].event
<1>. DEFINE T == {cmd \in ToSet(cmds) : cmd.chat # None}
            ram == Kept(cmds, T)
<1>1. cmds \in Seq(Entry) /\ m \in 0 .. Len(cmds) /\ Len(cmds) \in Nat /\ DOMAIN cmds = 1 .. Len(cmds)
  BY LenProperties DEF FirstChats
<1>2. \A i \in 1 .. Len(cmds) : cmds[i] \in T <=> cmds[i].chat # None
  BY <1>1 DEF ToSet
<1>3. \A i \in 1 .. Len(cmds) : cmds[i] \in T <=> 0 < i /\ i <= m
  BY <1>1, <1>2 DEF FirstChats
<1>4. ram = SubSeq(cmds, 1, m)
  <2>. HIDE DEF T
  <2>1. Kept(cmds, T) = SubSeq(cmds, 0 + 1, m)
    <3>1. 0 \in 0 .. Len(cmds) /\ m \in 0 .. Len(cmds)
      BY <1>1
    <3>. QED
      BY <1>1, <1>3, <3>1, KeptBlock
  <2>. QED
    BY <2>1
<1>5. \A i \in 1 .. m : cmds[i] \in Entry
  BY <1>1, ElementOfSeq
<1>6. /\ Len(ram) = m
      /\ \A i \in 1 .. m : ram[i] = cmds[i]
  BY <1>1, <1>4, <1>5, SubSeqProperties
<1>7. RamOf(cmds) = [i \in 1 .. Len(ram) |-> ram[i].event]
  BY DEF RamOf
<1>. HIDE DEF ram
<1>8. RamOf(cmds) = [i \in 1 .. m |-> cmds[i].event]
  BY <1>6, <1>7
<1>9. \A i \in 1 .. m : cmds[i].event \in Row
  BY <1>5 DEF Entry
<1>. QED
  BY <1>1, <1>8, <1>9

\* The log of rows and of commands of which the first m are a CHAT's.
LogShape(log, rows, cmds, m) ==
    /\ log \in Seq(Row)
    /\ Len(log) = Len(rows) + m
    /\ Len(rows) \in Nat /\ m \in Nat
    /\ \A i \in 1 .. Len(rows) : log[i] = rows[i]
    /\ \A i \in 1 .. m : log[Len(rows) + i] = cmds[i].event

LEMMA LogOfShape ==
    ASSUME NEW rows \in Seq(Row), NEW cmds, NEW m, FirstChats(cmds, m)
    PROVE  LogShape(LogOf(rows, cmds), rows, cmds, m)
<1>1. /\ RamOf(cmds) \in Seq(Row)
      /\ Len(RamOf(cmds)) = m
      /\ \A i \in 1 .. m : RamOf(cmds)[i] = cmds[i].event
  BY RamOfFirst
<1>2. Len(rows) \in Nat /\ m \in Nat
  BY <1>1, LenProperties
<1>3. /\ LogOf(rows, cmds) \in Seq(Row)
      /\ Len(LogOf(rows, cmds)) = Len(rows) + m
      /\ \A i \in 1 .. Len(rows) + m :
            LogOf(rows, cmds)[i] = IF i <= Len(rows) THEN rows[i] ELSE RamOf(cmds)[i - Len(rows)]
  BY <1>1, ConcatProperties DEF LogOf
<1>4. \A i \in 1 .. Len(rows) : LogOf(rows, cmds)[i] = rows[i]
  BY <1>2, <1>3
<1>5. ASSUME NEW i \in 1 .. m
      PROVE  LogOf(rows, cmds)[Len(rows) + i] = cmds[i].event
  <2>1. Len(rows) + i \in 1 .. Len(rows) + m /\ ~(Len(rows) + i <= Len(rows))
        /\ (Len(rows) + i) - Len(rows) = i
    BY <1>2
  <2>2. LogOf(rows, cmds)[Len(rows) + i] = RamOf(cmds)[(Len(rows) + i) - Len(rows)]
    BY <1>3, <2>1
  <2>. QED
    BY <1>1, <2>1, <2>2
<1>. QED
  BY <1>2, <1>3, <1>4, <1>5 DEF LogShape

\* Two logs of one shape are one.
LEMMA SameLog ==
    ASSUME NEW rows, NEW cmds, NEW m, NEW p, NEW q,
           LogShape(p, rows, cmds, m), LogShape(q, rows, cmds, m)
    PROVE  p = q
<1>1. p \in Seq(Row) /\ q \in Seq(Row) /\ Len(p) = Len(q) /\ Len(p) = Len(rows) + m
      /\ Len(rows) \in Nat /\ m \in Nat
  BY DEF LogShape
<1>2. ASSUME NEW i \in 1 .. Len(p)
      PROVE  p[i] = q[i]
  <2>1. CASE i <= Len(rows)
    BY <1>1, <2>1 DEF LogShape
  <2>2. CASE ~(i <= Len(rows))
    <3>1. i - Len(rows) \in 1 .. m /\ Len(rows) + (i - Len(rows)) = i
      BY <1>1, <2>2
    <3>2. /\ p[Len(rows) + (i - Len(rows))] = cmds[i - Len(rows)].event
          /\ q[Len(rows) + (i - Len(rows))] = cmds[i - Len(rows)].event
      BY <3>1 DEF LogShape
    <3>. QED
      BY <3>1, <3>2
  <2>. QED
    BY <2>1, <2>2
<1>. QED
  BY <1>1, <1>2, SeqEqual

LEMMA LogFacts ==
    ASSUME IInv, ChatsFirst
    PROVE  \E m \in 0 .. Len(Left) : FirstChats(Left, m) /\ LogShape(Log, stored, Left, m)
<1>1. PICK m \in 0 .. Len(Left) : FirstChats(Left, m)
  BY LeftFacts, ChatCount
<1>2. stored \in Seq(Row)
  BY DEF IInv, Types
<1>3. LogShape(Log, stored, Left, m)
  BY <1>1, <1>2, LogOfShape, LogIsLogOf
<1>. QED
  BY <1>1, <1>3

LEMMA HeadlessChats ==
    ASSUME LeftOrdered, ChatsFirst, Headless, NEW m, FirstChats(Left, m)
    PROVE  /\ ChatsFirst'
           /\ Left[1].chat # None => m >= 1 /\ FirstChats(Left', m - 1)
           /\ Left[1].chat = None => m = 0 /\ FirstChats(Left', 0)
<1>1. /\ Left' \in Seq(Entry) /\ Len(Left) \in Nat /\ DOMAIN Left = 1 .. Len(Left)
      /\ DOMAIN Left' = 1 .. (Len(Left) - 1) /\ 1 \in DOMAIN Left
      /\ \A i \in DOMAIN Left' : i + 1 \in DOMAIN Left /\ Left'[i] = Left[i + 1]
  BY DEF LeftOrdered, Headless
<1>2. Len(Left') = Len(Left) - 1
  BY DEF Headless
<1>3. ChatsFirst'
  <2>. SUFFICES ASSUME NEW i \in DOMAIN Left', NEW j \in DOMAIN Left', i < j, Left'[i].chat = None
                PROVE  Left'[j].chat = None
    BY DEF ChatsFirst
  <2>1. i + 1 \in DOMAIN Left /\ j + 1 \in DOMAIN Left /\ i + 1 < j + 1
        /\ Left'[i] = Left[i + 1] /\ Left'[j] = Left[j + 1]
    BY <1>1
  <2>. QED
    BY <2>1 DEF ChatsFirst
<1>4. m \in 0 .. Len(Left) /\ \A i \in DOMAIN Left : Left[i].chat # None <=> i <= m
  BY <1>1 DEF FirstChats
<1>5. \A i \in 1 .. Len(Left') : Left'[i].chat # None <=> i + 1 <= m
  <2>. SUFFICES ASSUME NEW i \in 1 .. Len(Left')
                PROVE  Left'[i].chat # None <=> i + 1 <= m
    OBVIOUS
  <2>1. i \in DOMAIN Left'
    BY <1>1, <1>2
  <2>2. i + 1 \in DOMAIN Left /\ Left'[i] = Left[i + 1]
    BY <1>1, <2>1
  <2>. QED
    BY <1>4, <2>2
<1>6. ASSUME Left[1].chat # None
      PROVE  m >= 1 /\ FirstChats(Left', m - 1)
  <2>1. m >= 1
    BY <1>1, <1>4, <1>6
  <2>2. m - 1 \in 0 .. Len(Left')
    BY <1>1, <1>2, <1>4, <2>1
  <2>3. \A i \in 1 .. Len(Left') : Left'[i].chat # None <=> i <= m - 1
    BY <1>1, <1>2, <1>4, <1>5
  <2>. QED
    BY <1>1, <2>1, <2>2, <2>3 DEF FirstChats
<1>7. ASSUME Left[1].chat = None
      PROVE  m = 0 /\ FirstChats(Left', 0)
  <2>1. m = 0
    BY <1>1, <1>4, <1>7
  <2>2. 0 \in 0 .. Len(Left')
    BY <1>1, <1>2
  <2>3. \A i \in 1 .. Len(Left') : Left'[i].chat # None <=> i <= 0
    BY <1>1, <1>2, <1>5, <2>1
  <2>. QED
    BY <1>1, <2>1, <2>2, <2>3 DEF FirstChats
<1>. QED
  BY <1>3, <1>6, <1>7

LEMMA LogWritten ==
    ASSUME IInv, ChatsFirst, Written
    PROVE  /\ ChatsFirst'
           /\ Left[1].chat # None => Log' = Log
           /\ Left[1].chat = None => Log' = Append(Log, Left[1].event)
<1>1. PICK m \in 0 .. Len(Left) : FirstChats(Left, m) /\ LogShape(Log, stored, Left, m)
  BY LogFacts
<1>2. Longer(Left[1].event) /\ Headless
  BY WrittenLonger
<1>3. LeftOrdered
  BY LeftFacts
<1>4. /\ Len(stored) \in Nat /\ Len(stored') = Len(stored) + 1 /\ stored' \in Seq(Row)
      /\ \A k \in 1 .. Len(stored) : stored'[k] = stored[k]
      /\ stored'[Len(stored) + 1] = Left[1].event
      /\ Left[1].event \in Row
  BY <1>2, <1>3 DEF Longer, Headless, LeftOrdered
<1>5. /\ Log \in Seq(Row) /\ Len(Log) = Len(stored) + m /\ m \in Nat
      /\ \A i \in 1 .. Len(stored) : Log[i] = stored[i]
      /\ \A i \in 1 .. m : Log[Len(stored) + i] = Left[i].event
  BY <1>1 DEF LogShape
<1>6. ASSUME Left[1].chat # None
      PROVE  Log' = Log
  <2>1. m >= 1 /\ FirstChats(Left', m - 1)
    BY <1>1, <1>2, <1>3, <1>6, HeadlessChats
  <2>2. LogShape(Log', stored', Left', m - 1)
    BY <1>4, <2>1, LogOfShape, LogIsLogOf
  <2>3. \A i \in 1 .. Len(stored') : Log[i] = stored'[i]
    <3>. SUFFICES ASSUME NEW i \in 1 .. Len(stored')
                  PROVE  Log[i] = stored'[i]
      OBVIOUS
    <3>1. CASE i = Len(stored) + 1
      <4>1. Log[Len(stored) + 1] = Left[1].event
        BY <1>5, <2>1
      <4>. QED
        BY <1>4, <3>1, <4>1
    <3>2. CASE i # Len(stored) + 1
      <4>1. i \in 1 .. Len(stored)
        BY <1>4, <3>2
      <4>. QED
        BY <1>4, <1>5, <4>1
    <3>. QED
      BY <3>1, <3>2
  <2>4. \A i \in 1 .. m - 1 : Log[Len(stored') + i] = Left'[i].event
    <3>. SUFFICES ASSUME NEW i \in 1 .. m - 1
                  PROVE  Log[Len(stored') + i] = Left'[i].event
      OBVIOUS
    <3>1. i + 1 \in 1 .. m /\ Len(stored') + i = Len(stored) + (i + 1)
      BY <1>4, <1>5, <2>1
    <3>2. i \in DOMAIN Left'
      BY <1>2, <1>3, <2>1 DEF Headless, LeftOrdered
    <3>3. Left'[i] = Left[i + 1]
      BY <1>2, <3>2 DEF Headless
    <3>. QED
      BY <1>5, <3>1, <3>3
  <2>5. LogShape(Log, stored', Left', m - 1)
    <3>1. m - 1 \in Nat /\ Len(Log) = Len(stored') + (m - 1) /\ Len(stored') \in Nat
      BY <1>4, <1>5, <2>1
    <3>. QED
      BY <1>5, <2>3, <2>4, <3>1 DEF LogShape
  <2>. QED
    BY <2>2, <2>5, SameLog
<1>7. ASSUME Left[1].chat = None
      PROVE  Log' = Append(Log, Left[1].event)
  <2>1. m = 0 /\ FirstChats(Left', 0)
    BY <1>1, <1>2, <1>3, <1>7, HeadlessChats
  <2>2. LogShape(Log', stored', Left', 0)
    BY <1>4, <2>1, LogOfShape, LogIsLogOf
  <2>. DEFINE more == Append(Log, Left[1].event)
  <2>3. /\ more \in Seq(Row)
        /\ Len(more) = Len(Log) + 1
        /\ \A i \in 1 .. Len(Log) : more[i] = Log[i]
        /\ more[Len(Log) + 1] = Left[1].event
    BY <1>4, <1>5, AppendProperties
  <2>. HIDE DEF more
  <2>4. \A i \in 1 .. Len(stored') : more[i] = stored'[i]
    <3>. SUFFICES ASSUME NEW i \in 1 .. Len(stored')
                  PROVE  more[i] = stored'[i]
      OBVIOUS
    <3>1. CASE i = Len(stored) + 1
      BY <1>4, <1>5, <2>1, <2>3, <3>1
    <3>2. CASE i # Len(stored) + 1
      <4>1. i \in 1 .. Len(stored)
        BY <1>4, <3>2
      <4>. QED
        BY <1>4, <1>5, <2>1, <2>3, <4>1
    <3>. QED
      BY <3>1, <3>2
  <2>5. LogShape(more, stored', Left', 0)
    BY <1>4, <1>5, <2>1, <2>3, <2>4 DEF LogShape
  <2>. QED
    BY <2>2, <2>5, SameLog DEF more
<1>. QED
  BY <1>1, <1>2, <1>3, <1>6, <1>7, HeadlessChats

LEMMA LogDropped ==
    ASSUME IInv, ChatsFirst, Dropped
    PROVE  ChatsFirst' /\ Log' = Log
<1>1. PICK m \in 0 .. Len(Left) : FirstChats(Left, m) /\ LogShape(Log, stored, Left, m)
  BY LogFacts
<1>2. Headless /\ LeftOrdered
  BY RowsDropped, LeftFacts
<1>3. m = 0 /\ FirstChats(Left', 0) /\ ChatsFirst'
  BY <1>1, <1>2, HeadlessChats DEF Dropped
<1>4. stored \in Seq(Row) /\ stored' = stored
  BY DEF IInv, Types, Dropped
<1>5. LogShape(Log', stored, Left', 0)
  BY <1>3, <1>4, LogOfShape, LogIsLogOf
<1>6. LogShape(Log, stored, Left', 0)
  BY <1>1, <1>3 DEF LogShape
<1>. QED
  BY <1>3, <1>5, <1>6, SameLog

LEMMA LogJoinedSync ==
    ASSUME IInv, ChatsFirst, NEW w \in Writers, Joined(w, None)
    PROVE  ChatsFirst' /\ Log' = Log
<1>1. PICK m \in 0 .. Len(Left) : FirstChats(Left, m) /\ LogShape(Log, stored, Left, m)
  BY LogFacts
<1>2. Joins(w, None)
  BY JoinedJoins
<1>3. /\ Left' \in Seq(Entry) /\ Len(Left) \in Nat /\ DOMAIN Left = 1 .. Len(Left)
      /\ DOMAIN Left' = 1 .. (Len(Left) + 1) /\ Len(Left') = Len(Left) + 1
      /\ \A i \in DOMAIN Left : Left'[i] = Left[i]
      /\ Left'[Len(Left) + 1].chat = None
  BY <1>2 DEF Joins
<1>4. ChatsFirst'
  <2>. SUFFICES ASSUME NEW i \in DOMAIN Left', NEW j \in DOMAIN Left', i < j, Left'[i].chat = None
                PROVE  Left'[j].chat = None
    BY DEF ChatsFirst
  <2>1. CASE j = Len(Left) + 1
    BY <1>3, <2>1
  <2>2. CASE j # Len(Left) + 1
    <3>1. i \in DOMAIN Left /\ j \in DOMAIN Left
      BY <1>3, <2>2
    <3>. QED
      BY <1>3, <3>1 DEF ChatsFirst
  <2>. QED
    BY <2>1, <2>2
<1>5. FirstChats(Left', m)
  <2>1. m \in 0 .. Len(Left')
    BY <1>3
  <2>2. ASSUME NEW i \in 1 .. Len(Left')
        PROVE  Left'[i].chat # None <=> i <= m
    <3>1. CASE i = Len(Left) + 1
      BY <1>3, <3>1
    <3>2. CASE i # Len(Left) + 1
      <4>1. i \in 1 .. Len(Left) /\ Left'[i] = Left[i]
        BY <1>3, <3>2
      <4>. QED
        BY <1>1, <4>1 DEF FirstChats
    <3>. QED
      BY <3>1, <3>2
  <2>. QED
    BY <1>3, <2>1, <2>2 DEF FirstChats
<1>6. stored \in Seq(Row) /\ stored' = stored
  BY DEF IInv, Types, Joined
<1>7. LogShape(Log', stored, Left', m)
  BY <1>5, <1>6, LogOfShape, LogIsLogOf
<1>8. LogShape(Log, stored, Left', m)
  <2>1. \A i \in 1 .. m : Left'[i] = Left[i]
    BY <1>3
  <2>. QED
    BY <1>1, <2>1 DEF LogShape
<1>. QED
  BY <1>4, <1>7, <1>8, SameLog

LEMMA LogJoinedChat ==
    ASSUME IInv, ChatsFirst, NEW w \in Writers, lease # None, Joined(w, lease)
    PROVE  ChatsFirst' /\ Log' = Append(Log, [seq |-> last + 1, by |-> w])
<1>. DEFINE new == [seq |-> last + 1, by |-> w]
<1>1. PICK m \in 0 .. Len(Left) : FirstChats(Left, m) /\ LogShape(Log, stored, Left, m)
  BY LogFacts
<1>2. lease \in Chats \cup {None} /\ new \in Row
  BY DEF IInv, Types, Row
<1>3. Joins(w, lease)
  BY <1>2, JoinedJoins
<1>4. /\ Left' \in Seq(Entry) /\ Len(Left) \in Nat /\ DOMAIN Left = 1 .. Len(Left)
      /\ DOMAIN Left' = 1 .. (Len(Left) + 1) /\ Len(Left') = Len(Left) + 1
      /\ \A i \in DOMAIN Left : Left'[i] = Left[i]
      /\ Left'[Len(Left) + 1].chat = lease
      /\ Left'[Len(Left) + 1].event = new
  BY <1>3 DEF Joins
<1>. HIDE DEF new
<1>5. \A i \in DOMAIN Left : Left[i].chat # None
  BY LeftFacts DEF LeftOrdered
<1>6. \A i \in DOMAIN Left' : Left'[i].chat # None
  <2>. SUFFICES ASSUME NEW i \in DOMAIN Left'
                PROVE  Left'[i].chat # None
    OBVIOUS
  <2>1. i = Len(Left) + 1 \/ i \in DOMAIN Left
    BY <1>4
  <2>. QED
    BY <1>4, <1>5, <2>1
<1>7. m = Len(Left)
  <2>0. m \in 0 .. Len(Left) /\ Len(Left) \in Nat
    BY <1>4
  <2>1. CASE Len(Left) = 0
    BY <2>0, <2>1
  <2>2. CASE Len(Left) # 0
    <3>1. Len(Left) \in 1 .. Len(Left)
      BY <1>4, <2>2
    <3>2. Left[Len(Left)].chat # None
      BY <1>4, <1>5, <3>1
    <3>3. Len(Left) <= m
      BY <1>1, <3>1, <3>2 DEF FirstChats
    <3>. QED
      BY <2>0, <3>3
  <2>. QED
    BY <2>1, <2>2
<1>8. FirstChats(Left', m + 1)
  <2>1. m + 1 \in 0 .. Len(Left') /\ \A i \in 1 .. Len(Left') : i <= m + 1
    BY <1>4, <1>7
  <2>. QED
    BY <1>4, <1>6, <2>1 DEF FirstChats
<1>9. stored \in Seq(Row) /\ stored' = stored
  BY DEF IInv, Types, Joined
<1>10. LogShape(Log', stored, Left', m + 1)
  BY <1>8, <1>9, LogOfShape, LogIsLogOf
<1>. DEFINE more == Append(Log, new)
<1>11. /\ Log \in Seq(Row) /\ Len(Log) = Len(stored) + m /\ m \in Nat /\ Len(stored) \in Nat
       /\ \A i \in 1 .. Len(stored) : Log[i] = stored[i]
       /\ \A i \in 1 .. m : Log[Len(stored) + i] = Left[i].event
  BY <1>1 DEF LogShape
<1>12. /\ more \in Seq(Row)
       /\ Len(more) = Len(Log) + 1
       /\ \A i \in 1 .. Len(Log) : more[i] = Log[i]
       /\ more[Len(Log) + 1] = new
  BY <1>2, <1>11, AppendProperties
<1>. HIDE DEF more
<1>13. \A i \in 1 .. Len(stored) : more[i] = stored[i]
  BY <1>11, <1>12
<1>14. ASSUME NEW i \in 1 .. m + 1
       PROVE  more[Len(stored) + i] = Left'[i].event
  <2>1. CASE i = m + 1
    <3>1. Len(stored) + i = Len(Log) + 1
      BY <1>11, <2>1
    <3>. QED
      BY <1>4, <1>7, <1>12, <2>1, <3>1
  <2>2. CASE i # m + 1
    <3>1. i \in 1 .. m /\ Len(stored) + i \in 1 .. Len(Log)
      BY <1>11, <2>2
    <3>2. more[Len(stored) + i] = Left[i].event
      BY <1>11, <1>12, <3>1
    <3>3. Left'[i] = Left[i]
      BY <1>4, <1>7, <3>1
    <3>. QED
      BY <3>2, <3>3
  <2>. QED
    BY <2>1, <2>2
<1>15. LogShape(more, stored, Left', m + 1)
  <2>1. m + 1 \in Nat /\ Len(more) = Len(stored) + (m + 1)
    BY <1>11, <1>12
  <2>. QED
    BY <1>11, <1>12, <1>13, <1>14, <2>1 DEF LogShape
<1>16. ChatsFirst'
  BY <1>6 DEF ChatsFirst
<1>17. Log' = more
  BY <1>10, <1>15, SameLog
<1>. QED
  BY <1>16, <1>17 DEF more, new

-----------------------------------------------------------------------------
(* What is shown.                                                          *)

\* A step that leaves what is shown alone.
ShowQuiet == UNCHANGED <<liveCursor, cursor, feed, tail, gap>>

ShowTypes ==
    /\ liveCursor \in Nat /\ cursor \in Nat /\ through \in Nat /\ gap \in Nat
    /\ feed \in Seq(Row) /\ tail \in Seq(Row)

Cursors == cursor <= liveCursor /\ liveCursor <= last

\* The event an emitter is about to show is the last one accepted.
Publishing ==
    \A e \in Emitters : pc[e] = "publish" => liveCursor < last /\ \E x \in Rows : x.by = e /\ x.seq = last

\* The emitters whose accepted event is not shown yet, or could not be.
Unseen == {w \in Writers : pc[w] \in {"publish", "unshown"}}

\* A CHAT's command that is left has been passed, unless its emitter is unseen; a
\* synchronous writer's has not been.
LeftShown ==
    \A i \in DOMAIN Left :
        IF Left[i].chat = None THEN liveCursor < Left[i].event.seq
        ELSE Left[i].event.seq <= liveCursor \/ Left[i].event.by \in Unseen

\* Under a lease, and until the last command of a CHAT is written, no row is
\* left for the drain to show.
StoredShown ==
    lease # None \/ (\E i \in DOMAIN Left : Left[i].chat # None)
    => \A k \in DOMAIN stored : stored[k].seq <= liveCursor \/ stored[k].by \in Unseen

\* Every event shown is in the log.
LoggedIn(shown, log) == \A ev \in ToSet(shown) : \E i \in 1 .. Len(log) : log[i] = ev

FeedLogged == LoggedIn(feed, Log)

\* The events a client may replay are in order, after the gap.
TailOf(kept, lost, live) ==
    /\ \A i, j \in DOMAIN kept : i < j => kept[i].seq < kept[j].seq
    /\ \A i \in DOMAIN kept : lost < kept[i].seq /\ kept[i].seq <= live
    /\ lost <= live

TailOrdered == TailOf(tail, gap, liveCursor)

Shown ==
    /\ ShowTypes
    /\ ChatsFirst
    /\ Cursors
    /\ Publishing
    /\ LeftShown
    /\ StoredShown
    /\ FeedLogged
    /\ TailOrdered
    /\ ReplayCovers

\* The steps that show something.
ShowStep == (\E e \in Emitters : EmitterPublish(e)) \/ (\E w \in Writers : DrainRow(w))

LEMMA OtherStepsShowNothing ==
    ASSUME [Next]_vars, ~ShowStep
    PROVE  ShowQuiet /\ through' \in {0, through}
<1>1. CASE Worker
  BY <1>1 DEF Worker, WorkerCommit, WorkerFinish, WorkerSkip, WorkerFail, relayVars, showVars, ShowQuiet
<1>2. CASE \E w \in Writers : Synchronous(w)
  BY <1>2 DEF Synchronous, SyncCancelled, SyncWait, SyncOwnLease, SyncEnqueue, SyncRefused, SyncFailed, relayVars,
              showVars, ShowQuiet
<1>3. CASE \E w \in Writers : Drain(w)
  BY <1>3 DEF Drain, DrainBegin, DrainStop, ShowStep, ShowQuiet
<1>4. CASE \E j \in Journals : Cancel(j)
  BY <1>4 DEF Cancel, relayVars, showVars, ShowQuiet
<1>5. CASE \E e \in Emitters : OnEvent(e)
  BY <1>5 DEF OnEvent, EmitterRead, EmitterUnpark, EmitterReadAgain, EmitterRefused, EmitterDeclined, EmitterAdmit,
              EmitterLock, ShowStep, relayVars, showVars, ShowQuiet
<1>6. CASE \E c \in Chats : Chat(c)
  BY <1>6 DEF Chat, BindChat, BindRefused, BarrierBegin, BarrierDone, BarrierFails,
              MarkChatSynchronous, FallBack, ReleaseChat, Release, relayVars, showVars, ShowQuiet
<1>7. CASE UNCHANGED vars
  BY <1>7 DEF vars, relayVars, showVars, ShowQuiet
<1>. QED
  BY <1>1, <1>2, <1>3, <1>4, <1>5, <1>6, <1>7 DEF Next

LEMMA PublisherStep ==
    ASSUME IInv, [Next]_vars, NEW w \in Writers
    PROVE  /\ pc'[w] = "publish" => pc[w] = "publish" \/ \E e \in Emitters : EmitterAdmit(e)
           /\ pc[w] = "publish" => pc'[w] = "publish" \/ (w \in Emitters /\ EmitterPublish(w))
           /\ pc[w] = "unshown" => pc'[w] = "unshown"
           /\ pc'[w] = "unshown" => pc[w] = "unshown" \/ (w \in Emitters /\ EmitterPublish(w))
<1>1. pc \in [Writers -> Places]
  BY DEF IInv, Types
<1>2. CASE UNCHANGED pc
  BY <1>2
<1>3. ASSUME NEW v \in Writers, Turns(v), v # w
      PROVE  pc'[w] = pc[w]
  BY <1>1, <1>3 DEF Turns, Move
<1>4. CASE Turns(w)
  <2>1. PICK at \in Places :
          /\ Move(w, at)
          /\ at = "publish" => \E e \in Emitters : EmitterAdmit(e)
          /\ pc[w] = "publish" => w \in Emitters /\ EmitterPublish(w)
          /\ pc[w] # "unshown"
          /\ at = "unshown" => w \in Emitters /\ EmitterPublish(w)
    BY <1>4 DEF Turns
  <2>2. pc'[w] = at
    BY <1>1, <2>1 DEF Move
  <2>. QED
    BY <2>1, <2>2
<1>. QED
  BY <1>2, <1>3, <1>4, PcStep

\* The lease begins in BindChat and ends in Release.
LEMMA LeaseMoves ==
    ASSUME [Next]_vars
    PROVE  lease' = lease \/ lease' = None \/ \E c \in Chats : BindChat(c)
BY OtherStepsKeepRequests DEF RequestQuiet, Chat, BindRefused, BarrierBegin, BarrierDone, BarrierFails,
   MarkChatSynchronous, FallBack, ReleaseChat, Release, storeVars, admissionVars

\* Publishing and draining exclude each other.
LEMMA OnePublisher ==
    ASSUME Locks, NEW e \in Emitters, pc[e] = "publish"
    PROVE  mu = e /\ lease # None /\ \A d \in Emitters : pc[d] = "publish" => d = e
BY DEF Locks, Writers

LEMMA NobodyPublishing ==
    ASSUME Locks, mu = None \/ lease = None, NEW e \in Emitters
    PROVE  pc[e] # "publish"
<1>1. e # None
  BY PublicationAssumption DEF Writers
<1>. QED
  BY <1>1, OnePublisher

\* The log is in order: the rows, then the commands of CHATs that are left.
LogOrdered ==
    /\ Log \in Seq(Row) /\ Len(Log) \in Nat
    /\ Len(stored) \in Nat /\ Len(stored) <= Len(Log)
    /\ \A i \in 1 .. Len(stored) : Log[i] = stored[i]
    /\ \A i \in 1 .. Len(Log) : Len(stored) < i =>
          \E k \in DOMAIN Left : Left[k].chat # None /\ Log[i] = Left[k].event
    /\ \A k \in DOMAIN Left : Left[k].chat # None => \E i \in 1 .. Len(Log) : Log[i] = Left[k].event
    /\ \A i \in 1 .. Len(Log) :
          /\ Log[i] \in Row /\ Log[i].seq \in Nat /\ Log[i].seq <= last /\ Log[i] \in Rows
          /\ Log[i].seq <= highWater <=> i <= Len(stored)
    /\ \A i, j \in 1 .. Len(Log) : i < j => Log[i].seq < Log[j].seq

LEMMA StoredFacts ==
    ASSUME IInv
    PROVE  /\ stored \in Seq(Row) /\ Len(stored) \in Nat /\ DOMAIN stored = 1 .. Len(stored)
           /\ \A k \in 1 .. Len(stored) :
                 /\ stored[k] \in Row /\ stored[k].seq \in Nat /\ stored[k].by \in Writers
                 /\ stored[k].seq <= highWater /\ stored[k] \in Rows /\ stored[k] \in ToSet(stored)
           /\ \A i, j \in 1 .. Len(stored) : i < j => stored[i].seq < stored[j].seq
           /\ highWater \in Nat /\ last \in Nat /\ highWater <= last
<1>1. /\ stored \in Seq(Row) /\ Len(stored) \in Nat /\ DOMAIN stored = 1 .. Len(stored)
      /\ highWater \in Nat /\ last \in Nat /\ highWater <= last
  BY LenProperties DEF IInv, Types, Sequenced
<1>2. \A k \in 1 .. Len(stored) : stored[k] \in Row /\ stored[k].seq <= highWater
  BY <1>1, ElementOfSeq DEF IInv, Sequenced
<1>3. \A k \in 1 .. Len(stored) : stored[k].seq \in Nat /\ stored[k].by \in Writers
  BY <1>2 DEF Row
<1>4. \A k \in 1 .. Len(stored) : stored[k] \in ToSet(stored) /\ stored[k] \in Rows
  BY <1>1 DEF ToSet, Rows
<1>5. \A i, j \in 1 .. Len(stored) : i < j => stored[i].seq < stored[j].seq
  BY <1>1 DEF IInv, CommittedInSequence
<1>. QED
  BY <1>1, <1>2, <1>3, <1>4, <1>5

LEMMA LogInSequence ==
    ASSUME IInv, ChatsFirst
    PROVE  LogOrdered
<1>1. PICK m \in 0 .. Len(Left) : FirstChats(Left, m) /\ LogShape(Log, stored, Left, m)
  BY LogFacts
<1>2. /\ Log \in Seq(Row) /\ Len(Log) = Len(stored) + m /\ m \in Nat /\ Len(stored) \in Nat
      /\ \A i \in 1 .. Len(stored) : Log[i] = stored[i]
      /\ \A i \in 1 .. m : Log[Len(stored) + i] = Left[i].event
  BY <1>1 DEF LogShape
<1>3. LeftOrdered
  BY LeftFacts
<1>4. \A i \in 1 .. m : i \in DOMAIN Left /\ Left[i].chat # None
  BY <1>1, <1>3 DEF LeftOrdered, FirstChats
<1>5. ASSUME NEW i \in 1 .. Len(Log), Len(stored) < i
      PROVE  i - Len(stored) \in 1 .. m /\ Log[i] = Left[i - Len(stored)].event
  <2>1. i - Len(stored) \in 1 .. m /\ Len(stored) + (i - Len(stored)) = i
    BY <1>2, <1>5
  <2>2. Log[Len(stored) + (i - Len(stored))] = Left[i - Len(stored)].event
    BY <1>2, <2>1
  <2>. QED
    BY <2>1, <2>2
<1>6. ASSUME NEW i \in 1 .. Len(Log), Len(stored) < i
      PROVE  \E k \in DOMAIN Left : Left[k].chat # None /\ Log[i] = Left[k].event
  BY <1>4, <1>5, <1>6
<1>7. ASSUME NEW k \in DOMAIN Left, Left[k].chat # None
      PROVE  \E i \in 1 .. Len(Log) : Log[i] = Left[k].event
  <2>1. k \in 1 .. m
    BY <1>1, <1>3, <1>7 DEF LeftOrdered, FirstChats
  <2>2. Len(stored) + k \in 1 .. Len(Log) /\ Log[Len(stored) + k] = Left[k].event
    BY <1>2, <2>1
  <2>. QED
    BY <2>2
<1>8. ASSUME NEW i \in 1 .. Len(Log)
      PROVE  /\ Log[i] \in Row /\ Log[i].seq \in Nat /\ Log[i].seq <= last /\ Log[i] \in Rows
             /\ Log[i].seq <= highWater <=> i <= Len(stored)
  <2>1. CASE i <= Len(stored)
    <3>1. i \in 1 .. Len(stored)
      BY <1>2, <2>1
    <3>2. Log[i] = stored[i]
      BY <1>2, <3>1
    <3>3. /\ stored[i] \in Row /\ stored[i].seq \in Nat /\ stored[i].seq <= highWater
          /\ stored[i] \in Rows /\ highWater \in Nat /\ last \in Nat /\ highWater <= last
      BY <3>1, StoredFacts
    <3>. QED
      BY <2>1, <3>2, <3>3
  <2>2. CASE ~(i <= Len(stored))
    <3>1. PICK k \in DOMAIN Left : Left[k].chat # None /\ Log[i] = Left[k].event
      BY <1>2, <1>6, <2>2
    <3>2. /\ Left[k].event \in Row /\ Left[k].event.seq \in Nat /\ Left[k].event.seq <= last
          /\ highWater < Left[k].event.seq
      BY <1>3 DEF LeftOrdered
    <3>3. Left[k].event \in Rows
      BY DEF Rows
    <3>4. highWater \in Nat
      BY StoredFacts
    <3>. QED
      BY <2>2, <3>1, <3>2, <3>3, <3>4
  <2>. QED
    BY <2>1, <2>2
<1>9. ASSUME NEW i \in 1 .. Len(Log), NEW j \in 1 .. Len(Log), i < j
      PROVE  Log[i].seq < Log[j].seq
  <2>1. CASE j <= Len(stored)
    <3>1. i \in 1 .. Len(stored) /\ j \in 1 .. Len(stored)
      BY <1>2, <1>9, <2>1
    <3>2. Log[i] = stored[i] /\ Log[j] = stored[j]
      BY <1>2, <3>1
    <3>. QED
      BY <1>9, <3>1, <3>2, StoredFacts
  <2>2. CASE i <= Len(stored) /\ Len(stored) < j
    <3>1. Log[i].seq <= highWater /\ ~(Log[j].seq <= highWater)
      BY <1>2, <1>8, <2>2
    <3>2. Log[i].seq \in Nat /\ Log[j].seq \in Nat /\ highWater \in Nat
      BY <1>8, StoredFacts
    <3>. QED
      BY <3>1, <3>2
  <2>3. CASE Len(stored) < i
    <3>1. Len(stored) < j /\ i - Len(stored) < j - Len(stored)
      BY <1>2, <1>9, <2>3
    <3>2. /\ i - Len(stored) \in DOMAIN Left /\ j - Len(stored) \in DOMAIN Left
          /\ Log[i] = Left[i - Len(stored)].event /\ Log[j] = Left[j - Len(stored)].event
      BY <1>4, <1>5, <2>3, <3>1
    <3>. QED
      BY <1>3, <3>1, <3>2 DEF LeftOrdered
  <2>. QED
    BY <1>2, <2>1, <2>2, <2>3
<1>10. Len(Log) \in Nat /\ Len(stored) <= Len(Log)
  BY <1>2
<1>. QED
  BY <1>2, <1>6, <1>7, <1>8, <1>9, <1>10 DEF LogOrdered

\* A sequence in order splits at any number.
InOrder(s) ==
    /\ s \in Seq(Row) /\ Len(s) \in Nat
    /\ \A i \in 1 .. Len(s) : s[i] \in Row /\ s[i].seq \in Nat
    /\ \A i, j \in 1 .. Len(s) : i < j => s[i].seq < s[j].seq

LEMMA SplitAt ==
    ASSUME NEW s, InOrder(s), NEW v \in Nat
    PROVE  \E n \in 0 .. Len(s) : \A i \in 1 .. Len(s) : s[i].seq <= v <=> i <= n
<1>. DEFINE Above == {i \in 1 .. Len(s) : v < s[i].seq}
<1>1. Len(s) \in Nat /\ \A i \in 1 .. Len(s) : s[i].seq \in Nat
  BY DEF InOrder
<1>2. CASE Above = {}
  <2>1. \A i \in 1 .. Len(s) : s[i].seq <= v <=> i <= Len(s)
    BY <1>1, <1>2
  <2>. QED
    BY <1>1, <2>1
<1>3. CASE Above # {}
  <2>1. PICK n \in Above : \A k \in Nat : k < n => k \notin Above
    <3>1. Above \subseteq Nat
      BY <1>1
    <3>. HIDE DEF Above
    <3>. QED
      BY <1>3, <3>1, LeastNumber
  <2>2. n \in 1 .. Len(s) /\ v < s[n].seq
    OBVIOUS
  <2>3. ASSUME NEW i \in 1 .. Len(s)
        PROVE  s[i].seq <= v <=> i <= n - 1
    <3>1. CASE i < n
      BY <1>1, <2>1, <2>2, <3>1
    <3>2. CASE i = n
      BY <1>1, <2>2, <3>2
    <3>3. CASE n < i
      <4>1. s[n].seq < s[i].seq
        BY <2>2, <3>3 DEF InOrder
      <4>. QED
        BY <1>1, <2>2, <3>3, <4>1
    <3>. QED
      BY <1>1, <2>2, <3>1, <3>2, <3>3
  <2>4. n - 1 \in 0 .. Len(s)
    BY <1>1, <2>2
  <2>. QED
    BY <2>3, <2>4
<1>. QED
  BY <1>2, <1>3

-----------------------------------------------------------------------------
(* The steps that show nothing.                                            *)

PublishersKept ==
    /\ \A w \in Writers : pc'[w] = "publish" <=> pc[w] = "publish"
    /\ Unseen \subseteq Unseen'

LEMMA QuietPublishers ==
    ASSUME IInv, [Next]_vars, ~ShowStep, ~\E e \in Emitters : EmitterAdmit(e)
    PROVE  PublishersKept
<1>1. \A w \in Writers :
        /\ pc'[w] = "publish" <=> pc[w] = "publish"
        /\ pc[w] = "unshown" => pc'[w] = "unshown"
  BY PublisherStep DEF ShowStep
<1>. QED
  BY <1>1 DEF PublishersKept, Unseen

\* What such a step has to keep.
ShownKept == Cursors' /\ Publishing' /\ LeftShown' /\ StoredShown' /\ FeedLogged'

LEMMA LoggedLonger ==
    ASSUME NEW shown, NEW log \in Seq(Row), LoggedIn(shown, log), NEW ev \in Row
    PROVE  LoggedIn(shown, Append(log, ev))
<1>1. /\ Len(Append(log, ev)) = Len(log) + 1 /\ Len(log) \in Nat
      /\ \A i \in 1 .. Len(log) : Append(log, ev)[i] = log[i]
  BY AppendProperties, LenProperties
<1>2. \A i \in 1 .. Len(log) : i \in 1 .. Len(Append(log, ev))
  BY <1>1
<1>. QED
  BY <1>1, <1>2 DEF LoggedIn

LEMMA ShownWritten ==
    ASSUME IInv, HandOver, Shown, Written, ShowQuiet, PublishersKept, lease' = lease
    PROVE  ShownKept
<1>1. Longer(Left[1].event) /\ Headless /\ LeftOrdered
  BY WrittenLonger, LeftFacts
<1>2. UNCHANGED <<liveCursor, cursor, feed, last, lease>> /\ liveCursor \in Nat
  BY DEF ShowQuiet, Written, Shown, ShowTypes
<1>3. Publishing'
  <2>1. Rows' = Rows
    BY RowsWritten
  <2>. QED
    BY <1>2, <2>1 DEF Publishing, PublishersKept, Writers, Shown
<1>4. LeftShown'
  <2>. SUFFICES ASSUME NEW i \in DOMAIN Left'
                PROVE  IF Left'[i].chat = None THEN liveCursor < Left'[i].event.seq
                       ELSE Left'[i].event.seq <= liveCursor \/ Left'[i].event.by \in Unseen'
    BY <1>2 DEF LeftShown
  <2>1. i + 1 \in DOMAIN Left /\ Left'[i] = Left[i + 1]
    BY <1>1 DEF Headless
  <2>2. Left[i + 1].event.by \in Writers
    BY <1>1, <2>1 DEF LeftOrdered
  <2>. QED
    BY <2>1, <2>2 DEF Shown, LeftShown, PublishersKept
<1>5. StoredShown'
  <2>. SUFFICES ASSUME lease # None \/ (\E i \in DOMAIN Left' : Left'[i].chat # None),
                       NEW k \in DOMAIN stored'
                PROVE  stored'[k].seq <= liveCursor \/ stored'[k].by \in Unseen'
    BY <1>2 DEF StoredShown
  <2>1. 1 \in DOMAIN Left /\ Left[1].chat # None
    <3>1. 1 \in DOMAIN Left
      BY <1>1 DEF Headless
    <3>2. CASE lease # None
      BY <1>1, <3>1, <3>2 DEF LeftOrdered
    <3>3. CASE \E i \in DOMAIN Left' : Left'[i].chat # None
      <4>1. PICK i \in DOMAIN Left' : Left'[i].chat # None
        BY <3>3
      <4>2. i + 1 \in DOMAIN Left /\ Left[i + 1].chat # None /\ 1 < i + 1
        BY <1>1, <4>1 DEF Headless, LeftOrdered
      <4>. QED
        BY <3>1, <4>2 DEF Shown, ChatsFirst
    <3>. QED
      BY <3>1, <3>2, <3>3
  <2>2. CASE k \in DOMAIN stored
    <3>1. stored'[k] = stored[k] /\ stored[k].by \in Writers
      BY <1>1, <2>2, StoredFacts DEF Longer
    <3>2. stored[k].seq <= liveCursor \/ stored[k].by \in Unseen
      BY <2>1, <2>2 DEF Shown, StoredShown
    <3>. QED
      BY <3>1, <3>2 DEF PublishersKept
  <2>3. CASE k \notin DOMAIN stored
    <3>1. stored'[k] = Left[1].event /\ Left[1].event.by \in Writers
      BY <1>1, <2>1, <2>3 DEF Longer, LeftOrdered
    <3>2. Left[1].event.seq <= liveCursor \/ Left[1].event.by \in Unseen
      BY <2>1 DEF Shown, LeftShown
    <3>. QED
      BY <3>1, <3>2 DEF PublishersKept
  <2>. QED
    BY <2>2, <2>3
<1>6. FeedLogged'
  <2>1. Left[1].chat # None => Log' = Log
    BY LogWritten DEF Shown
  <2>2. Left[1].chat = None => Log' = Append(Log, Left[1].event)
    BY LogWritten DEF Shown
  <2>3. CASE Left[1].chat # None
    BY <1>2, <2>1, <2>3 DEF FeedLogged, Shown
  <2>4. CASE Left[1].chat = None
    <3>1. Left[1].event \in Row /\ liveCursor < Left[1].event.seq
      BY <1>1, <2>4 DEF Headless, LeftOrdered, Shown, LeftShown
    <3>2. Log \in Seq(Row)
      BY LogInSequence DEF LogOrdered, Shown
    <3>3. LoggedIn(feed, Append(Log, Left[1].event))
      BY <3>1, <3>2, LoggedLonger DEF Shown, FeedLogged
    <3>. QED
      BY <1>2, <2>2, <2>4, <3>3 DEF FeedLogged
  <2>. QED
    BY <2>3, <2>4
<1>7. Cursors'
  BY <1>2 DEF Shown, Cursors
<1>. QED
  BY <1>3, <1>4, <1>5, <1>6, <1>7 DEF ShownKept

LEMMA ShownDropped ==
    ASSUME IInv, HandOver, Shown, Dropped, ShowQuiet, PublishersKept, lease' = lease
    PROVE  ShownKept
<1>1. Headless /\ LeftOrdered
  BY RowsDropped, LeftFacts
<1>2. UNCHANGED <<liveCursor, cursor, feed, last, lease, stored>>
  BY DEF ShowQuiet, Dropped
<1>3. Publishing'
  <2>. SUFFICES ASSUME NEW e \in Emitters, pc[e] = "publish", NEW x \in Rows, x.by = e
                PROVE  x \in Rows'
    BY <1>2 DEF Publishing, PublishersKept, Writers, Shown
  <2>1. CASE x \in ToSet(stored)
    BY <1>2, <2>1 DEF Rows, ToSet
  <2>2. CASE \E i \in DOMAIN Left : x = Left[i].event
    <3>1. PICK i \in DOMAIN Left : x = Left[i].event
      BY <2>2
    <3>2. i # 1
      <4>1. pc[Left[1].event.by] # "publish"
        BY <1>1 DEF Headless, Dropped, HandOver, SyncAwaited, Awaiting
      <4>. QED
        BY <3>1, <4>1
    <3>3. i - 1 \in DOMAIN Left' /\ Left[i] = Left'[i - 1]
      BY <1>1, <3>2 DEF Headless
    <3>. QED
      BY <3>1, <3>3 DEF Rows
  <2>. QED
    BY <2>1, <2>2 DEF Rows
<1>4. LeftShown'
  <2>. SUFFICES ASSUME NEW i \in DOMAIN Left'
                PROVE  IF Left'[i].chat = None THEN liveCursor < Left'[i].event.seq
                       ELSE Left'[i].event.seq <= liveCursor \/ Left'[i].event.by \in Unseen'
    BY <1>2 DEF LeftShown
  <2>1. i + 1 \in DOMAIN Left /\ Left'[i] = Left[i + 1]
    BY <1>1 DEF Headless
  <2>2. Left[i + 1].event.by \in Writers
    BY <1>1, <2>1 DEF LeftOrdered
  <2>. QED
    BY <2>1, <2>2 DEF Shown, LeftShown, PublishersKept
<1>5. StoredShown'
  <2>. SUFFICES ASSUME lease # None \/ (\E i \in DOMAIN Left' : Left'[i].chat # None),
                       NEW k \in DOMAIN stored
                PROVE  stored[k].seq <= liveCursor \/ stored[k].by \in Unseen'
    BY <1>2 DEF StoredShown
  <2>1. lease # None \/ \E i \in DOMAIN Left : Left[i].chat # None
    BY <1>1 DEF Headless
  <2>2. stored[k].by \in Writers
    BY StoredFacts
  <2>. QED
    BY <2>1, <2>2 DEF Shown, StoredShown, PublishersKept
<1>6. FeedLogged'
  BY <1>2, LogDropped DEF Shown, FeedLogged
<1>7. Cursors'
  BY <1>2 DEF Shown, Cursors
<1>. QED
  BY <1>3, <1>4, <1>5, <1>6, <1>7 DEF ShownKept

LEMMA ShownJoinedSync ==
    ASSUME IInv, HandOver, Shown, NEW w \in Writers, Joined(w, None), ShowQuiet, PublishersKept,
           lease = None, lease' = None
    PROVE  ShownKept
<1>1. Joins(w, None) /\ LeftOrdered
  BY JoinedJoins, LeftFacts
<1>2. UNCHANGED <<liveCursor, cursor, feed, stored>> /\ last' = last + 1
  BY DEF ShowQuiet, Joined
<1>3. liveCursor \in Nat /\ cursor \in Nat /\ last \in Nat /\ cursor <= liveCursor /\ liveCursor <= last
  BY DEF Shown, ShowTypes, Cursors, IInv, Types
<1>4. Publishing'
  <2>1. \A e \in Emitters : pc[e] # "publish"
    BY NobodyPublishing DEF HandOver
  <2>. QED
    BY <2>1 DEF Publishing, PublishersKept, Writers
<1>5. LeftShown'
  <2>. SUFFICES ASSUME NEW i \in DOMAIN Left'
                PROVE  IF Left'[i].chat = None THEN liveCursor < Left'[i].event.seq
                       ELSE Left'[i].event.seq <= liveCursor \/ Left'[i].event.by \in Unseen'
    BY <1>2 DEF LeftShown
  <2>1. CASE i \in DOMAIN Left
    <3>1. Left'[i] = Left[i] /\ Left[i].event.by \in Writers
      BY <1>1, <2>1 DEF Joins, LeftOrdered
    <3>. QED
      BY <2>1, <3>1 DEF Shown, LeftShown, PublishersKept
  <2>2. CASE i \notin DOMAIN Left
    <3>1. Left'[i].event.seq = last + 1 /\ Left'[i].chat = None
      BY <1>1, <2>2 DEF Joins
    <3>. QED
      BY <1>3, <3>1
  <2>. QED
    BY <2>1, <2>2
<1>6. StoredShown'
  <2>. SUFFICES ASSUME NEW i \in DOMAIN Left', Left'[i].chat # None, NEW k \in DOMAIN stored
                PROVE  stored[k].seq <= liveCursor \/ stored[k].by \in Unseen'
    BY <1>2 DEF StoredShown
  <2>1. i \in DOMAIN Left /\ Left[i].chat # None
    BY <1>1 DEF Joins
  <2>2. stored[k].by \in Writers
    BY StoredFacts
  <2>. QED
    BY <2>1, <2>2 DEF Shown, StoredShown, PublishersKept
<1>7. FeedLogged'
  BY <1>2, LogJoinedSync DEF Shown, FeedLogged
<1>8. Cursors'
  BY <1>2, <1>3 DEF Cursors
<1>. QED
  BY <1>4, <1>5, <1>6, <1>7, <1>8 DEF ShownKept

LEMMA ShownJoinedChat ==
    ASSUME IInv, HandOver, Shown, NEW e \in Emitters, EmitterAdmit(e), Joined(e, lease)
    PROVE  ShowQuiet /\ lease # None /\ ShownKept
<1>. DEFINE new == [seq |-> last + 1, by |-> e]
<1>0. e \in Writers
  BY DEF Writers
<1>1. lease # None /\ lease \in Chats \cup {None}
  BY DEF EmitterAdmit, StillAdmitted, IInv, Types, Admitting
<1>2. Joins(e, lease) /\ LeftOrdered
  BY <1>0, <1>1, JoinedJoins, LeftFacts
<1>3. ShowQuiet /\ lease' = lease /\ stored' = stored /\ last' = last + 1 /\ mu = None
  BY DEF EmitterAdmit, showVars, ShowQuiet, Joined
<1>4. UNCHANGED <<liveCursor, cursor, feed>>
  BY <1>3 DEF ShowQuiet
<1>5. liveCursor \in Nat /\ cursor \in Nat /\ last \in Nat /\ cursor <= liveCursor /\ liveCursor <= last
  BY DEF Shown, ShowTypes, Cursors, IInv, Types
<1>6. \A w \in Writers : pc'[w] = IF w = e THEN "publish" ELSE pc[w]
  BY DEF EmitterAdmit, Move, IInv, Types
<1>6a. Unseen \subseteq Unseen' /\ e \in Unseen'
  BY <1>0, <1>6 DEF Unseen
<1>7. \A d \in Emitters : pc[d] # "publish"
  BY <1>3, NobodyPublishing DEF HandOver
<1>8. /\ Len(Left) + 1 \in DOMAIN Left' /\ Left'[Len(Left) + 1].event = new
      /\ Left'[Len(Left) + 1].chat = lease
      /\ \A i \in DOMAIN Left' : i \in DOMAIN Left \/ i = Len(Left) + 1
  BY <1>2 DEF Joins
<1>9. Publishing'
  <2>. SUFFICES ASSUME NEW d \in Emitters, pc'[d] = "publish"
                PROVE  liveCursor < last' /\ \E x \in Rows' : x.by = d /\ x.seq = last'
    BY <1>4 DEF Publishing
  <2>1. d = e
    BY <1>6, <1>7 DEF Writers
  <2>2. new \in Rows' /\ new.by = d /\ new.seq = last'
    BY <1>3, <1>8, <2>1 DEF Rows
  <2>3. liveCursor < last'
    BY <1>3, <1>5
  <2>. QED
    BY <2>2, <2>3
<1>10. LeftShown'
  <2>. SUFFICES ASSUME NEW i \in DOMAIN Left'
                PROVE  IF Left'[i].chat = None THEN liveCursor < Left'[i].event.seq
                       ELSE Left'[i].event.seq <= liveCursor \/ Left'[i].event.by \in Unseen'
    BY <1>4 DEF LeftShown
  <2>1. CASE i \in DOMAIN Left
    <3>1. Left'[i] = Left[i] /\ Left[i].event.by \in Writers
      BY <1>2, <2>1 DEF Joins, LeftOrdered
    <3>. QED
      BY <1>6a, <2>1, <3>1 DEF Shown, LeftShown
  <2>2. CASE i \notin DOMAIN Left
    <3>1. Left'[i].event.by = e /\ Left'[i].chat # None
      BY <1>1, <1>8, <2>2
    <3>. QED
      BY <1>6a, <3>1
  <2>. QED
    BY <2>1, <2>2
<1>11. StoredShown'
  <2>. SUFFICES ASSUME NEW k \in DOMAIN stored
                PROVE  stored[k].seq <= liveCursor \/ stored[k].by \in Unseen'
    BY <1>3, <1>4 DEF StoredShown
  <2>1. stored[k].seq <= liveCursor \/ stored[k].by \in Unseen
    BY <1>1 DEF Shown, StoredShown
  <2>. QED
    BY <1>6a, <2>1
<1>12. FeedLogged'
  <2>1. Log' = Append(Log, new)
    BY <1>0, <1>1, LogJoinedChat DEF Shown
  <2>2. new \in Row /\ liveCursor < new.seq
    BY <1>0, <1>5 DEF Row
  <2>3. Log \in Seq(Row)
    BY LogInSequence DEF LogOrdered, Shown
  <2>4. liveCursor' = liveCursor /\ feed' = feed
    BY <1>4
  <2>. HIDE DEF new
  <2>5. LoggedIn(feed, Append(Log, new))
    BY <2>2, <2>3, LoggedLonger DEF Shown, FeedLogged
  <2>. QED
    BY <2>1, <2>4, <2>5 DEF FeedLogged
<1>13. Cursors'
  BY <1>3, <1>4, <1>5 DEF Cursors
<1>. QED
  BY <1>1, <1>3, <1>9, <1>10, <1>11, <1>12, <1>13 DEF ShownKept

\* The lease may begin, but with nothing durable left to show.
LEMMA ShownQuiet ==
    ASSUME IInv, HandOver, Shown, [Next]_vars, LeftKept, ShowQuiet, PublishersKept
    PROVE  ShownKept
<1>1. UNCHANGED <<liveCursor, cursor, feed, Left, stored, last>>
  BY DEF ShowQuiet, LeftKept
<1>2. Publishing'
  BY <1>1, RowsKept DEF Publishing, PublishersKept, Writers, Shown
<1>3. LeftShown'
  <2>1. \A i \in DOMAIN Left : Left[i].event.by \in Writers
    BY LeftFacts DEF LeftOrdered
  <2>. QED
    BY <1>1, <2>1 DEF Shown, LeftShown, PublishersKept
<1>4. StoredShown'
  <2>1. \A k \in DOMAIN stored : stored[k].by \in Writers
    BY StoredFacts
  <2>2. CASE lease' = lease \/ lease' = None
    BY <1>1, <2>1, <2>2 DEF Shown, StoredShown, PublishersKept
  <2>3. CASE \E c \in Chats : BindChat(c)
    <3>1. ~(highWater > liveCursor)
      BY <2>3 DEF BindChat, MayBind, Unpublished
    <3>2. highWater \in Nat /\ liveCursor \in Nat
      BY DEF IInv, Types, Shown, ShowTypes
    <3>3. \A k \in DOMAIN stored : stored[k].seq <= liveCursor
      BY <3>1, <3>2, StoredFacts
    <3>. QED
      BY <1>1, <3>3 DEF StoredShown
  <2>. QED
    BY <2>2, <2>3, LeaseMoves
<1>5. Log' = Log
  BY <1>1, LogIsLogOf
<1>6. FeedLogged'
  BY <1>1, <1>5 DEF Shown, FeedLogged
<1>7. Cursors'
  BY <1>1 DEF Shown, Cursors
<1>. QED
  BY <1>2, <1>3, <1>4, <1>6, <1>7 DEF ShownKept

LEMMA ChatsFirstStep ==
    ASSUME IInv, ChatsFirst, [Next]_vars
    PROVE  ChatsFirst'
<1>1. CASE Written
  BY <1>1, LogWritten
<1>2. CASE Dropped
  BY <1>2, LogDropped
<1>3. CASE \E w \in Writers : Joined(w, None)
  BY <1>3, LogJoinedSync
<1>4. ASSUME NEW e \in Emitters, EmitterAdmit(e), Joined(e, lease)
      PROVE  ChatsFirst'
  <2>1. lease # None /\ e \in Writers
    BY <1>4 DEF EmitterAdmit, StillAdmitted, IInv, Admitting, Writers
  <2>. QED
    BY <1>4, <2>1, LogJoinedChat
<1>5. CASE LeftKept
  BY <1>5 DEF LeftKept, ChatsFirst
<1>. QED
  BY <1>1, <1>2, <1>3, <1>4, <1>5, LeftStep

LEMMA StoredGrows ==
    ASSUME IInv, [Next]_vars
    PROVE  ToSet(stored) \subseteq ToSet(stored')
<1>1. CASE Written
  <2>1. Longer(Left[1].event)
    BY <1>1, WrittenLonger
  <2>. QED
    BY <2>1 DEF Longer, ToSet
<1>2. CASE stored' = stored
  BY <1>2
<1>. QED
  BY <1>1, <1>2, LeftStep DEF Dropped, Joined, LeftKept

LEMMA QuietShown ==
    ASSUME IInv, HandOver, Shown, [Next]_vars, ~ShowStep
    PROVE  Shown'
<1>1. ShowQuiet /\ through' \in {0, through}
  BY OtherStepsShowNothing
<1>2. ShowTypes' /\ TailOrdered'
  BY <1>1 DEF Shown, ShowTypes, TailOrdered, ShowQuiet
<1>3. ReplayCovers'
  <2>1. feed' = feed /\ tail' = tail /\ gap' = gap
    BY <1>1 DEF ShowQuiet
  <2>2. ReplayCovers
    BY DEF Shown
  <2>. QED
    BY <2>1, <2>2, StoredGrows DEF ReplayCovers, ToSet
<1>4. ChatsFirst'
  BY ChatsFirstStep DEF Shown
<1>5. ShownKept
  <2>1. ASSUME NEW e \in Emitters, EmitterAdmit(e)
        PROVE  ShownKept
    <3>1. Joined(e, lease)
      BY <2>1, EnqueueJoins DEF EmitterAdmit, diskVars, Writers, IInv, Types
    <3>. QED
      BY <2>1, <3>1, ShownJoinedChat
  <2>2. ASSUME ~\E e \in Emitters : EmitterAdmit(e)
        PROVE  ShownKept
    <3>1. PublishersKept
      BY <2>2, QuietPublishers
    <3>2. CASE WorkerCommit /\ Written
      BY <1>1, <3>1, <3>2, ShownWritten DEF WorkerCommit, admissionVars
    <3>3. CASE WorkerSkip /\ Dropped
      BY <1>1, <3>1, <3>3, ShownDropped DEF WorkerSkip
    <3>4. ASSUME NEW w \in Writers, SyncEnqueue(w), Joined(w, None)
          PROVE  ShownKept
      BY <1>1, <3>1, <3>4, ShownJoinedSync DEF SyncEnqueue
    <3>5. CASE LeftKept
      BY <1>1, <3>1, <3>5, ShownQuiet
    <3>. QED
      BY <2>2, <3>2, <3>3, <3>4, <3>5, LeftStep
  <2>. QED
    BY <2>1, <2>2
<1>. QED
  BY <1>2, <1>3, <1>4, <1>5 DEF Shown, ShownKept

-----------------------------------------------------------------------------
(* An accepted event is shown before it is written.                        *)

LEMMA TailAppend ==
    ASSUME NEW kept \in Seq(Row), NEW lost \in Nat, NEW live \in Nat, TailOf(kept, lost, live),
           NEW x \in Row, live < x.seq
    PROVE  /\ Append(kept, x) \in Seq(Row)
           /\ TailOf(Append(kept, x), lost, x.seq)
           /\ ToSet(kept) \cup {x} \subseteq ToSet(Append(kept, x))
<1>. DEFINE more == Append(kept, x)
<1>1. /\ more \in Seq(Row) /\ Len(more) = Len(kept) + 1 /\ Len(kept) \in Nat
      /\ \A i \in 1 .. Len(kept) : more[i] = kept[i]
      /\ more[Len(kept) + 1] = x
  BY AppendProperties, LenProperties
<1>. HIDE DEF more
<1>2. DOMAIN kept = 1 .. Len(kept) /\ DOMAIN more = 1 .. (Len(kept) + 1)
  BY <1>1, LenProperties
<1>3. \A i \in DOMAIN kept : kept[i] \in Row /\ kept[i].seq \in Nat
  <2>1. \A i \in DOMAIN kept : kept[i] \in Row
    BY <1>2, ElementOfSeq
  <2>. QED
    BY <2>1 DEF Row
<1>4. x.seq \in Nat
  BY DEF Row
<1>5. ASSUME NEW i \in DOMAIN more
      PROVE  \/ i \in DOMAIN kept /\ more[i] = kept[i]
             \/ i = Len(kept) + 1 /\ more[i] = x
  BY <1>1, <1>2
<1>6. ASSUME NEW i \in DOMAIN more, NEW j \in DOMAIN more, i < j
      PROVE  more[i].seq < more[j].seq
  <2>1. i \in DOMAIN kept /\ more[i] = kept[i]
    BY <1>1, <1>2, <1>5, <1>6
  <2>2. kept[i].seq <= live
    BY <2>1 DEF TailOf
  <2>3. CASE j \in DOMAIN kept /\ more[j] = kept[j]
    BY <1>6, <2>1, <2>3 DEF TailOf
  <2>4. CASE more[j] = x
    BY <1>3, <1>4, <2>1, <2>2, <2>4
  <2>. QED
    BY <1>5, <2>3, <2>4
<1>7. ASSUME NEW i \in DOMAIN more
      PROVE  lost < more[i].seq /\ more[i].seq <= x.seq
  <2>1. CASE i \in DOMAIN kept /\ more[i] = kept[i]
    <3>1. lost < kept[i].seq /\ kept[i].seq <= live
      BY <2>1 DEF TailOf
    <3>. QED
      BY <1>3, <1>4, <2>1, <3>1
  <2>2. CASE more[i] = x
    <3>1. lost <= live
      BY DEF TailOf
    <3>. QED
      BY <1>4, <2>2, <3>1
  <2>. QED
    BY <1>5, <2>1, <2>2
<1>8. lost <= x.seq
  BY <1>4 DEF TailOf
<1>9. ToSet(kept) \cup {x} \subseteq ToSet(more)
  <2>1. Len(kept) + 1 \in DOMAIN more /\ \A i \in DOMAIN kept : i \in DOMAIN more /\ more[i] = kept[i]
    BY <1>1, <1>2
  <2>. QED
    BY <1>1, <2>1 DEF ToSet
<1>10. TailOf(more, lost, x.seq)
  BY <1>6, <1>7, <1>8 DEF TailOf
<1>. QED
  BY <1>1, <1>9, <1>10 DEF more

LEMMA TailDrop ==
    ASSUME NEW kept \in Seq(Row), NEW lost \in Nat, NEW live \in Nat, TailOf(kept, lost, live),
           kept # <<>>
    PROVE  /\ Tail(kept) \in Seq(Row) /\ Head(kept).seq \in Nat
           /\ lost < Head(kept).seq
           /\ TailOf(Tail(kept), Head(kept).seq, live)
           /\ \A x \in ToSet(kept) : x \in ToSet(Tail(kept)) \/ x.seq <= Head(kept).seq
<1>. DEFINE rest == Tail(kept)
<1>1. /\ Len(kept) \in Nat /\ Len(kept) # 0 /\ DOMAIN kept = 1 .. Len(kept)
      /\ Head(kept) = kept[1]
  BY LenProperties, EmptySeq
<1>2. /\ rest \in Seq(Row) /\ Len(rest) = Len(kept) - 1
      /\ \A i \in 1 .. Len(rest) : rest[i] = kept[i + 1]
  BY HeadTailProperties
<1>. HIDE DEF rest
<1>3. DOMAIN rest = 1 .. (Len(kept) - 1)
  BY <1>2, LenProperties
<1>4. \A i \in DOMAIN kept : kept[i] \in Row /\ kept[i].seq \in Nat
  <2>1. \A i \in DOMAIN kept : kept[i] \in Row
    BY <1>1, ElementOfSeq
  <2>. QED
    BY <2>1 DEF Row
<1>5. 1 \in DOMAIN kept
  BY <1>1
<1>6. \A i \in DOMAIN rest : i + 1 \in DOMAIN kept /\ rest[i] = kept[i + 1] /\ 1 < i + 1
  BY <1>1, <1>2, <1>3
<1>7. ASSUME NEW i \in DOMAIN rest, NEW j \in DOMAIN rest, i < j
      PROVE  rest[i].seq < rest[j].seq
  <2>1. i + 1 < j + 1
    BY <1>3, <1>7
  <2>. QED
    BY <1>6, <2>1 DEF TailOf
<1>8. \A i \in DOMAIN rest : kept[1].seq < rest[i].seq /\ rest[i].seq <= live
  BY <1>5, <1>6 DEF TailOf
<1>9. kept[1].seq <= live /\ lost < kept[1].seq
  BY <1>5 DEF TailOf
<1>10. ASSUME NEW x \in ToSet(kept)
       PROVE  x \in ToSet(rest) \/ x.seq <= kept[1].seq
  <2>1. PICK i \in DOMAIN kept : x = kept[i]
    BY DEF ToSet
  <2>2. CASE i = 1
    BY <1>4, <2>1, <2>2
  <2>3. CASE i # 1
    <3>1. i - 1 \in DOMAIN rest /\ (i - 1) + 1 = i
      BY <1>1, <1>3, <2>3
    <3>2. rest[i - 1] = kept[(i - 1) + 1]
      BY <1>6, <3>1
    <3>. QED
      BY <2>1, <3>1, <3>2 DEF ToSet
  <2>. QED
    BY <2>2, <2>3
<1>11. TailOf(rest, kept[1].seq, live)
  BY <1>7, <1>8, <1>9 DEF TailOf
<1>12. kept[1].seq \in Nat
  BY <1>4, <1>5
<1>. QED
  BY <1>1, <1>2, <1>9, <1>10, <1>11, <1>12 DEF rest

LEMMA ToSetAppend ==
    ASSUME NEW s \in Seq(Row), NEW x \in Row
    PROVE  Append(s, x) \in Seq(Row) /\ \A ev \in ToSet(Append(s, x)) : ev \in ToSet(s) \/ ev = x
<1>1. /\ Len(s) \in Nat /\ DOMAIN s = 1 .. Len(s)
      /\ Append(s, x) \in Seq(Row) /\ Len(Append(s, x)) = Len(s) + 1
      /\ \A i \in 1 .. Len(s) : Append(s, x)[i] = s[i]
      /\ Append(s, x)[Len(s) + 1] = x
  BY AppendProperties, LenProperties
<1>2. DOMAIN Append(s, x) = 1 .. Len(s) + 1
  BY <1>1, LenProperties
<1>3. \A i \in DOMAIN Append(s, x) : i \in DOMAIN s \/ i = Len(s) + 1
  BY <1>1, <1>2
<1>. QED
  BY <1>1, <1>3 DEF ToSet

LEMMA Retained ==
    ASSUME ShowTypes, TailOrdered, ReplayCovers, NEW x \in Row, liveCursor < x.seq, Retain(x),
           feed' = Append(feed, x), liveCursor' = x.seq, stored' = stored
    PROVE  tail' \in Seq(Row) /\ gap' \in Nat /\ TailOrdered' /\ ReplayCovers'
<1>1. tail \in Seq(Row) /\ gap \in Nat /\ liveCursor \in Nat /\ feed \in Seq(Row)
      /\ TailOf(tail, gap, liveCursor)
  BY DEF ShowTypes, TailOrdered
<1>2. ASSUME NEW ev \in ToSet(feed')
      PROVE  ev \in ToSet(feed) \/ ev = x
  BY <1>1, <1>2, ToSetAppend
<1>3. \A ev \in ToSet(feed) : ev \in ToSet(stored) \cup ToSet(tail) \/ ev.seq <= gap
  BY DEF ReplayCovers
<1>3a. \A ev \in ToSet(feed) : ev.seq \in Nat
  <2>1. \A i \in DOMAIN feed : feed[i] \in Row
    BY <1>1, ElementOfSeq, LenProperties
  <2>. QED
    BY <2>1 DEF ToSet, Row
<1>4. CASE Len(tail) < MaxHist
  <2>1. tail' = Append(tail, x) /\ gap' = gap
    BY <1>4 DEF Retain
  <2>2. /\ tail' \in Seq(Row) /\ TailOf(tail', gap', liveCursor')
        /\ ToSet(tail) \cup {x} \subseteq ToSet(tail')
    BY <1>1, <2>1, TailAppend
  <2>3. ReplayCovers'
    <3>. SUFFICES ASSUME NEW ev \in ToSet(feed')
                  PROVE  ev \in ToSet(stored) \cup ToSet(tail') \/ ev.seq <= gap'
      BY DEF ReplayCovers, ToSet
    <3>. QED
      BY <1>2, <1>3, <2>1, <2>2
  <2>. QED
    BY <1>1, <2>1, <2>2, <2>3 DEF TailOrdered
<1>5. CASE ~(Len(tail) < MaxHist)
  <2>1. tail' = Append(Tail(tail), x) /\ gap' = Head(tail).seq
    BY <1>5 DEF Retain
  <2>2. tail # <<>>
    <3>1. Len(tail) \in Nat /\ MaxHist \in Nat \ {0}
      BY <1>1, LenProperties, PublicationAssumption
    <3>2. Len(tail) # 0
      BY <1>5, <3>1
    <3>. QED
      BY <1>1, <3>2, EmptySeq
  <2>3. /\ Tail(tail) \in Seq(Row) /\ gap' \in Nat /\ gap < gap'
        /\ TailOf(Tail(tail), gap', liveCursor)
        /\ \A ev \in ToSet(tail) : ev \in ToSet(Tail(tail)) \/ ev.seq <= gap'
    BY <1>1, <2>1, <2>2, TailDrop
  <2>4. /\ tail' \in Seq(Row) /\ TailOf(tail', gap', liveCursor')
        /\ ToSet(Tail(tail)) \cup {x} \subseteq ToSet(tail')
    BY <1>1, <2>1, <2>3, TailAppend
  <2>5. ReplayCovers'
    <3>. SUFFICES ASSUME NEW ev \in ToSet(feed')
                  PROVE  ev \in ToSet(stored) \cup ToSet(tail') \/ ev.seq <= gap'
      BY DEF ReplayCovers, ToSet
    <3>1. CASE ev = x
      BY <2>4, <3>1
    <3>2. CASE ev \in ToSet(feed)
      <4>1. CASE ev \in ToSet(stored)
        BY <4>1
      <4>2. CASE ev \in ToSet(tail)
        BY <2>3, <2>4, <4>2
      <4>3. CASE ev.seq <= gap
        <5>1. ev.seq \in Nat
          BY <1>3a, <3>2
        <5>. QED
          BY <1>1, <2>3, <4>3, <5>1
      <4>. QED
        BY <1>3, <3>2, <4>1, <4>2, <4>3
    <3>. QED
      BY <1>2, <3>1, <3>2
  <2>. QED
    BY <2>3, <2>4, <2>5 DEF TailOrdered
<1>. QED
  BY <1>4, <1>5

\* The head that was written is still in the queue, and it is a row.
LEMMA QueuedRows ==
    ASSUME IInv, HandOver
    PROVE  ToSet(stored) \cup {queue[i].event : i \in DOMAIN queue} = Rows
<1>. DEFINE Queued == ToSet(stored) \cup {queue[i].event : i \in DOMAIN queue}
<1>0. queue \in Seq(Entry) /\ Len(queue) \in Nat /\ DOMAIN queue = 1 .. Len(queue)
  BY LenProperties DEF IInv, Types
<1>1. CASE ~applied
  BY <1>1 DEF Rows, Left
<1>2. CASE applied
  <2>1. queue # <<>> /\ Left = Tail(queue)
    BY <1>2 DEF Left, IInv, Sequenced
  <2>2. /\ Len(Left) = Len(queue) - 1 /\ Left \in Seq(Entry)
        /\ \A i \in 1 .. Len(Left) : Left[i] = queue[i + 1]
    BY <1>0, <2>1, HeadTailProperties
  <2>3. DOMAIN Left = 1 .. (Len(queue) - 1)
    BY <2>2, LenProperties
  <2>4. queue[1].event \in ToSet(stored)
    <3>1. stored # <<>> /\ stored[Len(stored)] = queue[1].event
      BY <1>2 DEF HandOver, HeadWritten, Head1
    <3>2. Len(stored) \in DOMAIN stored
      BY <3>1, EmptySeq, StoredFacts
    <3>. QED
      BY <3>1, <3>2 DEF ToSet
  <2>5. ASSUME NEW i \in DOMAIN queue
        PROVE  queue[i].event \in Rows
    <3>1. CASE i = 1
      BY <2>4, <3>1 DEF Rows
    <3>2. CASE i # 1
      <4>1. i - 1 \in DOMAIN Left /\ (i - 1) + 1 = i
        BY <1>0, <2>3, <3>2
      <4>2. Left[i - 1] = queue[(i - 1) + 1]
        BY <2>2, <2>3, <4>1
      <4>. QED
        BY <4>1, <4>2 DEF Rows
    <3>. QED
      BY <3>1, <3>2
  <2>6. ASSUME NEW i \in DOMAIN Left
        PROVE  Left[i].event \in Queued
    <3>1. i + 1 \in DOMAIN queue /\ Left[i] = queue[i + 1]
      BY <1>0, <2>2, <2>3
    <3>. QED
      BY <3>1
  <2>. QED
    BY <2>5, <2>6 DEF Rows
<1>. QED
  BY <1>1, <1>2

\* A writer's event is found where it is: durable, or in the queue.
LEMMA AcceptedIs ==
    ASSUME IInv, HandOver, NEW x \in Rows
    PROVE  Accepted(x.by) = x
<1>1. Accepted(x.by) = CHOOSE ev \in Rows : ev.by = x.by
  BY QueuedRows DEF Accepted
<1>2. \A ev \in Rows : ev.by = x.by => ev = x
  BY DEF HandOver, Once
<1>. QED
  BY <1>1, <1>2

\* What follows the feed when an emitter publishes is its event, alone.
LEMMA OneToShow ==
    ASSUME IInv, HandOver, Shown, NEW e \in Emitters, pc[e] = "publish"
    PROVE  /\ Accepted(e) \in Row /\ Accepted(e).by = e
           /\ Accepted(e).seq = last /\ liveCursor < last
           /\ Len(Log) \in 1 .. Len(Log) /\ Log[Len(Log)] = Accepted(e)
           /\ \A i \in 1 .. Len(Log) - 1 : Log[i].seq <= liveCursor \/ Log[i].by \in Told
           /\ lease # None
<1>1. mu = e /\ lease # None /\ \A d \in Emitters : pc[d] = "publish" => d = e
  BY OnePublisher DEF HandOver
<1>2. PICK x \in Rows : x.by = e /\ x.seq = last
  BY DEF Shown, Publishing
<1>3. liveCursor < last /\ liveCursor \in Nat /\ last \in Nat
  BY DEF Shown, Publishing, ShowTypes, IInv, Types
<1>4. Accepted(e) = x /\ x \in Row
  BY <1>2, AcceptedIs, RowType
<1>5. LogOrdered /\ LeftOrdered
  BY LogInSequence, LeftFacts DEF Shown
<1>6. \A w \in Writers : w \in Unseen => w = e \/ w \in Told
  BY <1>1 DEF HandOver, Locks, Holding, Gone, Writers, Unseen, Told
<1>7. ASSUME NEW i \in 1 .. Len(Log)
      PROVE  Log[i].seq <= liveCursor \/ Log[i].by \in Told \/ Log[i] = x
  <2>1. Log[i].seq <= liveCursor \/ Log[i].by \in Unseen
    <3>1. CASE i <= Len(stored)
      <4>1. i \in DOMAIN stored /\ Log[i] = stored[i]
        BY <1>5, <3>1, StoredFacts DEF LogOrdered
      <4>. QED
        BY <1>1, <4>1 DEF Shown, StoredShown
    <3>2. CASE ~(i <= Len(stored))
      <4>1. Len(stored) < i
        BY <1>5, <3>2 DEF LogOrdered
      <4>2. PICK k \in DOMAIN Left : Left[k].chat # None /\ Log[i] = Left[k].event
        BY <1>5, <4>1 DEF LogOrdered
      <4>. QED
        BY <4>2 DEF Shown, LeftShown
    <3>. QED
      BY <3>1, <3>2
  <2>2. Log[i] \in Rows
    BY <1>5 DEF LogOrdered
  <2>3. Log[i].by \in Writers
    BY <2>2, RowType
  <2>. QED
    BY <1>2, <1>6, <2>1, <2>2, <2>3 DEF HandOver, Once
<1>8. PICK n \in 1 .. Len(Log) : Log[n] = x
  <2>1. CASE x \in ToSet(stored)
    <3>1. PICK k \in DOMAIN stored : x = stored[k]
      BY <2>1 DEF ToSet
    <3>2. k \in 1 .. Len(stored) /\ Log[k] = x /\ k \in 1 .. Len(Log)
      BY <1>5, <3>1, StoredFacts DEF LogOrdered
    <3>. QED
      BY <3>2
  <2>2. CASE \E k \in DOMAIN Left : x = Left[k].event
    <3>1. PICK k \in DOMAIN Left : x = Left[k].event
      BY <2>2
    <3>2. Left[k].chat # None
      BY <1>1, <1>5 DEF LeftOrdered
    <3>. QED
      BY <1>5, <3>1, <3>2 DEF LogOrdered
  <2>. QED
    BY <2>1, <2>2 DEF Rows
<1>9. n = Len(Log)
  <2>1. SUFFICES ASSUME n < Len(Log)
                 PROVE  FALSE
    BY <1>5 DEF LogOrdered
  <2>2. Len(Log) \in 1 .. Len(Log)
    BY <1>5 DEF LogOrdered
  <2>3. Log[n].seq < Log[Len(Log)].seq
    BY <1>5, <2>1, <2>2 DEF LogOrdered
  <2>4. Log[Len(Log)].seq <= last /\ Log[Len(Log)].seq \in Nat
    BY <1>5, <2>2 DEF LogOrdered
  <2>. QED
    BY <1>2, <1>3, <1>8, <2>3, <2>4
<1>10. ASSUME NEW i \in 1 .. Len(Log) - 1
       PROVE  Log[i].seq <= liveCursor \/ Log[i].by \in Told
  <2>1. i \in 1 .. Len(Log) /\ i < n
    BY <1>5, <1>9 DEF LogOrdered
  <2>2. Log[i].seq < x.seq
    BY <1>5, <1>8, <2>1 DEF LogOrdered
  <2>3. Log[i] # x
    BY <1>2, <1>3, <2>2
  <2>. QED
    BY <1>7, <2>1, <2>3
<1>. QED
  BY <1>1, <1>2, <1>3, <1>4, <1>8, <1>9, <1>10

\* Shown, declined or left unshown: the log is as it was, and the live cursor is
\* at its end or where it was.
LEMMA PublishCases ==
    ASSUME IInv, HandOver, Shown, NEW e \in Emitters, EmitterPublish(e)
    PROVE  /\ UNCHANGED <<last, lease, queue, applied, stored, cursor, through, Left, Log>>
           /\ \/ /\ Retain(Accepted(e)) /\ feed' = Append(feed, Accepted(e))
                 /\ liveCursor' = last /\ Move(e, "done")
              \/ /\ e \in Gated /\ liveCursor' = last /\ Move(e, "done")
                 /\ UNCHANGED <<feed, tail, gap>>
              \/ Move(e, "unshown") /\ UNCHANGED <<liveCursor, feed, tail, gap>>
<1>1. Accepted(e).seq = last /\ liveCursor < last
  BY OneToShow DEF EmitterPublish
<1>2. last \in Nat /\ liveCursor \in Nat
  BY DEF IInv, Types, Shown, ShowTypes
<1>3. ~(last <= liveCursor)
  BY <1>1, <1>2
<1>4. UNCHANGED <<last, lease, queue, applied, stored, cursor, through, Left>>
  BY DEF EmitterPublish, storeVars, admissionVars, diskVars, Left
<1>5. Log' = Log
  BY <1>4, LogIsLogOf
<1>. QED
  BY <1>1, <1>3, <1>4, <1>5 DEF EmitterPublish

LEMMA PublishShown ==
    ASSUME IInv, HandOver, Shown, [Next]_vars, NEW e \in Emitters, EmitterPublish(e)
    PROVE  Shown'
<1>. DEFINE x == Accepted(e)
<1>1. /\ x \in Row /\ x.seq = last /\ liveCursor < last
      /\ Len(Log) \in 1 .. Len(Log) /\ Log[Len(Log)] = x /\ lease # None
  BY OneToShow DEF EmitterPublish
<1>2. last \in Nat /\ liveCursor \in Nat /\ feed \in Seq(Row) /\ tail \in Seq(Row) /\ gap \in Nat
  BY DEF IInv, Types, Shown, ShowTypes
<1>3. UNCHANGED <<last, lease, stored, cursor, through, Left, Log>>
  BY PublishCases
<1>4. \/ /\ Retain(x) /\ feed' = Append(feed, x)
         /\ liveCursor' = last /\ Move(e, "done")
      \/ liveCursor' = last /\ Move(e, "done") /\ UNCHANGED <<feed, tail, gap>>
      \/ Move(e, "unshown") /\ UNCHANGED <<liveCursor, feed, tail, gap>>
  BY PublishCases
<1>. HIDE DEF x
<1>5. liveCursor' = last \/ (liveCursor' = liveCursor /\ Move(e, "unshown"))
  BY <1>4
<1>6. liveCursor' \in Nat /\ liveCursor <= liveCursor' /\ liveCursor' <= last
  BY <1>1, <1>2, <1>5
<1>7. LogOrdered /\ LeftOrdered
  BY LogInSequence, LeftFacts DEF Shown
<1>8. tail' \in Seq(Row) /\ gap' \in Nat /\ TailOrdered' /\ ReplayCovers'
  <2>1. CASE Retain(x) /\ feed' = Append(feed, x) /\ liveCursor' = last
    <3>1. ShowTypes /\ TailOrdered /\ ReplayCovers /\ liveCursor' = x.seq /\ liveCursor < x.seq
      BY <1>1, <2>1 DEF Shown
    <3>. QED
      BY <1>1, <1>3, <2>1, <3>1, Retained
  <2>2. CASE UNCHANGED <<feed, tail, gap>>
    <3>1. \A i \in DOMAIN tail : tail[i].seq \in Nat
      <4>1. \A i \in DOMAIN tail : tail[i] \in Row
        BY <1>2, ElementOfSeq, LenProperties
      <4>. QED
        BY <4>1 DEF Row
    <3>2. TailOf(tail, gap, liveCursor')
      BY <1>2, <1>6, <3>1 DEF Shown, TailOrdered, TailOf
    <3>3. ReplayCovers
      BY DEF Shown
    <3>. QED
      BY <1>2, <1>3, <2>2, <3>2, <3>3 DEF TailOrdered, ReplayCovers, ToSet
  <2>. QED
    BY <1>4, <2>1, <2>2
<1>9. feed' \in Seq(Row) /\ FeedLogged'
  <2>1. FeedLogged
    BY DEF Shown
  <2>2. CASE feed' = Append(feed, x)
    <3>1. feed' \in Seq(Row) /\ \A ev \in ToSet(feed') : ev \in ToSet(feed) \/ ev = x
      BY <1>1, <1>2, <2>2, ToSetAppend
    <3>2. LoggedIn(feed', Log)
      BY <1>1, <2>1, <3>1 DEF FeedLogged, LoggedIn
    <3>. QED
      BY <1>3, <3>1, <3>2 DEF FeedLogged
  <2>3. CASE feed' = feed
    BY <1>2, <1>3, <2>1, <2>3 DEF FeedLogged
  <2>. QED
    BY <1>4, <2>2, <2>3
<1>10. ShowTypes'
  BY <1>3, <1>6, <1>8, <1>9 DEF Shown, ShowTypes
<1>11. Cursors'
  <2>1. cursor \in Nat /\ cursor <= liveCursor
    BY DEF Shown, Cursors, ShowTypes
  <2>. QED
    BY <1>2, <1>3, <1>6, <2>1 DEF Cursors
<1>12. Publishing'
  <2>1. \A d \in Emitters : pc[d] = "publish" => d = e
    BY OnePublisher DEF EmitterPublish, HandOver
  <2>2. \A d \in Emitters : pc'[d] # "publish"
    BY <1>4, <2>1 DEF Move, IInv, Types, Writers
  <2>. QED
    BY <2>2 DEF Publishing
<1>13. Move(e, "unshown") => Unseen \subseteq Unseen'
  BY DEF Move, IInv, Types, Unseen, Writers
<1>14. LeftShown'
  <2>. SUFFICES ASSUME NEW i \in DOMAIN Left
                PROVE  IF Left[i].chat = None THEN liveCursor' < Left[i].event.seq
                       ELSE Left[i].event.seq <= liveCursor' \/ Left[i].event.by \in Unseen'
    BY <1>3 DEF LeftShown
  <2>1. Left[i].chat # None /\ Left[i].event.seq <= last
    BY <1>1, <1>7 DEF LeftOrdered
  <2>2. Left[i].event.seq <= liveCursor \/ Left[i].event.by \in Unseen
    BY <2>1 DEF Shown, LeftShown
  <2>. QED
    BY <1>5, <1>13, <2>1, <2>2
<1>15. StoredShown'
  <2>. SUFFICES ASSUME NEW k \in DOMAIN stored
                PROVE  stored[k].seq <= liveCursor' \/ stored[k].by \in Unseen'
    BY <1>3 DEF StoredShown
  <2>1. stored[k].seq \in Nat /\ stored[k].seq <= highWater /\ highWater \in Nat /\ highWater <= last
    BY StoredFacts
  <2>2. stored[k].seq <= last
    BY <1>2, <2>1
  <2>3. stored[k].seq <= liveCursor \/ stored[k].by \in Unseen
    BY <1>1 DEF Shown, StoredShown
  <2>. QED
    BY <1>5, <1>13, <2>2, <2>3
<1>16. ChatsFirst'
  BY <1>3 DEF Shown, ChatsFirst
<1>. QED
  BY <1>8, <1>9, <1>10, <1>11, <1>12, <1>14, <1>15, <1>16 DEF Shown

-----------------------------------------------------------------------------
(* The drain goes along the rows.                                          *)

LEMMA WatermarkType ==
    ASSUME IInv, through \in Nat
    PROVE  Watermark \in Nat
<1>. DEFINE S == {0} \cup {ev.seq : ev \in ToSet(stored)}
<1>1. \A ev \in ToSet(stored) : ev.seq \in Nat /\ ev.seq <= highWater
  BY StoredFacts DEF ToSet
<1>2. highWater \in Nat
  BY StoredFacts
<1>3. S \subseteq Nat /\ S # {} /\ \A y \in S : y <= highWater
  BY <1>1, <1>2
<1>4. Watermark = IF through = 0 THEN Max(S) ELSE through
  BY DEF Watermark
<1>. HIDE DEF S
<1>5. Max(S) \in S
  BY <1>2, <1>3, BoundedMax
<1>. QED
  BY <1>3, <1>4, <1>5

\* The part of a sequence between two of its places.
BlockOf(block, s, a, b) ==
    /\ block \in Seq(Row)
    /\ Len(block) = b - a
    /\ \A i \in 1 .. b - a : block[i] = s[a + i]

LEMMA SubSeqBlock ==
    ASSUME NEW s \in Seq(Row), NEW a \in 0 .. Len(s), NEW b \in a .. Len(s)
    PROVE  BlockOf(SubSeq(s, a + 1, b), s, a, b)
<1>1. Len(s) \in Nat /\ a \in Nat /\ b \in Nat /\ a <= b /\ b <= Len(s)
  BY LenProperties
<1>2. \A i \in a + 1 .. b : s[i] \in Row
  BY <1>1, ElementOfSeq
<1>3. /\ SubSeq(s, a + 1, b) \in Seq(Row)
      /\ Len(SubSeq(s, a + 1, b)) = IF a + 1 <= b THEN b - (a + 1) + 1 ELSE 0
      /\ \A i \in 1 .. b - (a + 1) + 1 : SubSeq(s, a + 1, b)[i] = s[(a + 1) + i - 1]
  BY <1>1, <1>2, SubSeqProperties
<1>4. Len(SubSeq(s, a + 1, b)) = b - a
  BY <1>1, <1>3
<1>5. b - (a + 1) + 1 = b - a /\ \A i \in 1 .. b - a : (a + 1) + i - 1 = a + i
  BY <1>1
<1>. QED
  BY <1>3, <1>4, <1>5 DEF BlockOf

LEMMA Retired ==
    ASSUME ShowTypes, TailOrdered, NEW s \in Nat, Retire(s), liveCursor' \in Nat,
           liveCursor <= liveCursor'
    PROVE  /\ tail' \in Seq(Row) /\ gap' \in Nat /\ TailOrdered'
           /\ \A ev \in ToSet(tail) : ev \in ToSet(tail') \/ ev.seq <= s
           /\ gap' = gap \/ gap <= s
<1>. DEFINE S == {k \in 0 .. Len(tail) : \A i \in 1 .. k : tail[i].seq <= s}
            n == FirstRetained(s)
<1>1. /\ tail \in Seq(Row) /\ Len(tail) \in Nat /\ DOMAIN tail = 1 .. Len(tail)
      /\ gap \in Nat /\ liveCursor \in Nat /\ TailOf(tail, gap, liveCursor)
  BY LenProperties DEF ShowTypes, TailOrdered
<1>2. n \in 0 .. Len(tail) /\ \A i \in 1 .. n : tail[i].seq <= s
  <2>1. n = Max(S)
    BY DEF FirstRetained
  <2>2. S \subseteq Nat /\ 0 \in S /\ \A k \in S : k <= Len(tail)
    BY <1>1
  <2>3. Max(S) \in S
    <3>. HIDE DEF S
    <3>1. S # {}
      BY <2>2
    <3>. QED
      BY <1>1, <2>2, <3>1, BoundedMax
  <2>. QED
    BY <2>1, <2>3
<1>3. tail' = SubSeq(tail, n + 1, Len(tail)) /\ gap' = IF gap <= s THEN 0 ELSE gap
  BY DEF Retire
<1>. HIDE DEF n
<1>4. BlockOf(tail', tail, n, Len(tail))
  <2>1. Len(tail) \in n .. Len(tail)
    BY <1>1, <1>2
  <2>. QED
    BY <1>1, <1>2, <1>3, <2>1, SubSeqBlock
<1>5. tail' \in Seq(Row) /\ DOMAIN tail' = 1 .. Len(tail) - n
      /\ \A i \in 1 .. Len(tail) - n : tail'[i] = tail[n + i]
  BY <1>4, LenProperties DEF BlockOf
<1>6. \A i \in DOMAIN tail' : n + i \in DOMAIN tail /\ tail'[i] = tail[n + i]
  BY <1>1, <1>2, <1>5
<1>7. gap' \in Nat /\ gap' <= gap
  BY <1>1, <1>3
<1>8. \A i \in DOMAIN tail : tail[i].seq \in Nat
  <2>1. \A i \in DOMAIN tail : tail[i] \in Row
    BY <1>1, ElementOfSeq
  <2>. QED
    BY <2>1 DEF Row
<1>9. TailOrdered'
  <2>1. ASSUME NEW i \in DOMAIN tail', NEW j \in DOMAIN tail', i < j
        PROVE  tail'[i].seq < tail'[j].seq
    <3>1. n + i < n + j
      BY <1>2, <1>5, <2>1
    <3>. QED
      BY <1>1, <1>6, <3>1 DEF TailOf
  <2>2. ASSUME NEW i \in DOMAIN tail'
        PROVE  gap' < tail'[i].seq /\ tail'[i].seq <= liveCursor'
    <3>1. gap < tail[n + i].seq /\ tail[n + i].seq <= liveCursor /\ tail[n + i].seq \in Nat
      BY <1>1, <1>6, <1>8 DEF TailOf
    <3>2. tail'[i] = tail[n + i]
      BY <1>6
    <3>. QED
      BY <1>1, <1>7, <3>1, <3>2
  <2>3. gap' <= liveCursor'
    <3>1. gap <= liveCursor
      BY <1>1 DEF TailOf
    <3>. QED
      BY <1>1, <1>7, <3>1
  <2>. QED
    BY <2>1, <2>2, <2>3 DEF TailOrdered, TailOf
<1>10. ASSUME NEW ev \in ToSet(tail)
       PROVE  ev \in ToSet(tail') \/ ev.seq <= s
  <2>1. PICK i \in DOMAIN tail : ev = tail[i]
    BY DEF ToSet
  <2>2. CASE i <= n
    BY <1>1, <1>2, <2>1, <2>2
  <2>3. CASE ~(i <= n)
    <3>1. i - n \in DOMAIN tail' /\ n + (i - n) = i
      BY <1>1, <1>2, <1>5, <2>3
    <3>2. tail'[i - n] = tail[n + (i - n)]
      BY <1>6, <3>1
    <3>. QED
      BY <2>1, <3>1, <3>2 DEF ToSet
  <2>. QED
    BY <2>2, <2>3
<1>. QED
  BY <1>1, <1>3, <1>5, <1>7, <1>9, <1>10

\* The row a drain takes is the first one after its cursor.
LEMMA NextIs ==
    ASSUME IInv, Shown, Undrained # {}
    PROVE  \E k \in 1 .. Len(stored) :
              /\ NextRow = stored[k]
              /\ \A i \in 1 .. Len(stored) : i < k => stored[i].seq <= liveCursor
<1>1. /\ Len(stored) \in Nat /\ DOMAIN stored = 1 .. Len(stored)
      /\ \A k \in 1 .. Len(stored) : stored[k].seq \in Nat /\ stored[k] \in ToSet(stored)
      /\ \A i, j \in 1 .. Len(stored) : i < j => stored[i].seq < stored[j].seq
  BY StoredFacts
<1>2. cursor \in Nat /\ liveCursor \in Nat /\ cursor <= liveCursor /\ Watermark \in Nat
  BY WatermarkType DEF Shown, ShowTypes, Cursors
<1>3. \A ev \in Undrained : ev \in ToSet(stored) /\ ev.seq \in Nat /\ cursor < ev.seq /\ ev.seq <= Watermark
  BY <1>1, <1>2 DEF Undrained, ToSet
<1>4. \E ev \in Undrained : \A other \in Undrained : ev.seq <= other.seq
  <2>. DEFINE S == {ev.seq : ev \in Undrained}
  <2>1. S \subseteq Nat /\ S # {}
    BY <1>3
  <2>2. PICK m \in S : \A k \in Nat : k < m => k \notin S
    <3>. HIDE DEF S
    <3>. QED
      BY <2>1, LeastNumber
  <2>3. PICK ev \in Undrained : ev.seq = m
    OBVIOUS
  <2>4. \A other \in Undrained : other.seq \in S /\ other.seq \in Nat
    BY <1>3
  <2>5. \A other \in Undrained : ev.seq <= other.seq
    BY <1>3, <2>2, <2>3, <2>4
  <2>. QED
    BY <2>5
<1>5. NextRow \in Undrained /\ \A other \in Undrained : NextRow.seq <= other.seq
  BY <1>4 DEF NextRow
<1>6. PICK k \in 1 .. Len(stored) : NextRow = stored[k]
  BY <1>1, <1>3, <1>5 DEF ToSet
<1>7. ASSUME NEW i \in 1 .. Len(stored), i < k
      PROVE  stored[i].seq <= liveCursor
  <2>1. stored[i].seq < NextRow.seq /\ NextRow.seq <= Watermark /\ NextRow.seq \in Nat
    BY <1>1, <1>3, <1>5, <1>6, <1>7
  <2>2. stored[i] \notin Undrained
    BY <1>1, <1>5, <2>1
  <2>3. ~(stored[i].seq > cursor)
    BY <1>1, <1>2, <2>1, <2>2 DEF Undrained
  <2>. QED
    BY <1>1, <1>2, <2>3
<1>. QED
  BY <1>6, <1>7

\* One row: what it does to the cursors, the feed and the accepted tail.
LEMMA DrainRowIs ==
    ASSUME IInv, HandOver, Shown, NEW w \in Writers, DrainRow(w)
    PROVE  /\ UNCHANGED <<last, lease, queue, applied, stored, Left, Log>>
           /\ pc[w] = "drain" /\ (UNCHANGED pc \/ Move(w, "done"))
           /\ \E k \in 1 .. Len(stored) :
                 /\ NextRow = stored[k]
                 /\ \A i \in 1 .. Len(stored) : i < k => stored[i].seq <= liveCursor
                 /\ cursor' = stored[k].seq
                 /\ liveCursor' = IF stored[k].seq > liveCursor THEN stored[k].seq ELSE liveCursor
                 /\ Retire(stored[k].seq)
                 /\ feed' = feed \/ feed' = Append(feed, stored[k])
<1>1. PICK k \in 1 .. Len(stored) :
        /\ NextRow = stored[k]
        /\ \A i \in 1 .. Len(stored) : i < k => stored[i].seq <= liveCursor
  BY NextIs DEF DrainRow
<1>2. /\ cursor' = stored[k].seq
      /\ liveCursor' = IF stored[k].seq > liveCursor THEN stored[k].seq ELSE liveCursor
      /\ Retire(stored[k].seq)
      /\ feed' = feed \/ feed' = Append(feed, stored[k])
      /\ pc[w] = "drain" /\ (UNCHANGED pc \/ Move(w, "done"))
  BY <1>1 DEF DrainRow
<1>3. UNCHANGED <<last, lease, queue, applied, stored, Left>>
  BY DEF DrainRow, storeVars, admissionVars, diskVars, Left
<1>4. Log' = Log
  BY <1>3, LogIsLogOf
<1>. QED
  BY <1>1, <1>2, <1>3, <1>4

LEMMA DrainShown ==
    ASSUME IInv, HandOver, Shown, NEW w \in Writers, DrainRow(w)
    PROVE  Shown'
<1>1. /\ stored \in Seq(Row) /\ Len(stored) \in Nat /\ DOMAIN stored = 1 .. Len(stored)
      /\ \A k \in 1 .. Len(stored) :
            stored[k].seq \in Nat /\ stored[k].seq <= highWater /\ stored[k] \in ToSet(stored)
      /\ highWater \in Nat /\ last \in Nat /\ highWater <= last
  BY StoredFacts
<1>2. /\ liveCursor \in Nat /\ cursor \in Nat /\ through \in Nat /\ gap \in Nat
      /\ feed \in Seq(Row) /\ Len(feed) \in Nat /\ DOMAIN feed = 1 .. Len(feed)
      /\ cursor <= liveCursor /\ liveCursor <= last
  BY LenProperties DEF Shown, ShowTypes, Cursors
<1>3. PICK b \in 1 .. Len(stored) :
        /\ cursor' = stored[b].seq
        /\ liveCursor' = IF stored[b].seq > liveCursor THEN stored[b].seq ELSE liveCursor
        /\ Retire(stored[b].seq)
        /\ feed' = feed \/ feed' = Append(feed, stored[b])
  BY DrainRowIs
<1>4. stored[b].seq \in Nat /\ stored[b].seq <= highWater
  BY <1>1
<1>5. liveCursor' \in Nat /\ liveCursor <= liveCursor' /\ cursor' <= liveCursor'
      /\ (liveCursor' = liveCursor \/ liveCursor' <= highWater)
  BY <1>2, <1>3, <1>4
<1>6. UNCHANGED <<last, lease, stored>> /\ Left' = Left /\ Log' = Log
  BY DrainRowIs
<1>7. feed' \in Seq(Row) /\ \A ev \in ToSet(feed') : ev \in ToSet(feed) \cup ToSet(stored)
  <2>1. stored[b] \in Row /\ stored[b] \in ToSet(stored)
    BY StoredFacts
  <2>2. CASE feed' = feed
    BY <1>2, <2>2
  <2>3. CASE feed' = Append(feed, stored[b])
    BY <1>2, <2>1, <2>3, ToSetAppend
  <2>. QED
    BY <1>3, <2>2, <2>3
<1>8. LogOrdered /\ LeftOrdered
  BY LogInSequence, LeftFacts DEF Shown
<1>9. /\ tail' \in Seq(Row) /\ gap' \in Nat /\ TailOrdered'
      /\ \A ev \in ToSet(tail) : ev \in ToSet(tail') \/ ev.seq <= stored[b].seq
      /\ gap' = gap \/ gap <= stored[b].seq
  BY <1>3, <1>4, <1>5, Retired DEF Shown
<1>10. \A d \in Emitters : pc[d] # "publish" /\ pc'[d] # "publish"
  <2>1. pc[w] = "drain" /\ (UNCHANGED pc \/ Move(w, "done"))
    BY DrainRowIs
  <2>2. mu = w
    BY <2>1 DEF HandOver, Locks, Holding, Writers
  <2>3. \A d \in Emitters : pc[d] # "publish"
    BY <2>1, <2>2, OnePublisher DEF HandOver
  <2>4. \A d \in Emitters : pc'[d] = pc[d] \/ pc'[d] = "done"
    BY <2>1 DEF Move, IInv, Types, Writers
  <2>. QED
    BY <2>3, <2>4
<1>11. Unseen \subseteq Unseen'
  <2>1. pc[w] = "drain" /\ (UNCHANGED pc \/ Move(w, "done"))
    BY DrainRowIs
  <2>. QED
    BY <2>1 DEF Move, IInv, Types, Unseen
<1>12. ShowTypes'
  <2>1. through' \in Nat
    <3>1. Watermark \in Nat
      BY <1>2, WatermarkType
    <3>. QED
      BY <3>1 DEF DrainRow
  <2>. QED
    BY <1>3, <1>4, <1>5, <1>7, <1>9, <2>1 DEF ShowTypes
<1>13. Cursors'
  BY <1>1, <1>2, <1>5, <1>6 DEF Cursors
<1>14. Publishing'
  BY <1>10 DEF Publishing
<1>15. LeftShown'
  <2>. SUFFICES ASSUME NEW i \in DOMAIN Left
                PROVE  IF Left[i].chat = None THEN liveCursor' < Left[i].event.seq
                       ELSE Left[i].event.seq <= liveCursor' \/ Left[i].event.by \in Unseen'
    BY <1>6 DEF LeftShown
  <2>1. /\ Left[i].event.seq \in Nat /\ highWater < Left[i].event.seq
        /\ Left[i].event.by \in Writers
    BY <1>8 DEF LeftOrdered
  <2>2. IF Left[i].chat = None THEN liveCursor < Left[i].event.seq
        ELSE Left[i].event.seq <= liveCursor \/ Left[i].event.by \in Unseen
    BY DEF Shown, LeftShown
  <2>3. CASE Left[i].chat = None
    BY <1>1, <1>2, <1>5, <2>1, <2>2, <2>3
  <2>4. CASE Left[i].chat # None
    <3>1. CASE Left[i].event.seq <= liveCursor
      BY <1>2, <1>5, <2>1, <2>4, <3>1
    <3>2. CASE Left[i].event.by \in Unseen
      BY <1>11, <2>4, <3>2
    <3>. QED
      BY <2>2, <2>4, <3>1, <3>2
  <2>. QED
    BY <2>3, <2>4
<1>16. StoredShown'
  <2>. SUFFICES ASSUME lease # None \/ (\E i \in DOMAIN Left : Left[i].chat # None),
                       NEW k \in DOMAIN stored
                PROVE  stored[k].seq <= liveCursor' \/ stored[k].by \in Unseen'
    BY <1>6 DEF StoredShown
  <2>1. stored[k].seq \in Nat
    BY StoredFacts
  <2>2. stored[k].seq <= liveCursor \/ stored[k].by \in Unseen
    BY DEF Shown, StoredShown
  <2>. QED
    BY <1>2, <1>5, <1>11, <2>1, <2>2
<1>17. FeedLogged'
  <2>1. \A k \in 1 .. Len(stored) : k \in 1 .. Len(Log) /\ Log[k] = stored[k]
    BY <1>1, <1>8 DEF LogOrdered
  <2>1a. \A ev \in ToSet(stored) : \E i \in 1 .. Len(Log) : Log[i] = ev
    BY <1>1, <2>1 DEF ToSet
  <2>2. LoggedIn(feed', Log)
    BY <1>7, <2>1a DEF Shown, FeedLogged, LoggedIn
  <2>. QED
    BY <1>6, <2>2 DEF FeedLogged
<1>18. ReplayCovers'
  <2>1. ASSUME NEW ev \in ToSet(feed), ev.seq <= stored[b].seq
        PROVE  ev \in ToSet(stored)
    <3>2. PICK i \in 1 .. Len(Log) : ev = Log[i]
      BY DEF Shown, FeedLogged, LoggedIn
    <3>3. Log[i].seq <= highWater
      <4>1. Log[i].seq \in Nat
        BY <1>8, <3>2 DEF LogOrdered
      <4>. QED
        BY <1>1, <1>4, <2>1, <3>2, <4>1
    <3>4. i \in 1 .. Len(stored) /\ Log[i] = stored[i]
      BY <1>1, <1>8, <3>2, <3>3 DEF LogOrdered
    <3>. QED
      BY <1>1, <3>2, <3>4
  <2>2. \A ev \in ToSet(feed) : ev.seq \in Nat
    <3>1. \A i \in DOMAIN feed : feed[i] \in Row
      BY <1>2, ElementOfSeq
    <3>. QED
      BY <3>1 DEF ToSet, Row
  <2>3. ASSUME NEW ev \in ToSet(feed')
        PROVE  ev \in ToSet(stored) \cup ToSet(tail') \/ ev.seq <= gap'
    <3>1. CASE ev \in ToSet(stored)
      BY <3>1
    <3>2. CASE ev \in ToSet(feed)
      <4>1. ev \in ToSet(stored) \cup ToSet(tail) \/ ev.seq <= gap
        BY <3>2 DEF Shown, ReplayCovers
      <4>2. CASE ev \in ToSet(tail)
        BY <1>9, <2>1, <3>2, <4>2
      <4>3. CASE ev.seq <= gap
        <5>1. ev.seq \in Nat
          BY <2>2, <3>2
        <5>2. CASE gap' = gap
          BY <4>3, <5>2
        <5>3. CASE gap <= stored[b].seq
          <6>1. ev.seq <= stored[b].seq
            BY <1>2, <1>4, <4>3, <5>1, <5>3
          <6>. QED
            BY <2>1, <3>2, <6>1
        <5>. QED
          BY <1>9, <5>2, <5>3
      <4>. QED
        BY <3>1, <4>1, <4>2, <4>3
    <3>. QED
      BY <1>7, <3>1, <3>2
  <2>. QED
    BY <1>6, <2>3 DEF ReplayCovers, ToSet
<1>19. ChatsFirst'
  BY <1>6 DEF Shown, ChatsFirst
<1>. QED
  BY <1>9, <1>12, <1>13, <1>14, <1>15, <1>16, <1>17, <1>18, <1>19 DEF Shown

LEMMA ShownInit == Init => Shown
<1>. SUFFICES ASSUME Init
              PROVE  Shown
  OBVIOUS
<1>1. stored = <<>> /\ queue = <<>> /\ feed = <<>> /\ tail = <<>> /\ Left = <<>>
  BY DEF Init, Left
<1>2. DOMAIN Left = {} /\ DOMAIN stored = {} /\ DOMAIN tail = {} /\ DOMAIN feed = {}
  BY <1>1
<1>3. ShowTypes
  <2>1. <<>> \in Seq(Row)
    OBVIOUS
  <2>. QED
    BY <1>1, <2>1 DEF Init, ShowTypes
<1>4. ChatsFirst /\ Cursors /\ Publishing /\ LeftShown /\ StoredShown
  BY <1>2 DEF Init, ChatsFirst, Cursors, Publishing, LeftShown, StoredShown, Writers
<1>5. TailOrdered /\ ReplayCovers
  BY <1>2 DEF Init, TailOrdered, TailOf, ReplayCovers, ToSet
<1>6. FeedLogged
  BY <1>1 DEF FeedLogged, LoggedIn, ToSet
<1>. QED
  BY <1>3, <1>4, <1>5, <1>6 DEF Shown

FullInv == IInv /\ HandOver /\ Shown

LEMMA FullInvStep == FullInv /\ [Next]_vars => FullInv'
<1>. SUFFICES ASSUME FullInv, [Next]_vars
              PROVE  FullInv'
  OBVIOUS
<1>1. IInv' /\ HandOver'
  BY StepInv, HandOverStep DEF FullInv
<1>2. CASE ~ShowStep
  BY <1>1, <1>2, QuietShown DEF FullInv
<1>3. CASE \E e \in Emitters : EmitterPublish(e)
  BY <1>1, <1>3, PublishShown DEF FullInv
<1>4. CASE \E w \in Writers : DrainRow(w)
  BY <1>1, <1>4, DrainShown DEF FullInv
<1>. QED
  BY <1>2, <1>3, <1>4 DEF ShowStep

LEMMA FullInvariant == Spec => []FullInv
<1>1. Init => FullInv
  BY InitInv, HandOverInit, ShownInit DEF FullInv
<1>. QED
  BY <1>1, FullInvStep, PTL DEF Spec

\* Every event shown is durable, or still in the hub's accepted tail, or told
\* of as lost: a client that reconnects misses nothing without knowing it
\* (EventHub.retainAcceptedLocked, EventHub.MarkDurable).
THEOREM ReplayIsCovered == Spec => []ReplayCovers
<1>1. FullInv => ReplayCovers
  BY DEF FullInv, Shown
<1>. QED
  BY <1>1, FullInvariant, PTL

-----------------------------------------------------------------------------
(* One order.                                                              *)

LEMMA WritersBound ==
    ASSUME NEW S, S \subseteq Writers, NEW n \in Nat, n <= Cardinality(S)
    PROVE  n <= Cardinality(Writers) /\ Cardinality(Writers) \in Nat
<1>1. IsFiniteSet(Writers)
  BY SpentFinite
<1>2. Cardinality(S) \in Nat /\ Cardinality(Writers) \in Nat /\ Cardinality(S) <= Cardinality(Writers)
  BY <1>1, FS_Subset, FS_CardinalityType
<1>. QED
  BY <1>2

LEMMA EventIs ==
    ASSUME NEW x \in Row, x.seq \in 1 .. Cardinality(Writers)
    PROVE  x \in Event
BY DEF Row, Event

LEMMA RowsAreEvents ==
    ASSUME IInv, HandOver, NEW x \in Rows
    PROVE  x \in Event
<1>1. x \in Row /\ x.seq \in 1 .. last /\ last \in Nat
  BY RowType DEF HandOver, Once, IInv, Types
<1>2. last <= Cardinality(Writers) /\ Cardinality(Writers) \in Nat
  BY <1>1, WritersBound DEF HandOver, Spent
<1>3. x.seq \in 1 .. Cardinality(Writers)
  BY <1>1, <1>2
<1>. QED
  BY <1>1, <1>3, EventIs

\* How far a number has come in a sequence.
CountUpTo(s, v) == Cardinality({i \in DOMAIN s : s[i].seq <= v})

LEMMA CountIs ==
    ASSUME NEW s, InOrder(s), NEW v \in Nat, NEW c \in 0 .. Len(s),
           \A i \in 1 .. Len(s) : s[i].seq <= v <=> i <= c
    PROVE  CountUpTo(s, v) = c
<1>1. Len(s) \in Nat /\ DOMAIN s = 1 .. Len(s)
  BY LenProperties DEF InOrder
<1>2. {i \in DOMAIN s : s[i].seq <= v} = 1 .. c
  BY <1>1
<1>3. Cardinality(1 .. c) = c
  <2>1. c \in Nat
    BY <1>1
  <2>. QED
    BY <2>1, FS_Interval
<1>. QED
  BY <1>2, <1>3 DEF CountUpTo

LEMMA CountLonger ==
    ASSUME NEW s \in Seq(Row), NEW v \in Nat, NEW x \in Row, v < x.seq
    PROVE  CountUpTo(Append(s, x), v) = CountUpTo(s, v)
<1>1. /\ Len(s) \in Nat /\ DOMAIN s = 1 .. Len(s)
      /\ DOMAIN Append(s, x) = 1 .. Len(s) + 1
      /\ \A i \in 1 .. Len(s) : Append(s, x)[i] = s[i]
      /\ Append(s, x)[Len(s) + 1] = x
  BY AppendProperties, LenProperties
<1>2. ~(x.seq <= v)
  BY DEF Row
<1>3. {i \in DOMAIN Append(s, x) : Append(s, x)[i].seq <= v} = {i \in DOMAIN s : s[i].seq <= v}
  BY <1>1, <1>2
<1>. QED
  BY <1>3 DEF CountUpTo

LEMMA PassedCounts == Passed = CountUpTo(Log, liveCursor) /\ Passed' = CountUpTo(Log', liveCursor')
BY DEF Passed, CountUpTo

LEMMA LogInOrder1 ==
    ASSUME LogOrdered
    PROVE  InOrder(Log)
BY DEF LogOrdered, InOrder

\* Where the live cursor is, the log splits.
LEMMA PassedIs ==
    ASSUME LogOrdered, liveCursor \in Nat
    PROVE  /\ Passed \in 0 .. Len(Log)
           /\ \A i \in 1 .. Len(Log) : Log[i].seq <= liveCursor <=> i <= Passed
<1>1. PICK c \in 0 .. Len(Log) : \A i \in 1 .. Len(Log) : Log[i].seq <= liveCursor <=> i <= c
  BY LogInOrder1, SplitAt
<1>2. Passed = c
  BY <1>1, LogInOrder1, CountIs, PassedCounts
<1>. QED
  BY <1>1, <1>2

LEMMA FeedInit == Init => Promise!Init
<1>. SUFFICES ASSUME Init
              PROVE  Log = <<>> /\ Passed = 0 /\ feed = <<>> /\ Told = {}
  BY DEF Promise!Init
<1>1. feed = <<>> /\ Left = <<>> /\ stored = <<>> /\ liveCursor = 0
  BY DEF Init, Left
<1>2. PICK m \in 0 .. Len(Left) : LogShape(Log, stored, Left, m)
  BY InitInv, ShownInit, LogFacts DEF Shown
<1>3. Len(Log) = 0 /\ Log \in Seq(Row)
  BY <1>1, <1>2 DEF LogShape
<1>4. Log = <<>>
  BY <1>3, EmptySeq
<1>5. Passed = 0
  <2>1. {i \in DOMAIN Log : Log[i].seq <= liveCursor} = {}
    BY <1>4
  <2>. QED
    BY <2>1, FS_EmptySet DEF Passed
<1>6. Told = {}
  BY DEF Init, Told
<1>. QED
  BY <1>1, <1>4, <1>5, <1>6

\* The publication of an accepted event goes to the end of the log, over those
\* whose emitters were told, or its emitter is told.
LEMMA PublishPasses ==
    ASSUME FullInv, NEW e \in Emitters, EmitterPublish(e)
    PROVE  Promise!Next
<1>. DEFINE x == Accepted(e)
            N == Len(Log)
<1>0. e \in Writers /\ pc \in [Writers -> Places]
  BY DEF Writers, FullInv, IInv, Types
<1>1. /\ x.by = e /\ x.seq = last /\ liveCursor < last
      /\ N \in 1 .. N /\ Log[N] = x
      /\ \A i \in 1 .. N - 1 : Log[i].seq <= liveCursor \/ Log[i].by \in Told
  BY OneToShow DEF EmitterPublish, FullInv
<1>2. Log' = Log
  BY PublishCases DEF FullInv
<1>3. \/ feed' = Append(feed, x) /\ liveCursor' = last /\ Move(e, "done")
      \/ e \in Gated /\ liveCursor' = last /\ Move(e, "done") /\ feed' = feed
      \/ Move(e, "unshown") /\ liveCursor' = liveCursor /\ feed' = feed
  BY PublishCases DEF FullInv
<1>4. LogOrdered /\ liveCursor \in Nat /\ last \in Nat
  BY LogInSequence DEF FullInv, Shown, ShowTypes, IInv, Types
<1>5. Passed \in 0 .. N /\ \A i \in 1 .. N : Log[i].seq <= liveCursor <=> i <= Passed
  BY <1>4, PassedIs
<1>6. N \in Nat /\ InOrder(Log) /\ \A i \in 1 .. N : Log[i].seq <= last
  BY <1>4, LogInOrder1 DEF LogOrdered
<1>7. N \in Passed + 1 .. N
  <2>1. ~(Log[N].seq <= liveCursor)
    BY <1>1, <1>4
  <2>. QED
    BY <1>1, <1>5, <1>6, <2>1
<1>. HIDE DEF x, N
<1>8. CASE liveCursor' = last /\ Move(e, "done")
  <2>1. Passed' = N
    <3>1. \A i \in 1 .. N : Log[i].seq <= last <=> i <= N
      BY <1>6
    <3>2. N \in 0 .. N
      BY <1>6
    <3>3. CountUpTo(Log, last) = N
      BY <1>4, <1>6, <3>1, <3>2, CountIs DEF N
    <3>. QED
      BY <1>2, <1>8, <3>3, PassedCounts
  <2>2. Told' = Told
    BY <1>0, <1>8 DEF Told, Move, EmitterPublish
  <2>3. \A i \in Passed + 1 .. N - 1 : Promise!Excused(Log[i])
    <3>. SUFFICES ASSUME NEW i \in Passed + 1 .. N - 1
                  PROVE  Log[i].by \in Told
      BY DEF Promise!Excused
    <3>1. i \in 1 .. N - 1 /\ i \in 1 .. N /\ ~(i <= Passed)
      BY <1>5, <1>6
    <3>. QED
      BY <1>1, <1>5, <3>1
  <2>4. feed' = Append(feed, Log[N]) \/ (Promise!Excused(Log[N]) /\ feed' = feed)
    <3>1. Move(e, "unshown") => FALSE
      BY <1>0, <1>8 DEF Move
    <3>. QED
      BY <1>1, <1>3, <3>1 DEF Promise!Excused
  <2>. QED
    BY <1>2, <1>7, <2>1, <2>2, <2>3, <2>4 DEF Promise!Next, Promise!Pass, N
<1>9. CASE Move(e, "unshown") /\ liveCursor' = liveCursor /\ feed' = feed
  <2>1. Passed' = Passed
    BY <1>2, <1>9, PassedCounts
  <2>2. Told' = Told \cup {e}
    BY <1>0, <1>9 DEF Told, Move
  <2>3. Promise!Fail(e)
    BY <1>1, <1>2, <1>7, <1>9, <2>1, <2>2 DEF Promise!Fail, N
  <2>. QED
    BY <1>0, <2>3 DEF Promise!Next
<1>. QED
  BY <1>3, <1>8, <1>9

\* A row of the drain is the next event of the log, or was passed before.
LEMMA DrainPasses ==
    ASSUME FullInv, NEW w \in Writers, DrainRow(w)
    PROVE  [Promise!Next]_(Promise!vars)
<1>1. /\ Log' = Log /\ pc[w] = "drain" /\ (UNCHANGED pc \/ Move(w, "done"))
      /\ \E k \in 1 .. Len(stored) :
            /\ NextRow = stored[k]
            /\ \A i \in 1 .. Len(stored) : i < k => stored[i].seq <= liveCursor
            /\ liveCursor' = IF stored[k].seq > liveCursor THEN stored[k].seq ELSE liveCursor
  BY DrainRowIs DEF FullInv
<1>2. PICK k \in 1 .. Len(stored) :
        /\ NextRow = stored[k]
        /\ \A i \in 1 .. Len(stored) : i < k => stored[i].seq <= liveCursor
        /\ liveCursor' = IF stored[k].seq > liveCursor THEN stored[k].seq ELSE liveCursor
  BY <1>1
<1>3. LogOrdered /\ liveCursor \in Nat
  BY LogInSequence DEF FullInv, Shown, ShowTypes
<1>4. /\ Passed \in 0 .. Len(Log) /\ Len(Log) \in Nat /\ InOrder(Log)
      /\ \A i \in 1 .. Len(Log) : Log[i].seq <= liveCursor <=> i <= Passed
  BY <1>3, LogInOrder1, PassedIs DEF LogOrdered
<1>5. /\ k \in 1 .. Len(Log) /\ Log[k] = stored[k] /\ stored[k].seq \in Nat
      /\ \A i \in 1 .. k - 1 : i \in 1 .. Len(stored) /\ i < k /\ Log[i] = stored[i]
  BY <1>3, StoredFacts DEF LogOrdered
<1>6. Told' = Told
  BY <1>1 DEF Told, Move, FullInv, IInv, Types
<1>7. /\ \/ ~Skipped(w, stored[k]) /\ feed' = Append(feed, stored[k])
         \/ (Skipped(w, stored[k]) \/ OwnDeclined(w, stored[k])) /\ feed' = feed
  BY <1>2 DEF DrainRow
<1>8. CASE ~(stored[k].seq > liveCursor)
  <2>1. stored[k].seq <= liveCursor /\ liveCursor' = liveCursor
    BY <1>2, <1>3, <1>5, <1>8
  <2>2. feed' = feed
    BY <1>7, <2>1 DEF Skipped
  <2>3. Passed' = Passed
    BY <1>1, <2>1, PassedCounts
  <2>. QED
    BY <1>1, <1>6, <2>2, <2>3 DEF Promise!vars
<1>9. CASE stored[k].seq > liveCursor
  <2>1. ~(stored[k].seq <= liveCursor) /\ liveCursor' = stored[k].seq
    BY <1>2, <1>3, <1>5, <1>9
  <2>2. Passed = k - 1
    <3>1. ~(k <= Passed)
      BY <1>4, <1>5, <2>1
    <3>2. CASE k = 1
      BY <1>4, <3>1, <3>2
    <3>3. CASE k # 1
      <4>1. k - 1 \in 1 .. k - 1 /\ k - 1 \in 1 .. Len(Log)
        BY <1>4, <1>5, <3>3
      <4>2. Log[k - 1].seq <= liveCursor
        BY <1>2, <1>5, <4>1
      <4>. QED
        BY <1>4, <1>5, <3>1, <4>1, <4>2
    <3>. QED
      BY <3>2, <3>3
  <2>3. Passed' = k
    <3>1. ASSUME NEW i \in 1 .. Len(Log)
          PROVE  Log[i].seq <= stored[k].seq <=> i <= k
      <4>1. Log[i].seq \in Nat
        BY <1>3 DEF LogOrdered
      <4>2. i < k => Log[i].seq < Log[k].seq
        BY <1>3, <1>5 DEF LogOrdered
      <4>3. k < i => Log[k].seq < Log[i].seq
        BY <1>3, <1>5 DEF LogOrdered
      <4>4. i < k \/ i = k \/ k < i
        BY <1>5
      <4>. QED
        BY <1>5, <4>1, <4>2, <4>3, <4>4
    <3>2. k \in 0 .. Len(Log)
      BY <1>4, <1>5
    <3>3. CountUpTo(Log, stored[k].seq) = k
      BY <1>4, <1>5, <3>1, <3>2, CountIs
    <3>. QED
      BY <1>1, <2>1, <3>3, PassedCounts
  <2>4. k \in Passed + 1 .. Len(Log) /\ \A i \in Passed + 1 .. k - 1 : FALSE
    BY <1>4, <1>5, <2>2
  <2>5. feed' = Append(feed, Log[k]) \/ (Promise!Excused(Log[k]) /\ feed' = feed)
    BY <1>5, <1>7, <2>1 DEF Skipped, OwnDeclined, Promise!Excused
  <2>. QED
    BY <1>1, <1>6, <2>3, <2>4, <2>5 DEF Promise!Next, Promise!Pass
<1>. QED
  BY <1>8, <1>9

LEMMA ShowSteps ==
    ASSUME FullInv, [Next]_vars, ShowStep
    PROVE  [Promise!Next]_(Promise!vars)
BY PublishPasses, DrainPasses DEF ShowStep

LEMMA OtherSteps ==
    ASSUME FullInv, FullInv', [Next]_vars, ~ShowStep
    PROVE  [Promise!Next]_(Promise!vars)
<1>1. /\ IInv /\ HandOver /\ ChatsFirst /\ LeftOrdered /\ LogOrdered
      /\ feed' = feed /\ liveCursor' = liveCursor
      /\ liveCursor \in Nat /\ liveCursor <= last /\ last \in Nat
  BY OtherStepsShowNothing, LeftFacts, LogInSequence
  DEF FullInv, Shown, ShowQuiet, ShowTypes, Cursors, IInv, Types
<1>2. Told' = Told
  <2>1. \A w \in Writers : pc'[w] = "unshown" <=> pc[w] = "unshown"
    BY <1>1, PublisherStep DEF ShowStep
  <2>. QED
    BY <2>1 DEF Told
<1>3. CASE Log' = Log
  BY <1>1, <1>2, <1>3, PassedCounts DEF Promise!vars
<1>4. ASSUME NEW x \in Event, x \in Row, Log' = Append(Log, x), liveCursor < x.seq
      PROVE  Promise!Next
  <2>1. Log \in Seq(Row)
    BY <1>1 DEF LogOrdered
  <2>2. Passed' = Passed
    BY <1>1, <1>4, <2>1, CountLonger, PassedCounts
  <2>. QED
    BY <1>1, <1>2, <1>4, <2>2 DEF Promise!Next, Promise!Accept
<1>5. CASE Written
  <2>1. /\ Left[1].chat # None => Log' = Log
        /\ Left[1].chat = None => Log' = Append(Log, Left[1].event)
    BY <1>1, <1>5, LogWritten
  <2>2. 1 \in DOMAIN Left
    BY <1>1, <1>5, WrittenLonger DEF Headless
  <2>3. Left[1].event \in Event /\ Left[1].event \in Row
    <3>1. Left[1].event \in Rows
      BY <2>2 DEF Rows
    <3>. QED
      BY <1>1, <3>1, RowsAreEvents, RowType
  <2>4. Left[1].chat = None => liveCursor < Left[1].event.seq
    BY <2>2 DEF FullInv, Shown, LeftShown
  <2>. QED
    BY <1>3, <1>4, <2>1, <2>3, <2>4
<1>6. CASE Dropped
  BY <1>1, <1>3, <1>6, LogDropped
<1>7. CASE \E w \in Writers : Joined(w, None)
  BY <1>1, <1>3, <1>7, LogJoinedSync
<1>8. ASSUME NEW e \in Emitters, EmitterAdmit(e), Joined(e, lease)
      PROVE  Promise!Next
  <2>. DEFINE new == [seq |-> last + 1, by |-> e]
  <2>1. lease # None /\ e \in Writers
    BY <1>1, <1>8 DEF EmitterAdmit, StillAdmitted, IInv, Admitting, Writers
  <2>2. Log' = Append(Log, new)
    BY <1>1, <1>8, <2>1, LogJoinedChat
  <2>3. last' = last + 1 /\ last \in Nat /\ last' <= Cardinality(Spent') /\ Spent' \subseteq Writers
    BY <1>1, <1>8 DEF Joined, IInv, Types, FullInv, HandOver, Spent
  <2>4. last + 1 <= Cardinality(Writers) /\ Cardinality(Writers) \in Nat
    BY <2>3, WritersBound
  <2>5. new \in Event /\ new \in Row /\ liveCursor < new.seq
    BY <1>1, <2>1, <2>3, <2>4 DEF Event, Row
  <2>. QED
    BY <1>4, <2>2, <2>5
<1>9. CASE LeftKept
  BY <1>3, <1>9, LogIsLogOf DEF LeftKept
<1>. QED
  BY <1>1, <1>5, <1>6, <1>7, <1>8, <1>9, LeftStep

\* The two orders are one: events shown from RAM before their rows exist and
\* events shown by a drain of the durable log form one feed that goes along the
\* accepted order; it passes an event unshown only if its owner may decline it, if
\* it is transient or if its emitter was told, and never shows it later
\* (runtime_event_relay.go, OnEvent, PublishCommitted and BindChat).
THEOREM FeedIsOrdered == Spec => RefinesOrderedFeed
<1>1. FullInv /\ FullInv' /\ [Next]_vars => [Promise!Next]_(Promise!vars)
  BY ShowSteps, OtherSteps
<1>. QED
  BY <1>1, FeedInit, FullInvariant, PTL DEF Spec, RefinesOrderedFeed, Promise!Spec

-----------------------------------------------------------------------------
(* The types of the model.                                                 *)

OtherTypes == failed \in BOOLEAN /\ tail \in Seq(Event)

LEMMA PublishedIsEvent ==
    ASSUME FullInv, NEW e \in Emitters, EmitterPublish(e)
    PROVE  /\ Accepted(e) \in Event
           /\ \/ tail' = tail
              \/ tail' = Append(tail, Accepted(e))
              \/ tail # <<>> /\ tail' = Append(Tail(tail), Accepted(e))
<1>1. PICK x \in Rows : x.by = e
  BY DEF FullInv, Shown, Publishing, EmitterPublish
<1>2. Accepted(e) = x /\ x \in Event
  BY <1>1, AcceptedIs, RowsAreEvents DEF FullInv
<1>3. ~(Len(tail) < MaxHist) => tail # <<>>
  <2>1. Len(tail) \in Nat /\ MaxHist \in Nat \ {0}
    BY LenProperties, PublicationAssumption DEF FullInv, Shown, ShowTypes
  <2>2. Len(<<>>) = 0
    OBVIOUS
  <2>. QED
    BY <2>1, <2>2
<1>4. \/ tail' = tail
      \/ tail' = Append(tail, Accepted(e))
      \/ tail # <<>> /\ tail' = Append(Tail(tail), Accepted(e))
  BY <1>3 DEF EmitterPublish, Retain
<1>. QED
  BY <1>2, <1>4

LEMMA OtherTypesStep == FullInv /\ OtherTypes /\ [Next]_vars => OtherTypes'
<1>. SUFFICES ASSUME FullInv, OtherTypes, [Next]_vars
              PROVE  OtherTypes'
  OBVIOUS
<1>0. tail \in Seq(Event) /\ Len(tail) \in Nat /\ DOMAIN tail = 1 .. Len(tail)
  BY LenProperties DEF OtherTypes
<1>1. failed' \in BOOLEAN
  BY DEF OtherTypes, Next, Worker, WorkerCommit, WorkerFinish, WorkerSkip, WorkerFail, Synchronous,
         SyncCancelled, SyncWait, SyncOwnLease, SyncEnqueue, SyncRefused, SyncFailed, Drain, DrainBegin, DrainRow,
         DrainStop, Cancel, OnEvent, EmitterRead, EmitterUnpark, EmitterReadAgain, EmitterAdmit,
         EmitterRefused, EmitterDeclined, EmitterPublish, EmitterLock, Chat, BindChat, BindRefused, BarrierBegin,
         BarrierDone, BarrierFails, MarkChatSynchronous, FallBack, ReleaseChat, Release, vars,
         storeVars, diskVars
<1>2. tail' \in Seq(Event)
  <2>1. CASE ~ShowStep
    BY <1>0, <2>1, OtherStepsShowNothing DEF ShowQuiet
  <2>2. ASSUME NEW e \in Emitters, EmitterPublish(e)
        PROVE  tail' \in Seq(Event)
    <3>1. /\ Accepted(e) \in Event
          /\ \/ tail' = tail
             \/ tail' = Append(tail, Accepted(e))
             \/ tail # <<>> /\ tail' = Append(Tail(tail), Accepted(e))
      BY <2>2, PublishedIsEvent
    <3>2. tail # <<>> => Tail(tail) \in Seq(Event)
      BY <1>0, HeadTailProperties
    <3>3. CASE tail' = tail
      BY <1>0, <3>3
    <3>4. CASE tail' = Append(tail, Accepted(e))
      BY <1>0, <3>1, <3>4, AppendProperties
    <3>5. CASE tail # <<>> /\ tail' = Append(Tail(tail), Accepted(e))
      BY <3>1, <3>2, <3>5, AppendProperties
    <3>. QED
      BY <3>1, <3>3, <3>4, <3>5
  <2>3. ASSUME NEW w \in Writers, DrainRow(w)
        PROVE  tail' \in Seq(Event)
    <3>. DEFINE n == FirstRetained(NextRow.seq)
                S == {k \in 0 .. Len(tail) : \A i \in 1 .. k : tail[i].seq <= NextRow.seq}
    <3>1. tail' = SubSeq(tail, n + 1, Len(tail)) /\ n = Max(S)
      BY <2>3 DEF DrainRow, Retire, FirstRetained
    <3>2. S \subseteq Nat /\ 0 \in S /\ \A k \in S : k <= Len(tail)
      BY <1>0
    <3>3. n \in Nat
      <4>. HIDE DEF S
      <4>1. S # {}
        BY <3>2
      <4>. QED
        BY <1>0, <3>1, <3>2, <4>1, BoundedMax
    <3>. HIDE DEF n
    <3>4. \A i \in n + 1 .. Len(tail) : tail[i] \in Event
      BY <1>0, <3>3, ElementOfSeq
    <3>. QED
      BY <1>0, <3>1, <3>3, <3>4, SubSeqProperties
  <2>. QED
    BY <2>1, <2>2, <2>3 DEF ShowStep
<1>. QED
  BY <1>1, <1>2 DEF OtherTypes

LEMMA TypesHold == FullInv /\ OtherTypes => TypeOK
<1>. SUFFICES ASSUME FullInv, OtherTypes
              PROVE  TypeOK
  OBVIOUS
<1>1. IInv /\ Types /\ HandOver /\ Shown /\ Locks /\ ShowTypes
  BY DEF FullInv, IInv, HandOver, Shown
<1>2. waiting \in Nat /\ pending \in Nat
  <2>1. IsFiniteSet(Waiters) /\ waiting = Cardinality(Waiters) /\ pending = Cardinality(Outstanding)
    BY <1>1 DEF IInv, Counted, SyncCountsExact, Waiters
  <2>. QED
    BY <1>1, <2>1, OutstandingFinite, FS_CardinalityType
<1>3. queue \in Seq(Command)
  <2>1. queue \in Seq(Entry) /\ Len(queue) \in Nat
    BY <1>1, LenProperties DEF Types
  <2>2. ASSUME NEW i \in 1 .. Len(queue)
        PROVE  queue[i] \in Command
    <3>1. queue[i] \in Entry /\ i \in DOMAIN queue
      BY <2>1, ElementOfSeq, LenProperties
    <3>2. queue[i].event \in Rows
      BY <1>1, <3>1, QueuedRows
    <3>3. queue[i].event \in Event
      BY <1>1, <3>2, RowsAreEvents
    <3>. QED
      BY <3>1, <3>3 DEF Entry, Command
  <2>. QED
    BY <2>1, <2>2, SeqDef
<1>4. stored \in Seq(Event)
  <2>1. \A i \in 1 .. Len(stored) : stored[i] \in Event
    BY <1>1, StoredFacts, RowsAreEvents
  <2>. QED
    BY <1>1, <2>1, StoredFacts, SeqDef
<1>5. feed \in Seq(Event)
  <2>1. LogOrdered /\ LoggedIn(feed, Log) /\ feed \in Seq(Row)
    BY <1>1, LogInSequence DEF Shown, FeedLogged, ShowTypes
  <2>2. Len(feed) \in Nat /\ DOMAIN feed = 1 .. Len(feed)
    BY <2>1, LenProperties
  <2>3. ASSUME NEW i \in 1 .. Len(feed)
        PROVE  feed[i] \in Event
    <3>1. feed[i] \in ToSet(feed)
      BY <2>2 DEF ToSet
    <3>2. PICK k \in 1 .. Len(Log) : Log[k] = feed[i]
      BY <2>1, <3>1 DEF LoggedIn
    <3>3. Log[k] \in Rows
      BY <2>1 DEF LogOrdered
    <3>. QED
      BY <1>1, <3>2, <3>3, RowsAreEvents
  <2>. QED
    BY <2>1, <2>2, <2>3, SeqDef
<1>6. /\ last \in Nat /\ lease \in Chats \cup {None} /\ applied \in BOOLEAN /\ failed \in BOOLEAN
      /\ highWater \in Nat /\ binding \in Chats \cup {None}
      /\ barrier \in [Chats -> Nat] /\ seen \in [Emitters -> Chats \cup {None}]
  BY <1>1 DEF Types, OtherTypes
<1>7. mu \in Writers \cup {None} /\ cancelled \subseteq Journals
  BY <1>1 DEF HandOver, Locks
<1>8. scope \in [Chats -> {"unbound", "admitted", "synchronous"}]
  BY <1>1 DEF Types, Scopes
<1>9. chat \in [Chats -> Bound \cup {"new", "refused", "released", "fallen back"}]
  BY <1>1 DEF Types, Requests
<1>10. pc \in [Writers -> Gone \cup {"start", "parked", "admit", "publish", "lock",
                                     "append", "waiting", "queued", "stored", "drain"}]
  BY <1>1 DEF Types, Places
<1>11. liveCursor \in Nat /\ cursor \in Nat /\ through \in Nat /\ gap \in Nat /\ tail \in Seq(Event)
  BY <1>1 DEF ShowTypes, OtherTypes
<1>. QED
  BY <1>2, <1>3, <1>4, <1>5, <1>6, <1>7, <1>8, <1>9, <1>10, <1>11 DEF TypeOK

\* Every variable keeps its type: the counters of waiting and pending writers
\* are never negative, and no event has a number above the number of writers.
THEOREM TypeCorrect == Spec => []TypeOK
<1>1. Init => OtherTypes
  <2>1. <<>> \in Seq(Event)
    OBVIOUS
  <2>. QED
    BY <2>1 DEF Init, OtherTypes
<1>. QED
  BY <1>1, OtherTypesStep, TypesHold, FullInvariant, PTL DEF Spec
=============================================================================
