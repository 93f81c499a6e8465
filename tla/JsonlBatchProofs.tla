-------------------------- MODULE JsonlBatchProofs --------------------------
(***************************************************************************)
(* The batch writer keeps what it acknowledged, can always recover and     *)
(* implements atomic files, for every set of files, every checkpoint       *)
(* threshold and every number of transactions, failures and crashes.       *)
(*                                                                         *)
(* The argument.  Found is what recovery can make of the journal after a   *)
(* crash at this moment.  Every journal in Found fits the data files       *)
(* (Recoverable): a file its pending transaction is about can only hold    *)
(* the prepared prefix and a part of the payload, every other file is the  *)
(* same in memory and on disk.  It shows readers what they see now, or     *)
(* everything but its pending transaction (Shows), which nobody has        *)
(* acknowledged (Known).  An unsynced append adds one journal to Found, a  *)
(* synced one leaves only itself, and a crash picks one of them.           *)
(***************************************************************************)
EXTENDS JsonlBatch, SequenceTheorems, TLAPS

Found == {Complete(w) : w \in Survivors(wal)}
Now == Complete(wal.mem)

Covers(c, f) == HasPending(c) /\ f \in Pending(c).files

\* The content of a file that the pending transaction p is about.
InRange(content, p, f) ==
    \/ content = p.base[f]
    \/ \E whole \in BOOLEAN : content = Append(p.base[f], [tx |-> p.tx, whole |-> whole])

Recoverable(c) ==
    /\ \A i \in DOMAIN c : c[i].whole
    /\ WellFormed(c)
    /\ \A f \in Files :
          IF Covers(c, f) THEN \A content \in Survivors(data[f]) : InRange(content, Pending(c), f)
                          ELSE data[f].disk = data[f].mem

Known(c) ==
    HasPending(c) =>
        LET p == Pending(c)
        IN  /\ p.tx \in DOMAIN writes
            /\ writes[p.tx].outcome \notin Confirmed
            /\ p.files = writes[p.tx].files
            /\ \A f \in p.files : \A i \in DOMAIN p.base[f] : p.base[f][i].tx # p.tx

\* What readers are shown with the journal c.
Shown(c, f) == IF Covers(c, f) THEN Pending(c).base[f] ELSE data[f].mem

With(p, f) == Append(p.base[f], [tx |-> p.tx, whole |-> TRUE])

Shows(c) ==
    \/ \A f \in Files : Shown(c, f) = Shown(Now, f)
    \/ /\ HasPending(c)
       /\ \A f \in Files : Shown(Now, f) = IF f \in Pending(c).files THEN With(Pending(c), f)
                                                                     ELSE Shown(c, f)

Journals == \A c \in Found : Recoverable(c) /\ Known(c) /\ Shows(c)

\* A write readers are shown is one of the writes, in one of its files.
Attributed ==
    \A f \in Files : \A i \in DOMAIN Shown(Now, f) :
        /\ Shown(Now, f)[i].tx \in DOMAIN writes
        /\ f \in writes[Shown(Now, f)[i].tx].files

Open == ~Torn(wal.mem) /\ HasPending(wal.mem)

Undoing ==
    step = "undo" =>
        /\ Open
        /\ todo \subseteq Pending(wal.mem).files
        /\ \A f \in Pending(wal.mem).files \ todo : data[f] = Synced(Pending(wal.mem).base[f])

Appending ==
    step = "append" =>
        /\ Writing
        /\ todo \subseteq Pending(wal.mem).files
        /\ \A f \in Pending(wal.mem).files :
              data[f] = Synced(IF f \in todo THEN Pending(wal.mem).base[f]
                                             ELSE Append(Pending(wal.mem).base[f], Payload))

Running ==
    /\ Writing => /\ step \in {"append", "undo"}
                  /\ Open /\ wal.disk = wal.mem /\ Pending(wal.mem).tx = Current
    /\ \A t \in DOMAIN writes : writes[t].outcome = "running" => t = Current

Position ==
    /\ step \in {"checkpoint", "prepare"} => Settled(wal.mem)
    /\ Undoing /\ Appending /\ Running

IInv == TypeOK /\ Journals /\ Attributed /\ Position /\ AcknowledgedDurable
-----------------------------------------------------------------------------
(* What a crash leaves of a file.                                          *)

Kept(mem, disk, n) ==
    \A m \in 0..Len(disk) : m <= Len(mem) /\ SubSeq(disk, 1, m) = SubSeq(mem, 1, m) => m <= n

LEMMA SurvivorsMember ==
    ASSUME NEW mem, NEW disk, NEW v
    PROVE  v \in Survivors([mem |-> mem, disk |-> disk]) <=>
              \/ v = disk
              \/ \E n \in 0..Len(mem) :
                    /\ Kept(mem, disk, n)
                    /\ \/ v = SubSeq(mem, 1, n)
                       \/ n # Len(mem) /\ v = Append(SubSeq(mem, 1, n), Cut(mem[n + 1]))
  <1>1. [mem |-> mem, disk |-> disk].mem = mem /\ [mem |-> mem, disk |-> disk].disk = disk
    OBVIOUS
  <1>2. QED
    BY <1>1 DEF Survivors, Kept

LEMMA Prefixes ==
    ASSUME NEW S, NEW s \in Seq(S)
    PROVE  /\ Len(s) \in Nat
           /\ \A n \in 0..Len(s) : SubSeq(s, 1, n) \in Seq(S) /\ Len(SubSeq(s, 1, n)) = n
           /\ \A n \in 0..Len(s) : \A i \in 1..n : SubSeq(s, 1, n)[i] = s[i]
           /\ \A n \in 0..Len(s) : \A m \in 0..n : SubSeq(SubSeq(s, 1, n), 1, m) = SubSeq(s, 1, m)
           /\ SubSeq(s, 1, Len(s)) = s
  <1>1. Len(s) \in Nat /\ SubSeq(s, 1, Len(s)) = s
    BY LenProperties, SubSeqFull
  <1>2. ASSUME NEW t \in Seq(S), NEW n \in 0..Len(t)
        PROVE  /\ SubSeq(t, 1, n) \in Seq(S) /\ Len(SubSeq(t, 1, n)) = n
               /\ \A i \in 1..n : SubSeq(t, 1, n)[i] = t[i]
    <2>1. Len(t) \in Nat /\ n \in Int /\ \A i \in 1..n : t[i] \in S
      BY LenProperties, ElementOfSeq
    <2>2. QED
      BY <2>1, SubSeqProperties
  <1>3. ASSUME NEW n \in 0..Len(s), NEW m \in 0..n
        PROVE  SubSeq(SubSeq(s, 1, n), 1, m) = SubSeq(s, 1, m)
    <2>1. m \in 0..Len(s) /\ m \in 0..Len(SubSeq(s, 1, n)) /\ SubSeq(s, 1, n) \in Seq(S)
      BY <1>1, <1>2
    <2>2. \A i \in 1..m : SubSeq(SubSeq(s, 1, n), 1, m)[i] = SubSeq(s, 1, m)[i]
      BY <1>1, <1>2, <2>1
    <2>3. QED
      BY <1>2, <2>1, <2>2, SeqEqual
  <1>4. QED
    BY <1>1, <1>2, <1>3

LEMMA Appends ==
    ASSUME NEW S, NEW s \in Seq(S), NEW e \in S
    PROVE  /\ Append(s, e) \in Seq(S) /\ Len(Append(s, e)) = Len(s) + 1 /\ Append(s, e) # <<>>
           /\ Append(s, e)[Len(s) + 1] = e
           /\ \A i \in 1..Len(s) : Append(s, e)[i] = s[i]
           /\ \A n \in 0..Len(s) : SubSeq(Append(s, e), 1, n) = SubSeq(s, 1, n)
           /\ SubSeq(Append(s, e), 1, Len(s)) = s
  <1>1. /\ Append(s, e) \in Seq(S) /\ Len(Append(s, e)) = Len(s) + 1 /\ Append(s, e) # <<>>
        /\ Append(s, e)[Len(s) + 1] = e
        /\ \A i \in 1..Len(s) : Append(s, e)[i] = s[i]
    BY AppendProperties, LenProperties
  <1>2. ASSUME NEW n \in 0..Len(s)
        PROVE  SubSeq(Append(s, e), 1, n) = SubSeq(s, 1, n)
    <2>1. Len(s) \in Nat /\ n \in 0..Len(Append(s, e))
      BY <1>1, Prefixes
    <2>2. \A i \in 1..n : SubSeq(Append(s, e), 1, n)[i] = SubSeq(s, 1, n)[i]
      BY <1>1, <2>1, Prefixes
    <2>3. QED
      BY <1>1, <2>1, <2>2, Prefixes, SeqEqual
  <1>3. Len(s) \in 0..Len(s) /\ SubSeq(s, 1, Len(s)) = s
    BY Prefixes
  <1>4. QED
    BY <1>1, <1>2, <1>3

\* A file that can be cut anywhere keeps its type.
LEMMA SurvivorsType ==
    ASSUME NEW S, \A x \in S : Cut(x) \in S, NEW mem \in Seq(S), NEW disk \in Seq(S),
           NEW v \in Survivors([mem |-> mem, disk |-> disk])
    PROVE  v \in Seq(S)
  <1>1. CASE v = disk
    BY <1>1
  <1>2. CASE \E n \in 0..Len(mem) :
                \/ v = SubSeq(mem, 1, n)
                \/ n # Len(mem) /\ v = Append(SubSeq(mem, 1, n), Cut(mem[n + 1]))
    <2>1. PICK n \in 0..Len(mem) :
              \/ v = SubSeq(mem, 1, n)
              \/ n # Len(mem) /\ v = Append(SubSeq(mem, 1, n), Cut(mem[n + 1]))
      BY <1>2
    <2>2. SubSeq(mem, 1, n) \in Seq(S) /\ Len(mem) \in Nat
      BY Prefixes
    <2>3. n # Len(mem) => Cut(mem[n + 1]) \in S
      BY <2>2, ElementOfSeq
    <2>4. n # Len(mem) => Append(SubSeq(mem, 1, n), Cut(mem[n + 1])) \in Seq(S)
      BY <2>2, <2>3, Appends, Zenon
    <2>5. QED
      BY <2>1, <2>2, <2>4, Zenon
  <1>3. \/ v = disk
        \/ \E n \in 0..Len(mem) :
              \/ v = SubSeq(mem, 1, n)
              \/ n # Len(mem) /\ v = Append(SubSeq(mem, 1, n), Cut(mem[n + 1]))
    <2>1. \/ v = disk
          \/ \E n \in 0..Len(mem) :
                /\ Kept(mem, disk, n)
                /\ \/ v = SubSeq(mem, 1, n)
                   \/ n # Len(mem) /\ v = Append(SubSeq(mem, 1, n), Cut(mem[n + 1]))
      BY SurvivorsMember, Zenon
    <2>2. QED
      BY <2>1, Zenon
  <1>4. QED
    BY <1>1, <1>2, <1>3, Zenon

\* What is synced is all that can be found.
LEMMA SurvivorsSynced ==
    ASSUME NEW S, NEW c \in Seq(S)
    PROVE  Survivors(Synced(c)) = {c}
  <1>1. Len(c) \in Nat /\ SubSeq(c, 1, Len(c)) = c
    BY Prefixes
  <1>2. ASSUME NEW n \in 0..Len(c), Kept(c, c, n)
        PROVE  n = Len(c)
    <2>1. Len(c) \in 0..Len(c) /\ Len(c) <= Len(c)
      BY <1>1
    <2>2. Len(c) <= n
      BY <1>2, <2>1 DEF Kept
    <2>3. Len(c) \in Nat
      BY <1>1
    <2>4. QED
      BY <2>2, <2>3
  <1>3. \A v : v \in Survivors([mem |-> c, disk |-> c]) <=>
                  \/ v = c
                  \/ \E n \in 0..Len(c) :
                        /\ Kept(c, c, n)
                        /\ \/ v = SubSeq(c, 1, n)
                           \/ n # Len(c) /\ v = Append(SubSeq(c, 1, n), Cut(c[n + 1]))
    BY SurvivorsMember
  <1>4. QED
    BY <1>1, <1>2, <1>3 DEF Synced

LEMMA SurvivorsNow ==
    ASSUME NEW S, NEW mem \in Seq(S), NEW disk \in Seq(S)
    PROVE  {mem, disk} \subseteq Survivors([mem |-> mem, disk |-> disk])
  <1>1. Len(mem) \in Nat /\ SubSeq(mem, 1, Len(mem)) = mem
    BY Prefixes
  <1>2. Kept(mem, disk, Len(mem)) /\ Len(mem) \in 0..Len(mem)
    BY <1>1 DEF Kept
  <1>3. QED
    BY <1>1, <1>2, SurvivorsMember

\* An append that is not synced may be found cut off before, inside or behind.
LEMMA SurvivorsAppend ==
    ASSUME NEW S, NEW mem \in Seq(S), NEW disk \in Seq(S), NEW x \in S,
           NEW v \in Survivors([mem |-> Append(mem, x), disk |-> disk])
    PROVE  v \in Survivors([mem |-> mem, disk |-> disk]) \cup {Append(mem, x), Append(mem, Cut(x))}
  <1> DEFINE new == Append(mem, x)
  <1>a. Len(mem) \in Nat /\ Len(disk) \in Nat /\ Len(new) = Len(mem) + 1
    BY Appends, Prefixes
  <1>1. /\ new[Len(mem) + 1] = x
        /\ \A i \in 1..Len(mem) : new[i] = mem[i]
        /\ \A n \in 0..Len(mem) : SubSeq(new, 1, n) = SubSeq(mem, 1, n)
        /\ SubSeq(new, 1, Len(mem)) = mem
        /\ SubSeq(new, 1, Len(new)) = new
    BY Appends, Prefixes
  <1> HIDE DEF new
  <1>2. ASSUME NEW n \in 0..Len(mem), Kept(new, disk, n)
        PROVE  Kept(mem, disk, n)
    <2>1. ASSUME NEW m \in 0..Len(disk), m <= Len(mem), SubSeq(disk, 1, m) = SubSeq(mem, 1, m)
          PROVE  m <= n
      <3>1. m <= Len(new) /\ SubSeq(disk, 1, m) = SubSeq(new, 1, m)
        BY <1>a, <1>1, <2>1
      <3>2. QED
        BY <1>2, <3>1 DEF Kept
    <2>2. QED
      BY <2>1 DEF Kept
  <1>3. CASE v = disk
    BY <1>3, SurvivorsMember
  <1>4. CASE \E n \in 0..Len(new) :
                /\ Kept(new, disk, n)
                /\ \/ v = SubSeq(new, 1, n)
                   \/ n # Len(new) /\ v = Append(SubSeq(new, 1, n), Cut(new[n + 1]))
    <2>1. PICK n \in 0..Len(new) :
              /\ Kept(new, disk, n)
              /\ \/ v = SubSeq(new, 1, n)
                 \/ n # Len(new) /\ v = Append(SubSeq(new, 1, n), Cut(new[n + 1]))
      BY <1>4
    <2>2. CASE n = Len(mem) + 1
      BY <1>a, <1>1, <2>1, <2>2, Zenon DEF new
    <2>3. CASE n = Len(mem)
      <3>1. n \in 0..Len(mem)
        BY <1>a, <2>3
      <3>2. Kept(mem, disk, n)
        BY <1>2, <2>1, <3>1
      <3>3. /\ SubSeq(new, 1, n) = SubSeq(mem, 1, n) /\ SubSeq(new, 1, n) = mem
            /\ new[n + 1] = x
        BY <1>a, <1>1, <2>3, <3>1
      <3>4. v = SubSeq(mem, 1, n) \/ v = Append(mem, Cut(x))
        BY <2>1, <3>3, Zenon
      <3>5. QED
        BY <3>1, <3>2, <3>4, SurvivorsMember
    <2>4. CASE n < Len(mem)
      <3>1. n \in 0..Len(mem) /\ n # Len(mem) /\ n + 1 \in 1..Len(mem)
        BY <1>a, <2>4
      <3>2. Kept(mem, disk, n)
        BY <1>2, <2>1, <3>1
      <3>3. SubSeq(new, 1, n) = SubSeq(mem, 1, n) /\ new[n + 1] = mem[n + 1]
        BY <1>a, <1>1, <3>1
      <3>4. v = SubSeq(mem, 1, n) \/ v = Append(SubSeq(mem, 1, n), Cut(mem[n + 1]))
        BY <2>1, <3>3, Zenon
      <3>5. QED
        BY <3>1, <3>2, <3>4, SurvivorsMember
    <2>5. n = Len(mem) + 1 \/ n = Len(mem) \/ n < Len(mem)
      BY <1>a
    <2>6. QED
      BY <2>2, <2>3, <2>4, <2>5
  <1>5. v \in Survivors([mem |-> new, disk |-> disk])
    BY DEF new
  <1>6. \/ v = disk
        \/ \E n \in 0..Len(new) :
              /\ Kept(new, disk, n)
              /\ \/ v = SubSeq(new, 1, n)
                 \/ n # Len(new) /\ v = Append(SubSeq(new, 1, n), Cut(new[n + 1]))
    BY <1>5, SurvivorsMember, Zenon
  <1>7. QED
    BY <1>3, <1>4, <1>6, Zenon

\* Taking off the last element, without syncing it.
LEMMA SurvivorsFront ==
    ASSUME NEW S, NEW front \in Seq(S), NEW x \in S, NEW disk \in Seq(S),
           NEW v \in Survivors([mem |-> front, disk |-> disk])
    PROVE  v \in Survivors([mem |-> Append(front, x), disk |-> disk]) \cup {front}
  <1> DEFINE mem == Append(front, x)
  <1>a. Len(front) \in Nat /\ Len(disk) \in Nat /\ Len(mem) = Len(front) + 1
    BY Appends, Prefixes
  <1>1. /\ \A i \in 1..Len(front) : mem[i] = front[i]
        /\ \A n \in 0..Len(front) : SubSeq(mem, 1, n) = SubSeq(front, 1, n)
        /\ SubSeq(front, 1, Len(front)) = front /\ SubSeq(mem, 1, Len(mem)) = mem
        /\ mem \in Seq(S)
    BY Appends, Prefixes
  <1> HIDE DEF mem
  <1>2. ASSUME NEW n \in 0..Len(front), Kept(front, disk, n), n # Len(front)
        PROVE  Kept(mem, disk, n)
    <2>1. ASSUME NEW m \in 0..Len(disk), m <= Len(mem), SubSeq(disk, 1, m) = SubSeq(mem, 1, m)
          PROVE  m <= n
      <3>1. CASE m <= Len(front)
        <4>1. SubSeq(disk, 1, m) = SubSeq(front, 1, m)
          BY <1>a, <1>1, <2>1, <3>1
        <4>2. QED
          BY <1>2, <3>1, <4>1 DEF Kept
      <3>2. CASE m = Len(mem)
        <4>1. SubSeq(SubSeq(disk, 1, m), 1, Len(front)) = SubSeq(disk, 1, Len(front))
          BY <1>a, <1>1, <3>2, Prefixes
        <4>2. SubSeq(disk, 1, Len(front)) = SubSeq(front, 1, Len(front))
          BY <1>a, <1>1, <2>1, <3>2, <4>1
        <4>3. Len(front) \in 0..Len(disk)
          BY <1>a, <1>1, <3>2
        <4>4. Len(front) <= n
          BY <1>2, <1>a, <4>2, <4>3 DEF Kept
        <4>5. QED
          BY <1>a, <1>2, <4>4
      <3>3. QED
        BY <1>a, <2>1, <3>1, <3>2
    <2>2. QED
      BY <2>1 DEF Kept
  <1>3. CASE v = disk
    <2>1. v \in Survivors([mem |-> mem, disk |-> disk])
      BY <1>3, SurvivorsMember
    <2>2. QED
      BY <2>1 DEF mem
  <1>4. CASE \E n \in 0..Len(front) :
                /\ Kept(front, disk, n)
                /\ \/ v = SubSeq(front, 1, n)
                   \/ n # Len(front) /\ v = Append(SubSeq(front, 1, n), Cut(front[n + 1]))
    <2>1. PICK n \in 0..Len(front) :
              /\ Kept(front, disk, n)
              /\ \/ v = SubSeq(front, 1, n)
                 \/ n # Len(front) /\ v = Append(SubSeq(front, 1, n), Cut(front[n + 1]))
      BY <1>4
    <2>2. CASE n = Len(front)
      BY <1>a, <1>1, <2>1, <2>2
    <2>3. CASE n # Len(front)
      <3>1. n \in 0..Len(mem) /\ n # Len(mem) /\ n + 1 \in 1..Len(front)
        BY <1>a, <2>3
      <3>2. Kept(mem, disk, n)
        BY <1>2, <2>1, <2>3
      <3>3. SubSeq(front, 1, n) = SubSeq(mem, 1, n) /\ front[n + 1] = mem[n + 1]
        BY <1>a, <1>1, <3>1
      <3>4. v = SubSeq(mem, 1, n) \/ v = Append(SubSeq(mem, 1, n), Cut(mem[n + 1]))
        BY <2>1, <3>3, Zenon
      <3>5. v \in Survivors([mem |-> mem, disk |-> disk])
        BY <3>1, <3>2, <3>4, SurvivorsMember
      <3>6. QED
        BY <3>5 DEF mem
    <2>4. QED
      BY <2>2, <2>3
  <1>5. \/ v = disk
        \/ \E n \in 0..Len(front) :
              /\ Kept(front, disk, n)
              /\ \/ v = SubSeq(front, 1, n)
                 \/ n # Len(front) /\ v = Append(SubSeq(front, 1, n), Cut(front[n + 1]))
    BY SurvivorsMember, Zenon
  <1>6. QED
    BY <1>3, <1>4, <1>5, Zenon

LEMMA SurvivorsEmpty ==
    ASSUME NEW S, NEW disk \in Seq(S), NEW v \in Survivors([mem |-> <<>>, disk |-> disk])
    PROVE  v \in {disk, <<>>}
  <1>1. Len(<<>>) = 0 /\ <<>> \in Seq(S) /\ SubSeq(<<>>, 1, 0) = <<>>
    BY EmptySeq, Prefixes
  <1>2. \A n \in 0..Len(<<>>) : n = 0
    BY <1>1
  <1>3. QED
    BY <1>1, <1>2, SurvivorsMember
-----------------------------------------------------------------------------
(* Records, blocks and journals.                                           *)

\* The type invariant, in three parts.
WalTypes == wal \in [mem : Seq(Record), disk : Seq(Record)]
DataTypes == data \in [Files -> [mem : Seq(Block), disk : Seq(Block)]]
CallTypes ==
    /\ step \in {"idle", "recover", "undo", "checkpoint", "prepare", "append"}
    /\ todo \subseteq Files
    /\ writes \in Seq(WriteRecord) /\ Len(writes) <= MaxWrites

LEMMA TypeParts == TypeOK <=> WalTypes /\ DataTypes /\ CallTypes
  BY Zenon DEF TypeOK, WalTypes, DataTypes, CallTypes

LEMMA BlockFacts ==
    /\ \A x \in Block : Cut(x) \in Block
    /\ \A t \in Transactions : \A whole \in BOOLEAN : [tx |-> t, whole |-> whole] \in Block
    /\ \A t \in Transactions : Cut([tx |-> t, whole |-> TRUE]) = [tx |-> t, whole |-> FALSE]
  <1>1. \A x \in Block : Cut(x) \in Block
    BY DEF Block, Cut
  <1>2. \A t \in Transactions : \A whole \in BOOLEAN : [tx |-> t, whole |-> whole] \in Block
    BY DEF Block
  <1>3. ASSUME NEW t \in Transactions
        PROVE  Cut([tx |-> t, whole |-> TRUE]) = [tx |-> t, whole |-> FALSE]
    <2> DEFINE x == [tx |-> t, whole |-> TRUE]
    <2>1. x \in Block /\ x.tx = t
      BY DEF Block
    <2>2. Cut(x) \in Block /\ Cut(x).tx = t /\ Cut(x).whole = FALSE
      BY <2>1 DEF Block, Cut
    <2>3. \A y \in Block : y = [tx |-> y.tx, whole |-> y.whole]
      BY DEF Block
    <2> HIDE DEF x
    <2>4. Cut(x) = [tx |-> t, whole |-> FALSE]
      BY <2>2, <2>3
    <2>5. QED
      BY <2>4 DEF x
  <1>4. QED
    BY <1>1, <1>2, <1>3

LEMMA RecordFacts ==
    ASSUME NEW x \in Record
    PROVE  /\ Cut(x) \in Record /\ ~Cut(x).whole
           /\ x.tx \in Transactions /\ x.files \subseteq Files
           /\ x.base \in [Files -> Seq(Block)] /\ \A f \in Files : x.base[f] \in Seq(Block)
  BY DEF Record, Cut

LEMMA TerminalFacts ==
    ASSUME NEW kind \in {"commit", "rollback"}, NEW t \in Transactions
    PROVE  /\ Terminal(kind, t) \in Record /\ Terminal(kind, t).whole
           /\ Terminal(kind, t).kind = kind /\ Terminal(kind, t).tx = t
  <1>1. <<>> \in Seq(Block)
    BY EmptySeq
  <1>2. NoBase \in [Files -> Seq(Block)]
    BY <1>1 DEF NoBase
  <1>3. QED
    BY <1>2 DEF Terminal, Record

\* Journals without a torn record.
AllWhole(c) == \A i \in DOMAIN c : c[i].whole

LEMMA CompleteFacts ==
    ASSUME NEW w \in Seq(Record)
    PROVE  /\ Complete(w) \in Seq(Record)
           /\ ~Torn(w) => Complete(w) = w
           /\ Torn(w) => \E x \in Record : w = Append(Complete(w), x)
           /\ AllWhole(w) => ~Torn(w)
  <1>1. Len(w) \in Nat /\ DOMAIN w = 1..Len(w) /\ (w # <<>> => Len(w) \in 1..Len(w))
    BY LenProperties, EmptySeq
  <1>2. ~Torn(w) => Complete(w) = w
    BY DEF Complete
  <1>3. ASSUME Torn(w)
        PROVE  Complete(w) \in Seq(Record) /\ \E x \in Record : w = Append(Complete(w), x)
    <2>1. w # <<>> /\ Complete(w) = SubSeq(w, 1, Len(w) - 1)
      BY <1>3 DEF Torn, Complete
    <2>2. PICK s \in Seq(Record), x \in Record : w = Append(s, x)
      BY <2>1, SequenceEmptyOrAppend
    <2>3. Len(s) \in Nat /\ Len(w) - 1 = Len(s) /\ SubSeq(w, 1, Len(s)) = s
      BY <2>2, Appends, LenProperties
    <2>4. Complete(w) = s
      BY <2>1, <2>3
    <2>5. QED
      BY <2>2, <2>4
  <1>4. AllWhole(w) => ~Torn(w)
    BY <1>1 DEF AllWhole, Torn
  <1>5. QED
    BY <1>2, <1>3, <1>4

LEMMA JournalAppend ==
    ASSUME NEW w \in Seq(Record), NEW x \in Record
    PROVE  /\ Append(w, x) \in Seq(Record)
           /\ x.whole => Complete(Append(w, x)) = Append(w, x) /\ ~Torn(Append(w, x))
           /\ ~x.whole => Complete(Append(w, x)) = w
           /\ Pending(Append(w, x)) = x
           /\ HasPending(Append(w, x)) <=> x.kind = "prepare"
           /\ AllWhole(w) /\ x.whole => AllWhole(Append(w, x))
           /\ WellFormed(w) /\ x.kind = "prepare" /\ ~HasPending(w) => WellFormed(Append(w, x))
           /\ WellFormed(w) /\ x.kind # "prepare" /\ HasPending(w) /\ Pending(w).tx = x.tx
                => WellFormed(Append(w, x))
  <1> DEFINE new == Append(w, x)
  <1>1. Len(w) \in Nat /\ DOMAIN w = 1..Len(w)
    BY LenProperties
  <1>2. /\ new \in Seq(Record) /\ Len(new) = Len(w) + 1 /\ new # <<>>
        /\ new[Len(w) + 1] = x
        /\ \A i \in 1..Len(w) : new[i] = w[i]
        /\ SubSeq(new, 1, Len(w)) = w
    BY Appends
  <1>3. DOMAIN new = 1..Len(w) + 1
    BY <1>2, LenProperties
  <1>4. w # <<>> => Len(w) \in 1..Len(w) /\ 1 \in 1..Len(w)
    BY <1>1, EmptySeq
  <1>5. w = <<>> => Len(w) = 0
    BY EmptySeq
  <1> HIDE DEF new
  <1>6. new[Len(new)] = x /\ Len(new) - 1 = Len(w)
    BY <1>1, <1>2
  <1>7. /\ x.whole => Complete(new) = new /\ ~Torn(new)
        /\ ~x.whole => Complete(new) = w
        /\ Pending(new) = x
        /\ HasPending(new) <=> x.kind = "prepare"
    BY <1>2, <1>6 DEF Complete, Torn, Pending, HasPending
  <1>8. AllWhole(w) /\ x.whole => AllWhole(new)
    BY <1>1, <1>2, <1>3 DEF AllWhole
  <1>9. ASSUME WellFormed(w),
               \/ x.kind = "prepare" /\ ~HasPending(w)
               \/ x.kind # "prepare" /\ HasPending(w) /\ Pending(w).tx = x.tx
        PROVE  WellFormed(new)
    <2>1. new[1].kind = "prepare"
      <3>1. CASE w = <<>>
        BY <1>2, <1>5, <1>9, <3>1 DEF HasPending
      <3>2. CASE w # <<>>
        BY <1>2, <1>4, <1>9, <3>2 DEF WellFormed
      <3>3. QED
        BY <3>1, <3>2
    <2>2. ASSUME NEW i \in 2..Len(new)
          PROVE  IF new[i].kind = "prepare" THEN new[i - 1].kind # "prepare"
                 ELSE new[i - 1].kind = "prepare" /\ new[i - 1].tx = new[i].tx
      <3>1. CASE i <= Len(w)
        <4>1. i \in 1..Len(w) /\ i - 1 \in 1..Len(w) /\ i \in 2..Len(w)
          BY <1>1, <3>1
        <4>2. new[i] = w[i] /\ new[i - 1] = w[i - 1]
          BY <1>2, <4>1
        <4>3. QED
          BY <1>9, <4>1, <4>2 DEF WellFormed
      <3>2. CASE i = Len(w) + 1
        <4>1. w # <<>> /\ i - 1 = Len(w) /\ Len(w) \in 1..Len(w)
          BY <1>1, <1>5, <3>2
        <4>2. new[i] = x /\ new[i - 1] = w[Len(w)]
          BY <1>2, <3>2, <4>1
        <4>3. QED
          BY <1>9, <4>1, <4>2 DEF HasPending, Pending
      <3>3. i <= Len(w) \/ i = Len(w) + 1
        BY <1>1, <1>2
      <3>4. QED
        BY <3>1, <3>2, <3>3
    <2>3. QED
      BY <2>1, <2>2 DEF WellFormed
  <1>10. QED
    BY <1>2, <1>7, <1>8, <1>9 DEF new
-----------------------------------------------------------------------------
(* What can be found of the journal.                                       *)

LEMMA WalFacts ==
    ASSUME WalTypes
    PROVE  /\ wal = [mem |-> wal.mem, disk |-> wal.disk]
           /\ wal.mem \in Seq(Record) /\ wal.disk \in Seq(Record)
           /\ \A w \in Survivors(wal) : w \in Seq(Record)
           /\ wal.mem \in Survivors(wal) /\ wal.disk \in Survivors(wal)
           /\ Now \in Found /\ Found \subseteq Seq(Record)
  <1>1. /\ wal = [mem |-> wal.mem, disk |-> wal.disk]
        /\ wal.mem \in Seq(Record) /\ wal.disk \in Seq(Record)
    BY DEF WalTypes
  <1>2. \A w \in Survivors(wal) : w \in Seq(Record)
    BY <1>1, SurvivorsType, RecordFacts
  <1>3. wal.mem \in Survivors(wal) /\ wal.disk \in Survivors(wal)
    BY <1>1, SurvivorsNow
  <1>4. QED
    BY <1>1, <1>2, <1>3, CompleteFacts DEF Found, Now

LEMMA FoundSame ==
    ASSUME WalTypes, UNCHANGED wal
    PROVE  WalTypes' /\ Found' = Found /\ Now' = Now
  BY DEF WalTypes, Found, Now

LEMMA FoundSynced ==
    ASSUME NEW c \in Seq(Record), wal' = Synced(c)
    PROVE  /\ WalTypes' /\ wal'.mem = c /\ wal'.disk = c
           /\ Found' = {Complete(c)} /\ Now' = Complete(c)
  <1>1. WalTypes' /\ wal'.mem = c /\ wal'.disk = c
    BY DEF WalTypes, Synced
  <1>2. Survivors(wal') = {c}
    BY SurvivorsSynced
  <1>3. QED
    BY <1>1, <1>2 DEF Found, Now

LEMMA FoundAppend ==
    ASSUME WalTypes, ~Torn(wal.mem), NEW x \in Record, x.whole,
           NEW w \in Attempts(wal.mem, x), wal' = [wal EXCEPT !.mem = w]
    PROVE  /\ WalTypes' /\ wal'.disk = wal.disk
           /\ \/ Found' \subseteq Found /\ Now' = Now
              \/ Found' \subseteq Found \cup {Append(wal.mem, x)} /\ Now' = Append(wal.mem, x)
  <1>1. /\ wal = [mem |-> wal.mem, disk |-> wal.disk]
        /\ wal.mem \in Seq(Record) /\ wal.disk \in Seq(Record) /\ Now \in Found
    BY WalFacts
  <1>2. Cut(x) \in Record /\ ~Cut(x).whole /\ Cut(Cut(x)) = Cut(x)
    BY RecordFacts DEF Cut
  <1>3. Now = wal.mem
    BY <1>1, CompleteFacts DEF Now
  <1>4. wal' = [mem |-> w, disk |-> wal.disk] /\ wal'.mem = w /\ wal'.disk = wal.disk
    BY <1>1
  <1>5. CASE w = wal.mem
    <2>1. wal' = wal
      BY <1>1, <1>4, <1>5
    <2>2. QED
      BY <1>4, <2>1, FoundSame
  <1>6. ASSUME NEW y \in Record, w = Append(wal.mem, y), y = x \/ y = Cut(x)
        PROVE  /\ WalTypes'
               /\ Now' = IF y = x THEN Append(wal.mem, x) ELSE Now
               /\ \A v \in Survivors(wal') :
                     v \in Survivors(wal) \/ v = Append(wal.mem, y) \/ v = Append(wal.mem, Cut(x))
    <2>1. w \in Seq(Record)
      BY <1>1, <1>6, JournalAppend
    <2>2. WalTypes'
      BY <1>1, <1>4, <2>1 DEF WalTypes
    <2>3. /\ Complete(Append(wal.mem, x)) = Append(wal.mem, x)
          /\ Complete(Append(wal.mem, Cut(x))) = Now
      BY <1>1, <1>2, <1>3, JournalAppend
    <2>4. Now' = Complete(w)
      BY <1>4 DEF Now
    <2>5. Now' = IF y = x THEN Append(wal.mem, x) ELSE Now
      BY <1>6, <2>3, <2>4
    <2>6. ASSUME NEW v \in Survivors(wal')
          PROVE  v \in Survivors(wal) \/ v = Append(wal.mem, y) \/ v = Append(wal.mem, Cut(x))
      <3>1. v \in Survivors([mem |-> Append(wal.mem, y), disk |-> wal.disk])
        BY <1>4, <1>6, <2>6
      <3>2. v \in Survivors(wal) \cup {Append(wal.mem, y), Append(wal.mem, Cut(y))}
        BY <1>1, <3>1, SurvivorsAppend
      <3>3. QED
        BY <1>2, <1>6, <3>2
    <2>7. QED
      BY <2>2, <2>5, <2>6
  <1>7. /\ Complete(Append(wal.mem, x)) = Append(wal.mem, x)
        /\ Complete(Append(wal.mem, Cut(x))) = Now
    BY <1>1, <1>2, <1>3, JournalAppend
  <1>8. CASE w = Append(wal.mem, x)
    <2>1. /\ WalTypes' /\ Now' = Append(wal.mem, x)
          /\ \A v \in Survivors(wal') :
                v \in Survivors(wal) \/ v = Append(wal.mem, x) \/ v = Append(wal.mem, Cut(x))
      BY <1>6, <1>8
    <2>2. QED
      BY <1>1, <1>4, <1>7, <2>1 DEF Found
  <1>9. CASE w = Append(wal.mem, Cut(x))
    <2>1. /\ WalTypes' /\ Now' = Now
          /\ \A v \in Survivors(wal') : v \in Survivors(wal) \/ v = Append(wal.mem, Cut(x))
      BY <1>2, <1>6, <1>9
    <2>2. QED
      BY <1>1, <1>4, <1>7, <2>1 DEF Found
  <1>10. w = wal.mem \/ w = Append(wal.mem, x) \/ w = Append(wal.mem, Cut(x))
    BY DEF Attempts
  <1>11. QED
    BY <1>5, <1>8, <1>9, <1>10

LEMMA FoundRepaired ==
    ASSUME WalTypes, AllWhole(Now), wal' \in {Synced(Complete(wal.mem)), wal,
                                              [wal EXCEPT !.mem = Complete(wal.mem)]}
    PROVE  WalTypes' /\ Found' \subseteq Found /\ Now' = Now
  <1>1. /\ wal = [mem |-> wal.mem, disk |-> wal.disk]
        /\ wal.mem \in Seq(Record) /\ wal.disk \in Seq(Record)
        /\ Now \in Found /\ Now \in Seq(Record)
    BY WalFacts
  <1>2. Complete(Now) = Now
    BY <1>1, CompleteFacts
  <1>3. CASE wal' = Synced(Complete(wal.mem))
    BY <1>1, <1>2, <1>3, FoundSynced DEF Now
  <1>4. CASE wal' = wal
    BY <1>4, FoundSame
  <1>4a. ASSUME ~Torn(wal.mem), wal' = [wal EXCEPT !.mem = Complete(wal.mem)]
         PROVE  wal' = wal
    BY <1>1, <1>4a, CompleteFacts
  <1>5. CASE Torn(wal.mem) /\ wal' = [wal EXCEPT !.mem = Complete(wal.mem)]
    <2>1. PICK x \in Record : wal.mem = Append(Now, x)
      BY <1>1, <1>5, CompleteFacts DEF Now
    <2>2. wal' = [mem |-> Now, disk |-> wal.disk] /\ wal'.mem = Now
      BY <1>1, <1>5 DEF Now
    <2>3. ASSUME NEW v \in Survivors(wal')
          PROVE  Complete(v) \in Found
      <3>1. v \in Survivors([mem |-> Append(Now, x), disk |-> wal.disk]) \cup {Now}
        BY <1>1, <2>2, <2>3, SurvivorsFront
      <3>2. v \in Survivors(wal) \/ v = Now
        BY <1>1, <2>1, <3>1
      <3>3. QED
        BY <1>1, <1>2, <3>2 DEF Found
    <2>4. WalTypes' /\ Now' = Now
      BY <1>1, <1>2, <2>2 DEF WalTypes, Now
    <2>5. QED
      BY <2>3, <2>4 DEF Found
  <1>6. CASE wal' = [wal EXCEPT !.mem = Complete(wal.mem)]
    BY <1>4, <1>4a, <1>5, <1>6
  <1>7. QED
    BY <1>3, <1>4, <1>6

LEMMA FoundEmptied ==
    ASSUME WalTypes, wal' \in {Synced(<<>>), wal, [wal EXCEPT !.mem = <<>>]}
    PROVE  WalTypes' /\ Found' \subseteq Found \cup {<<>>} /\ Now' \in {Now, <<>>}
  <1>1. /\ wal = [mem |-> wal.mem, disk |-> wal.disk]
        /\ wal.mem \in Seq(Record) /\ wal.disk \in Seq(Record) /\ wal.disk \in Survivors(wal)
    BY WalFacts
  <1>2. <<>> \in Seq(Record) /\ Complete(<<>>) = <<>>
    BY EmptySeq DEF Complete, Torn
  <1>3. CASE wal' = Synced(<<>>)
    BY <1>2, <1>3, FoundSynced
  <1>4. CASE wal' = wal
    BY <1>4, FoundSame
  <1>5. CASE wal' = [wal EXCEPT !.mem = <<>>]
    <2>1. wal' = [mem |-> <<>>, disk |-> wal.disk] /\ wal'.mem = <<>>
      BY <1>1, <1>5
    <2>2. \A v \in Survivors(wal') : v = wal.disk \/ v = <<>>
      BY <1>1, <2>1, SurvivorsEmpty
    <2>3. WalTypes' /\ Now' = <<>>
      BY <1>1, <1>2, <2>1 DEF WalTypes, Now
    <2>4. QED
      BY <1>1, <1>2, <2>2, <2>3 DEF Found
  <1>6. QED
    BY <1>3, <1>4, <1>5

LEMMA FoundCrashed ==
    ASSUME WalTypes, NEW w \in Survivors(wal), wal' = Synced(w)
    PROVE  WalTypes' /\ Complete(w) \in Found /\ Found' = {Complete(w)} /\ Now' = Complete(w)
  <1>1. w \in Seq(Record)
    BY WalFacts
  <1>2. QED
    BY <1>1, FoundSynced DEF Found
-----------------------------------------------------------------------------
(* The calls.                                                              *)

Committed == {t \in DOMAIN writes : writes[t].outcome \in Confirmed}
Undone == {t \in DOMAIN writes : writes[t].outcome = "undone"}

\* No write is forgotten, and none is acknowledged.
WritesKept ==
    /\ \A t \in DOMAIN writes : t \in DOMAIN writes' /\ writes'[t].files = writes[t].files
    /\ Committed' \subseteq Committed

LEMMA CallFacts ==
    ASSUME CallTypes
    PROVE  /\ Current \in Nat /\ Current <= MaxWrites /\ DOMAIN writes = 1..Current
           /\ writes = <<>> <=> Current = 0
           /\ \A t \in DOMAIN writes : writes[t] \in WriteRecord
           /\ Writing => Current \in DOMAIN writes /\ Current \in Transactions
  <1>1. Current \in Nat /\ Current <= MaxWrites /\ DOMAIN writes = 1..Current
    BY LenProperties DEF CallTypes, Current
  <1>2. writes = <<>> <=> Current = 0
    BY EmptySeq DEF CallTypes, Current
  <1>3. \A t \in DOMAIN writes : writes[t] \in WriteRecord
    BY <1>1, ElementOfSeq DEF CallTypes, Current
  <1>4. QED
    BY <1>1, <1>2, <1>3, JsonlBatchAssumption DEF Writing, Transactions

LEMMA EnterFacts ==
    ASSUME CallTypes, NEW s, NEW fs, Enter(s, fs), fs \subseteq Files,
           s \in {"recover", "undo", "checkpoint", "prepare", "append"}
    PROVE  /\ CallTypes' /\ WritesKept /\ Committed' = Committed /\ Undone' = Undone
           /\ step' = s /\ todo' = fs /\ writes' = writes /\ Current' = Current
           /\ Writing' <=> Writing
  BY DEF CallTypes, Enter, WritesKept, Committed, Undone, Current, Writing

\* A call that returns leaves no write running, and the lock free.
LEMMA ReturnFacts ==
    ASSUME CallTypes, Position, NEW outcome \in Confirmed \cup {"undone", "unknown"}, Return(outcome)
    PROVE  /\ CallTypes' /\ Position' /\ Current' = Current /\ DOMAIN writes' = DOMAIN writes
           /\ \A t \in DOMAIN writes : writes'[t].files = writes[t].files
           /\ Committed' = IF Writing /\ outcome \in Confirmed THEN Committed \cup {Current} ELSE Committed
           /\ Undone' = IF Writing /\ outcome = "undone" THEN Undone \cup {Current} ELSE Undone
           /\ ~Writing'
  <1>0. step' = "idle" /\ todo' = {} /\ (Writing => step \in {"append", "undo"})
    BY DEF Return, Position, Running
  <1>1. CASE ~Writing
    <2>1. writes' = writes
      BY <1>1 DEF Return
    <2>2. CallTypes' /\ Committed' = Committed /\ Undone' = Undone /\ Current' = Current /\ ~Writing'
      BY <1>0, <1>1, <2>1 DEF CallTypes, Committed, Undone, Current, Writing
    <2>3. \A t \in DOMAIN writes : writes[t].outcome # "running"
      BY <1>1, CallFacts DEF Position, Running, Writing
    <2>4. Position'
      BY <1>0, <2>1, <2>2, <2>3 DEF Position, Undoing, Appending, Running
    <2>5. QED
      BY <1>1, <2>1, <2>2, <2>4
  <1>2. CASE Writing
    <2>1. /\ writes' = [writes EXCEPT ![Current].outcome = outcome]
          /\ Current \in DOMAIN writes /\ writes[Current].outcome = "running"
      BY <1>2, CallFacts DEF Return, Writing
    <2>2. writes[Current] \in WriteRecord
      BY <2>1, CallFacts
    <2>3. [writes[Current] EXCEPT !.outcome = outcome] \in WriteRecord
      BY <2>2 DEF WriteRecord, Confirmed
    <2>4. writes' \in Seq(WriteRecord) /\ Len(writes') = Len(writes)
      BY <2>1, <2>3, ExceptSeq DEF CallTypes
    <2>5. CallTypes' /\ Current' = Current
      BY <1>0, <2>4 DEF CallTypes, Current
    <2>6. /\ DOMAIN writes' = DOMAIN writes
          /\ \A t \in DOMAIN writes :
                /\ writes'[t].files = writes[t].files
                /\ writes'[t].outcome = IF t = Current THEN outcome ELSE writes[t].outcome
      BY <2>1, <2>2 DEF WriteRecord
    <2>7. \A t \in DOMAIN writes : writes[t].outcome = "running" => t = Current
      BY DEF Position, Running
    <2>8. ~Writing' /\ \A t \in DOMAIN writes' : writes'[t].outcome # "running"
      BY <2>1, <2>5, <2>6, <2>7 DEF Writing, Confirmed
    <2>9. Position'
      BY <1>0, <2>8 DEF Position, Undoing, Appending, Running
    <2>10. /\ Committed' = IF outcome \in Confirmed THEN Committed \cup {Current} ELSE Committed
           /\ Undone' = IF outcome = "undone" THEN Undone \cup {Current} ELSE Undone
      BY <2>1, <2>6 DEF Committed, Undone, Confirmed
    <2>11. QED
      BY <1>2, <2>5, <2>6, <2>8, <2>9, <2>10
  <1>3. QED
    BY <1>1, <1>2

LEMMA UnknownFacts ==
    ASSUME CallTypes, Position, Return("unknown")
    PROVE  /\ CallTypes' /\ Position' /\ WritesKept /\ Committed' = Committed /\ Undone' = Undone
  <1>1. "unknown" \in Confirmed \cup {"undone", "unknown"} /\ "unknown" \notin Confirmed /\ "unknown" # "undone"
    BY DEF Confirmed
  <1>2. QED
    BY <1>1, ReturnFacts DEF WritesKept
-----------------------------------------------------------------------------
(* The invariant when the files stay as they are.                          *)

ShownSame == \A f \in Files : Shown(Now, f)' = Shown(Now, f)

\* Nothing that a reader or a caller can see happens.
Quiet == ShownSame /\ Committed' = Committed /\ Undone' = Undone

LEMMA JournalFacts ==
    ASSUME WalTypes, Journals
    PROVE  /\ Now \in Found /\ Now \in Seq(Record) /\ AllWhole(Now) /\ WellFormed(Now)
           /\ Recoverable(Now) /\ Known(Now)
           /\ ~Torn(wal.mem) => Now = wal.mem
           /\ \A c \in Found : HasPending(c) => /\ Pending(c) \in Record
                                                /\ Pending(c).files \subseteq Files
                                                /\ \A f \in Files : Pending(c).base[f] \in Seq(Block)
  <1>1. /\ Now \in Found /\ Found \subseteq Seq(Record) /\ wal.mem \in Seq(Record)
        /\ Recoverable(Now) /\ Known(Now)
    BY WalFacts DEF Journals
  <1>2. AllWhole(Now) /\ WellFormed(Now)
    BY <1>1 DEF Recoverable, AllWhole
  <1>3. ~Torn(wal.mem) => Now = wal.mem
    BY <1>1, CompleteFacts DEF Now
  <1>4. ASSUME NEW c \in Found, HasPending(c)
        PROVE  Pending(c) \in Record
    <2>1. c \in Seq(Record) /\ c # <<>>
      BY <1>1, <1>4 DEF HasPending
    <2>2. Len(c) \in 1..Len(c)
      BY <2>1, LenProperties, EmptySeq
    <2>3. QED
      BY <2>1, <2>2, ElementOfSeq DEF Pending
  <1>5. QED
    BY <1>1, <1>2, <1>3, <1>4, RecordFacts

\* A file that no pending transaction is about.
LEMMA StableFacts ==
    ASSUME DataTypes, NEW f \in Files
    PROVE  /\ data[f] = [mem |-> data[f].mem, disk |-> data[f].disk]
           /\ data[f].mem \in Seq(Block) /\ data[f].disk \in Seq(Block)
           /\ {data[f].mem, data[f].disk} \subseteq Survivors(data[f])
           /\ \A v \in Survivors(data[f]) : v \in Seq(Block)
           /\ data[f].disk = data[f].mem => Survivors(data[f]) = {data[f].mem}
  <1>1. /\ data[f] = [mem |-> data[f].mem, disk |-> data[f].disk]
        /\ data[f].mem \in Seq(Block) /\ data[f].disk \in Seq(Block)
    BY DEF DataTypes
  <1>2. {data[f].mem, data[f].disk} \subseteq Survivors(data[f])
    BY <1>1, SurvivorsNow
  <1>3. \A v \in Survivors(data[f]) : v \in Seq(Block)
    BY <1>1, SurvivorsType, BlockFacts
  <1>4. ASSUME data[f].disk = data[f].mem
        PROVE  Survivors(data[f]) = {data[f].mem}
    BY <1>1, <1>4, SurvivorsSynced DEF Synced
  <1>5. QED
    BY <1>1, <1>2, <1>3, <1>4

LEMMA KeptJournals ==
    ASSUME Journals, UNCHANGED data, ShownSame, WritesKept, NEW c \in Found
    PROVE  Recoverable(c)' /\ Known(c)' /\ Shows(c)'
  <1>1. Recoverable(c) /\ Known(c) /\ Shows(c)
    BY DEF Journals
  <1>2. Recoverable(c)'
    BY <1>1 DEF Recoverable, Covers, InRange
  <1>3. Known(c)'
    BY <1>1 DEF Known, WritesKept, Committed
  <1>4. \A f \in Files : Shown(c, f)' = Shown(c, f)
    BY DEF Shown, Covers
  <1>5. Shows(c)'
    BY <1>1, <1>4 DEF Shows, ShownSame
  <1>6. QED
    BY <1>2, <1>3, <1>5

LEMMA KeptAttributed ==
    ASSUME Attributed, ShownSame, WritesKept
    PROVE  Attributed'
  <1>1. ASSUME NEW f \in Files, NEW i \in DOMAIN Shown(Now, f)'
        PROVE  /\ Shown(Now, f)'[i].tx \in DOMAIN writes'
               /\ f \in writes'[Shown(Now, f)'[i].tx].files
    <2>1. Shown(Now, f)' = Shown(Now, f)
      BY DEF ShownSame
    <2>2. Shown(Now, f)[i].tx \in DOMAIN writes /\ f \in writes[Shown(Now, f)[i].tx].files
      BY <1>1, <2>1 DEF Attributed
    <2>3. QED
      BY <2>1, <2>2 DEF WritesKept
  <1>2. QED
    BY <1>1 DEF Attributed

LEMMA KeptAcknowledged ==
    ASSUME AcknowledgedDurable, UNCHANGED data, WritesKept
    PROVE  AcknowledgedDurable'
  BY DEF AcknowledgedDurable, Holds, WritesKept, Committed

\* A step that leaves the files alone, and adds at most the journal c.
LEMMA AddedJournal ==
    ASSUME Journals, Attributed, AcknowledgedDurable, UNCHANGED data, ShownSame, WritesKept,
           NEW c, Found' \subseteq Found \cup {c}, Recoverable(c)', Known(c)',
           \A f \in Files : Shown(c, f)' = Shown(Now, f)
    PROVE  Journals' /\ Attributed' /\ AcknowledgedDurable'
  <1>1. Shows(c)'
    BY DEF Shows, ShownSame
  <1>2. \A d \in Found : Recoverable(d)' /\ Known(d)' /\ Shows(d)'
    BY KeptJournals
  <1>3. Journals'
    BY <1>1, <1>2 DEF Journals
  <1>4. QED
    BY <1>3, KeptAttributed, KeptAcknowledged

LEMMA NoNewJournal ==
    ASSUME Journals, Attributed, AcknowledgedDurable, UNCHANGED data, WritesKept,
           Found' \subseteq Found, Now' = Now
    PROVE  Journals' /\ Attributed' /\ AcknowledgedDurable' /\ ShownSame
  <1>1. ShownSame
    BY DEF ShownSame, Shown, Covers
  <1>2. \A d \in Found : Recoverable(d)' /\ Known(d)' /\ Shows(d)'
    BY <1>1, KeptJournals
  <1>3. Journals'
    BY <1>2 DEF Journals
  <1>4. QED
    BY <1>1, <1>3, KeptAttributed, KeptAcknowledged
-----------------------------------------------------------------------------
(* Steps that leave the files alone and show readers nothing new.          *)

LEMMA InvParts ==
    IInv <=> /\ WalTypes /\ DataTypes /\ CallTypes
             /\ Journals /\ Attributed /\ Position /\ AcknowledgedDurable
  BY TypeParts, Zenon DEF IInv

LEMMA InvNext ==
    ASSUME WalTypes', DataTypes', CallTypes', Journals', Attributed', Position', AcknowledgedDurable'
    PROVE  IInv'
  <1>1. TypeOK'
    BY Zenon DEF TypeOK, WalTypes, DataTypes, CallTypes
  <1>2. QED
    BY <1>1, Zenon DEF IInv

\* A step that gives up: the caller is not told.
LEMMA GivenUp ==
    ASSUME IInv, Return("unknown"), UNCHANGED data, WalTypes', Found' \subseteq Found, Now' = Now
    PROVE  IInv' /\ Quiet
  <1>1. DataTypes'
    BY InvParts DEF DataTypes
  <1>2. CallTypes' /\ Position' /\ WritesKept /\ Committed' = Committed /\ Undone' = Undone
    BY UnknownFacts, InvParts
  <1>3. Journals' /\ Attributed' /\ AcknowledgedDurable' /\ ShownSame
    BY <1>2, NoNewJournal, InvParts
  <1>4. QED
    BY <1>1, <1>2, <1>3, InvNext DEF Quiet

\* A step that goes on to s, with no write running.
LEMMA GoneOn ==
    ASSUME IInv, ~Writing, NEW s \in {"recover", "checkpoint", "prepare"}, Enter(s, {}),
           UNCHANGED data, WalTypes', Found' \subseteq Found, Now' = Now,
           s # "recover" => Settled(wal.mem)'
    PROVE  IInv' /\ Quiet
  <1>1. DataTypes'
    BY InvParts DEF DataTypes
  <1>2. /\ CallTypes' /\ WritesKept /\ Committed' = Committed /\ Undone' = Undone
        /\ step' = s /\ writes' = writes /\ Current' = Current /\ ~Writing'
    BY EnterFacts, InvParts
  <1>3. Position'
    BY <1>2, InvParts DEF Position, Undoing, Appending, Running
  <1>4. Journals' /\ Attributed' /\ AcknowledgedDurable' /\ ShownSame
    BY <1>2, NoNewJournal, InvParts
  <1>5. QED
    BY <1>1, <1>2, <1>3, <1>4, InvNext DEF Quiet

LEMMA BeginStep ==
    ASSUME IInv, Begin
    PROVE  IInv' /\ Quiet
  <1>1. ~Writing /\ Enter("recover", {}) /\ UNCHANGED <<wal, data>>
    BY InvParts DEF Begin, Position, Running
  <1>2. QED
    BY <1>1, GoneOn, FoundSame, InvParts

LEMMA GiveUpStep ==
    ASSUME IInv, GiveUp
    PROVE  IInv' /\ Quiet
  BY GivenUp, FoundSame, InvParts DEF GiveUp

LEMMA RepairTornStep ==
    ASSUME IInv, RepairTorn
    PROVE  IInv' /\ Quiet
  <1>1. AllWhole(Now) /\ ~Writing
    BY JournalFacts, InvParts DEF RepairTorn, Position, Running
  <1>2. CASE wal' = Synced(Complete(wal.mem)) /\ UNCHANGED <<data, step, todo, writes>>
    <2>2. WalTypes' /\ Found' \subseteq Found /\ Now' = Now
      BY <1>1, <1>2, FoundRepaired, InvParts
    <2>3. CallTypes' /\ WritesKept /\ Committed' = Committed /\ Undone' = Undone /\ DataTypes'
      BY <1>2, InvParts DEF CallTypes, WritesKept, Committed, Undone, DataTypes
    <2>4. Position'
      BY <1>1, <1>2, InvParts DEF Position, Undoing, Appending, Running, RepairTorn, Writing, Current
    <2>5. Journals' /\ Attributed' /\ AcknowledgedDurable' /\ ShownSame
      BY <1>2, <2>2, <2>3, NoNewJournal, InvParts
    <2>6. QED
      BY <2>2, <2>3, <2>4, <2>5, InvNext DEF Quiet
  <1>3. CASE /\ wal' \in {wal, [wal EXCEPT !.mem = Complete(wal.mem)]}
             /\ Return("unknown") /\ UNCHANGED data
    <2>1. WalTypes' /\ Found' \subseteq Found /\ Now' = Now
      BY <1>1, <1>3, FoundRepaired, InvParts
    <2>2. QED
      BY <1>3, <2>1, GivenUp
  <1>4. QED
    BY <1>2, <1>3 DEF RepairTorn

LEMMA RecoverDecideStep ==
    ASSUME IInv, RecoverDecide
    PROVE  IInv' /\ Quiet
  <1>1. /\ WalTypes' /\ Found' = Found /\ Now' = Now /\ wal' = wal /\ data' = data
        /\ ~Writing
    BY FoundSame, InvParts DEF RecoverDecide, Position, Running
  <1>2. CASE Return("unknown")
    BY <1>1, <1>2, GivenUp
  <1>3. CASE Settled(wal.mem) /\ Enter("checkpoint", {})
    <2>1. Settled(wal.mem)'
      BY <1>1, <1>3
    <2>2. QED
      BY <1>1, <1>3, <2>1, GoneOn
  <1>4. CASE ~Torn(wal.mem) /\ HasPending(wal.mem) /\ Enter("undo", Pending(wal.mem).files)
    <2>1. Open /\ Now = wal.mem /\ Pending(wal.mem).files \subseteq Files
      BY <1>4, JournalFacts, InvParts DEF Open
    <2>2. /\ CallTypes' /\ WritesKept /\ Committed' = Committed /\ Undone' = Undone
          /\ step' = "undo" /\ todo' = Pending(wal.mem).files /\ writes' = writes
          /\ Current' = Current /\ ~Writing'
      BY <1>1, <1>4, <2>1, EnterFacts, InvParts
    <2>3. Open' /\ Pending(wal.mem)' = Pending(wal.mem)
      BY <1>1, <2>1 DEF Open
    <2>4. Undoing'
      BY <2>2, <2>3 DEF Undoing
    <2>5. Position'
      BY <2>2, <2>4, InvParts DEF Position, Appending, Running
    <2>6. Journals' /\ Attributed' /\ AcknowledgedDurable' /\ ShownSame
      BY <1>1, <2>2, NoNewJournal, InvParts
    <2>7. DataTypes'
      BY <1>1, InvParts DEF DataTypes
    <2>8. QED
      BY <1>1, <2>2, <2>5, <2>6, <2>7, InvNext DEF Quiet
  <1>5. QED
    BY <1>2, <1>3, <1>4 DEF RecoverDecide

\* Nothing is pending and every file is synced: a journal that has nothing
\* pending either can be added.
LEMMA Settling ==
    ASSUME IInv, UNCHANGED data, WritesKept,
           NEW c, AllWhole(c), WellFormed(c), ~HasPending(c),
           \A f \in Files : data[f].disk = data[f].mem /\ Shown(Now, f) = data[f].mem,
           Found' \subseteq Found \cup {c}, Now' \in {Now, c}
    PROVE  Journals' /\ Attributed' /\ AcknowledgedDurable' /\ ShownSame
  <1>1. \A f \in Files : data'[f].disk = data'[f].mem
    OBVIOUS
  <1>2. Recoverable(c)'
    BY <1>1 DEF Recoverable, Covers, AllWhole
  <1>3. Known(c)'
    BY DEF Known
  <1>4. \A f \in Files : Shown(c, f)' = Shown(Now, f)
    BY DEF Shown, Covers
  <1>5. ASSUME Now' = Now
        PROVE  \A f \in Files : Shown(Now, f)' = Shown(Now, f)
    BY <1>5 DEF Shown, Covers
  <1>6. ASSUME Now' = c
        PROVE  \A f \in Files : Shown(Now, f)' = Shown(Now, f)
    BY <1>4, <1>6 DEF Shown, Covers
  <1>7. ShownSame
    BY <1>5, <1>6 DEF ShownSame
  <1>8. QED
    BY <1>2, <1>3, <1>4, <1>7, AddedJournal, InvParts

LEMMA CheckpointStep ==
    ASSUME IInv, Checkpoint
    PROVE  IInv' /\ Quiet
  <1>1. /\ ~Torn(wal.mem) /\ ~HasPending(wal.mem) /\ ~Writing /\ UNCHANGED data
        /\ Now = wal.mem
    BY JournalFacts, InvParts DEF Checkpoint, Position, Running, Settled
  <1>2. \A f \in Files : data[f].disk = data[f].mem /\ Shown(Now, f) = data[f].mem
    BY <1>1, JournalFacts, InvParts DEF Recoverable, Covers, Shown
  <1>3. /\ AllWhole(<<>>) /\ WellFormed(<<>>) /\ ~HasPending(<<>>) /\ ~Torn(<<>>)
        /\ <<>> \in Seq(Record)
    BY EmptySeq DEF AllWhole, WellFormed, HasPending, Torn
  <1>4. DataTypes'
    BY <1>1, InvParts DEF DataTypes
  <1>5. CASE UNCHANGED wal /\ Enter("prepare", {})
    <2>1. Settled(wal.mem)'
      BY <1>5, InvParts DEF Checkpoint, Position
    <2>2. QED
      BY <1>1, <1>5, <2>1, GoneOn, FoundSame, InvParts
  <1>6. CASE wal' = Synced(<<>>) /\ Enter("prepare", {})
    <2>1. WalTypes' /\ Found' \subseteq Found \cup {<<>>} /\ Now' \in {Now, <<>>}
      BY <1>6, FoundEmptied, InvParts
    <2>2. /\ CallTypes' /\ WritesKept /\ Committed' = Committed /\ Undone' = Undone
          /\ step' = "prepare" /\ writes' = writes /\ Current' = Current /\ ~Writing'
      BY <1>1, <1>6, EnterFacts, InvParts
    <2>3. Settled(wal.mem)'
      BY <1>3, <1>6 DEF Settled, Synced
    <2>4. Position'
      BY <2>2, <2>3, InvParts DEF Position, Undoing, Appending, Running
    <2>5. Journals' /\ Attributed' /\ AcknowledgedDurable' /\ ShownSame
      BY <1>1, <1>2, <1>3, <2>1, <2>2, Settling
    <2>6. QED
      BY <1>4, <2>1, <2>2, <2>4, <2>5, InvNext DEF Quiet
  <1>7. CASE wal' \in {wal, [wal EXCEPT !.mem = <<>>]} /\ Return("unknown")
    <2>1. WalTypes' /\ Found' \subseteq Found \cup {<<>>} /\ Now' \in {Now, <<>>}
      BY <1>7, FoundEmptied, InvParts
    <2>2. CallTypes' /\ Position' /\ WritesKept /\ Committed' = Committed /\ Undone' = Undone
      BY <1>7, UnknownFacts, InvParts
    <2>3. Journals' /\ Attributed' /\ AcknowledgedDurable' /\ ShownSame
      BY <1>1, <1>2, <1>3, <2>1, <2>2, Settling
    <2>4. QED
      BY <1>4, <2>1, <2>2, <2>3, InvNext DEF Quiet
  <1>8. QED
    BY <1>5, <1>6, <1>7 DEF Checkpoint

\* The write is settled as rolled back, and readers see no change.
Undoes ==
    /\ Writing /\ ShownSame /\ Committed' = Committed /\ Undone' = Undone \cup {Current}

LEMMA UndoDoneStep ==
    ASSUME IInv, UndoDone
    PROVE  IInv' /\ (Quiet \/ Undoes)
  <1> DEFINE p == Pending(wal.mem)
             x == Terminal("rollback", p.tx)
             c == Append(wal.mem, x)
  <1>1. /\ ~Torn(wal.mem) /\ HasPending(wal.mem) /\ Now = wal.mem /\ UNCHANGED data
        /\ \A f \in p.files : data[f] = Synced(p.base[f])
    BY JournalFacts, InvParts DEF UndoDone, Position, Undoing, Open
  <1>2. p \in Record /\ p.tx \in Transactions /\ wal.mem \in Seq(Record)
    BY <1>1, JournalFacts, InvParts, RecordFacts
  <1>3. /\ x \in Record /\ x.whole /\ x.kind # "prepare" /\ x.tx = p.tx
    BY <1>2, TerminalFacts
  <1> HIDE DEF x
  <1>4. \A f \in Files : data[f].disk = data[f].mem /\ Shown(Now, f) = data[f].mem
    <2>1. ASSUME NEW f \in Files, f \in p.files
          PROVE  data[f].disk = data[f].mem /\ Shown(Now, f) = data[f].mem
      <3>1. data[f] = Synced(p.base[f])
        BY <1>1, <2>1
      <3>2. data[f].mem = p.base[f] /\ data[f].disk = p.base[f]
        BY <3>1 DEF Synced
      <3>3. Shown(Now, f) = p.base[f]
        BY <1>1, <2>1, Zenon DEF Shown, Covers
      <3>4. QED
        BY <3>2, <3>3
    <2>2. ASSUME NEW f \in Files, f \notin p.files
          PROVE  data[f].disk = data[f].mem /\ Shown(Now, f) = data[f].mem
      BY <1>1, <2>2, JournalFacts, InvParts DEF Recoverable, Shown, Covers
    <2>3. QED
      BY <2>1, <2>2
  <1>5. AllWhole(wal.mem) /\ WellFormed(wal.mem)
    BY <1>1, JournalFacts, InvParts
  <1>6. /\ AllWhole(c) /\ WellFormed(c) /\ ~HasPending(c) /\ ~Torn(c) /\ Complete(c) = c
        /\ c \in Seq(Record)
    BY <1>1, <1>2, <1>3, <1>5, JournalAppend
  <1>7. DataTypes'
    BY <1>1, InvParts DEF DataTypes
  <1> HIDE DEF c
  <1>8. CASE wal' = Synced(c) /\ (IF Writing THEN Return("undone") ELSE Enter("checkpoint", {}))
    <2>1. WalTypes' /\ Found' = {c} /\ Now' = c /\ wal'.mem = c
      BY <1>6, <1>8, FoundSynced
    <2>2. CASE Writing
      <3>1. Return("undone")
        BY <1>8, <2>2
      <3>2. /\ CallTypes' /\ Position' /\ WritesKept /\ Committed' = Committed
            /\ Undone' = Undone \cup {Current}
        BY <2>2, <3>1, ReturnFacts, InvParts DEF WritesKept, Confirmed
      <3>3. Journals' /\ Attributed' /\ AcknowledgedDurable' /\ ShownSame
        BY <1>1, <1>4, <1>6, <2>1, <3>2, Settling
      <3>4. QED
        BY <1>7, <2>1, <2>2, <3>2, <3>3, InvNext DEF Undoes
    <2>3. CASE ~Writing
      <3>1. Enter("checkpoint", {})
        BY <1>8, <2>3
      <3>2. /\ CallTypes' /\ WritesKept /\ Committed' = Committed /\ Undone' = Undone
            /\ step' = "checkpoint" /\ writes' = writes /\ Current' = Current /\ ~Writing'
        BY <2>3, <3>1, EnterFacts, InvParts
      <3>3. Settled(wal.mem)'
        BY <1>6, <2>1 DEF Settled
      <3>4. Position'
        BY <3>2, <3>3, InvParts DEF Position, Undoing, Appending, Running
      <3>5. Journals' /\ Attributed' /\ AcknowledgedDurable' /\ ShownSame
        BY <1>1, <1>4, <1>6, <2>1, <3>2, Settling
      <3>6. QED
        BY <1>7, <2>1, <3>2, <3>4, <3>5, InvNext DEF Quiet
    <2>4. QED
      BY <2>2, <2>3
  <1>9. CASE /\ \E w \in Attempts(wal.mem, x) : wal' = [wal EXCEPT !.mem = w]
             /\ Return("unknown")
    <2>1. PICK w \in Attempts(wal.mem, x) : wal' = [wal EXCEPT !.mem = w]
      BY <1>9
    <2>2. WalTypes' /\ Found' \subseteq Found \cup {c} /\ Now' \in {Now, c}
      BY <1>1, <1>3, <2>1, FoundAppend, InvParts DEF c
    <2>3. CallTypes' /\ Position' /\ WritesKept /\ Committed' = Committed /\ Undone' = Undone
      BY <1>9, UnknownFacts, InvParts
    <2>4. Journals' /\ Attributed' /\ AcknowledgedDurable' /\ ShownSame
      BY <1>1, <1>4, <1>6, <2>2, <2>3, Settling
    <2>5. QED
      BY <1>7, <2>2, <2>3, <2>4, InvNext DEF Quiet
  <1>10. QED
    BY <1>8, <1>9 DEF UndoDone, x, c

\* A new write, before anything is appended to a file.
LEMMA BegunFacts ==
    ASSUME CallTypes, Position, ~Writing, Current < MaxWrites,
           NEW fs \in (SUBSET Files) \ {{}}, NEW o \in {"running", "unknown"},
           writes' = Append(writes, [files |-> fs, outcome |-> o])
    PROVE  /\ writes' \in Seq(WriteRecord) /\ Len(writes') <= MaxWrites
           /\ Current' = Current + 1 /\ DOMAIN writes' = 1..Current + 1
           /\ writes'[Current + 1] = [files |-> fs, outcome |-> o]
           /\ \A t \in DOMAIN writes : writes'[t] = writes[t]
           /\ WritesKept /\ Committed' = Committed /\ Undone' = Undone
           /\ Writing' <=> o = "running"
           /\ \A t \in DOMAIN writes' : writes'[t].outcome = "running" => t = Current'
  <1> DEFINE x == [files |-> fs, outcome |-> o]
  <1>1. Current \in Nat /\ DOMAIN writes = 1..Current /\ Len(writes) = Current
    BY CallFacts DEF Current
  <1>2. x \in WriteRecord /\ x.files = fs /\ x.outcome = o
    BY DEF WriteRecord
  <1> HIDE DEF x
  <1>3. writes \in Seq(WriteRecord) /\ writes' = Append(writes, x)
    BY DEF CallTypes, x
  <1>4. /\ writes' \in Seq(WriteRecord) /\ Len(writes') = Current + 1 /\ writes' # <<>>
        /\ writes'[Current + 1] = x
        /\ \A t \in 1..Current : writes'[t] = writes[t]
    BY <1>1, <1>2, <1>3, Appends
  <1>5. Len(writes') <= MaxWrites /\ Current' = Current + 1
    BY <1>1, <1>4, JsonlBatchAssumption DEF Current
  <1>6. DOMAIN writes' = 1..Current + 1
    BY <1>4, LenProperties
  <1>7. /\ Committed' = Committed /\ Undone' = Undone
        /\ \A t \in DOMAIN writes : t \in DOMAIN writes' /\ writes'[t] = writes[t]
    <2>1. \A t \in DOMAIN writes' : t \in DOMAIN writes \/ t = Current + 1
      BY <1>1, <1>6
    <2>2. \A t \in DOMAIN writes : t \in DOMAIN writes' /\ writes'[t] = writes[t]
      BY <1>1, <1>4, <1>6
    <2>3. Current + 1 \notin DOMAIN writes
      BY <1>1
    <2>4. writes'[Current + 1].outcome \notin Confirmed /\ writes'[Current + 1].outcome # "undone"
      BY <1>2, <1>4 DEF Confirmed
    <2>5. QED
      BY <2>1, <2>2, <2>3, <2>4 DEF Committed, Undone
  <1>8. WritesKept
    BY <1>7 DEF WritesKept
  <1>9. Writing' <=> o = "running"
    BY <1>2, <1>4, <1>5 DEF Writing
  <1>10. \A t \in DOMAIN writes : writes[t].outcome # "running"
    BY <1>1, CallFacts DEF Position, Running, Writing
  <1>11. \A t \in DOMAIN writes' : writes'[t].outcome = "running" => t = Current'
    BY <1>1, <1>4, <1>5, <1>6, <1>10
  <1>12. QED
    BY <1>4, <1>5, <1>6, <1>7, <1>8, <1>9, <1>11 DEF x

LEMMA PrepareStep ==
    ASSUME IInv, NEW fs \in (SUBSET Files) \ {{}}, Prepare(fs)
    PROVE  IInv' /\ Quiet
  <1> DEFINE p == PrepareRecord(fs)
  <1>0. PICK c : c = Append(wal.mem, p)
    OBVIOUS
  <1>1. /\ ~Torn(wal.mem) /\ ~HasPending(wal.mem) /\ ~Writing /\ UNCHANGED data
        /\ Now = wal.mem /\ Current < MaxWrites /\ Current \in Nat /\ Current + 1 \in Transactions
        /\ AllWhole(wal.mem) /\ WellFormed(wal.mem) /\ wal.mem \in Seq(Record)
        /\ DOMAIN writes = 1..Current
    BY JournalFacts, CallFacts, InvParts, JsonlBatchAssumption
       DEF Prepare, Position, Running, Settled, Transactions
  <1>2. \A f \in Files : data[f].disk = data[f].mem /\ Shown(Now, f) = data[f].mem
    BY <1>1, JournalFacts, InvParts DEF Recoverable, Covers, Shown
  <1>3. /\ p.kind = "prepare" /\ p.tx = Current + 1 /\ p.whole /\ p.files = fs
        /\ \A f \in fs : p.base[f] = data[f].mem
    BY DEF PrepareRecord
  <1>4. p \in Record
    <2>1. \A f \in Files : data[f].mem \in Seq(Block)
      BY StableFacts, InvParts
    <2>2. <<>> \in Seq(Block)
      BY EmptySeq
    <2>3. [f \in Files |-> IF f \in fs THEN data[f].mem ELSE <<>>] \in [Files -> Seq(Block)]
      BY <2>1, <2>2
    <2>4. QED
      BY <1>1, <2>3 DEF PrepareRecord, Record
  <1> HIDE DEF p
  <1>5. /\ AllWhole(c) /\ WellFormed(c) /\ HasPending(c) /\ Pending(c) = p
        /\ ~Torn(c) /\ Complete(c) = c /\ c \in Seq(Record)
    BY <1>0, <1>1, <1>3, <1>4, JournalAppend
  <1>6. DataTypes'
    BY <1>1, InvParts DEF DataTypes
  <1>7. Recoverable(c)'
    <2>1. ASSUME NEW f \in Files
          PROVE  IF Covers(c, f) THEN \A content \in Survivors(data'[f]) : InRange(content, Pending(c), f)
                                 ELSE data'[f].disk = data'[f].mem
      <3>1. data'[f] = data[f] /\ data[f].disk = data[f].mem /\ Survivors(data[f]) = {data[f].mem}
        BY <1>1, <1>2, StableFacts, InvParts
      <3>2. Covers(c, f) => p.base[f] = data[f].mem
        BY <1>3, <1>5 DEF Covers
      <3>3. QED
        BY <1>5, <3>1, <3>2 DEF InRange
    <2>2. QED
      BY <1>5, <2>1 DEF Recoverable, AllWhole, Covers, InRange
  <1>8. \A f \in Files : Shown(c, f)' = Shown(Now, f)
    BY <1>1, <1>2, <1>3, <1>5 DEF Shown, Covers
  <1>9. ASSUME NEW o \in {"running", "unknown"},
               writes' = Append(writes, [files |-> fs, outcome |-> o])
        PROVE  Known(c)'
    <2>1. /\ Current + 1 \in DOMAIN writes' /\ writes'[Current + 1].outcome \notin Confirmed
          /\ writes'[Current + 1].files = fs
      BY <1>1, <1>9, BegunFacts, InvParts DEF Confirmed
    <2>2. ASSUME NEW f \in fs, NEW i \in DOMAIN p.base[f]
          PROVE  p.base[f][i].tx # Current + 1
      <3>1. f \in Files /\ p.base[f] = Shown(Now, f)
        BY <1>2, <1>3
      <3>2. Shown(Now, f)[i].tx \in DOMAIN writes
        BY <2>2, <3>1, InvParts DEF Attributed
      <3>3. QED
        BY <1>1, <3>1, <3>2
    <2>3. QED
      BY <1>3, <1>5, <2>1, <2>2 DEF Known
  <1>10. ASSUME WritesKept, Known(c)', Found' \subseteq Found \cup {c}, Now' \in {Now, c}
         PROVE  Journals' /\ Attributed' /\ AcknowledgedDurable' /\ ShownSame
    <2>1. ASSUME Now' = Now
          PROVE  \A f \in Files : Shown(Now, f)' = Shown(Now, f)
      BY <1>1, <2>1 DEF Shown, Covers
    <2>2. ASSUME Now' = c
          PROVE  \A f \in Files : Shown(Now, f)' = Shown(Now, f)
      BY <1>8, <2>2 DEF Shown, Covers
    <2>3. ShownSame
      BY <1>10, <2>1, <2>2 DEF ShownSame
    <2>4. QED
      BY <1>1, <1>7, <1>8, <1>10, <2>3, AddedJournal, InvParts
  <1>11. CASE /\ wal' = Synced(c)
              /\ writes' = Append(writes, [files |-> fs, outcome |-> "running"])
              /\ step' = "append" /\ todo' = fs
    <2>1. WalTypes' /\ Found' = {c} /\ Now' = c /\ wal'.mem = c /\ wal'.disk = c
      BY <1>5, <1>11, FoundSynced
    <2>2. "running" \in {"running", "unknown"}
      OBVIOUS
    <2>3. /\ writes' \in Seq(WriteRecord) /\ Len(writes') <= MaxWrites /\ Current' = Current + 1
          /\ WritesKept /\ Committed' = Committed /\ Undone' = Undone /\ Writing'
          /\ \A t \in DOMAIN writes' : writes'[t].outcome = "running" => t = Current'
      BY <1>1, <1>11, <2>2, BegunFacts, InvParts
    <2>4. CallTypes'
      BY <1>11, <2>3 DEF CallTypes
    <2>5. Known(c)'
      BY <1>9, <1>11, <2>2
    <2>6. Journals' /\ Attributed' /\ AcknowledgedDurable' /\ ShownSame
      BY <1>10, <2>1, <2>3, <2>5
    <2>7. Open' /\ Pending(wal.mem)' = p
      BY <1>5, <2>1 DEF Open
    <2>8. ASSUME NEW f \in fs
          PROVE  data'[f] = Synced(p.base[f])
      BY <1>1, <1>2, <1>3, StableFacts, InvParts DEF Synced
    <2>9. Appending'
      BY <1>3, <1>11, <2>3, <2>7, <2>8 DEF Appending
    <2>10. Running'
      BY <1>3, <1>11, <2>1, <2>3, <2>7 DEF Running
    <2>11. Position'
      BY <1>11, <2>9, <2>10 DEF Position, Undoing
    <2>12. QED
      BY <1>6, <2>1, <2>3, <2>4, <2>6, <2>11, InvNext DEF Quiet
  <1>12. CASE /\ \E w \in Attempts(wal.mem, p) : wal' = [wal EXCEPT !.mem = w]
              /\ writes' = Append(writes, [files |-> fs, outcome |-> "unknown"])
              /\ step' = "idle" /\ todo' = {}
    <2>1. PICK w \in Attempts(wal.mem, p) : wal' = [wal EXCEPT !.mem = w]
      BY <1>12
    <2>2. WalTypes' /\ Found' \subseteq Found \cup {c} /\ Now' \in {Now, c}
      BY <1>0, <1>1, <1>3, <1>4, <2>1, FoundAppend, InvParts
    <2>3. "unknown" \in {"running", "unknown"} /\ "unknown" # "running"
      OBVIOUS
    <2>4. /\ writes' \in Seq(WriteRecord) /\ Len(writes') <= MaxWrites
          /\ WritesKept /\ Committed' = Committed /\ Undone' = Undone /\ ~Writing'
          /\ \A t \in DOMAIN writes' : writes'[t].outcome = "running" => t = Current'
      BY <1>1, <1>12, <2>3, BegunFacts, InvParts
    <2>5. CallTypes'
      BY <1>12, <2>4 DEF CallTypes
    <2>6. Known(c)'
      BY <1>9, <1>12, <2>3
    <2>7. Journals' /\ Attributed' /\ AcknowledgedDurable' /\ ShownSame
      BY <1>10, <2>2, <2>4, <2>6
    <2>8. Position'
      BY <1>12, <2>4 DEF Position, Undoing, Appending, Running
    <2>9. QED
      BY <1>6, <2>2, <2>4, <2>5, <2>7, <2>8, InvNext DEF Quiet
  <1>13. QED
    BY <1>0, <1>11, <1>12 DEF Prepare, p
-----------------------------------------------------------------------------
(* The commit.                                                             *)

\* The running write appears in all of its files.
Commits ==
    /\ Writing /\ HasPending(Now) /\ Pending(Now).tx = Current
    /\ \A f \in Files : Shown(Now, f)' = IF f \in Pending(Now).files THEN With(Pending(Now), f)
                                                                    ELSE Shown(Now, f)
    /\ Committed' \in {Committed, Committed \cup {Current}}
    /\ Undone' = Undone

LEMMA WithFacts ==
    ASSUME NEW p \in Record, NEW f \in Files
    PROVE  /\ p.base[f] \in Seq(Block) /\ With(p, f) \in Seq(Block)
           /\ DOMAIN p.base[f] = 1..Len(p.base[f]) /\ Len(p.base[f]) \in Nat
           /\ DOMAIN With(p, f) = (DOMAIN p.base[f]) \cup {Len(p.base[f]) + 1}
           /\ \A i \in DOMAIN p.base[f] : With(p, f)[i] = p.base[f][i]
           /\ With(p, f)[Len(p.base[f]) + 1] = [tx |-> p.tx, whole |-> TRUE]
           /\ With(p, f)[Len(p.base[f]) + 1].tx = p.tx
           /\ \A whole \in BOOLEAN : [tx |-> p.tx, whole |-> whole] \in Block
           /\ \A content : InRange(content, p, f) => content \in Seq(Block)
  <1>1. p.base[f] \in Seq(Block) /\ p.tx \in Transactions
    BY RecordFacts
  <1>2. \A whole \in BOOLEAN : [tx |-> p.tx, whole |-> whole] \in Block
    BY <1>1, BlockFacts
  <1>3. DOMAIN p.base[f] = 1..Len(p.base[f]) /\ Len(p.base[f]) \in Nat
    BY <1>1, LenProperties
  <1>4. ASSUME NEW x \in Block
        PROVE  /\ Append(p.base[f], x) \in Seq(Block)
               /\ DOMAIN Append(p.base[f], x) = (DOMAIN p.base[f]) \cup {Len(p.base[f]) + 1}
               /\ \A i \in DOMAIN p.base[f] : Append(p.base[f], x)[i] = p.base[f][i]
               /\ Append(p.base[f], x)[Len(p.base[f]) + 1] = x
    BY <1>1, <1>3, Appends, LenProperties
  <1>5. [tx |-> p.tx, whole |-> TRUE] \in Block /\ [tx |-> p.tx, whole |-> TRUE].tx = p.tx
    BY <1>2
  <1>6. /\ With(p, f) \in Seq(Block)
        /\ DOMAIN With(p, f) = (DOMAIN p.base[f]) \cup {Len(p.base[f]) + 1}
        /\ \A i \in DOMAIN p.base[f] : With(p, f)[i] = p.base[f][i]
        /\ With(p, f)[Len(p.base[f]) + 1] = [tx |-> p.tx, whole |-> TRUE]
    BY <1>4, <1>5 DEF With
  <1>7. ASSUME NEW content, InRange(content, p, f)
        PROVE  content \in Seq(Block)
    BY <1>1, <1>2, <1>4, <1>7 DEF InRange
  <1>8. QED
    BY <1>1, <1>2, <1>3, <1>5, <1>6, <1>7

\* While a write runs, its journal is synced: nothing else can be found.
LEMMA RunningFacts ==
    ASSUME IInv, Writing
    PROVE  /\ Now = wal.mem /\ Found = {Now} /\ ~Torn(wal.mem)
           /\ HasPending(Now) /\ Pending(Now) \in Record /\ Pending(Now).tx = Current
           /\ Current \in DOMAIN writes /\ Current \in Transactions
           /\ Pending(Now).files = writes[Current].files /\ Pending(Now).files \subseteq Files
           /\ Current \notin Committed /\ Current \notin Undone
  <1>1. Open /\ wal.disk = wal.mem /\ Pending(wal.mem).tx = Current
    BY InvParts DEF Position, Running
  <1>2. Now = wal.mem /\ ~Torn(wal.mem) /\ HasPending(Now)
    BY <1>1, JournalFacts, InvParts DEF Open
  <1>3. wal = Synced(wal.mem) /\ wal.mem \in Seq(Record)
    BY <1>1, WalFacts, InvParts DEF Synced
  <1>4. Survivors(wal) = {wal.mem}
    BY <1>3, SurvivorsSynced
  <1>5. Found = {Now}
    BY <1>4 DEF Found, Now
  <1>6. Pending(Now) \in Record /\ Pending(Now).files \subseteq Files /\ Known(Now)
    BY <1>2, JournalFacts, InvParts
  <1>7. Pending(Now).files = writes[Current].files /\ Pending(Now).tx = Current
    BY <1>1, <1>2, <1>6 DEF Known
  <1>8. Current \in DOMAIN writes /\ Current \in Transactions
    BY CallFacts, InvParts
  <1>9. Current \notin Committed /\ Current \notin Undone
    BY DEF Writing, Committed, Undone, Confirmed
  <1>10. QED
    BY <1>1, <1>2, <1>5, <1>6, <1>7, <1>8, <1>9

\* All the appends of the running write are in place and synced.
LEMMA AppendedFacts ==
    ASSUME IInv, step = "append", todo = {}
    PROVE  /\ Writing
           /\ \A f \in Files : data[f].disk = data[f].mem
           /\ \A f \in Files : data[f].mem = IF f \in Pending(Now).files THEN With(Pending(Now), f)
                                                                         ELSE Shown(Now, f)
  <1>1. Writing /\ Appending
    BY InvParts DEF Position, Appending
  <1>2. Now = wal.mem /\ Pending(Now).tx = Current /\ HasPending(Now)
    BY <1>1, RunningFacts
  <1>3. ASSUME NEW f \in Files, f \in Pending(Now).files
        PROVE  data[f].disk = data[f].mem /\ data[f].mem = With(Pending(Now), f)
    <2>1. data[f] = Synced(Append(Pending(wal.mem).base[f], Payload))
      BY <1>1, <1>2, <1>3 DEF Appending
    <2>2. data[f] = Synced(With(Pending(Now), f))
      BY <1>2, <2>1 DEF With, Payload
    <2>3. QED
      BY <2>2 DEF Synced
  <1>4. ASSUME NEW f \in Files, f \notin Pending(Now).files
        PROVE  data[f].disk = data[f].mem /\ data[f].mem = Shown(Now, f)
    BY <1>4, JournalFacts, InvParts DEF Recoverable, Covers, Shown
  <1>5. QED
    BY <1>1, <1>3, <1>4

LEMMA CommitStep ==
    ASSUME IInv, Commit
    PROVE  IInv' /\ (Quiet \/ Commits)
  <1> DEFINE x == Terminal("commit", Current)
  <1>0. PICK c, d, p : c = Append(wal.mem, x) /\ d = Now /\ p = Pending(Now)
    OBVIOUS
  <1>1. /\ step = "append" /\ todo = {} /\ Writing /\ UNCHANGED data
        /\ \A f \in Files : data[f].disk = data[f].mem
        /\ \A f \in Files : data[f].mem = IF f \in p.files THEN With(p, f) ELSE Shown(Now, f)
    BY <1>0, AppendedFacts DEF Commit
  <1>2. /\ Now = wal.mem /\ Found = {d} /\ ~Torn(wal.mem)
        /\ HasPending(Now) /\ HasPending(d) /\ Pending(d) = p /\ p \in Record /\ p.tx = Current
        /\ Current \in DOMAIN writes /\ Current \in Transactions
        /\ p.files = writes[Current].files /\ p.files \subseteq Files
    BY <1>0, <1>1, RunningFacts
  <1>3. x \in Record /\ x.whole /\ x.kind # "prepare" /\ x.tx = Current
    BY <1>2, TerminalFacts
  <1> HIDE DEF x
  <1>4. wal.mem \in Seq(Record) /\ AllWhole(wal.mem) /\ WellFormed(wal.mem)
    BY <1>2, JournalFacts, InvParts
  <1>5. /\ AllWhole(c) /\ WellFormed(c) /\ ~HasPending(c) /\ ~Torn(c) /\ Complete(c) = c
        /\ c \in Seq(Record)
    BY <1>0, <1>2, <1>3, <1>4, JournalAppend
  <1>6. DataTypes'
    BY <1>1, InvParts DEF DataTypes
  <1>7. Recoverable(c)' /\ Known(c)'
    <2>1. \A f \in Files : data'[f].disk = data'[f].mem
      BY <1>1
    <2>2. QED
      BY <1>5, <2>1 DEF Recoverable, Covers, AllWhole, Known
  <1>8. ASSUME Now' = c
        PROVE  \A f \in Files : Shown(Now, f)' = IF f \in p.files THEN With(p, f) ELSE Shown(Now, f)
    BY <1>1, <1>5, <1>8 DEF Shown, Covers
  <1>9. ASSUME Now' = c,
               \A t \in DOMAIN writes : t \in DOMAIN writes' /\ writes'[t].files = writes[t].files
        PROVE  Attributed'
    <2>1. ASSUME NEW f \in Files, NEW i \in DOMAIN Shown(Now, f)'
          PROVE  /\ Shown(Now, f)'[i].tx \in DOMAIN writes'
                 /\ f \in writes'[Shown(Now, f)'[i].tx].files
      <3>1. CASE f \in p.files
        <4>1. Shown(Now, f)' = With(p, f) /\ Shown(Now, f) = p.base[f]
          BY <1>0, <1>2, <1>8, <1>9, <3>1 DEF Shown, Covers
        <4>a. DOMAIN With(p, f) = (DOMAIN p.base[f]) \cup {Len(p.base[f]) + 1}
          BY <1>2, WithFacts
        <4>2. i \in DOMAIN p.base[f] \/ i = Len(p.base[f]) + 1
          BY <2>1, <4>1, <4>a
        <4>3. CASE i \in DOMAIN p.base[f]
          <5>1. With(p, f)[i] = Shown(Now, f)[i] /\ i \in DOMAIN Shown(Now, f)
            BY <1>2, <4>1, <4>3, WithFacts
          <5>2. Shown(Now, f)[i].tx \in DOMAIN writes /\ f \in writes[Shown(Now, f)[i].tx].files
            BY <5>1, InvParts DEF Attributed
          <5>3. QED
            BY <1>9, <4>1, <5>1, <5>2
        <4>4. CASE i = Len(p.base[f]) + 1
          <5>1. With(p, f)[i].tx = Current
            BY <1>2, <4>4, WithFacts
          <5>2. QED
            BY <1>2, <1>9, <3>1, <4>1, <5>1
        <4>5. QED
          BY <4>2, <4>3, <4>4
      <3>2. CASE f \notin p.files
        <4>1. Shown(Now, f)' = Shown(Now, f)
          BY <1>8, <1>9, <3>2
        <4>2. Shown(Now, f)[i].tx \in DOMAIN writes /\ f \in writes[Shown(Now, f)[i].tx].files
          BY <2>1, <4>1, InvParts DEF Attributed
        <4>3. QED
          BY <1>9, <4>1, <4>2
      <3>3. QED
        BY <3>1, <3>2
    <2>2. QED
      BY <2>1 DEF Attributed
  <1>10. ASSUME NEW answer \in Confirmed, wal' = Synced(c), Return(answer)
         PROVE  IInv' /\ (Quiet \/ Commits)
    <2>1. WalTypes' /\ Found' = {c} /\ Now' = c
      BY <1>5, <1>10, FoundSynced
    <2>a. answer \in Confirmed \cup {"undone", "unknown"} /\ answer # "undone"
      BY <1>10 DEF Confirmed
    <2>2. /\ CallTypes' /\ Position' /\ Committed' = Committed \cup {Current} /\ Undone' = Undone
          /\ DOMAIN writes' = DOMAIN writes
          /\ \A t \in DOMAIN writes : writes'[t].files = writes[t].files
      BY <1>1, <1>10, <2>a, ReturnFacts, InvParts
    <2>3. Journals'
      BY <1>7, <2>1 DEF Journals, Shows
    <2>4. Attributed'
      BY <1>9, <2>1, <2>2
    <2>5. ASSUME NEW t \in Committed', NEW f \in writes'[t].files
          PROVE  Holds(data'[f].mem, t) /\ Holds(data'[f].disk, t)
      <3>1. CASE t \in Committed
        <4>1. t \in DOMAIN writes /\ writes[t].outcome \in Confirmed /\ f \in writes[t].files
          BY <2>2, <2>5, <3>1 DEF Committed
        <4>2. QED
          BY <1>1, <4>1, InvParts DEF AcknowledgedDurable
      <3>2. CASE t = Current
        <4>1. f \in p.files /\ f \in Files
          BY <1>2, <2>2, <2>5, <3>2
        <4>2. data'[f].mem = With(p, f) /\ data'[f].disk = With(p, f)
          BY <1>1, <4>1
        <4>a. DOMAIN With(p, f) = (DOMAIN p.base[f]) \cup {Len(p.base[f]) + 1}
          BY <1>2, <4>1, WithFacts
        <4>3. Len(p.base[f]) + 1 \in DOMAIN With(p, f)
          BY <4>a
        <4>4. With(p, f)[Len(p.base[f]) + 1] = [tx |-> t, whole |-> TRUE]
          BY <1>2, <3>2, <4>1, WithFacts
        <4>5. QED
          BY <4>2, <4>3, <4>4 DEF Holds
      <3>3. QED
        BY <2>2, <2>5, <3>1, <3>2
    <2>6. AcknowledgedDurable'
      BY <2>5 DEF AcknowledgedDurable, Committed
    <2>7. Commits
      BY <1>0, <1>1, <1>2, <1>8, <2>1, <2>2 DEF Commits
    <2>8. QED
      BY <1>6, <2>1, <2>2, <2>3, <2>4, <2>6, <2>7, InvNext
  <1>11. CASE /\ \E w \in Attempts(wal.mem, x) : wal' = [wal EXCEPT !.mem = w]
              /\ Return("unknown")
    <2>1. PICK w \in Attempts(wal.mem, x) : wal' = [wal EXCEPT !.mem = w]
      BY <1>11
    <2>2. /\ WalTypes'
          /\ \/ Found' \subseteq Found /\ Now' = Now
             \/ Found' \subseteq Found \cup {c} /\ Now' = c
      BY <1>0, <1>2, <1>3, <2>1, FoundAppend, InvParts
    <2>3. CASE Found' \subseteq Found /\ Now' = Now
      BY <1>1, <1>11, <2>2, <2>3, GivenUp
    <2>4. CASE Found' \subseteq Found \cup {c} /\ Now' = c
      <3>1. CallTypes' /\ Position' /\ WritesKept /\ Committed' = Committed /\ Undone' = Undone
        BY <1>11, UnknownFacts, InvParts
      <3>2. Recoverable(d) /\ Known(d)
        BY <1>2, InvParts DEF Journals
      <3>3. Recoverable(d)'
        BY <1>1, <3>2 DEF Recoverable, Covers, InRange
      <3>4. Known(d)'
        BY <3>1, <3>2 DEF Known, WritesKept, Committed
      <3>5. \A f \in Files : Shown(d, f)' = Shown(Now, f)
        BY <1>0, <1>1 DEF Shown, Covers
      <3>6. Shows(d)'
        BY <1>2, <1>8, <2>4, <3>5 DEF Shows
      <3>7. Shows(c)'
        BY <2>4 DEF Shows
      <3>8. Journals'
        BY <1>2, <1>7, <2>4, <3>3, <3>4, <3>6, <3>7 DEF Journals
      <3>9. Attributed'
        BY <1>9, <2>4, <3>1 DEF WritesKept
      <3>10. AcknowledgedDurable'
        BY <1>1, <3>1, KeptAcknowledged, InvParts
      <3>11. Commits
        BY <1>0, <1>1, <1>2, <1>8, <2>4, <3>1 DEF Commits
      <3>12. QED
        BY <1>6, <2>2, <3>1, <3>8, <3>9, <3>10, <3>11, InvNext
    <2>5. QED
      BY <2>2, <2>3, <2>4
  <1>12. CASE Enter("undo", writes[Current].files) /\ UNCHANGED wal
    <2>1. WalTypes' /\ Found' = Found /\ Now' = Now /\ Pending(wal.mem)' = p /\ Open'
      BY <1>0, <1>2, <1>12, FoundSame, InvParts DEF Open
    <2>2. /\ CallTypes' /\ WritesKept /\ Committed' = Committed /\ Undone' = Undone
          /\ step' = "undo" /\ todo' = p.files /\ writes' = writes /\ Current' = Current /\ Writing'
      BY <1>1, <1>2, <1>12, EnterFacts, InvParts
    <2>3. Undoing'
      BY <2>1, <2>2 DEF Undoing
    <2>4. wal'.disk = wal'.mem
      BY <1>1, <1>12, InvParts DEF Position, Running
    <2>5. Running'
      BY <1>2, <2>1, <2>2, <2>4, InvParts DEF Position, Running
    <2>6. Position'
      BY <2>2, <2>3, <2>5 DEF Position, Appending
    <2>7. Journals' /\ Attributed' /\ AcknowledgedDurable' /\ ShownSame
      BY <1>1, <2>1, <2>2, NoNewJournal, InvParts
    <2>8. QED
      BY <1>6, <2>1, <2>2, <2>6, <2>7, InvNext DEF Quiet
  <1>13. QED
    BY <1>0, <1>10, <1>11, <1>12 DEF Commit, ReturnCommitted, Confirmed, x
-----------------------------------------------------------------------------
(* Steps that change one file.                                             *)

LEMMA RangeHolds ==
    ASSUME NEW p \in Record, NEW f \in Files, NEW t, t # p.tx,
           NEW a, InRange(a, p, f), Holds(a, t), NEW b, InRange(b, p, f)
    PROVE  Holds(b, t)
  <1>1. ASSUME NEW whole \in BOOLEAN
        PROVE  /\ DOMAIN Append(p.base[f], [tx |-> p.tx, whole |-> whole])
                    = (DOMAIN p.base[f]) \cup {Len(p.base[f]) + 1}
               /\ \A i \in DOMAIN p.base[f] :
                     Append(p.base[f], [tx |-> p.tx, whole |-> whole])[i] = p.base[f][i]
               /\ Append(p.base[f], [tx |-> p.tx, whole |-> whole])[Len(p.base[f]) + 1].tx = p.tx
    <2> DEFINE x == [tx |-> p.tx, whole |-> whole]
    <2>1. p.base[f] \in Seq(Block) /\ x \in Block /\ x.tx = p.tx
      BY WithFacts
    <2> HIDE DEF x
    <2>2. /\ DOMAIN p.base[f] = 1..Len(p.base[f]) /\ Len(p.base[f]) \in Nat
          /\ Append(p.base[f], x) \in Seq(Block) /\ Len(Append(p.base[f], x)) = Len(p.base[f]) + 1
          /\ Append(p.base[f], x)[Len(p.base[f]) + 1] = x
          /\ \A i \in 1..Len(p.base[f]) : Append(p.base[f], x)[i] = p.base[f][i]
      BY <2>1, Appends, LenProperties
    <2>3. DOMAIN Append(p.base[f], x) = 1..Len(p.base[f]) + 1
      BY <2>2, LenProperties
    <2>4. QED
      BY <2>1, <2>2, <2>3 DEF x
  <1>2. Holds(p.base[f], t)
    <2>1. CASE a = p.base[f]
      BY <2>1
    <2>2. CASE \E whole \in BOOLEAN : a = Append(p.base[f], [tx |-> p.tx, whole |-> whole])
      <3>1. PICK whole \in BOOLEAN : a = Append(p.base[f], [tx |-> p.tx, whole |-> whole])
        BY <2>2
      <3>2. PICK i \in DOMAIN a : a[i] = [tx |-> t, whole |-> TRUE]
        BY DEF Holds
      <3>3. a[i].tx = t
        BY <3>2
      <3>4. i \in DOMAIN p.base[f]
        BY <1>1, <3>1, <3>3
      <3>5. p.base[f][i] = [tx |-> t, whole |-> TRUE]
        BY <1>1, <3>1, <3>2, <3>4
      <3>6. QED
        BY <3>4, <3>5 DEF Holds
    <2>3. QED
      BY <2>1, <2>2 DEF InRange
  <1>3. PICK i \in DOMAIN p.base[f] : p.base[f][i] = [tx |-> t, whole |-> TRUE]
    BY <1>2 DEF Holds
  <1>4. CASE b = p.base[f]
    BY <1>2, <1>4
  <1>5. CASE \E whole \in BOOLEAN : b = Append(p.base[f], [tx |-> p.tx, whole |-> whole])
    <2>1. i \in DOMAIN b /\ b[i] = p.base[f][i]
      BY <1>1, <1>5
    <2>2. QED
      BY <1>3, <2>1 DEF Holds
  <1>6. QED
    BY <1>4, <1>5 DEF InRange

\* A file the pending transaction is about changes within the prepared range.
LEMMA FileStep ==
    ASSUME IInv, UNCHANGED wal, NEW f \in Files, Covers(Now, f),
           NEW g \in [mem : Seq(Block), disk : Seq(Block)], data' = [data EXCEPT ![f] = g],
           WritesKept,
           \A c \in Found : IF Covers(c, f) THEN \A v \in Survivors(g) : InRange(v, Pending(c), f)
                                            ELSE g = data[f]
    PROVE  /\ WalTypes' /\ DataTypes' /\ Found' = Found /\ Now' = Now
           /\ Journals' /\ Attributed' /\ AcknowledgedDurable' /\ ShownSame
  <1>1. WalTypes' /\ Found' = Found /\ Now' = Now
    BY FoundSame, InvParts
  <1>2. /\ DataTypes' /\ data'[f] = g
        /\ \A h \in Files : h # f => data'[h] = data[h]
    BY InvParts DEF DataTypes
  <1>3. ASSUME NEW c, c \in Found
        PROVE  /\ \A h \in Files : Shown(c, h)' = Shown(c, h)
               /\ Recoverable(c)' /\ Known(c)'
    <2>1. Recoverable(c) /\ Known(c)
      BY <1>3, InvParts DEF Journals
    <2>2. \A h \in Files : Shown(c, h)' = Shown(c, h)
      BY <1>2, <1>3 DEF Shown, Covers
    <2>3. ASSUME NEW h \in Files
          PROVE  IF Covers(c, h) THEN \A v \in Survivors(data'[h]) : InRange(v, Pending(c), h)
                                 ELSE data'[h].disk = data'[h].mem
      <3>1. CASE h = f /\ Covers(c, f)
        BY <1>2, <1>3, <3>1
      <3>2. CASE h # f \/ ~Covers(c, f)
        <4>1. data'[h] = data[h]
          BY <1>2, <1>3, <3>2
        <4>2. QED
          BY <2>1, <4>1 DEF Recoverable
      <3>3. QED
        BY <3>1, <3>2
    <2>4. Recoverable(c)'
      BY <2>1, <2>3 DEF Recoverable, Covers, InRange
    <2>5. Known(c)'
      BY <2>1 DEF Known, WritesKept, Committed
    <2>6. QED
      BY <2>2, <2>4, <2>5
  <1>4. PICK d : d = Now
    OBVIOUS
  <1>5. /\ d \in Found /\ Known(d) /\ Recoverable(d) /\ Covers(d, f) /\ Pending(d) \in Record
        /\ \A v \in Survivors(g) : InRange(v, Pending(d), f)
    BY <1>4, JournalFacts, InvParts DEF Covers
  <1>6. \A h \in Files : Shown(Now, h)' = Shown(Now, h)
    <2>1. \A h \in Files : Shown(d, h)' = Shown(d, h)
      BY <1>3, <1>5
    <2>2. QED
      BY <1>1, <1>4, <2>1 DEF Shown, Covers
  <1>7. ShownSame
    BY <1>6 DEF ShownSame
  <1>8. ASSUME NEW c, c \in Found
        PROVE  Shows(c)'
    <2>1. Shows(c)
      BY <1>8, InvParts DEF Journals
    <2>2. QED
      BY <1>3, <1>6, <1>8, <2>1 DEF Shows
  <1>9. Journals'
    BY <1>1, <1>3, <1>8 DEF Journals
  <1>10. Attributed'
    BY <1>7, KeptAttributed, InvParts
  <1>11. ASSUME NEW t \in Committed', NEW h \in writes'[t].files
         PROVE  Holds(data'[h].mem, t) /\ Holds(data'[h].disk, t)
    <2>1. t \in DOMAIN writes /\ writes[t].outcome \in Confirmed /\ h \in writes[t].files
      BY <1>11 DEF WritesKept, Committed
    <2>2. h \in Files
      BY <2>1, CallFacts, InvParts DEF WriteRecord
    <2>3. Holds(data[h].mem, t) /\ Holds(data[h].disk, t)
      BY <2>1, InvParts DEF AcknowledgedDurable
    <2>4. CASE h # f
      BY <1>2, <2>2, <2>3, <2>4
    <2>5. CASE h = f
      <3>1. t # Pending(d).tx
        BY <1>5, <2>1 DEF Known, Covers
      <3>2. InRange(data[f].mem, Pending(d), f)
        BY <1>5, StableFacts, InvParts DEF Recoverable
      <3>3. g.mem \in Survivors(g) /\ g.disk \in Survivors(g)
        <4>1. g = [mem |-> g.mem, disk |-> g.disk] /\ g.mem \in Seq(Block) /\ g.disk \in Seq(Block)
          OBVIOUS
        <4>2. QED
          BY <4>1, SurvivorsNow
      <3>4. InRange(g.mem, Pending(d), f) /\ InRange(g.disk, Pending(d), f)
        BY <1>5, <3>3
      <3>5. Holds(g.mem, t) /\ Holds(g.disk, t)
        BY <1>5, <2>3, <2>5, <3>1, <3>2, <3>4, RangeHolds
      <3>6. QED
        BY <1>2, <2>5, <3>5
    <2>6. QED
      BY <2>4, <2>5
  <1>12. AcknowledgedDurable'
    BY <1>11 DEF AcknowledgedDurable, Committed
  <1>13. QED
    BY <1>1, <1>2, <1>7, <1>9, <1>10, <1>12

LEMMA AppendFileStep ==
    ASSUME IInv, NEW f \in Files, AppendFile(f)
    PROVE  IInv' /\ Quiet
  <1>0. PICK p : p = Pending(wal.mem)
    OBVIOUS
  <1>1. step = "append" /\ f \in todo /\ Writing /\ Appending /\ UNCHANGED wal
    BY InvParts DEF AppendFile, Position, Appending
  <1>2. /\ Now = wal.mem /\ Found = {Now} /\ HasPending(Now) /\ Pending(Now) = p
        /\ p \in Record /\ p.tx = Current /\ p.files = writes[Current].files
        /\ p.files \subseteq Files /\ Open
    BY <1>0, <1>1, RunningFacts DEF Open
  <1>3. /\ todo \subseteq p.files /\ f \in p.files /\ Covers(Now, f)
        /\ \A h \in p.files :
              data[h] = Synced(IF h \in todo THEN p.base[h] ELSE Append(p.base[h], Payload))
    BY <1>0, <1>1, <1>2 DEF Appending, Covers
  <1>4. data[f] = Synced(p.base[f]) /\ data[f].mem = p.base[f] /\ data[f].disk = p.base[f]
    BY <1>1, <1>3 DEF Synced
  <1>5. /\ Payload = [tx |-> p.tx, whole |-> TRUE] /\ Payload \in Block
        /\ Cut(Payload) = [tx |-> p.tx, whole |-> FALSE] /\ Cut(Payload) \in Block
        /\ Cut(Cut(Payload)) = Cut(Payload)
    <2>1. Payload = [tx |-> p.tx, whole |-> TRUE] /\ p.tx \in Transactions
      BY <1>2, RecordFacts DEF Payload
    <2>2. Payload \in Block /\ Cut(Payload) = [tx |-> p.tx, whole |-> FALSE]
      BY <2>1, BlockFacts
    <2>3. Cut(Payload) \in Block
      BY <2>2, BlockFacts
    <2>4. Cut(Cut(Payload)) = Cut(Payload)
      BY <2>3 DEF Cut
    <2>5. QED
      BY <2>1, <2>2, <2>3, <2>4
  <1>6. /\ p.base[f] \in Seq(Block) /\ Append(p.base[f], Payload) \in Seq(Block)
        /\ Append(p.base[f], Cut(Payload)) \in Seq(Block)
    BY <1>2, <1>5, WithFacts, Appends
  <1>7. /\ InRange(p.base[f], p, f) /\ InRange(Append(p.base[f], Payload), p, f)
        /\ InRange(Append(p.base[f], Cut(Payload)), p, f)
    BY <1>5 DEF InRange
  <1>8. ASSUME NEW g \in [mem : Seq(Block), disk : Seq(Block)], data' = [data EXCEPT ![f] = g],
               WritesKept, \A v \in Survivors(g) : InRange(v, p, f)
        PROVE  /\ WalTypes' /\ DataTypes' /\ Found' = Found /\ Now' = Now
               /\ Journals' /\ Attributed' /\ AcknowledgedDurable' /\ ShownSame
    <2>1. \A c \in Found : Covers(c, f) /\ Pending(c) = p
      BY <1>2, <1>3
    <2>2. QED
      BY <1>1, <1>3, <1>8, <2>1, FileStep
  <1>9. CASE /\ data' = [data EXCEPT ![f] = Synced(Append(data[f].mem, Payload))]
             /\ Enter("append", todo \ {f})
    <2>1. PICK g : g = Synced(Append(p.base[f], Payload))
      OBVIOUS
    <2>2. g \in [mem : Seq(Block), disk : Seq(Block)]
      BY <1>6, <2>1 DEF Synced
    <2>3. Survivors(g) = {Append(p.base[f], Payload)}
      BY <1>6, <2>1, SurvivorsSynced
    <2>4. todo \ {f} \subseteq Files
      BY <1>2, <1>3
    <2>5. /\ CallTypes' /\ WritesKept /\ Committed' = Committed /\ Undone' = Undone
          /\ step' = "append" /\ todo' = todo \ {f} /\ writes' = writes /\ Current' = Current
          /\ Writing'
      BY <1>1, <1>9, <2>4, EnterFacts, InvParts
    <2>6. data' = [data EXCEPT ![f] = g]
      BY <1>4, <1>9, <2>1
    <2>7. /\ WalTypes' /\ DataTypes' /\ Journals' /\ Attributed' /\ AcknowledgedDurable' /\ ShownSame
      BY <1>7, <1>8, <2>2, <2>3, <2>5, <2>6
    <2>8. Pending(wal.mem)' = p /\ Open' /\ Payload' = Payload
      BY <1>0, <1>1, <1>2, <2>5 DEF Open, Payload
    <2>9. ASSUME NEW h \in p.files
          PROVE  data'[h] = Synced(IF h \in todo' THEN p.base[h] ELSE Append(p.base[h], Payload))
      <3>1. CASE h = f
        <4>1. data'[h] = g /\ h \notin todo'
          BY <1>2, <1>3, <2>5, <2>6, <3>1, InvParts DEF DataTypes
        <4>2. QED
          BY <2>1, <3>1, <4>1
      <3>2. CASE h # f
        <4>1. data'[h] = data[h] /\ (h \in todo' <=> h \in todo)
          BY <1>2, <2>5, <2>6, <3>2, InvParts DEF DataTypes
        <4>2. QED
          BY <1>3, <4>1
      <3>3. QED
        BY <3>1, <3>2
    <2>10. Appending'
      BY <1>3, <2>5, <2>8, <2>9 DEF Appending
    <2>11. Running'
      BY <1>1, <2>5, <2>8, InvParts DEF Position, Running
    <2>12. Position'
      BY <2>5, <2>10, <2>11 DEF Position, Undoing
    <2>13. QED
      BY <2>5, <2>7, <2>12, InvNext DEF Quiet
  <1>10. CASE /\ \E c \in Attempts(data[f].mem, Payload) : data' = [data EXCEPT ![f].mem = c]
              /\ Enter("undo", writes[Current].files)
    <2>1. PICK c \in Attempts(p.base[f], Payload) : data' = [data EXCEPT ![f].mem = c]
      BY <1>4, <1>10
    <2>2. PICK g : g = [mem |-> c, disk |-> p.base[f]]
      OBVIOUS
    <2>3. \/ c = p.base[f]
          \/ c = Append(p.base[f], Payload)
          \/ c = Append(p.base[f], Cut(Payload))
      BY <2>1 DEF Attempts
    <2>4. g \in [mem : Seq(Block), disk : Seq(Block)]
      BY <1>6, <2>2, <2>3
    <2>5. data' = [data EXCEPT ![f] = g]
      <3>1. [data[f] EXCEPT !.mem = c] = g
        BY <1>4, <2>2 DEF Synced
      <3>2. data' = [data EXCEPT ![f] = [data[f] EXCEPT !.mem = c]]
        BY <2>1
      <3>3. QED
        BY <3>1, <3>2
    <2>6. Survivors([mem |-> p.base[f], disk |-> p.base[f]]) = {p.base[f]}
      BY <1>6, SurvivorsSynced DEF Synced
    <2>7. ASSUME NEW v \in Survivors(g)
          PROVE  InRange(v, p, f)
      <3>1. CASE c = p.base[f]
        BY <1>7, <2>2, <2>6, <2>7, <3>1
      <3>2. ASSUME NEW y \in Block, c = Append(p.base[f], y)
            PROVE  v \in {p.base[f], Append(p.base[f], y), Append(p.base[f], Cut(y))}
        <4>1. v \in Survivors([mem |-> Append(p.base[f], y), disk |-> p.base[f]])
          BY <2>2, <2>7, <3>2
        <4>2. v \in Survivors([mem |-> p.base[f], disk |-> p.base[f]])
                      \cup {Append(p.base[f], y), Append(p.base[f], Cut(y))}
          BY <1>6, <4>1, SurvivorsAppend
        <4>3. QED
          BY <2>6, <4>2
      <3>3. v \in {p.base[f], Append(p.base[f], Payload), Append(p.base[f], Cut(Payload))}
        BY <1>5, <2>3, <2>6, <2>2, <2>7, <3>2
      <3>4. QED
        BY <1>7, <3>3
    <2>8. /\ CallTypes' /\ WritesKept /\ Committed' = Committed /\ Undone' = Undone
          /\ step' = "undo" /\ todo' = p.files /\ writes' = writes /\ Current' = Current
          /\ Writing'
      BY <1>1, <1>2, <1>10, EnterFacts, InvParts
    <2>9. /\ WalTypes' /\ DataTypes' /\ Journals' /\ Attributed' /\ AcknowledgedDurable' /\ ShownSame
      BY <1>8, <2>4, <2>5, <2>7, <2>8
    <2>10. Pending(wal.mem)' = p /\ Open'
      BY <1>0, <1>1, <1>2 DEF Open
    <2>11. Undoing' /\ Running'
      BY <1>1, <2>8, <2>10, InvParts DEF Undoing, Position, Running
    <2>12. Position'
      BY <2>8, <2>11 DEF Position, Appending
    <2>13. QED
      BY <2>8, <2>9, <2>12, InvNext DEF Quiet
  <1>11. QED
    BY <1>9, <1>10 DEF AppendFile

LEMMA UndoStep ==
    ASSUME IInv, NEW f \in Files, Undo(f)
    PROVE  IInv' /\ Quiet
  <1>0. PICK p, b : p = Pending(wal.mem) /\ b = p.base[f]
    OBVIOUS
  <1>1. step = "undo" /\ f \in todo /\ Undoing /\ Open /\ UNCHANGED wal
    BY InvParts DEF Undo, Position, Undoing
  <1>2. /\ Now = wal.mem /\ HasPending(Now) /\ Pending(Now) = p /\ Now \in Found
        /\ p \in Record /\ p.files \subseteq Files
        /\ todo \subseteq p.files /\ f \in p.files /\ Covers(Now, f)
        /\ \A h \in p.files \ todo : data[h] = Synced(p.base[h])
    BY <1>0, <1>1, JournalFacts, InvParts DEF Undoing, Open, Covers
  <1>3. b \in Seq(Block) /\ Shown(Now, f) = b
    BY <1>0, <1>2, WithFacts DEF Shown
  <1>4. /\ data[f] = [mem |-> data[f].mem, disk |-> data[f].disk]
        /\ data[f].mem \in Seq(Block) /\ data[f].disk \in Seq(Block)
    BY StableFacts, InvParts
  <1>5. CASE UNCHANGED data /\ Return("unknown")
    BY <1>1, <1>5, GivenUp, FoundSame, InvParts
  <1>6. PICK g1, g2 : g1 = Synced(b) /\ g2 = [mem |-> b, disk |-> data[f].disk]
    OBVIOUS
  <1>7. g1 \in [mem : Seq(Block), disk : Seq(Block)] /\ g2 \in [mem : Seq(Block), disk : Seq(Block)]
    BY <1>3, <1>4, <1>6 DEF Synced
  <1>8. ASSUME Undoable(f, p)
        PROVE  \/ data[f].mem = b
               \/ \E x \in Block : data[f].mem = Append(b, x)
    BY <1>0, <1>2, <1>8, WithFacts DEF Undoable
  <1>9. Survivors(g1) = {b}
    BY <1>3, <1>6, SurvivorsSynced
  <1>10. ASSUME Undoable(f, p)
         PROVE  \A v \in Survivors(g2) : v \in Survivors(data[f]) \cup {b}
    <2>1. CASE data[f].mem = b
      BY <1>4, <1>6, <2>1
    <2>2. ASSUME NEW x \in Block, data[f].mem = Append(b, x)
          PROVE  \A v \in Survivors(g2) : v \in Survivors(data[f]) \cup {b}
      <3>1. data[f] = [mem |-> Append(b, x), disk |-> data[f].disk]
        BY <1>4, <2>2
      <3>2. \A v \in Survivors([mem |-> b, disk |-> data[f].disk]) :
               v \in Survivors([mem |-> Append(b, x), disk |-> data[f].disk]) \cup {b}
        BY <1>3, <1>4, SurvivorsFront
      <3>3. QED
        BY <1>6, <3>1, <3>2
    <2>3. QED
      BY <1>8, <1>10, <2>1, <2>2
  <1>11. ASSUME NEW c \in Found, Covers(c, f), NEW v \in Survivors(data[f]) \cup {b}
         PROVE  InRange(v, Pending(c), f)
    <2>1. Recoverable(c) /\ Shows(c)
      BY InvParts DEF Journals
    <2>2. b = Pending(c).base[f] \/ b = With(Pending(c), f)
      BY <1>3, <1>11, <2>1 DEF Shows, Shown, Covers
    <2>3. InRange(b, Pending(c), f)
      BY <2>2 DEF InRange, With
    <2>4. QED
      BY <1>11, <2>1, <2>3 DEF Recoverable
  <1>12. ASSUME NEW c \in Found, ~Covers(c, f)
         PROVE  data[f].mem = b /\ data[f].disk = b
    <2>1. Recoverable(c) /\ Shows(c)
      BY InvParts DEF Journals
    <2>2. data[f].disk = data[f].mem /\ Shown(c, f) = data[f].mem
      BY <1>12, <2>1 DEF Recoverable, Shown
    <2>3. Shown(Now, f) = Shown(c, f)
      BY <1>12, <2>1 DEF Shows, Covers
    <2>4. QED
      BY <1>3, <2>2, <2>3
  <1>13. ASSUME Undoable(f, p), WritesKept, NEW g \in {g1, g2}, data' = [data EXCEPT ![f] = g]
         PROVE  /\ WalTypes' /\ DataTypes' /\ Found' = Found /\ Now' = Now
                /\ Journals' /\ Attributed' /\ AcknowledgedDurable' /\ ShownSame
    <2>1. ASSUME NEW c \in Found
          PROVE  IF Covers(c, f) THEN \A v \in Survivors(g) : InRange(v, Pending(c), f)
                                 ELSE g = data[f]
      <3>1. \A v \in Survivors(g) : v \in Survivors(data[f]) \cup {b}
        BY <1>9, <1>10, <1>13
      <3>2. CASE Covers(c, f)
        BY <1>11, <3>1, <3>2
      <3>3. CASE ~Covers(c, f)
        <4>1. data[f].mem = b /\ data[f].disk = b
          BY <1>12, <3>3
        <4>2. g = [mem |-> b, disk |-> b] /\ data[f] = [mem |-> b, disk |-> b]
          BY <1>4, <1>6, <1>13, <4>1 DEF Synced
        <4>3. QED
          BY <3>3, <4>2
      <3>4. QED
        BY <3>2, <3>3
    <2>2. g \in [mem : Seq(Block), disk : Seq(Block)]
      BY <1>7, <1>13
    <2>3. QED
      BY <1>1, <1>2, <1>13, <2>1, <2>2, FileStep
  <1>14. CASE /\ Undoable(f, p) /\ data' = [data EXCEPT ![f] = Synced(b)]
              /\ Enter("undo", todo \ {f})
    <2>1. data' = [data EXCEPT ![f] = g1]
      BY <1>6, <1>14
    <2>2. todo \ {f} \subseteq Files
      BY <1>2
    <2>3. /\ CallTypes' /\ WritesKept /\ Committed' = Committed /\ Undone' = Undone
          /\ step' = "undo" /\ todo' = todo \ {f} /\ writes' = writes /\ Current' = Current
          /\ Writing' <=> Writing
      BY <1>14, <2>2, EnterFacts, InvParts
    <2>4. /\ WalTypes' /\ DataTypes' /\ Journals' /\ Attributed' /\ AcknowledgedDurable' /\ ShownSame
      BY <1>13, <1>14, <2>1, <2>3
    <2>5. Pending(wal.mem)' = p /\ Open'
      BY <1>0, <1>1 DEF Open
    <2>6. ASSUME NEW h \in p.files \ todo'
          PROVE  data'[h] = Synced(p.base[h])
      <3>1. CASE h = f
        BY <1>0, <1>2, <1>14, <3>1, InvParts DEF DataTypes
      <3>2. CASE h # f
        BY <1>2, <1>14, <2>3, <2>6, <3>2, InvParts DEF DataTypes
      <3>3. QED
        BY <3>1, <3>2
    <2>7. Undoing'
      BY <1>2, <2>3, <2>5, <2>6 DEF Undoing
    <2>8. Running'
      BY <1>1, <2>3, <2>5, InvParts DEF Position, Running
    <2>9. Position'
      BY <2>3, <2>7, <2>8 DEF Position, Appending
    <2>10. QED
      BY <2>3, <2>4, <2>9, InvNext DEF Quiet
  <1>15. CASE /\ Undoable(f, p) /\ data' = [data EXCEPT ![f].mem = b]
              /\ Return("unknown")
    <2>1. data' = [data EXCEPT ![f] = g2]
      <3>1. [data[f] EXCEPT !.mem = b] = g2
        BY <1>4, <1>6
      <3>2. data' = [data EXCEPT ![f] = [data[f] EXCEPT !.mem = b]]
        BY <1>15
      <3>3. QED
        BY <3>1, <3>2
    <2>2. CallTypes' /\ Position' /\ WritesKept /\ Committed' = Committed /\ Undone' = Undone
      BY <1>15, UnknownFacts, InvParts
    <2>3. /\ WalTypes' /\ DataTypes' /\ Journals' /\ Attributed' /\ AcknowledgedDurable' /\ ShownSame
      BY <1>13, <1>15, <2>1, <2>2
    <2>4. QED
      BY <2>2, <2>3, InvNext DEF Quiet
  <1>16. QED
    BY <1>0, <1>5, <1>14, <1>15 DEF Undo
-----------------------------------------------------------------------------
(* Crashes.                                                                *)

\* The crash takes the pending write p back, in all of its files.
Loses ==
    \E p \in Record :
        /\ p.files # {} /\ p.files \subseteq Files
        /\ p.tx \in DOMAIN writes /\ p.tx \notin Committed /\ p.files = writes[p.tx].files
        /\ \A f \in p.files : \A i \in DOMAIN p.base[f] : p.base[f][i].tx # p.tx
        /\ \A f \in Files : IF f \in p.files
                            THEN Shown(Now, f) = With(p, f) /\ Shown(Now, f)' = p.base[f]
                            ELSE Shown(Now, f)' = Shown(Now, f)
        /\ Committed' = Committed /\ Undone' = Undone

LEMMA CrashStep ==
    ASSUME IInv, Crash
    PROVE  IInv' /\ (Quiet \/ Loses)
  <1>1. PICK w \in Survivors(wal) : wal' = Synced(w)
    BY DEF Crash
  <1>2. PICK c : c = Complete(w)
    OBVIOUS
  <1>3. WalTypes' /\ c \in Found /\ Found' = {c} /\ Now' = c
    BY <1>1, <1>2, FoundCrashed, InvParts
  <1>4. /\ CallTypes' /\ Position' /\ WritesKept /\ Committed' = Committed /\ Undone' = Undone
    BY UnknownFacts, InvParts DEF Crash
  <1>5. Recoverable(c) /\ Known(c) /\ Shows(c)
    BY <1>3, InvParts DEF Journals
  <1>6. HasPending(c) => Pending(c) \in Record /\ Pending(c).files \subseteq Files
    BY <1>3, JournalFacts, InvParts
  <1>7. ASSUME NEW f \in Files
        PROVE  /\ data'[f] = Synced(data'[f].mem) /\ data'[f].mem \in Survivors(data[f])
               /\ data'[f].mem \in Seq(Block)
    <2>1. data'[f].mem \in Survivors(data[f])
      BY DEF Crash
    <2>2. data'[f] \in UNION {{Synced(v) : v \in Survivors(data[g])} : g \in Files}
      BY DEF Crash
    <2>3. PICK g \in Files : \E v \in Survivors(data[g]) : data'[f] = Synced(v)
      BY <2>2
    <2>3a. PICK v \in Survivors(data[g]) : data'[f] = Synced(v)
      BY <2>3
    <2>4. data'[f].mem = v
      BY <2>3a DEF Synced
    <2>5. QED
      BY <2>1, <2>3a, <2>4, StableFacts, InvParts
  <1>8. DataTypes'
    <2>1. ASSUME NEW f \in Files
          PROVE  data'[f] \in [mem : Seq(Block), disk : Seq(Block)]
      <3>1. PICK v \in Seq(Block) : data'[f] = Synced(v)
        BY <1>7
      <3>2. QED
        BY <3>1 DEF Synced
    <2>2. data' \in [Files -> UNION {{Synced(v) : v \in Survivors(data[f])} : f \in Files}]
      BY DEF Crash
    <2>3. QED
      BY <2>1, <2>2 DEF DataTypes
  <1>9. ASSUME NEW f \in Files
        PROVE  /\ data'[f].disk = data'[f].mem /\ Survivors(data'[f]) = {data'[f].mem}
               /\ Covers(c, f) => InRange(data[f].mem, Pending(c), f) /\ InRange(data'[f].mem, Pending(c), f)
               /\ ~Covers(c, f) => data'[f] = data[f]
    <2>1. data'[f] = Synced(data'[f].mem) /\ data'[f].mem \in Survivors(data[f])
      BY <1>7
    <2>2. data'[f].disk = data'[f].mem /\ Survivors(data'[f]) = {data'[f].mem}
      <3>1. PICK v \in Seq(Block) : data'[f] = Synced(v) /\ data'[f].mem = v
        BY <1>7
      <3>2. data'[f].disk = v
        BY <3>1 DEF Synced
      <3>3. Survivors(data'[f]) = {v}
        BY <3>1, SurvivorsSynced
      <3>4. QED
        BY <3>1, <3>2, <3>3
    <2>3. CASE Covers(c, f)
      BY <1>5, <2>1, <2>2, <2>3, StableFacts, InvParts DEF Recoverable
    <2>4. CASE ~Covers(c, f)
      <3>1. data[f].disk = data[f].mem
        BY <1>5, <2>4 DEF Recoverable
      <3>2. data'[f].mem = data[f].mem
        BY <2>1, <3>1, StableFacts, InvParts
      <3>3. data[f] = [mem |-> data[f].mem, disk |-> data[f].disk]
        BY StableFacts, InvParts
      <3>4. data'[f] = data[f]
        BY <2>1, <3>1, <3>2, <3>3 DEF Synced
      <3>5. QED
        BY <2>2, <2>4, <3>4
    <2>5. QED
      BY <2>3, <2>4
  <1>10. Recoverable(c)'
    <2>1. ASSUME NEW f \in Files
          PROVE  IF Covers(c, f) THEN \A v \in Survivors(data'[f]) : InRange(v, Pending(c), f)
                                 ELSE data'[f].disk = data'[f].mem
      BY <1>9
    <2>2. QED
      BY <1>5, <2>1 DEF Recoverable, Covers, InRange
  <1>11. Known(c)'
    BY <1>4, <1>5 DEF Known, WritesKept, Committed
  <1>12. Journals'
    BY <1>3, <1>10, <1>11 DEF Journals, Shows
  <1>13. \A f \in Files : Shown(Now, f)' = Shown(c, f)
    BY <1>3, <1>9 DEF Shown, Covers
  <1>14. AcknowledgedDurable'
    <2>1. ASSUME NEW t \in Committed', NEW f \in writes'[t].files
          PROVE  Holds(data'[f].mem, t) /\ Holds(data'[f].disk, t)
      <3>1. t \in DOMAIN writes /\ writes[t].outcome \in Confirmed /\ f \in writes[t].files
        BY <1>4, <2>1 DEF WritesKept, Committed
      <3>2. f \in Files
        BY <3>1, CallFacts, InvParts DEF WriteRecord
      <3>3. Holds(data[f].mem, t)
        BY <3>1, InvParts DEF AcknowledgedDurable
      <3>4. CASE Covers(c, f)
        <4>1. Pending(c) \in Record /\ t # Pending(c).tx
          BY <1>5, <1>6, <3>1, <3>4 DEF Known, Covers
        <4>2. Holds(data'[f].mem, t)
          BY <1>9, <3>2, <3>3, <3>4, <4>1, RangeHolds
        <4>3. QED
          BY <1>9, <3>2, <4>2
      <3>5. CASE ~Covers(c, f)
        BY <1>9, <3>2, <3>3, <3>5
      <3>6. QED
        BY <3>4, <3>5
    <2>2. QED
      BY <2>1 DEF AcknowledgedDurable, Committed
  <1>15. CASE \A f \in Files : Shown(c, f) = Shown(Now, f)
    <2>1. ShownSame
      BY <1>13, <1>15 DEF ShownSame
    <2>2. Attributed'
      BY <1>4, <2>1, KeptAttributed, InvParts
    <2>3. QED
      BY <1>3, <1>4, <1>8, <1>12, <1>14, <2>1, <2>2, InvNext DEF Quiet
  <1>16. CASE /\ HasPending(c)
              /\ \A f \in Files : Shown(Now, f) = IF f \in Pending(c).files THEN With(Pending(c), f)
                                                                            ELSE Shown(c, f)
    <2>1. PICK p : p = Pending(c)
      OBVIOUS
    <2>2. /\ p \in Record /\ p.files \subseteq Files
          /\ p.tx \in DOMAIN writes /\ p.tx \notin Committed /\ p.files = writes[p.tx].files
          /\ \A f \in p.files : \A i \in DOMAIN p.base[f] : p.base[f][i].tx # p.tx
      BY <1>5, <1>6, <1>16, <2>1 DEF Known, Committed
    <2>3. p.files # {}
      <3>1. writes[p.tx] \in WriteRecord
        BY <2>2, CallFacts, InvParts
      <3>2. QED
        BY <2>2, <3>1 DEF WriteRecord
    <2>4. \A f \in Files : IF f \in p.files
                           THEN Shown(Now, f) = With(p, f) /\ Shown(Now, f)' = p.base[f]
                           ELSE Shown(Now, f)' = Shown(Now, f)
      BY <1>13, <1>16, <2>1 DEF Shown, Covers
    <2>5. Loses
      BY <1>4, <2>2, <2>3, <2>4 DEF Loses
    <2>6. ASSUME NEW f \in Files, NEW i \in DOMAIN Shown(Now, f)'
          PROVE  /\ Shown(Now, f)'[i].tx \in DOMAIN writes'
                 /\ f \in writes'[Shown(Now, f)'[i].tx].files
      <3>1. i \in DOMAIN Shown(Now, f) /\ Shown(Now, f)[i] = Shown(Now, f)'[i]
        <4>1. CASE f \in p.files
          <5>1. Shown(Now, f) = With(p, f) /\ Shown(Now, f)' = p.base[f]
            BY <2>4, <4>1
          <5>2. i \in DOMAIN p.base[f]
            BY <2>6, <5>1
          <5>3. i \in DOMAIN With(p, f) /\ With(p, f)[i] = p.base[f][i]
            <6>1. /\ DOMAIN With(p, f) = (DOMAIN p.base[f]) \cup {Len(p.base[f]) + 1}
                  /\ \A j \in DOMAIN p.base[f] : With(p, f)[j] = p.base[f][j]
              BY <2>2, WithFacts
            <6>2. QED
              BY <5>2, <6>1
          <5>4. QED
            BY <5>1, <5>3
        <4>2. CASE f \notin p.files
          BY <2>4, <2>6, <4>2
        <4>3. QED
          BY <4>1, <4>2
      <3>2. Shown(Now, f)[i].tx \in DOMAIN writes /\ f \in writes[Shown(Now, f)[i].tx].files
        BY <3>1, InvParts DEF Attributed
      <3>3. QED
        BY <1>4, <3>1, <3>2 DEF WritesKept
    <2>7. Attributed'
      BY <2>6 DEF Attributed
    <2>8. QED
      BY <1>3, <1>4, <1>8, <1>12, <1>14, <2>5, <2>7, InvNext
  <1>17. QED
    BY <1>5, <1>15, <1>16 DEF Shows
-----------------------------------------------------------------------------
(* The theorems.                                                           *)

LEMMA InitInv == Init => IInv
  <1> SUFFICES ASSUME Init PROVE IInv
    OBVIOUS
  <1>1. /\ <<>> \in Seq(Record) /\ <<>> \in Seq(Block) /\ <<>> \in Seq(WriteRecord)
        /\ Len(<<>>) = 0
    BY EmptySeq
  <1>2. wal = Synced(<<>>) /\ wal.mem = <<>> /\ wal.disk = <<>>
    BY DEF Init, Synced
  <1>3. Survivors(wal) = {<<>>}
    BY <1>1, <1>2, SurvivorsSynced
  <1>4. Complete(<<>>) = <<>> /\ ~HasPending(<<>>)
    BY DEF Complete, Torn, HasPending
  <1>5. Found = {<<>>} /\ Now = <<>>
    BY <1>2, <1>3, <1>4 DEF Found, Now
  <1>6. \A f \in Files : data[f].mem = <<>> /\ data[f].disk = <<>> /\ Shown(Now, f) = <<>>
    BY <1>4, <1>5 DEF Init, Shown, Covers
  <1>7. WalTypes /\ DataTypes /\ CallTypes
    BY <1>1, JsonlBatchAssumption DEF Init, WalTypes, DataTypes, CallTypes
  <1>8. DOMAIN <<>> = {} /\ WellFormed(<<>>)
    BY <1>1 DEF WellFormed
  <1>9. Recoverable(<<>>) /\ Known(<<>>) /\ Shows(<<>>)
    BY <1>4, <1>5, <1>6, <1>8 DEF Recoverable, Known, Shows, Covers
  <1>10. Journals
    BY <1>5, <1>9 DEF Journals
  <1>11. Attributed
    BY <1>6, <1>8 DEF Attributed
  <1>12. writes = <<>> /\ step = "idle" /\ DOMAIN writes = {} /\ ~Writing
    BY <1>8 DEF Init, Writing
  <1>13. Position
    BY <1>12 DEF Position, Undoing, Appending, Running
  <1>14. AcknowledgedDurable
    BY <1>12 DEF AcknowledgedDurable
  <1>15. QED
    BY <1>7, <1>10, <1>11, <1>13, <1>14, InvParts

LEMMA StepInv == IInv /\ Next => IInv' /\ (Quiet \/ Commits \/ Undoes \/ Loses)
  <1> SUFFICES ASSUME IInv, Next PROVE IInv' /\ (Quiet \/ Commits \/ Undoes \/ Loses)
    OBVIOUS
  <1>1. CASE Begin
    BY <1>1, BeginStep
  <1>2. CASE GiveUp
    BY <1>2, GiveUpStep
  <1>3. CASE RepairTorn
    BY <1>3, RepairTornStep
  <1>4. CASE RecoverDecide
    BY <1>4, RecoverDecideStep
  <1>5. CASE UndoDone
    BY <1>5, UndoDoneStep
  <1>6. CASE Checkpoint
    BY <1>6, CheckpointStep
  <1>7. CASE \E fs \in (SUBSET Files) \ {{}} : Prepare(fs)
    BY <1>7, PrepareStep
  <1>8. CASE \E f \in Files : Undo(f) \/ AppendFile(f)
    BY <1>8, UndoStep, AppendFileStep
  <1>9. CASE Commit
    BY <1>9, CommitStep
  <1>10. CASE Crash
    BY <1>10, CrashStep
  <1>11. QED
    BY <1>1, <1>2, <1>3, <1>4, <1>5, <1>6, <1>7, <1>8, <1>9, <1>10 DEF Next

LEMMA StutterInv == IInv /\ UNCHANGED vars => IInv' /\ Quiet
  <1> SUFFICES ASSUME IInv, UNCHANGED vars PROVE IInv' /\ Quiet
    OBVIOUS
  <1>1. UNCHANGED wal /\ UNCHANGED data /\ UNCHANGED step /\ UNCHANGED todo /\ UNCHANGED writes
    BY DEF vars
  <1>2. WalTypes' /\ Found' = Found /\ Now' = Now
    BY <1>1, FoundSame, InvParts
  <1>3. DataTypes' /\ CallTypes' /\ WritesKept /\ Committed' = Committed /\ Undone' = Undone
    BY <1>1, InvParts DEF DataTypes, CallTypes, WritesKept, Committed, Undone
  <1>4. Journals' /\ Attributed' /\ AcknowledgedDurable' /\ ShownSame
    BY <1>1, <1>2, <1>3, NoNewJournal, InvParts
  <1>5. Position'
    BY <1>1, InvParts DEF Position, Undoing, Appending, Running, Open, Writing, Current, Payload
  <1>6. QED
    BY <1>2, <1>3, <1>4, <1>5, InvNext DEF Quiet

\* What recovery can find after a crash fits the files at every step.
THEOREM BatchInvariance == Spec => []IInv
  BY InitInv, StepInv, StutterInv, PTL DEF Spec

\* The variables keep their types: a prepare record's offsets and hashes are
\* those of files that exist, and no more writes are begun than MaxWrites.
THEOREM BatchTypeCorrect == Spec => []TypeOK
  <1>1. IInv => TypeOK
    BY DEF IInv
  <1>2. QED
    BY <1>1, BatchInvariance, PTL

\* Write returns nil only for a transaction that is on stable storage in all of
\* its files, and no later failure, rollback, checkpoint or crash takes it away.
THEOREM AcknowledgedTheorem == Spec => []AcknowledgedDurable
  <1>1. IInv => AcknowledgedDurable
    BY DEF IInv
  <1>2. QED
    BY <1>1, BatchInvariance, PTL

\* The journal always parses and every file of a pending transaction is within
\* its prepared range: recoverLocked never refuses the store.
THEOREM RecoverableTheorem == Spec => []RecoveryApplies
  <1>1. IInv => RecoveryApplies
    <2> SUFFICES ASSUME IInv PROVE RecoveryApplies
      OBVIOUS
    <2>1. PICK w : w = Now
      OBVIOUS
    <2>2. Recoverable(w) /\ (HasPending(w) => Pending(w).files \subseteq Files)
      BY <2>1, JournalFacts, InvParts
    <2>3. ASSUME HasPending(w), NEW f \in Pending(w).files
          PROVE  Undoable(f, Pending(w))
      <3>1. f \in Files /\ Covers(w, f)
        BY <2>2, <2>3 DEF Covers
      <3>2. InRange(data[f].mem, Pending(w), f)
        BY <2>2, <3>1, StableFacts, InvParts DEF Recoverable
      <3>3. QED
        BY <3>2 DEF InRange, Undoable
    <2>4. WellFormed(w) /\ w = Complete(wal.mem)
      BY <2>1, <2>2 DEF Recoverable, Now
    <2>5. QED
      BY <2>3, <2>4 DEF RecoveryApplies
  <1>2. QED
    BY <1>1, BatchInvariance, PTL
-----------------------------------------------------------------------------
(* The refinement.                                                         *)

Names(s) == [i \in DOMAIN s |-> s[i].tx]
Contents == [f \in Files |-> [i \in DOMAIN Visible(f) |-> Visible(f)[i].tx]]

LEMMA NamesFacts ==
    ASSUME NEW s \in Seq(Block)
    PROVE  /\ Names(s) \in Seq(Transactions) /\ Len(Names(s)) = Len(s)
           /\ DOMAIN Names(s) = DOMAIN s /\ DOMAIN s = 1..Len(s) /\ Len(s) \in Nat
           /\ \A i \in DOMAIN s : Names(s)[i] = s[i].tx
  <1>1. DOMAIN s = 1..Len(s) /\ Len(s) \in Nat
    BY LenProperties
  <1>2. \A i \in DOMAIN s : s[i].tx \in Transactions
    <2>1. \A i \in DOMAIN s : s[i] \in Block
      BY <1>1, ElementOfSeq
    <2>2. QED
      BY <2>1 DEF Block
  <1>3. Names(s) \in [1..Len(s) -> Transactions]
    BY <1>1, <1>2 DEF Names
  <1>4. Names(s) \in Seq(Transactions)
    BY <1>1, <1>3, SeqDef
  <1>5. DOMAIN Names(s) = 1..Len(Names(s)) /\ Len(Names(s)) \in Nat
    BY <1>4, LenProperties
  <1>6. Len(Names(s)) = Len(s)
    BY <1>1, <1>3, <1>5
  <1>7. QED
    BY <1>1, <1>3, <1>4, <1>6 DEF Names

LEMMA NamesWith ==
    ASSUME NEW p \in Record, NEW f \in Files
    PROVE  /\ Names(With(p, f)) = Append(Names(p.base[f]), p.tx)
           /\ Names(p.base[f]) \in Seq(Transactions) /\ p.tx \in Transactions
  <1> DEFINE b == p.base[f]
             a == With(p, f)
  <1>1. /\ b \in Seq(Block) /\ a \in Seq(Block) /\ p.tx \in Transactions
        /\ \A i \in DOMAIN b : a[i] = b[i]
        /\ a[Len(b) + 1].tx = p.tx
    BY WithFacts, RecordFacts
  <1>2. Len(b) \in Nat /\ DOMAIN b = 1..Len(b) /\ Len(a) = Len(b) + 1 /\ DOMAIN a = 1..Len(a)
    <2>1. [tx |-> p.tx, whole |-> TRUE] \in Block
      BY <1>1, BlockFacts
    <2>2. QED
      BY <1>1, <2>1, Appends, LenProperties DEF With
  <1> HIDE DEF a, b
  <1>3. /\ Names(a) \in Seq(Transactions) /\ Len(Names(a)) = Len(b) + 1
        /\ Names(b) \in Seq(Transactions) /\ Len(Names(b)) = Len(b)
        /\ \A i \in 1..Len(b) : Names(a)[i] = Names(b)[i]
        /\ Names(a)[Len(b) + 1] = p.tx
    <2>1. /\ Names(a) \in Seq(Transactions) /\ Len(Names(a)) = Len(a)
          /\ \A i \in DOMAIN a : Names(a)[i] = a[i].tx
          /\ Names(b) \in Seq(Transactions) /\ Len(Names(b)) = Len(b)
          /\ \A i \in DOMAIN b : Names(b)[i] = b[i].tx
      BY <1>1, NamesFacts
    <2>2. Len(b) + 1 \in DOMAIN a /\ \A i \in 1..Len(b) : i \in DOMAIN a /\ i \in DOMAIN b
      BY <1>2
    <2>3. QED
      BY <1>1, <1>2, <2>1, <2>2
  <1> DEFINE n == Names(a)
             m == Append(Names(b), p.tx)
  <1>4. /\ m \in Seq(Transactions) /\ Len(m) = Len(b) + 1 /\ m[Len(b) + 1] = p.tx
        /\ \A i \in 1..Len(b) : m[i] = Names(b)[i]
    BY <1>1, <1>3, Appends
  <1>5. \A i \in 1..Len(b) + 1 : i = Len(b) + 1 \/ i \in 1..Len(b)
    BY <1>2
  <1> HIDE DEF n, m
  <1>6. \A i \in 1..Len(b) + 1 : n[i] = m[i]
    BY <1>3, <1>4, <1>5 DEF n
  <1>7. n \in Seq(Transactions) /\ Len(n) = Len(b) + 1
    BY <1>3 DEF n
  <1>8. n = m
    BY <1>4, <1>6, <1>7, SeqEqual
  <1>9. QED
    BY <1>1, <1>3, <1>8 DEF n, m, a, b

LEMMA ContentsFacts ==
    /\ DOMAIN Contents = Files /\ DOMAIN Contents' = Files
    /\ \A f \in Files : Contents[f] = Names(Shown(Now, f)) /\ Contents'[f] = Names(Shown(Now, f)')
  BY DEF Contents, Names, Visible, Shown, Covers, Now

LEMMA ShownType ==
    ASSUME IInv, NEW f \in Files
    PROVE  Shown(Now, f) \in Seq(Block)
  BY JournalFacts, StableFacts, InvParts DEF Shown, Covers

LEMMA QuietRefines ==
    ASSUME Quiet
    PROVE  UNCHANGED Atomic!vars
  <1>1. \A f \in Files : Contents'[f] = Contents[f]
    BY ContentsFacts DEF Quiet, ShownSame
  <1>2. Contents' = Contents
    BY <1>1 DEF Contents
  <1>3. QED
    BY <1>2 DEF Quiet, Atomic!vars, Contents, Committed, Undone

\* What readers are shown belongs to the write that is named, in its files only.
LEMMA Seen ==
    ASSUME IInv, NEW t, \A f \in Files : f \in writes[t].files =>
                           \A i \in DOMAIN Shown(Now, f) : Shown(Now, f)[i].tx # t
    PROVE  t \notin Atomic!Shown
  <1>1. ASSUME NEW f \in Files, NEW i \in DOMAIN Contents[f]
        PROVE  Contents[f][i] # t
    <2>1. i \in DOMAIN Shown(Now, f) /\ Contents[f][i] = Shown(Now, f)[i].tx
      BY <1>1, ContentsFacts DEF Names
    <2>2. f \in writes[Shown(Now, f)[i].tx].files
      BY <2>1, InvParts DEF Attributed
    <2>3. QED
      BY <2>1, <2>2
  <1>2. QED
    BY <1>1 DEF Atomic!Shown, Contents

\* The running write is not shown yet.
LEMMA RunningUnseen ==
    ASSUME IInv, Writing
    PROVE  Current \in Transactions \ (Atomic!Shown \cup Undone)
  <1>1. PICK p : p = Pending(Now)
    OBVIOUS
  <1>2. /\ HasPending(Now) /\ p \in Record /\ p.tx = Current /\ p.files = writes[Current].files
        /\ Current \in Transactions /\ Current \notin Undone /\ Known(Now)
    BY <1>1, RunningFacts, JournalFacts, InvParts
  <1>3. ASSUME NEW f \in Files, f \in writes[Current].files, NEW i \in DOMAIN Shown(Now, f)
        PROVE  Shown(Now, f)[i].tx # Current
    <2>1. f \in p.files /\ Shown(Now, f) = p.base[f]
      BY <1>1, <1>2, <1>3 DEF Shown, Covers
    <2>2. QED
      BY <1>1, <1>2, <1>3, <2>1 DEF Known
  <1>4. Current \notin Atomic!Shown
    BY <1>3, Seen
  <1>5. QED
    BY <1>2, <1>4

LEMMA CommitsRefine ==
    ASSUME IInv, Commits
    PROVE  Atomic!Commit
  <1>1. PICK p, t, fs : p = Pending(Now) /\ t = Current /\ fs = p.files
    OBVIOUS
  <1>2. Writing /\ p.tx = t
    BY <1>1 DEF Commits
  <1>3. t \in Transactions \ (Atomic!Shown \cup Undone)
    BY <1>1, <1>2, RunningUnseen
  <1>4. /\ HasPending(Now) /\ p \in Record /\ fs = writes[Current].files /\ fs \subseteq Files
        /\ Current \in DOMAIN writes
    BY <1>1, <1>2, RunningFacts
  <1>5. fs \in (SUBSET Files) \ {{}}
    <2>1. writes[Current] \in WriteRecord
      BY <1>4, CallFacts, InvParts
    <2>2. QED
      BY <1>4, <2>1 DEF WriteRecord
  <1>6. ASSUME NEW f \in Files
        PROVE  Contents'[f] = IF f \in fs THEN Append(Contents[f], t) ELSE Contents[f]
    <2>1. CASE f \in fs
      <3>1. Shown(Now, f)' = With(p, f) /\ Shown(Now, f) = p.base[f]
        BY <1>1, <1>4, <2>1 DEF Commits, Shown, Covers
      <3>2. Names(With(p, f)) = Append(Names(p.base[f]), t)
        BY <1>2, <1>4, NamesWith
      <3>3. QED
        BY <2>1, <3>1, <3>2, ContentsFacts
    <2>2. CASE f \notin fs
      BY <1>1, <2>2, ContentsFacts DEF Commits
    <2>3. QED
      BY <2>1, <2>2
  <1>7. Contents' = [f \in Files |-> IF f \in fs THEN Append(Contents[f], t) ELSE Contents[f]]
    BY <1>6 DEF Contents
  <1>8. Committed' \in {Committed, Committed \cup {t}} /\ Undone' = Undone
    BY <1>1 DEF Commits
  <1>9. QED
    BY <1>3, <1>5, <1>7, <1>8 DEF Atomic!Commit, Contents, Committed, Undone

LEMMA UndoesRefine ==
    ASSUME IInv, Undoes
    PROVE  Atomic!Undo
  <1>1. PICK t : t = Current
    OBVIOUS
  <1>2. t \in Transactions \ (Atomic!Shown \cup Undone)
    BY <1>1, RunningUnseen DEF Undoes
  <1>3. \A f \in Files : Contents'[f] = Contents[f]
    BY ContentsFacts DEF Undoes, ShownSame
  <1>4. Contents' = Contents
    BY <1>3 DEF Contents
  <1>5. Committed' = Committed /\ Undone' = Undone \cup {t}
    BY <1>1 DEF Undoes
  <1>6. QED
    BY <1>2, <1>4, <1>5 DEF Atomic!Undo, Contents, Committed, Undone

LEMMA LosesRefine ==
    ASSUME IInv, Loses
    PROVE  Atomic!Lose
  <1>1. PICK p \in Record :
            /\ p.files # {} /\ p.files \subseteq Files
            /\ p.tx \in DOMAIN writes /\ p.tx \notin Committed /\ p.files = writes[p.tx].files
            /\ \A f \in p.files : \A i \in DOMAIN p.base[f] : p.base[f][i].tx # p.tx
            /\ \A f \in Files : IF f \in p.files
                                THEN Shown(Now, f) = With(p, f) /\ Shown(Now, f)' = p.base[f]
                                ELSE Shown(Now, f)' = Shown(Now, f)
            /\ Committed' = Committed /\ Undone' = Undone
    BY DEF Loses
  <1>2. PICK t : t = p.tx
    OBVIOUS
  <1>3. ASSUME NEW f \in p.files
        PROVE  /\ Contents[f] = Append(Names(p.base[f]), t) /\ Contents'[f] = Names(p.base[f])
               /\ Len(Contents[f]) = Len(p.base[f]) + 1 /\ Len(p.base[f]) \in Nat
               /\ Contents[f] # <<>> /\ Contents[f][Len(Contents[f])] = t
               /\ SubSeq(Contents[f], 1, Len(Contents[f]) - 1) = Contents'[f]
               /\ DOMAIN Contents[f] = 1..Len(Contents[f])
               /\ \A i \in DOMAIN Contents[f] : Contents[f][i] = t => i = Len(Contents[f])
    <2>1. f \in Files /\ Shown(Now, f) = With(p, f) /\ Shown(Now, f)' = p.base[f]
      BY <1>1, <1>3
    <2>2. /\ Names(With(p, f)) = Append(Names(p.base[f]), t)
          /\ Names(p.base[f]) \in Seq(Transactions) /\ t \in Transactions
      BY <1>2, <2>1, NamesWith
    <2>3. Contents[f] = Append(Names(p.base[f]), t) /\ Contents'[f] = Names(p.base[f])
      BY <2>1, <2>2, ContentsFacts
    <2>4. p.base[f] \in Seq(Block)
      BY <2>1, WithFacts
    <2> DEFINE b == Names(p.base[f])
    <2>5. /\ b \in Seq(Transactions) /\ Len(b) \in Nat /\ Len(b) = Len(p.base[f])
          /\ \A i \in 1..Len(b) : b[i] # t
      BY <1>1, <1>2, <2>4, NamesFacts
    <2> HIDE DEF b
    <2>6. /\ Append(b, t) \in Seq(Transactions) /\ Len(Append(b, t)) = Len(b) + 1
          /\ Append(b, t) # <<>> /\ Append(b, t)[Len(b) + 1] = t
          /\ \A i \in 1..Len(b) : Append(b, t)[i] = b[i]
          /\ SubSeq(Append(b, t), 1, Len(b)) = b
      <3>1. b \in Seq(Transactions) /\ t \in Transactions
        BY <2>2, <2>5
      <3>2. QED
        BY <3>1, Appends
    <2>7. DOMAIN Append(b, t) = 1..Len(b) + 1
      BY <2>6, LenProperties
    <2>8. \A i \in 1..Len(b) + 1 : Append(b, t)[i] = t => i = Len(b) + 1
      <3>1. \A i \in 1..Len(b) + 1 : i = Len(b) + 1 \/ i \in 1..Len(b)
        BY <2>5
      <3>2. QED
        BY <2>5, <2>6, <3>1
    <2>9. Len(b) + 1 - 1 = Len(b)
      BY <2>5
    <2>10. Contents[f] = Append(b, t) /\ Contents'[f] = b
      BY <2>3 DEF b
    <2>11. QED
      BY <2>3, <2>5, <2>6, <2>7, <2>8, <2>9, <2>10
  <1>4. ASSUME NEW f \in Files, f \notin p.files
        PROVE  /\ Contents'[f] = Contents[f] /\ \A i \in DOMAIN Contents[f] : Contents[f][i] # t
               /\ Contents[f] # <<>> => Len(Contents[f]) \in DOMAIN Contents[f]
    <2>1. Contents'[f] = Contents[f]
      BY <1>1, <1>4, ContentsFacts
    <2>2. Contents[f] = Names(Shown(Now, f)) /\ Shown(Now, f) \in Seq(Block)
      BY ContentsFacts, ShownType
    <2>3. /\ Contents[f] \in Seq(Transactions) /\ DOMAIN Contents[f] = DOMAIN Shown(Now, f)
          /\ \A i \in DOMAIN Contents[f] : Contents[f][i] = Shown(Now, f)[i].tx
      BY <2>2, NamesFacts
    <2>4. \A i \in DOMAIN Contents[f] : Contents[f][i] # t
      BY <1>1, <1>2, <1>4, <2>3, InvParts DEF Attributed
    <2>5. Contents[f] # <<>> => Len(Contents[f]) \in DOMAIN Contents[f]
      BY <2>3, LenProperties, EmptySeq
    <2>6. QED
      BY <2>1, <2>4, <2>5
  <1>5. t \in Atomic!Shown \ Committed
    <2>1. PICK f \in p.files : TRUE
      BY <1>1
    <2>2. f \in Files /\ Len(Contents[f]) \in DOMAIN Contents[f] /\ Contents[f][Len(Contents[f])] = t
      BY <1>1, <1>3
    <2>3. t \in UNION {{Contents[g][i] : i \in DOMAIN Contents[g]} : g \in Files}
      BY <2>2
    <2>4. QED
      BY <1>1, <1>2, <2>3 DEF Atomic!Shown, Contents
  <1>6. ASSUME NEW f \in Files, NEW i \in DOMAIN Contents[f], Contents[f][i] = t
        PROVE  i = Len(Contents[f])
    BY <1>3, <1>4, <1>6
  <1>7. ASSUME NEW f \in Files
        PROVE  Contents'[f] = IF Contents[f] # <<>> /\ Contents[f][Len(Contents[f])] = t
                              THEN SubSeq(Contents[f], 1, Len(Contents[f]) - 1) ELSE Contents[f]
    BY <1>3, <1>4
  <1>8. Contents' = [f \in Files |-> IF Contents[f] # <<>> /\ Contents[f][Len(Contents[f])] = t
                                     THEN SubSeq(Contents[f], 1, Len(Contents[f]) - 1)
                                     ELSE Contents[f]]
    BY <1>7 DEF Contents
  <1>9. QED
    BY <1>1, <1>5, <1>6, <1>8 DEF Atomic!Lose, Atomic!Without, Contents, Committed, Undone

LEMMA InitRefines == Init => Atomic!Init
  <1> SUFFICES ASSUME Init PROVE Atomic!Init
    OBVIOUS
  <1>1. IInv
    BY InitInv
  <1>2. \A f \in Files : Visible(f) = <<>>
    BY DEF Init, Visible, Complete, Torn, HasPending
  <1>3. Names(<<>>) = <<>>
    <2>1. <<>> \in Seq(Block) /\ Len(<<>>) = 0
      BY EmptySeq
    <2>2. Names(<<>>) \in Seq(Transactions) /\ Len(Names(<<>>)) = 0
      BY <2>1, NamesFacts
    <2>3. QED
      BY <2>2, EmptySeq
  <1>4. Contents = [f \in Files |-> <<>>]
    BY <1>2, <1>3 DEF Contents, Names
  <1>5. Committed = {} /\ Undone = {}
    <2>1. DOMAIN <<>> = {}
      BY EmptySeq
    <2>2. QED
      BY <2>1 DEF Init, Committed, Undone
  <1>6. QED
    BY <1>4, <1>5 DEF Atomic!Init, Contents, Committed, Undone

\* The batch writer implements atomic files (AtomicFiles): readers see a
\* transaction in all of its files or in none, a committed one stays even if its
\* caller got the lock's error, a rolled back one never appears, and what is not
\* settled is taken back whole, last write first.
THEOREM AtomicTheorem == Spec => ImplementsAtomicFiles
  <1>1. IInv /\ [Next]_vars => [Atomic!Next]_(Atomic!vars)
    <2> SUFFICES ASSUME IInv, [Next]_vars PROVE [Atomic!Next]_(Atomic!vars)
      OBVIOUS
    <2>1. Quiet \/ Commits \/ Undoes \/ Loses
      BY StepInv, StutterInv
    <2>2. QED
      BY <2>1, QuietRefines, CommitsRefine, UndoesRefine, LosesRefine DEF Atomic!Next
  <1>2. QED
    BY <1>1, InitRefines, BatchInvariance, PTL DEF Spec, ImplementsAtomicFiles, Atomic!Spec
=============================================================================
