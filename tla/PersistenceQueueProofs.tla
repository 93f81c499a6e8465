----------------------- MODULE PersistenceQueueProofs -----------------------
(***************************************************************************)
(* Proofs about PersistenceQueue for every number of requests and writers, *)
(* every capacity and every sequence bound: the state is well typed, the   *)
(* two capacities are never exceeded, the answers of Wait are true, the    *)
(* counters are the sums they stand for, a queue that has drained holds    *)
(* nothing back, and every step is one of the write-behind log.            *)
(*                                                                         *)
(* Sums are recursive functions on the finite subsets of a set: they exist *)
(* by well-founded recursion (SumsExist), and a change of one element      *)
(* changes them by as much (TotalChange).                                  *)
(***************************************************************************)
EXTENDS PersistenceQueue, SequenceTheorems, FiniteSetTheorems, WellFoundedInduction, TLAPS

\* The queue is the contiguous interval of sequence numbers after the last
\* completed one, and the history is the interval up to it.
Contiguous ==
    /\ lastSequence = completedSequence + Len(items)
    /\ \A i \in 1..Len(items) : items[i].sequence = completedSequence + i
    /\ Len(written) = completedSequence
    /\ \A i \in 1..Len(written) : written[i].sequence = i

\* What the worker's position says about the queue.
WorkerInv ==
    /\ worker = "writing" => items # <<>> /\ failure = 0
    /\ failure # 0 => worker = "done" /\ failure = completedSequence + 1

\* Every ticket in a caller's hands was issued, and an answer fits the queue.
TicketInv ==
    /\ \A r \in Requests : admission[r].lastTicket <= lastSequence
    /\ \A w \in Waiters :
          /\ wait[w].ticket <= lastSequence
          /\ wait[w].state \in InWait => wait[w].ticket # 0
          /\ wait[w].state = "ok" => wait[w].ticket <= completedSequence
          /\ wait[w].state = "failed" =>
                failure # 0 /\ completedSequence < wait[w].ticket
          /\ wait[w].state # "unknown"

\* An admission's own count is its reservation's.
AdmissionInv ==
    \A r \in Requests : admission[r].remaining = reservations[r].count

IInv ==
    /\ TypeOK
    /\ CapacityRespected
    /\ Contiguous
    /\ WorkerInv
    /\ TicketInv
    /\ AdmissionInv
-----------------------------------------------------------------------------
(* Helpers.                                                                *)

\* Waking the parked callers changes no ticket and no result.
LEMMA WokenFacts ==
    ASSUME TypeOK
    PROVE  /\ Woken \in [Waiters -> WaitRecord]
           /\ \A w \in Waiters :
                 /\ Woken[w].ticket = wait[w].ticket
                 /\ \/ Woken[w].state = wait[w].state
                    \/ wait[w].state = "parked" /\ Woken[w].state = "check"
  BY DEF TypeOK, Woken, InWait, WaitRecord

\* Waking the parked callers keeps every ticket and answer true.
LEMMA WokenTickets ==
    ASSUME TypeOK, TicketInv, wait' = Woken,
           lastSequence' = lastSequence \/ lastSequence' = lastSequence + 1,
           UNCHANGED <<completedSequence, failure>>
    PROVE  \A w \in Waiters :
              /\ wait'[w].ticket <= lastSequence'
              /\ wait'[w].state \in InWait => wait'[w].ticket # 0
              /\ wait'[w].state = "ok" => wait'[w].ticket <= completedSequence'
              /\ wait'[w].state = "failed" =>
                    failure' # 0 /\ completedSequence' < wait'[w].ticket
              /\ wait'[w].state # "unknown"
  <1>1. SUFFICES ASSUME NEW w \in Waiters
                 PROVE  /\ Woken[w].ticket <= lastSequence'
                        /\ Woken[w].state \in InWait => Woken[w].ticket # 0
                        /\ Woken[w].state = "ok" => Woken[w].ticket <= completedSequence
                        /\ Woken[w].state = "failed" =>
                              failure # 0 /\ completedSequence < Woken[w].ticket
                        /\ Woken[w].state # "unknown"
    OBVIOUS
  <1>2. /\ Woken[w].ticket = wait[w].ticket
        /\ \/ Woken[w].state = wait[w].state
           \/ wait[w].state = "parked" /\ Woken[w].state = "check"
    BY WokenFacts
  <1>3. wait[w].ticket \in Nat /\ lastSequence \in Nat
    BY QueueAssumption DEF TypeOK, WaitRecord
  <1>4. QED
    BY <1>2, <1>3 DEF TicketInv, InWait

\* Accepting one command extends the interval of pending numbers by one.
LEMMA PushFacts ==
    ASSUME IInv, NEW w \in Waiters, NEW s \in Sizes, Push(w, s)
    PROVE  /\ items' \in Seq(Command)
           /\ Len(items') = Len(items) + 1
           /\ items' # <<>>
           /\ \A i \in 1..Len(items') : items'[i].sequence = completedSequence + i
           /\ lastSequence' = lastSequence + 1
           /\ lastSequence' \in 0..MaxSequence
           /\ pendingBytes' = pendingBytes + s
           /\ pendingBytes' \in Int
           /\ worker' \in {"top", "parked", "writing", "done"}
           /\ \/ worker' = worker
              \/ worker = "parked" /\ worker' = "top"
  <1> DEFINE c == [sequence |-> lastSequence + 1, sizeBytes |-> s, from |-> w]
  <1> USE QueueAssumption
  <1>1. c \in Command
    BY DEF IInv, TypeOK, Push, Command
  <1>2. items \in Seq(Command) /\ Len(items) \in Nat
    BY LenProperties DEF IInv, TypeOK
  <1>3. items' = Append(items, c)
    BY DEF Push
  <1>4. /\ items' \in Seq(Command)
        /\ items' # <<>>
        /\ Len(items') = Len(items) + 1
        /\ \A i \in 1..Len(items) : items'[i] = items[i]
        /\ items'[Len(items) + 1] = c
    <2> HIDE DEF c
    <2> QED  BY <1>1, <1>2, <1>3, AppendProperties
  <1>5. \A i \in 1..Len(items') : items'[i].sequence = completedSequence + i
    <2> SUFFICES ASSUME NEW i \in 1..Len(items')
                 PROVE  items'[i].sequence = completedSequence + i
      OBVIOUS
    <2>1. CASE i \in 1..Len(items)
      BY <2>1, <1>4 DEF IInv, Contiguous
    <2>2. CASE i = Len(items) + 1
      BY <2>2, <1>4, <1>2 DEF IInv, Contiguous, TypeOK
    <2>3. QED  BY <2>1, <2>2, <1>2, <1>4
  <1>6. QED
    BY <1>4, <1>5 DEF Push, WorkerReadied, IInv, TypeOK
-----------------------------------------------------------------------------
(* Sums over finite sets.                                                  *)

Less == {p \in Nat \X Nat : p[1] < p[2]}

LEMMA LessWellFounded == IsWellFoundedOn(Less, Nat)
  BY NatLessThanWellFounded, Zenon DEF OpToRel, Less

LEMMA LeastNumber ==
    ASSUME NEW T, T \subseteq Nat, T # {}
    PROVE  \E n \in T : \A m \in T : n <= m
  <1>1. \E n \in T : \A m \in T : ~(<<m, n>> \in Less)
    BY LessWellFounded, WFMin, Zenon
  <1>2. PICK n \in T : \A m \in T : ~(<<m, n>> \in Less)
    BY <1>1
  <1>3. ASSUME NEW m \in T
        PROVE  n <= m
    <2>1. m \in Nat /\ n \in Nat /\ ~(m < n)
      BY <1>2 DEF Less
    <2>2. QED
      BY <2>1
  <1>4. QED
    BY <1>3

\* Induction over the subsets of a finite set, with a set for the predicate.
LEMMA SubsetInduction ==
    ASSUME NEW D, IsFiniteSet(D), NEW T, {} \in T,
           \A s \in SUBSET D : s # {} /\ (\A x \in s : s \ {x} \in T) => s \in T
    PROVE  \A s \in SUBSET D : s \in T
  <1> DEFINE Bad == {n \in Nat : \E s \in SUBSET D : s \notin T /\ Cardinality(s) = n}
  <1>1. \A s \in SUBSET D : IsFiniteSet(s) /\ Cardinality(s) \in Nat
    BY FS_Subset, FS_CardinalityType
  <1>2. SUFFICES Bad = {}
    BY <1>1
  <1>3. SUFFICES ASSUME Bad # {}
                 PROVE  FALSE
    OBVIOUS
  <1>4. PICK n \in Bad : \A m \in Bad : n <= m
    <2> HIDE DEF Bad
    <2>1. Bad \subseteq Nat
      BY DEF Bad
    <2>2. QED
      BY <1>3, <2>1, LeastNumber
  <1>5. PICK s \in SUBSET D : s \notin T /\ Cardinality(s) = n
    BY <1>4
  <1>6. ASSUME NEW x \in s
        PROVE  s \ {x} \in T
    <2>1. s \ {x} \in SUBSET D
      OBVIOUS
    <2>2. Cardinality(s \ {x}) = n - 1
      BY <1>1, <1>5, <1>6, FS_RemoveElement
    <2>3. Cardinality(s \ {x}) \in Nat
      BY <1>1, <2>1
    <2>4. n - 1 \notin Bad /\ n \in Nat
      BY <1>4
    <2>5. QED
      BY <2>1, <2>2, <2>3, <2>4
  <1>7. QED
    BY <1>5, <1>6

Picked(s) == CHOOSE x \in s : TRUE

\* g computes the sums of f over the subsets of its domain.
Sums(f, g) ==
    g = [s \in SUBSET DOMAIN f |-> IF s = {} THEN 0 ELSE f[Picked(s)] + g[s \ {Picked(s)}]]

LEMMA TotalIs ==
    ASSUME NEW f
    PROVE  Total(f) = (CHOOSE g : Sums(f, g))[DOMAIN f]
BY DEF Total, MapThenSumSet, MapThenFoldSet, Sums, Picked

LEMMA SumsExist ==
    ASSUME NEW D, IsFiniteSet(D), NEW f \in [D -> Int]
    PROVE  \E g : Sums(f, g)
  <1> DEFINE Upto(n) == {s \in SUBSET D : Cardinality(s) <= n}
             Rec(g, s) == IF s = {} THEN 0 ELSE f[Picked(s)] + g[s \ {Picked(s)}]
             Good(n) == \E g \in [Upto(n) -> Int] : \A s \in Upto(n) : g[s] = Rec(g, s)
             Bad == {n \in Nat : ~Good(n)}
  <1>1. \A s \in SUBSET D : IsFiniteSet(s) /\ Cardinality(s) \in Nat
    BY FS_Subset, FS_CardinalityType
  <1>2. \A s \in SUBSET D : s # {} => Picked(s) \in s
    BY DEF Picked
  <1>3. ASSUME NEW s \in SUBSET D, s # {}
        PROVE  /\ Cardinality(s \ {Picked(s)}) = Cardinality(s) - 1
               /\ s \ {Picked(s)} \in SUBSET D
               /\ Picked(s) \in D
    BY <1>1, <1>2, <1>3, FS_RemoveElement
  <1>4. Good(0)
    <2> DEFINE g == [s \in Upto(0) |-> 0]
    <2>1. \A s \in Upto(0) : s = {}
      BY <1>1, FS_EmptySet
    <2>2. g \in [Upto(0) -> Int] /\ \A s \in Upto(0) : g[s] = Rec(g, s)
      BY <2>1
    <2>3. QED
      BY <2>2
  <1>5. ASSUME NEW n \in Nat, Good(n)
        PROVE  Good(n + 1)
    <2>1. PICK g \in [Upto(n) -> Int] : \A s \in Upto(n) : g[s] = Rec(g, s)
      BY <1>5
    <2> DEFINE h == [s \in Upto(n + 1) |-> IF s \in Upto(n) THEN g[s] ELSE Rec(g, s)]
    <2>2. ASSUME NEW s \in Upto(n + 1), s # {}
          PROVE  s \ {Picked(s)} \in Upto(n) /\ s \ {Picked(s)} \in Upto(n + 1)
      <3>1. s \in SUBSET D /\ Cardinality(s) <= n + 1 /\ Cardinality(s) \in Nat
        BY <1>1
      <3>2. QED
        BY <1>3, <2>2, <3>1
    <2>3. \A s \in Upto(n + 1) : s # {} => Picked(s) \in D
      BY <1>3
    <2>4. h \in [Upto(n + 1) -> Int]
      BY <2>2, <2>3
    <2>5. ASSUME NEW s \in Upto(n + 1)
          PROVE  h[s] = Rec(h, s)
      <3>1. CASE s = {}
        <4>1. Cardinality(s) = 0
          BY <3>1, FS_EmptySet
        <4>2. s \in Upto(n)
          BY <4>1
        <4>3. QED
          BY <2>1, <3>1, <4>2
      <3>2. CASE s # {}
        <4>1. h[s \ {Picked(s)}] = g[s \ {Picked(s)}]
          BY <2>2, <3>2
        <4>2. h[s] = f[Picked(s)] + g[s \ {Picked(s)}]
          BY <2>1, <3>2
        <4>3. QED
          BY <3>2, <4>1, <4>2
      <3>3. QED
        BY <3>1, <3>2
    <2>6. QED
      BY <2>4, <2>5
  <1>6. \A n \in Nat : Good(n)
    <2> HIDE DEF Good
    <2>1. SUFFICES ASSUME Bad # {}
                   PROVE  FALSE
      OBVIOUS
    <2>2. PICK n \in Bad : \A m \in Bad : n <= m
      BY <2>1, LeastNumber
    <2>3. n # 0 /\ n \in Nat
      BY <1>4
    <2>4. Good(n - 1)
      BY <2>2, <2>3
    <2>5. Good(n)
      BY <1>5, <2>3, <2>4
    <2>6. QED
      BY <2>5
  <1>7. Cardinality(D) \in Nat /\ \A s \in SUBSET D : Cardinality(s) <= Cardinality(D)
    BY <1>1, FS_Subset
  <1>8. Upto(Cardinality(D)) = SUBSET D
    BY <1>7
  <1>9. PICK g \in [SUBSET D -> Int] : \A s \in SUBSET D : g[s] = Rec(g, s)
    BY <1>6, <1>7, <1>8
  <1>10. Sums(f, g)
    BY <1>9 DEF Sums
  <1>11. QED
    BY <1>10

Peels(D, f, g) ==
    /\ g[{}] = 0
    /\ \A s \in SUBSET D : g[s] \in Int
    /\ \A s \in SUBSET D : \A x \in s : g[s] = f[x] + g[s \ {x}]

\* What the sums are, whichever element is taken out first.
LEMMA SumsPeel ==
    ASSUME NEW D, IsFiniteSet(D), NEW f \in [D -> Int], NEW g, Sums(f, g)
    PROVE  Peels(D, f, g)
  <1>1. \A s \in SUBSET D : s # {} => /\ Picked(s) \in s
                                      /\ g[s] = f[Picked(s)] + g[s \ {Picked(s)}]
    BY DEF Picked, Sums
  <1>2. g[{}] = 0
    BY DEF Sums
  <1>3. \A s \in SUBSET D : g[s] \in Int
    <2> DEFINE T == {s \in SUBSET D : g[s] \in Int}
    <2>1. {} \in T
      BY <1>2
    <2>2. ASSUME NEW s \in SUBSET D, s # {}, \A x \in s : s \ {x} \in T
          PROVE  s \in T
      <3>1. Picked(s) \in s /\ g[s] = f[Picked(s)] + g[s \ {Picked(s)}]
        BY <1>1, <2>2
      <3>2. f[Picked(s)] \in Int /\ g[s \ {Picked(s)}] \in Int
        BY <2>2, <3>1
      <3>3. QED
        BY <3>1, <3>2
    <2> HIDE DEF T
    <2>3. \A s \in SUBSET D : s \in T
      BY <2>1, <2>2, SubsetInduction
    <2>4. QED
      BY <2>3 DEF T
  <1>4. \A s \in SUBSET D : \A x \in s : g[s] = f[x] + g[s \ {x}]
    <2> DEFINE T == {s \in SUBSET D : \A x \in s : g[s] = f[x] + g[s \ {x}]}
    <2>1. {} \in T
      OBVIOUS
    <2>2. ASSUME NEW s \in SUBSET D, s # {}, \A x \in s : s \ {x} \in T
          PROVE  s \in T
      <3> DEFINE y == Picked(s)
      <3>1. y \in s /\ g[s] = f[y] + g[s \ {y}]
        BY <1>1, <2>2
      <3> HIDE DEF y
      <3>2. ASSUME NEW x \in s, x # y
            PROVE  g[s] = f[x] + g[s \ {x}]
        <4>1. g[s \ {y}] = f[x] + g[(s \ {y}) \ {x}]
          BY <2>2, <3>1, <3>2
        <4>2. g[s \ {x}] = f[y] + g[(s \ {x}) \ {y}]
          BY <2>2, <3>1, <3>2
        <4> DEFINE rest == (s \ {x}) \ {y}
        <4>3. (s \ {y}) \ {x} = rest /\ rest \in SUBSET D
          OBVIOUS
        <4>4. g[s \ {y}] = f[x] + g[rest] /\ g[s \ {x}] = f[y] + g[rest]
          BY <4>1, <4>2, <4>3
        <4> HIDE DEF rest
        <4>5. f[x] \in Int /\ f[y] \in Int /\ g[rest] \in Int
          BY <1>3, <3>1, <4>3
        <4>6. QED
          BY <3>1, <4>4, <4>5
      <3>3. QED
        BY <3>1, <3>2
    <2> HIDE DEF T
    <2>3. \A s \in SUBSET D : s \in T
      BY <2>1, <2>2, SubsetInduction
    <2>4. QED
      BY <2>3 DEF T
  <1>5. QED
    BY <1>2, <1>3, <1>4 DEF Peels

LEMMA TotalSums ==
    ASSUME NEW D, IsFiniteSet(D), NEW f \in [D -> Int]
    PROVE  \E g : Peels(D, f, g) /\ Total(f) = g[D]
  <1>1. \E g : Sums(f, g)
    BY SumsExist
  <1>2. Sums(f, CHOOSE g : Sums(f, g))
    BY <1>1
  <1>3. Total(f) = (CHOOSE g : Sums(f, g))[D]
    BY TotalIs
  <1>4. Peels(D, f, CHOOSE g : Sums(f, g))
    BY <1>2, SumsPeel
  <1>5. QED
    BY <1>3, <1>4

\* Sums over sets that correspond to each other are equal.
Renames(b, f, h) ==
    /\ b \in [DOMAIN f -> DOMAIN h]
    /\ \A x, y \in DOMAIN f : b[x] = b[y] => x = y
    /\ \A y \in DOMAIN h : \E x \in DOMAIN f : b[x] = y
    /\ \A x \in DOMAIN f : f[x] = h[b[x]]

LEMMA TotalRenamed ==
    ASSUME NEW D, IsFiniteSet(D), NEW f \in [D -> Int],
           NEW E, IsFiniteSet(E), NEW h \in [E -> Int],
           NEW b, Renames(b, f, h)
    PROVE  Total(f) = Total(h)
  <1>0. /\ b \in [D -> E]
        /\ \A x, y \in D : b[x] = b[y] => x = y
        /\ \A y \in E : \E x \in D : b[x] = y
        /\ \A x \in D : f[x] = h[b[x]]
    BY DEF Renames
  <1>1. PICK g : Peels(D, f, g) /\ Total(f) = g[D]
    BY TotalSums
  <1>2. PICK k : Peels(E, h, k) /\ Total(h) = k[E]
    BY TotalSums
  <1> DEFINE Image(s) == {b[x] : x \in s}
             T == {s \in SUBSET D : g[s] = k[Image(s)]}
  <1>3. {} \in T
    <2>1. Image({}) = {}
      OBVIOUS
    <2>2. QED
      BY <1>1, <1>2, <2>1 DEF Peels
  <1>4. ASSUME NEW s \in SUBSET D, s # {}, \A x \in s : s \ {x} \in T
        PROVE  s \in T
    <2>1. PICK x \in s : TRUE
      BY <1>4
    <2>2. g[s] = f[x] + g[s \ {x}]
      BY <1>1 DEF Peels
    <2>3. Image(s) \in SUBSET E /\ b[x] \in Image(s)
      BY <1>0
    <2>4. Image(s \ {x}) = Image(s) \ {b[x]}
      BY <1>0
    <2>5. k[Image(s)] = h[b[x]] + k[Image(s) \ {b[x]}]
      <3> HIDE DEF Image
      <3>1. QED
        BY <1>2, <2>3 DEF Peels
    <2>6. g[s \ {x}] = k[Image(s \ {x})]
      BY <1>4
    <2>7. QED
      BY <1>0, <2>2, <2>4, <2>5, <2>6
  <1>5. D \in T
    <2> HIDE DEF T
    <2>1. \A s \in SUBSET D : s \in T
      BY <1>3, <1>4, SubsetInduction
    <2>2. QED
      BY <2>1
  <1>6. Image(D) = E
    BY <1>0
  <1>7. QED
    BY <1>1, <1>2, <1>5, <1>6

Without(f, x) == [y \in (DOMAIN f) \ {x} |-> f[y]]

Splits(f, x) ==
    /\ Total(f) \in Int /\ Total(Without(f, x)) \in Int /\ f[x] \in Int
    /\ Total(f) = f[x] + Total(Without(f, x))

\* One element apart.
LEMMA TotalPeel ==
    ASSUME NEW D, IsFiniteSet(D), NEW f \in [D -> Int], NEW x \in D
    PROVE  Splits(f, x)
  <1> DEFINE E == D \ {x}
             h == [y \in E |-> f[y]]
  <1>1. IsFiniteSet(E) /\ h \in [E -> Int] /\ \A y \in E : h[y] = f[y]
    BY FS_Subset
  <1>2. E \in SUBSET D /\ D \in SUBSET D /\ E = D \ {x}
    OBVIOUS
  <1>3. PICK g : Peels(D, f, g) /\ Total(f) = g[D]
    BY TotalSums
  <1>4. QED
    <2> HIDE DEF E, h
    <2>1. PICK k : Peels(E, h, k) /\ Total(h) = k[E]
      BY <1>1, TotalSums
    <2> DEFINE T == {s \in SUBSET E : g[s] = k[s]}
    <2>2. {} \in T
      BY <1>3, <2>1 DEF Peels
    <2>3. ASSUME NEW s \in SUBSET E, s # {}, \A y \in s : s \ {y} \in T
          PROVE  s \in T
      <3>1. PICK y \in s : TRUE
        BY <2>3
      <3>2. g[s] = f[y] + g[s \ {y}]
        BY <1>2, <1>3 DEF Peels
      <3>3. k[s] = h[y] + k[s \ {y}]
        BY <2>1 DEF Peels
      <3>4. h[y] = f[y] /\ g[s \ {y}] = k[s \ {y}]
        BY <1>1, <2>3
      <3>5. QED
        BY <3>2, <3>3, <3>4
    <2>4. E \in T
      <3> HIDE DEF T
      <3>1. \A s \in SUBSET E : s \in T
        BY <1>1, <2>2, <2>3, SubsetInduction
      <3>2. QED
        BY <3>1
    <2>5. g[D] = f[x] + g[E] /\ g[D] \in Int /\ g[E] \in Int
      BY <1>2, <1>3 DEF Peels
    <2>6. Total(f) = f[x] + Total(h) /\ Total(f) \in Int /\ Total(h) \in Int
      BY <1>3, <2>1, <2>4, <2>5
    <2>7. Without(f, x) = h /\ f[x] \in Int
      BY DEF Without, E, h
    <2>8. QED
      BY <2>6, <2>7 DEF Splits

\* One value changes.
LEMMA TotalChange ==
    ASSUME NEW D, IsFiniteSet(D), NEW f \in [D -> Int], NEW g \in [D -> Int], NEW x \in D,
           \A y \in D \ {x} : g[y] = f[y]
    PROVE  Total(g) = Total(f) - f[x] + g[x]
  <1>1. Splits(f, x) /\ Splits(g, x)
    BY TotalPeel
  <1>2. Without(g, x) = Without(f, x)
    BY DEF Without
  <1>3. QED
    BY <1>1, <1>2 DEF Splits

\* Nothing adds up to nothing.
LEMMA TotalNone ==
    ASSUME NEW D, IsFiniteSet(D), NEW f \in [D -> Int], \A x \in D : f[x] = 0
    PROVE  Total(f) = 0
  <1>1. PICK g : Peels(D, f, g) /\ Total(f) = g[D]
    BY TotalSums
  <1> DEFINE T == {s \in SUBSET D : g[s] = 0}
  <1>2. {} \in T
    BY <1>1 DEF Peels
  <1>3. ASSUME NEW s \in SUBSET D, s # {}, \A x \in s : s \ {x} \in T
        PROVE  s \in T
    <2>1. PICK x \in s : TRUE
      BY <1>3
    <2>2. g[s] = f[x] + g[s \ {x}] /\ g[s \ {x}] = 0 /\ f[x] = 0
      BY <1>1, <1>3 DEF Peels
    <2>3. QED
      BY <2>2
  <1>4. D \in T
    <2> HIDE DEF T
    <2>1. \A s \in SUBSET D : s \in T
      BY <1>2, <1>3, SubsetInduction
    <2>2. QED
      BY <2>1
  <1>5. QED
    BY <1>1, <1>4

\* A sum of natural numbers is at least each of them.
LEMMA TotalBound ==
    ASSUME NEW D, IsFiniteSet(D), NEW f \in [D -> Nat]
    PROVE  Total(f) \in Nat /\ \A x \in D : f[x] <= Total(f)
  <1>1. f \in [D -> Int]
    OBVIOUS
  <1>2. PICK g : Peels(D, f, g) /\ Total(f) = g[D]
    BY <1>1, TotalSums
  <1> DEFINE T == {s \in SUBSET D : g[s] >= 0}
  <1>3. {} \in T
    BY <1>2 DEF Peels
  <1>4. ASSUME NEW s \in SUBSET D, s # {}, \A x \in s : s \ {x} \in T
        PROVE  s \in T
    <2>1. PICK x \in s : TRUE
      BY <1>4
    <2>2. g[s] = f[x] + g[s \ {x}] /\ g[s \ {x}] >= 0 /\ g[s \ {x}] \in Int
      BY <1>2, <1>4 DEF Peels
    <2>3. f[x] \in Nat
      BY <2>1
    <2>4. QED
      BY <2>2, <2>3
  <1>5. \A s \in SUBSET D : g[s] >= 0
    <2>1. \A s \in SUBSET D : s \in T
      <3> HIDE DEF T
      <3>1. QED
        BY <1>3, <1>4, SubsetInduction
    <2>2. QED
      BY <2>1
  <1>6. g[D] \in Int /\ g[D] >= 0
    BY <1>2, <1>5 DEF Peels
  <1>7. ASSUME NEW x \in D
        PROVE  f[x] <= g[D]
    <2>1. g[D] = f[x] + g[D \ {x}] /\ g[D \ {x}] \in Int /\ g[D \ {x}] >= 0
      BY <1>2, <1>5 DEF Peels
    <2>2. f[x] \in Nat
      OBVIOUS
    <2>3. QED
      BY <2>1, <2>2
  <1>8. QED
    BY <1>2, <1>6, <1>7

LEMMA CommandSize ==
    ASSUME NEW c \in Command
    PROVE  c.sizeBytes \in Nat
  <1>1. c.sizeBytes \in Sizes
    BY DEF Command
  <1>2. QED
    BY <1>1, QueueAssumption

\* The sizes of the commands of a sequence.
LEMMA SizesType ==
    ASSUME NEW s \in Seq(Command)
    PROVE  /\ DOMAIN s = 1..Len(s) /\ Len(s) \in Nat /\ IsFiniteSet(DOMAIN s)
           /\ SizesOf(s) \in [DOMAIN s -> Int]
  <1>1. DOMAIN s = 1..Len(s) /\ Len(s) \in Nat /\ \A i \in 1..Len(s) : s[i] \in Command
    BY LenProperties, ElementOfSeq
  <1>2. \A i \in 1..Len(s) : s[i].sizeBytes \in Int
    BY <1>1, CommandSize
  <1>3. IsFiniteSet(1..Len(s))
    BY <1>1, FS_Interval
  <1>4. QED
    BY <1>1, <1>2, <1>3 DEF SizesOf

LEMMA SizesAppend ==
    ASSUME NEW s \in Seq(Command), NEW c \in Command
    PROVE  Total(SizesOf(Append(s, c))) = Total(SizesOf(s)) + c.sizeBytes
  <1> DEFINE t == Append(s, c)
             n == Len(s) + 1
  <1>1. /\ t \in Seq(Command) /\ Len(t) = n /\ t[n] = c
        /\ \A i \in 1..Len(s) : t[i] = s[i]
    BY AppendProperties
  <1>2. /\ DOMAIN s = 1..Len(s) /\ Len(s) \in Nat /\ IsFiniteSet(DOMAIN s)
        /\ SizesOf(s) \in [DOMAIN s -> Int]
    BY SizesType
  <1> HIDE DEF t
  <1>3. /\ DOMAIN t = 1..Len(t) /\ IsFiniteSet(DOMAIN t)
        /\ SizesOf(t) \in [DOMAIN t -> Int]
    BY <1>1, SizesType
  <1>4. n \in DOMAIN t /\ (DOMAIN t) \ {n} = DOMAIN s
    BY <1>1, <1>2, <1>3
  <1>5. SizesOf(t)[n] = c.sizeBytes
    BY <1>1, <1>4 DEF SizesOf
  <1>6. Without(SizesOf(t), n) = SizesOf(s)
    <2>1. \A i \in DOMAIN s : SizesOf(t)[i] = s[i].sizeBytes
      BY <1>1, <1>2, <1>4 DEF SizesOf
    <2>2. DOMAIN SizesOf(t) = DOMAIN t
      BY DEF SizesOf
    <2>3. QED
      BY <1>4, <2>1, <2>2 DEF SizesOf, Without
  <1>7. Splits(SizesOf(t), n)
    BY <1>3, <1>4, TotalPeel
  <1>8. QED
    BY <1>5, <1>6, <1>7 DEF Splits, t

LEMMA SizesTail ==
    ASSUME NEW s \in Seq(Command), s # <<>>
    PROVE  Total(SizesOf(Tail(s))) = Total(SizesOf(s)) - Head(s).sizeBytes
  <1> DEFINE t == Tail(s)
  <1>1. /\ t \in Seq(Command) /\ Len(t) = Len(s) - 1 /\ Head(s) = s[1]
        /\ \A i \in 1..Len(t) : t[i] = s[i + 1]
    BY HeadTailProperties
  <1>2. /\ DOMAIN s = 1..Len(s) /\ Len(s) \in Nat /\ IsFiniteSet(DOMAIN s)
        /\ SizesOf(s) \in [DOMAIN s -> Int]
    BY SizesType
  <1> HIDE DEF t
  <1>3. /\ DOMAIN t = 1..Len(t) /\ Len(t) \in Nat /\ IsFiniteSet(DOMAIN t)
        /\ SizesOf(t) \in [DOMAIN t -> Int]
    BY <1>1, SizesType
  <1> DEFINE E == (DOMAIN s) \ {1}
             h == Without(SizesOf(s), 1)
             b == [i \in DOMAIN t |-> i + 1]
  <1>4. 1 \in DOMAIN s /\ E = 2..Len(s)
    BY <1>1, <1>2, <1>3
  <1>5. Splits(SizesOf(s), 1)
    BY <1>2, <1>4, TotalPeel
  <1>6. Total(SizesOf(t)) = Total(h)
    <2>0. DOMAIN SizesOf(s) = DOMAIN s /\ DOMAIN SizesOf(t) = DOMAIN t
      BY DEF SizesOf
    <2>1. /\ IsFiniteSet(E) /\ h \in [E -> Int] /\ DOMAIN h = E
          /\ \A i \in E : h[i] = SizesOf(s)[i]
      BY <1>2, <2>0, FS_Subset DEF Without
    <2>2. b \in [DOMAIN t -> E]
      BY <1>1, <1>2, <1>3, <1>4
    <2>3. \A x, y \in DOMAIN t : b[x] = b[y] => x = y
      BY <1>3
    <2>4. \A y \in E : \E x \in DOMAIN t : b[x] = y
      <3>1. \A y \in E : y - 1 \in DOMAIN t /\ b[y - 1] = y
        BY <1>1, <1>2, <1>3, <1>4
      <3>2. QED
        BY <3>1
    <2>5. \A x \in DOMAIN t : SizesOf(t)[x] = h[b[x]]
      <3> SUFFICES ASSUME NEW x \in DOMAIN t
                   PROVE  SizesOf(t)[x] = h[b[x]]
        OBVIOUS
      <3>1. x + 1 \in E /\ x + 1 \in DOMAIN s /\ b[x] = x + 1 /\ t[x] = s[x + 1]
        BY <1>1, <1>2, <1>3, <1>4
      <3>2. h[b[x]] = SizesOf(s)[x + 1]
        BY <2>1, <3>1
      <3>3. QED
        BY <3>1, <3>2 DEF SizesOf
    <2> HIDE DEF E, h, b
    <2>6. Renames(b, SizesOf(t), h)
      BY <2>0, <2>1, <2>2, <2>3, <2>4, <2>5 DEF Renames
    <2>7. QED
      BY <1>3, <2>1, <2>6, TotalRenamed
  <1>7. SizesOf(s)[1] = Head(s).sizeBytes
    BY <1>1, <1>4 DEF SizesOf
  <1>8. QED
    BY <1>5, <1>6, <1>7 DEF Splits, t
-----------------------------------------------------------------------------
(* Every action preserves the invariant.                                   *)

LEMMA InitInv == Init => IInv
  <1> SUFFICES ASSUME Init PROVE IInv
    OBVIOUS
  <1> USE QueueAssumption DEF Init
  <1>1. TypeOK
    BY DEF TypeOK, Holding, NoReservation, AdmissionRecord, WaitRecord, InWait
  <1>2. CapacityRespected /\ Contiguous /\ WorkerInv
    BY DEF CapacityRespected, Contiguous, WorkerInv
  <1>3. TicketInv
    BY DEF TicketInv, InWait
  <1>4. AdmissionInv
    BY DEF AdmissionInv, NoReservation
  <1>5. QED  BY <1>1, <1>2, <1>3, <1>4 DEF IInv

LEMMA AdmitInv ==
    ASSUME IInv, NEW r \in Requests, NEW n \in 1..Capacity, NEW b \in 1..ByteCapacity,
           Admit(r, n, b)
    PROVE  IInv'
  <1> USE QueueAssumption
  <1>0. /\ TypeOK /\ CapacityRespected /\ Contiguous
        /\ WorkerInv /\ TicketInv /\ AdmissionInv
    BY DEF IInv
  <1>a. n \in Nat /\ b \in Nat /\ Len(items) \in Nat
    BY <1>0, LenProperties DEF TypeOK
  <1>b. Woken \in [Waiters -> WaitRecord]
    BY <1>0, WokenFacts
  <1>1. TypeOK'
    <2>1. reservations' \in [Requests -> Holding]
      BY <1>0, <1>a DEF TypeOK, Admit, Reserve, Holding
    <2>2. admission' \in [Requests -> AdmissionRecord]
      BY <1>0, <1>a DEF TypeOK, Admit, AdmissionRecord
    <2>3. wait' \in [Waiters -> WaitRecord] /\ reserved' \in Int /\ reservedBytes' \in Int
      BY <1>0, <1>a, <1>b DEF TypeOK, Admit, Reserve
    <2>4. QED  BY <1>0, <2>1, <2>2, <2>3 DEF TypeOK, Admit
  <1>2. CapacityRespected'
    <2>1. reserved \in Int /\ reservedBytes \in Int /\ pendingBytes \in Int
      BY <1>0 DEF TypeOK
    <2>2. /\ reserved' = reserved + n /\ reservedBytes' = reservedBytes + b
          /\ items' = items /\ pendingBytes' = pendingBytes
      BY DEF Admit, Reserve
    <2>3. n <= FreeSlots /\ b <= FreeBytes
      BY DEF Admit, Reserve
    <2>4. Len(items) + (reserved + n) <= Capacity
      BY <1>a, <2>1, <2>3 DEF FreeSlots
    <2>5. pendingBytes + (reservedBytes + b) <= ByteCapacity
      BY <1>a, <2>1, <2>3 DEF FreeBytes
    <2>6. QED
      BY <2>2, <2>4, <2>5 DEF CapacityRespected
  <1>3. Contiguous' /\ WorkerInv'
    BY <1>0 DEF Contiguous, WorkerInv, Admit
  <1>4. TicketInv'
    <2>1. \A q \in Requests : admission'[q].lastTicket <= lastSequence'
      BY <1>0 DEF Admit, TypeOK, AdmissionRecord, TicketInv
    <2>2. wait' = Woken /\ UNCHANGED <<lastSequence, completedSequence, failure>>
      BY DEF Admit, Reserve
    <2>3. QED  BY <1>0, <2>1, <2>2, WokenTickets DEF TicketInv
  <1>5. AdmissionInv'
    BY <1>0, <1>a DEF AdmissionInv, Admit, Reserve, TypeOK, AdmissionRecord, Holding
  <1>6. QED  BY <1>1, <1>2, <1>3, <1>4, <1>5 DEF IInv

LEMMA EnqueueInv ==
    ASSUME IInv, NEW w \in Writers, NEW s \in Sizes, Enqueue(w, s)
    PROVE  IInv'
  <1> USE QueueAssumption
  <1>0. /\ TypeOK /\ CapacityRespected /\ Contiguous
        /\ WorkerInv /\ TicketInv /\ AdmissionInv
    BY DEF IInv
  <1>a. w \in Waiters /\ Push(w, s) /\ s \in Nat /\ Len(items) \in Nat
    BY <1>0, LenProperties DEF Waiters, Enqueue, TypeOK
  <1>b. /\ items' \in Seq(Command)
        /\ Len(items') = Len(items) + 1
        /\ items' # <<>>
        /\ \A i \in 1..Len(items') : items'[i].sequence = completedSequence + i
        /\ lastSequence' = lastSequence + 1
        /\ lastSequence' \in 0..MaxSequence
        /\ pendingBytes' = pendingBytes + s
        /\ pendingBytes' \in Int
        /\ worker' \in {"top", "parked", "writing", "done"}
        /\ \/ worker' = worker
           \/ worker = "parked" /\ worker' = "top"
    BY <1>a, PushFacts
  <1>c. Woken \in [Waiters -> WaitRecord]
    BY <1>0, WokenFacts
  <1>1. TypeOK'
    <2>1. wait' \in [Waiters -> WaitRecord]
      BY <1>0, <1>a, <1>b, <1>c DEF Enqueue, WaitRecord, InWait
    <2>2. QED  BY <1>0, <1>b, <2>1 DEF TypeOK, Enqueue
  <1>2. CapacityRespected'
    <2>1. reserved \in Int /\ pendingBytes \in Int /\ reservedBytes \in Int
      BY <1>0 DEF TypeOK
    <2>2. /\ Len(items) + reserved < Capacity
          /\ s <= ByteCapacity - pendingBytes - reservedBytes
          /\ UNCHANGED <<reserved, reservedBytes>>
      BY DEF Enqueue, FreeBytes
    <2>3. Len(items') = Len(items) + 1 /\ pendingBytes' = pendingBytes + s
      BY <1>b
    <2>4. QED  BY <1>a, <2>1, <2>2, <2>3 DEF CapacityRespected
  <1>3. Contiguous'
    BY <1>0, <1>a, <1>b DEF Contiguous, Enqueue, TypeOK
  <1>4. WorkerInv'
    BY <1>0, <1>b DEF WorkerInv, Enqueue
  <1>5. TicketInv'
    <2>1. \A q \in Requests : admission'[q].lastTicket <= lastSequence'
      <3>1. lastSequence' = lastSequence + 1 /\ admission' = admission
        BY <1>b DEF Enqueue
      <3>2. \A q \in Requests : admission[q].lastTicket \in Nat
        BY <1>0 DEF TypeOK, AdmissionRecord
      <3>3. lastSequence \in Nat
        BY <1>0 DEF TypeOK
      <3>4. QED  BY <3>1, <3>2, <3>3, <1>0 DEF TicketInv
    <2>2. /\ wait' = [Woken EXCEPT ![w] = [state |-> "check", ticket |-> lastSequence + 1]]
          /\ UNCHANGED <<completedSequence, failure>>
      BY DEF Enqueue
    <2> SUFFICES ASSUME NEW v \in Waiters
                 PROVE  /\ wait'[v].ticket <= lastSequence'
                        /\ wait'[v].state \in InWait => wait'[v].ticket # 0
                        /\ wait'[v].state = "ok" => wait'[v].ticket <= completedSequence'
                        /\ wait'[v].state = "failed" =>
                              failure' # 0 /\ completedSequence' < wait'[v].ticket
                        /\ wait'[v].state # "unknown"
      BY <2>1 DEF TicketInv
    <2>3. CASE v = w
      BY <2>2, <2>3, <1>0, <1>a, <1>b, <1>c DEF TypeOK
    <2>4. CASE v # w
      <3>1. wait'[v] = Woken[v]
        BY <2>2, <2>4, <1>c
      <3>2. /\ Woken[v].ticket = wait[v].ticket
            /\ \/ Woken[v].state = wait[v].state
               \/ wait[v].state = "parked" /\ Woken[v].state = "check"
        BY <1>0, WokenFacts
      <3>3. wait[v].ticket \in Nat /\ lastSequence \in Nat
        BY <1>0 DEF TypeOK, WaitRecord
      <3>4. QED  BY <3>1, <3>2, <3>3, <2>2, <1>0, <1>b DEF TicketInv, InWait
    <2>5. QED  BY <2>3, <2>4
  <1>6. AdmissionInv'
    BY <1>0 DEF AdmissionInv, Enqueue
  <1>7. QED  BY <1>1, <1>2, <1>3, <1>4, <1>5, <1>6 DEF IInv

\* A reservation that accepts one of its commands gives up exactly the slot,
\* and at least the bytes, that the command takes.
LEMMA UsedFacts ==
    ASSUME NEW res \in Holding, NEW s \in Nat, res.count > 0, s <= res.bytesLeft
    PROVE  /\ Used(res, s) \in Holding
           /\ res.bytesLeft - Used(res, s).bytesLeft >= s
  BY DEF Used, NoReservation, Holding

LEMMA AdmissionEnqueueInv ==
    ASSUME IInv, NEW r \in Requests, NEW s \in Sizes, AdmissionEnqueue(r, s)
    PROVE  IInv'
  <1> USE QueueAssumption
  <1>0. /\ TypeOK /\ CapacityRespected /\ Contiguous
        /\ WorkerInv /\ TicketInv /\ AdmissionInv
    BY DEF IInv
  <1>a. r \in Waiters /\ Push(r, s) /\ s \in Nat /\ Len(items) \in Nat
    BY <1>0, LenProperties DEF Waiters, AdmissionEnqueue, EnqueueReserved, TypeOK
  <1>b. /\ items' \in Seq(Command)
        /\ Len(items') = Len(items) + 1
        /\ items' # <<>>
        /\ \A i \in 1..Len(items') : items'[i].sequence = completedSequence + i
        /\ lastSequence' = lastSequence + 1
        /\ lastSequence' \in 0..MaxSequence
        /\ pendingBytes' = pendingBytes + s
        /\ pendingBytes' \in Int
        /\ worker' \in {"top", "parked", "writing", "done"}
        /\ \/ worker' = worker
           \/ worker = "parked" /\ worker' = "top"
    BY <1>a, PushFacts
  <1> DEFINE left == Used(reservations[r], s)
  <1>c. /\ left \in Holding
        /\ reservations[r].bytesLeft - left.bytesLeft >= s
    <2>1. reservations[r] \in Holding
      BY <1>0 DEF TypeOK
    <2>2. reservations[r].count > 0 /\ s <= reservations[r].bytesLeft
      BY DEF AdmissionEnqueue, EnqueueReserved
    <2>3. QED  BY <1>a, <2>1, <2>2, UsedFacts
  <1>d. /\ reserved' = reserved - 1
        /\ reservedBytes' = reservedBytes - (reservations[r].bytesLeft - left.bytesLeft)
        /\ reservations' = [reservations EXCEPT ![r] = left]
        /\ wait' = Woken
        /\ UNCHANGED <<accepting, completedSequence, failure, closing, written>>
    BY DEF AdmissionEnqueue, EnqueueReserved
  <1>e. /\ reserved \in Int /\ reservedBytes \in Int /\ pendingBytes \in Int
        /\ lastSequence \in Nat /\ completedSequence \in Nat
        /\ reservations[r].bytesLeft \in Nat
    BY <1>0 DEF TypeOK, Holding
  <1> HIDE DEF left
  <1>f. left.bytesLeft \in Nat
    BY <1>c DEF Holding
  <1>1. TypeOK'
    <2>1. admission' \in [Requests -> AdmissionRecord]
      <3>1. admission' = [admission EXCEPT ![r].remaining = @ - 1,
                                           ![r].lastTicket = lastSequence']
        BY <1>b DEF AdmissionEnqueue
      <3>2. admission[r].remaining - 1 \in Nat
        BY <1>0 DEF AdmissionInv, AdmissionEnqueue, EnqueueReserved, TypeOK, Holding
      <3>3. admission[r] \in AdmissionRecord /\ lastSequence' \in 0..MaxSequence
        BY <1>0, <1>b DEF TypeOK
      <3>4. [admission[r] EXCEPT !.remaining = @ - 1, !.lastTicket = lastSequence']
              \in AdmissionRecord
        BY <3>2, <3>3 DEF AdmissionRecord
      <3>5. QED  BY <3>1, <3>4, <1>0 DEF TypeOK
    <2>2. reservations' \in [Requests -> Holding]
      BY <1>0, <1>c, <1>d DEF TypeOK
    <2>3. reserved' \in Int /\ reservedBytes' \in Int
      BY <1>d, <1>e, <1>f
    <2>4. wait' \in [Waiters -> WaitRecord]
      BY <1>0, <1>d, WokenFacts
    <2>5. QED  BY <1>0, <1>b, <1>d, <2>1, <2>2, <2>3, <2>4 DEF TypeOK
  <1>2. CapacityRespected'
    <2>1. Len(items') + reserved' = Len(items) + reserved
      BY <1>a, <1>b, <1>d, <1>e
    <2>2. pendingBytes' + reservedBytes' <= pendingBytes + reservedBytes
      <3> DEFINE back == reservations[r].bytesLeft - left.bytesLeft
      <3>1. back \in Int /\ back >= s /\ s \in Nat
        BY <1>a, <1>c, <1>e, <1>f
      <3>2. pendingBytes' = pendingBytes + s /\ reservedBytes' = reservedBytes - back
        BY <1>b, <1>d
      <3> HIDE DEF back
      <3>3. QED  BY <3>1, <3>2, <1>e
    <2>3. pendingBytes' + reservedBytes' \in Int
      BY <1>b, <1>d, <1>e, <1>f
    <2>4. pendingBytes + reservedBytes <= ByteCapacity /\ Len(items) + reserved <= Capacity
      BY <1>0 DEF CapacityRespected
    <2>5. pendingBytes' + reservedBytes' <= ByteCapacity
      BY <2>2, <2>3, <2>4, <1>e
    <2>6. QED  BY <2>1, <2>4, <2>5 DEF CapacityRespected
  <1>3. Contiguous'
    BY <1>0, <1>a, <1>b, <1>d, <1>e DEF Contiguous
  <1>4. WorkerInv'
    BY <1>0, <1>b, <1>d DEF WorkerInv
  <1>5. TicketInv'
    <2>1. \A q \in Requests : admission'[q].lastTicket <= lastSequence'
      <3>1. \A q \in Requests : admission[q].lastTicket \in Nat
        BY <1>0 DEF TypeOK, AdmissionRecord
      <3>2. \A q \in Requests : admission'[q].lastTicket \in
                                  {admission[q].lastTicket, lastSequence'}
        BY <1>0, <1>b DEF TypeOK, AdmissionRecord, AdmissionEnqueue
      <3>3. QED  BY <3>1, <3>2, <1>0, <1>b, <1>e DEF TicketInv
    <2>2. QED  BY <1>0, <1>b, <1>d, <2>1, WokenTickets DEF TicketInv
  <1>6. AdmissionInv'
    <2>1. left.count = reservations[r].count - 1
      BY <1>0 DEF left, Used, NoReservation, TypeOK, Holding,
         AdmissionEnqueue, EnqueueReserved
    <2>2. reservations[r].count = admission[r].remaining
      BY <1>0 DEF AdmissionInv
    <2>3. \A q \in Requests : admission'[q].remaining =
             IF q = r THEN admission[q].remaining - 1 ELSE admission[q].remaining
      BY <1>0 DEF AdmissionEnqueue, TypeOK, AdmissionRecord
    <2>4. \A q \in Requests : reservations'[q] =
                                  IF q = r THEN left ELSE reservations[q]
      BY <1>0, <1>d DEF TypeOK
    <2>5. QED  BY <2>1, <2>2, <2>3, <2>4, <1>0 DEF AdmissionInv
  <1>7. QED  BY <1>1, <1>2, <1>3, <1>4, <1>5, <1>6 DEF IInv

LEMMA ReleaseInv ==
    ASSUME IInv, NEW r \in Requests, Release(r)
    PROVE  IInv'
  <1> USE QueueAssumption
  <1>0. /\ TypeOK /\ CapacityRespected /\ Contiguous
        /\ WorkerInv /\ TicketInv /\ AdmissionInv
    BY DEF IInv
  <1>a. /\ reserved \in Int /\ reservedBytes \in Int /\ pendingBytes \in Int
        /\ Len(items) \in Nat
        /\ reservations[r].count \in Nat /\ reservations[r].bytesLeft \in Nat
    BY <1>0, LenProperties DEF TypeOK, Holding
  <1>b. /\ admission' = [admission EXCEPT ![r].state = "released", ![r].remaining = 0]
        /\ UNCHANGED <<items, pendingBytes, accepting, lastSequence,
                       completedSequence, failure, closing, written>>
    BY DEF Release
  <1>c. \/ UNCHANGED <<reservations, reserved, reservedBytes, worker, wait>>
        \/ CancelReservation(r)
    BY DEF Release
  <1>1. TypeOK'
    <2>1. admission' \in [Requests -> AdmissionRecord]
      BY <1>0, <1>b DEF TypeOK, AdmissionRecord
    <2>2. CASE UNCHANGED <<reservations, reserved, reservedBytes, worker, wait>>
      BY <2>1, <2>2, <1>0, <1>b DEF TypeOK
    <2>3. CASE CancelReservation(r)
      <3>1. reservations' \in [Requests -> Holding]
        BY <2>3, <1>0 DEF CancelReservation, NoReservation, Holding, TypeOK
      <3>2. wait' \in [Waiters -> WaitRecord]
        BY <2>3, <1>0, WokenFacts DEF CancelReservation
      <3>3. reserved' \in Int /\ reservedBytes' \in Int
        BY <2>3, <1>a DEF CancelReservation
      <3>4. worker' \in {"top", "parked", "writing", "done"}
        BY <2>3, <1>0 DEF CancelReservation, WorkerReadied, TypeOK
      <3>5. QED  BY <3>1, <3>2, <3>3, <3>4, <2>1, <1>0, <1>b DEF TypeOK
    <2>4. QED  BY <2>2, <2>3, <1>c
  <1>2. CapacityRespected'
    <2>1. reserved' <= reserved /\ reservedBytes' <= reservedBytes
          /\ reserved' \in Int /\ reservedBytes' \in Int
      BY <1>a, <1>c DEF CancelReservation
    <2>2. QED  BY <2>1, <1>0, <1>a, <1>b DEF CapacityRespected
  <1>3. Contiguous'
    BY <1>0, <1>b DEF Contiguous
  <1>4. WorkerInv'
    BY <1>0, <1>b, <1>c DEF WorkerInv, CancelReservation, WorkerReadied
  <1>5. TicketInv'
    <2>1. \A q \in Requests : admission'[q].lastTicket = admission[q].lastTicket
      BY <1>0, <1>b DEF TypeOK, AdmissionRecord
    <2>2. CASE UNCHANGED <<reservations, reserved, reservedBytes, worker, wait>>
      BY <2>1, <2>2, <1>0, <1>b DEF TicketInv
    <2>3. CASE CancelReservation(r)
      BY <2>1, <2>3, <1>0, <1>b, WokenTickets DEF TicketInv, CancelReservation
    <2>4. QED  BY <2>2, <2>3, <1>c
  <1>6. AdmissionInv'
    <2>1. \A q \in Requests : admission'[q].remaining =
             IF q = r THEN 0 ELSE admission[q].remaining
      BY <1>0, <1>b DEF TypeOK, AdmissionRecord
    <2>2. \A q \in Requests : reservations'[q].count =
             IF q = r THEN 0 ELSE reservations[q].count
      <3>1. CASE admission[r].remaining = 0
        BY <3>1, <1>0 DEF Release, AdmissionInv
      <3>2. CASE admission[r].remaining # 0
        BY <3>2, <1>0 DEF Release, CancelReservation, NoReservation, TypeOK
      <3>3. QED  BY <3>1, <3>2
    <2>3. QED  BY <2>1, <2>2, <1>0 DEF AdmissionInv
  <1>7. QED  BY <1>1, <1>2, <1>3, <1>4, <1>5, <1>6 DEF IInv

\* The steps of a Wait call change nothing but the record of that call.
LEMMA WaitInv ==
    ASSUME IInv,
           \/ \E r \in Requests : BarrierBegin(r)
           \/ \E w \in Waiters : WaitPass(w) \/ WaitCancel(w)
    PROVE  IInv'
  <1> USE QueueAssumption
  <1>0. /\ TypeOK /\ CapacityRespected /\ Contiguous
        /\ WorkerInv /\ TicketInv /\ AdmissionInv
    BY DEF IInv
  <1>a. UNCHANGED <<queueVars, worker, admission, closing, written>>
    BY DEF BarrierBegin, WaitPass, WaitCancel
  <1>b. PICK w \in Waiters, rec \in WaitRecord :
           /\ wait' = [wait EXCEPT ![w] = rec]
           /\ rec.ticket <= lastSequence
           /\ rec.state \in InWait => rec.ticket # 0
           /\ rec.state = "ok" => rec.ticket <= completedSequence
           /\ rec.state = "failed" => failure # 0 /\ completedSequence < rec.ticket
           /\ rec.state # "unknown"
    <2>1. CASE \E r \in Requests : BarrierBegin(r)
      <3>1. PICK r \in Requests : BarrierBegin(r)
        BY <2>1
      <3> DEFINE t == admission[r].lastTicket
                 rec == [state |-> IF t = 0 THEN "ok" ELSE "check", ticket |-> t]
      <3>2. t \in 0..MaxSequence /\ t <= lastSequence
        BY <1>0 DEF TypeOK, AdmissionRecord, TicketInv
      <3>3. rec \in WaitRecord /\ wait' = [wait EXCEPT ![r] = rec]
        BY <3>1, <3>2 DEF BarrierBegin, WaitRecord, InWait
      <3>4. r \in Waiters /\ completedSequence \in Nat
        BY <1>0 DEF Waiters, TypeOK
      <3>5. /\ rec.ticket = t
            /\ rec.state \in {"ok", "check"}
            /\ rec.state = "ok" => t = 0
            /\ rec.state = "check" => t # 0
        BY <3>2
      <3>6. /\ rec.ticket <= lastSequence
            /\ rec.state \in InWait => rec.ticket # 0
            /\ rec.state = "ok" => rec.ticket <= completedSequence
            /\ rec.state # "failed" /\ rec.state # "unknown"
        <4> HIDE DEF rec, t
        <4> QED  BY <3>2, <3>4, <3>5 DEF InWait
      <3> HIDE DEF rec
      <3>7. QED  BY <3>3, <3>4, <3>6
    <2>2. CASE \E w \in Waiters : WaitPass(w)
      <3>1. PICK w \in Waiters : WaitPass(w)
        BY <2>2
      <3> DEFINE t == wait[w].ticket
                 rec == [wait[w] EXCEPT !.state = WaitOutcome(t)]
      <3>2. /\ wait[w] \in WaitRecord /\ t \in Nat /\ lastSequence \in Nat
            /\ completedSequence \in Nat
        BY <1>0 DEF TypeOK, WaitRecord
      <3>3. t # 0 /\ t <= lastSequence
        BY <3>1, <1>0 DEF WaitPass, TicketInv, InWait
      <3>4. /\ WaitOutcome(t) \in {"ok", "failed", "parked"}
            /\ WaitOutcome(t) = "ok" => t <= completedSequence
            /\ WaitOutcome(t) = "failed" => failure # 0 /\ completedSequence < t
        BY <3>2, <3>3 DEF WaitOutcome
      <3>5. rec \in WaitRecord /\ wait' = [wait EXCEPT ![w] = rec]
            /\ rec.ticket = t /\ rec.state = WaitOutcome(t)
        BY <3>1, <3>2, <3>4, <1>0 DEF WaitPass, WaitRecord, InWait, TypeOK
      <3>6. QED  BY <3>3, <3>4, <3>5
    <2>3. CASE \E w \in Waiters : WaitCancel(w)
      <3>1. PICK w \in Waiters : WaitCancel(w)
        BY <2>3
      <3> DEFINE rec == [wait[w] EXCEPT !.state = "cancelled"]
      <3>2. rec \in WaitRecord /\ wait' = [wait EXCEPT ![w] = rec]
            /\ rec.ticket = wait[w].ticket /\ rec.state = "cancelled"
        BY <3>1, <1>0 DEF WaitCancel, WaitRecord, InWait, TypeOK
      <3>3. QED  BY <3>2, <1>0 DEF TicketInv, InWait
    <2>4. QED  BY <2>1, <2>2, <2>3
  <1>1. TypeOK'
    <2>1. wait' \in [Waiters -> WaitRecord]
      BY <1>0, <1>b DEF TypeOK
    <2>2. QED  BY <2>1, <1>0, <1>a DEF TypeOK, queueVars
  <1>2. CapacityRespected' /\ Contiguous' /\ WorkerInv' /\ AdmissionInv'
    BY <1>0, <1>a DEF CapacityRespected, Contiguous, WorkerInv, AdmissionInv, queueVars
  <1>3. TicketInv'
    <2>1. \A v \in Waiters : wait'[v] = IF v = w THEN rec ELSE wait[v]
      BY <1>0, <1>b DEF TypeOK
    <2>2. QED  BY <2>1, <1>0, <1>a, <1>b DEF TicketInv, queueVars
  <1>4. QED  BY <1>1, <1>2, <1>3 DEF IInv

LEMMA WorkerWrittenInv ==
    ASSUME IInv, WorkerWritten
    PROVE  IInv'
  <1> USE QueueAssumption
  <1>0. /\ TypeOK /\ CapacityRespected /\ Contiguous
        /\ WorkerInv /\ TicketInv /\ AdmissionInv
    BY DEF IInv
  <1>a. items # <<>> /\ failure = 0
    BY <1>0 DEF WorkerWritten, WorkerInv
  <1>b. /\ Head(items) \in Command
        /\ Tail(items) \in Seq(Command)
        /\ Len(Tail(items)) = Len(items) - 1
        /\ \A i \in 1..Len(Tail(items)) : Tail(items)[i] = items[i + 1]
        /\ Len(items) \in Nat \ {0}
        /\ Head(items) = items[1]
    BY <1>0, <1>a, HeadTailProperties, EmptySeq DEF TypeOK
  <1>c. /\ Head(items).sizeBytes \in Nat
        /\ Head(items).sequence = completedSequence + 1
        /\ completedSequence \in Nat /\ completedSequence + 1 \in 0..MaxSequence
    <2>1. 1 \in 1..Len(items)
      BY <1>b
    <2>2. items[1].sequence = completedSequence + 1
      BY <2>1, <1>0 DEF Contiguous
    <2>3. Head(items).sizeBytes \in Nat /\ Head(items).sequence \in 1..MaxSequence
      BY <1>b DEF Command
    <2>4. QED  BY <2>2, <2>3, <1>b, <1>0 DEF TypeOK
  <1>d. /\ items' = Tail(items)
        /\ pendingBytes' = pendingBytes - Head(items).sizeBytes
        /\ completedSequence' = completedSequence + 1
        /\ written' = Append(written, Head(items))
        /\ wait' = Woken
        /\ worker' = "top"
        /\ UNCHANGED <<reservations, reserved, reservedBytes, accepting,
                       lastSequence, failure, admission, closing>>
    BY <1>c DEF WorkerWritten
  <1>e. /\ written' \in Seq(Command)
        /\ Len(written') = Len(written) + 1
        /\ \A i \in 1..Len(written) : written'[i] = written[i]
        /\ written'[Len(written) + 1] = Head(items)
        /\ Len(written) \in Nat
    BY <1>0, <1>b, <1>d, AppendProperties, LenProperties DEF TypeOK
  <1>1. TypeOK'
    <2>1. wait' \in [Waiters -> WaitRecord]
      BY <1>0, <1>d, WokenFacts
    <2>2. QED  BY <1>0, <1>b, <1>c, <1>d, <1>e, <2>1 DEF TypeOK
  <1>2. CapacityRespected'
    <2>1. /\ reserved \in Int /\ reservedBytes \in Int /\ pendingBytes \in Int
      BY <1>0 DEF TypeOK
    <2>2. Len(items') + reserved' = Len(items) + reserved - 1
      BY <2>1, <1>b, <1>d
    <2>3. pendingBytes' + reservedBytes' = pendingBytes + reservedBytes - Head(items).sizeBytes
      BY <2>1, <1>c, <1>d
    <2>4. QED  BY <2>1, <2>2, <2>3, <1>0, <1>b, <1>c DEF CapacityRespected
  <1>3. Contiguous'
    <2>1. lastSequence' = completedSequence' + Len(items')
      BY <1>0, <1>b, <1>c, <1>d DEF Contiguous, TypeOK
    <2>2. \A i \in 1..Len(items') : items'[i].sequence = completedSequence' + i
      <3> SUFFICES ASSUME NEW i \in 1..Len(items')
                   PROVE  items'[i].sequence = completedSequence' + i
        OBVIOUS
      <3>1. items'[i] = items[i + 1] /\ i + 1 \in 1..Len(items)
        BY <1>b, <1>d
      <3>2. items[i + 1].sequence = completedSequence + (i + 1)
        BY <3>1, <1>0 DEF Contiguous
      <3>3. QED  BY <3>1, <3>2, <1>b, <1>c, <1>d
    <2>3. /\ Len(written') = completedSequence'
          /\ \A i \in 1..Len(written') : written'[i].sequence = i
      <3>1. Len(written) = completedSequence /\ \A i \in 1..Len(written) : written[i].sequence = i
        BY <1>0 DEF Contiguous
      <3>2. \A i \in 1..Len(written') : i \in 1..Len(written) \/ i = Len(written) + 1
        BY <1>e
      <3>3. QED  BY <3>1, <3>2, <1>c, <1>d, <1>e
    <2>4. QED  BY <2>1, <2>2, <2>3 DEF Contiguous
  <1>4. WorkerInv' /\ AdmissionInv'
    BY <1>0, <1>a, <1>d DEF WorkerInv, AdmissionInv
  <1>5. TicketInv'
    <2>1. \A q \in Requests : admission'[q].lastTicket <= lastSequence'
      BY <1>0, <1>d DEF TicketInv
    <2> SUFFICES ASSUME NEW v \in Waiters
                 PROVE  /\ Woken[v].ticket <= lastSequence
                        /\ Woken[v].state \in InWait => Woken[v].ticket # 0
                        /\ Woken[v].state = "ok" => Woken[v].ticket <= completedSequence + 1
                        /\ Woken[v].state # "failed"
                        /\ Woken[v].state # "unknown"
      BY <2>1, <1>d DEF TicketInv
    <2>2. /\ Woken[v].ticket = wait[v].ticket
          /\ \/ Woken[v].state = wait[v].state
             \/ wait[v].state = "parked" /\ Woken[v].state = "check"
      BY <1>0, WokenFacts
    <2>3. wait[v].ticket \in Nat
      BY <1>0 DEF TypeOK, WaitRecord
    <2>4. QED  BY <2>2, <2>3, <1>0, <1>a, <1>c DEF TicketInv, InWait
  <1>6. QED  BY <1>1, <1>2, <1>3, <1>4, <1>5 DEF IInv

LEMMA WorkerFailedInv ==
    ASSUME IInv, WorkerFailed
    PROVE  IInv'
  <1> USE QueueAssumption
  <1>0. /\ TypeOK /\ CapacityRespected /\ Contiguous
        /\ WorkerInv /\ TicketInv /\ AdmissionInv
    BY DEF IInv
  <1>a. items # <<>> /\ failure = 0
    BY <1>0 DEF WorkerFailed, WorkerInv
  <1>b. /\ Head(items) \in Command /\ Head(items) = items[1]
        /\ Len(items) \in Nat \ {0}
    BY <1>0, <1>a, HeadTailProperties, EmptySeq DEF TypeOK
  <1>c. Head(items).sequence = completedSequence + 1 /\ completedSequence \in Nat
    BY <1>0, <1>b DEF Contiguous, TypeOK
  <1>1. TypeOK'
    <2>1. wait' \in [Waiters -> WaitRecord]
      BY <1>0, WokenFacts DEF WorkerFailed
    <2>2. failure' \in 0..MaxSequence
      BY <1>b DEF WorkerFailed, Command
    <2>3. QED  BY <1>0, <2>1, <2>2 DEF TypeOK, WorkerFailed
  <1>2. CapacityRespected' /\ Contiguous' /\ AdmissionInv'
    BY <1>0 DEF CapacityRespected, Contiguous, AdmissionInv, WorkerFailed
  <1>3. WorkerInv'
    BY <1>c DEF WorkerInv, WorkerFailed
  <1>4. TicketInv'
    <2> SUFFICES ASSUME NEW v \in Waiters
                 PROVE  /\ Woken[v].ticket <= lastSequence
                        /\ Woken[v].state \in InWait => Woken[v].ticket # 0
                        /\ Woken[v].state = "ok" => Woken[v].ticket <= completedSequence
                        /\ Woken[v].state # "failed"
                        /\ Woken[v].state # "unknown"
      BY <1>0 DEF TicketInv, WorkerFailed
    <2>1. /\ Woken[v].ticket = wait[v].ticket
          /\ \/ Woken[v].state = wait[v].state
             \/ wait[v].state = "parked" /\ Woken[v].state = "check"
      BY <1>0, WokenFacts
    <2>2. QED  BY <2>1, <1>0, <1>a DEF TicketInv, InWait
  <1>5. QED  BY <1>1, <1>2, <1>3, <1>4 DEF IInv

\* The worker's other steps only move the worker.
LEMMA WorkerMoveInv ==
    ASSUME IInv, WorkerPark \/ WorkerExit \/ WorkerTake
    PROVE  IInv'
  <1>0. /\ TypeOK /\ CapacityRespected /\ Contiguous
        /\ WorkerInv /\ TicketInv /\ AdmissionInv
    BY DEF IInv
  <1>a. /\ UNCHANGED <<queueVars, admission, wait, closing, written>>
        /\ worker' \in {"parked", "done", "writing"}
    BY DEF WorkerPark, WorkerExit, WorkerTake
  <1>1. TypeOK'
    BY <1>0, <1>a DEF TypeOK, queueVars
  <1>2. CapacityRespected' /\ Contiguous' /\ TicketInv' /\ AdmissionInv'
    BY <1>0, <1>a DEF CapacityRespected, Contiguous, TicketInv, AdmissionInv, queueVars
  <1>3. WorkerInv'
    BY <1>0, <1>a DEF WorkerInv, queueVars, WorkerPark, WorkerExit, WorkerTake
  <1>4. QED  BY <1>1, <1>2, <1>3 DEF IInv

LEMMA ShutdownInv ==
    ASSUME IInv, ShutdownBegin \/ ShutdownReturn \/ ShutdownTimeout
    PROVE  IInv'
  <1>0. /\ TypeOK /\ CapacityRespected /\ Contiguous
        /\ WorkerInv /\ TicketInv /\ AdmissionInv
    BY DEF IInv
  <1>a. /\ UNCHANGED <<items, reservations, reserved, pendingBytes, reservedBytes,
                       lastSequence, completedSequence, failure, admission, written>>
        /\ accepting' \in BOOLEAN
        /\ closing' \in {"waiting", "ok", "failed", "timeout"}
        /\ wait' \in {wait, Woken}
        /\ worker' \in {worker, WorkerReadied}
    BY <1>0 DEF ShutdownBegin, ShutdownReturn, ShutdownTimeout, queueVars, TypeOK
  <1>1. TypeOK'
    <2>1. wait' \in [Waiters -> WaitRecord]
      BY <1>0, <1>a, WokenFacts DEF TypeOK
    <2>2. worker' \in {"top", "parked", "writing", "done"}
      BY <1>0, <1>a DEF TypeOK, WorkerReadied
    <2>3. QED  BY <2>1, <2>2, <1>0, <1>a DEF TypeOK
  <1>2. CapacityRespected' /\ Contiguous' /\ AdmissionInv'
    BY <1>0, <1>a DEF CapacityRespected, Contiguous, AdmissionInv
  <1>3. WorkerInv'
    BY <1>0, <1>a DEF WorkerInv, WorkerReadied
  <1>4. TicketInv'
    <2>1. CASE wait' = wait
      BY <2>1, <1>0, <1>a DEF TicketInv
    <2>2. CASE wait' = Woken
      BY <2>2, <1>0, <1>a, WokenTickets DEF TicketInv
    <2>3. QED  BY <2>1, <2>2, <1>a
  <1>5. QED  BY <1>1, <1>2, <1>3, <1>4 DEF IInv
-----------------------------------------------------------------------------
(* The counters beside the map and the slice.                              *)

\* AccountingExact needs to know that a request that has no admission, or has
\* released it, holds nothing that admitting it would overwrite.
Accounted ==
    /\ reserved = Total(Counts)
    /\ reservedBytes = Total(BytesLeft)
    /\ pendingBytes = Total(SizesOf(items))
    /\ \A r \in Requests : reservations[r].count = 0 => reservations[r].bytesLeft = 0
    /\ \A r \in Requests : admission[r].state # "open" => reservations[r].count = 0

ReservationsKept == UNCHANGED <<reservations, reserved, reservedBytes>>

LEMMA CountsType ==
    ASSUME reservations \in [Requests -> Holding]
    PROVE  Counts \in [Requests -> Nat] /\ BytesLeft \in [Requests -> Nat]
  BY DEF Counts, BytesLeft, Holding

\* One reservation changes and the counters follow.
LEMMA ReservationChange ==
    ASSUME TypeOK, Accounted, NEW r \in Requests, NEW res \in Holding,
           reservations' = [reservations EXCEPT ![r] = res],
           reserved' = reserved - reservations[r].count + res.count,
           reservedBytes' = reservedBytes - reservations[r].bytesLeft + res.bytesLeft,
           res.count = 0 => res.bytesLeft = 0
    PROVE  /\ reserved' = Total(Counts')
           /\ reservedBytes' = Total(BytesLeft')
           /\ \A q \in Requests : reservations'[q].count = 0 => reservations'[q].bytesLeft = 0
           /\ \A q \in Requests \ {r} : reservations'[q] = reservations[q]
           /\ reservations'[r] = res
  <1>1. reservations \in [Requests -> Holding] /\ reservations' \in [Requests -> Holding]
    BY DEF TypeOK
  <1>2. /\ Counts \in [Requests -> Int] /\ BytesLeft \in [Requests -> Int]
        /\ Counts' \in [Requests -> Int] /\ BytesLeft' \in [Requests -> Int]
    BY <1>1 DEF Counts, BytesLeft, Holding
  <1>3. (\A q \in Requests \ {r} : reservations'[q] = reservations[q]) /\ reservations'[r] = res
    BY <1>1
  <1>4. /\ \A q \in Requests \ {r} : Counts'[q] = Counts[q] /\ BytesLeft'[q] = BytesLeft[q]
        /\ Counts[r] = reservations[r].count /\ BytesLeft[r] = reservations[r].bytesLeft
        /\ Counts'[r] = res.count /\ BytesLeft'[r] = res.bytesLeft
    BY <1>3 DEF Counts, BytesLeft
  <1>5. Total(Counts') = Total(Counts) - Counts[r] + Counts'[r]
    BY <1>2, <1>4, RequestsAssumption, TotalChange
  <1>6. Total(BytesLeft') = Total(BytesLeft) - BytesLeft[r] + BytesLeft'[r]
    BY <1>2, <1>4, RequestsAssumption, TotalChange
  <1>7. QED
    BY <1>3, <1>4, <1>5, <1>6 DEF Accounted

\* A command joins the queue.
LEMMA PendingPush ==
    ASSUME TypeOK, Accounted, NEW w \in Waiters, NEW s \in Sizes, Push(w, s)
    PROVE  pendingBytes' = Total(SizesOf(items)')
  <1> DEFINE c == [sequence |-> lastSequence + 1, sizeBytes |-> s, from |-> w]
  <1>1. c \in Command
    BY QueueAssumption DEF TypeOK, Push, Command
  <1>2. items' = Append(items, c) /\ pendingBytes' = pendingBytes + s /\ c.sizeBytes = s
    BY DEF Push
  <1> HIDE DEF c
  <1>3. items \in Seq(Command)
    BY DEF TypeOK
  <1>4. Total(SizesOf(Append(items, c))) = Total(SizesOf(items)) + c.sizeBytes
    BY <1>1, <1>3, SizesAppend
  <1>5. QED
    BY <1>2, <1>4 DEF Accounted

LEMMA InitAccounted == Init => Accounted
  <1> SUFFICES ASSUME Init PROVE Accounted
    OBVIOUS
  <1>1. /\ Counts \in [Requests -> Int] /\ BytesLeft \in [Requests -> Int]
        /\ \A r \in Requests : Counts[r] = 0 /\ BytesLeft[r] = 0
    BY DEF Init, Counts, BytesLeft, NoReservation
  <1>2. Total(Counts) = 0 /\ Total(BytesLeft) = 0
    BY <1>1, RequestsAssumption, TotalNone
  <1>3. Total(SizesOf(items)) = 0
    <2>1. items \in Seq(Command) /\ Len(items) = 0
      BY DEF Init
    <2>2. /\ IsFiniteSet(DOMAIN items) /\ SizesOf(items) \in [DOMAIN items -> Int]
          /\ DOMAIN items = 1..Len(items)
      BY <2>1, SizesType
    <2>3. \A i \in DOMAIN items : SizesOf(items)[i] = 0
      BY <2>1, <2>2
    <2>4. QED
      BY <2>2, <2>3, TotalNone
  <1>4. QED
    BY <1>2, <1>3 DEF Init, Accounted, NoReservation

LEMMA AdmitAccounted ==
    ASSUME IInv, Accounted, NEW r \in Requests, NEW n \in 1..Capacity, NEW b \in 1..ByteCapacity,
           Admit(r, n, b)
    PROVE  Accounted'
  <1> DEFINE res == [count |-> n, bytesLeft |-> b]
  <1>1. res \in Holding /\ res.count = n /\ res.bytesLeft = b /\ n # 0 /\ n \in Nat /\ b \in Nat
    BY QueueAssumption DEF Holding
  <1>2. /\ reservations' = [reservations EXCEPT ![r] = res]
        /\ reserved' = reserved + n /\ reservedBytes' = reservedBytes + b
        /\ items' = items /\ pendingBytes' = pendingBytes
    BY DEF Admit, Reserve
  <1>3. reservations[r].count = 0 /\ reservations[r].bytesLeft = 0
    BY DEF Admit, Accounted
  <1> HIDE DEF res
  <1>4. TypeOK /\ reserved \in Int /\ reservedBytes \in Int
    BY DEF IInv, TypeOK
  <1>5. /\ reserved' = reserved - reservations[r].count + res.count
        /\ reservedBytes' = reservedBytes - reservations[r].bytesLeft + res.bytesLeft
    BY <1>1, <1>2, <1>3, <1>4
  <1>6. /\ reserved' = Total(Counts') /\ reservedBytes' = Total(BytesLeft')
        /\ \A q \in Requests : reservations'[q].count = 0 => reservations'[q].bytesLeft = 0
        /\ \A q \in Requests \ {r} : reservations'[q] = reservations[q]
    BY <1>1, <1>2, <1>4, <1>5, ReservationChange
  <1>7. \A q \in Requests : admission'[q].state # "open" => q # r /\ admission'[q] = admission[q]
    BY <1>4 DEF Admit, TypeOK, AdmissionRecord
  <1>8. pendingBytes' = Total(SizesOf(items)')
    BY <1>2 DEF Accounted
  <1>9. QED
    BY <1>6, <1>7, <1>8 DEF Accounted

LEMMA AdmissionEnqueueAccounted ==
    ASSUME IInv, Accounted, NEW r \in Requests, NEW s \in Sizes, AdmissionEnqueue(r, s)
    PROVE  Accounted'
  <1> DEFINE res == Used(reservations[r], s)
  <1>1. /\ Push(r, s) /\ r \in Waiters /\ admission[r].state = "open"
        /\ reservations[r].count > 0 /\ s <= reservations[r].bytesLeft
        /\ reservations' = [reservations EXCEPT ![r] = res]
        /\ reserved' = reserved - 1
        /\ reservedBytes' = reservedBytes - (reservations[r].bytesLeft - res.bytesLeft)
    BY DEF AdmissionEnqueue, EnqueueReserved, Waiters
  <1>2. /\ reservations[r] \in Holding /\ TypeOK /\ s \in Nat
        /\ reserved \in Int /\ reservedBytes \in Int
        /\ reservations[r].count \in Nat /\ reservations[r].bytesLeft \in Nat
    BY QueueAssumption DEF IInv, TypeOK, Holding
  <1>3. /\ res \in Holding /\ res.count = reservations[r].count - 1
        /\ res.count = 0 => res.bytesLeft = 0
    BY <1>1, <1>2 DEF Used, NoReservation, Holding
  <1> HIDE DEF res
  <1>4. res.bytesLeft \in Nat
    BY <1>3 DEF Holding
  <1>5. /\ reserved' = reserved - reservations[r].count + res.count
        /\ reservedBytes' = reservedBytes - reservations[r].bytesLeft + res.bytesLeft
    BY <1>1, <1>2, <1>3, <1>4
  <1>6. /\ reserved' = Total(Counts') /\ reservedBytes' = Total(BytesLeft')
        /\ \A q \in Requests : reservations'[q].count = 0 => reservations'[q].bytesLeft = 0
        /\ \A q \in Requests \ {r} : reservations'[q] = reservations[q]
    BY <1>1, <1>2, <1>3, <1>5, ReservationChange
  <1>7. \A q \in Requests : /\ admission'[q].state = admission[q].state
                            /\ admission'[q].state # "open" => q # r
    BY <1>1, <1>2 DEF AdmissionEnqueue, TypeOK, AdmissionRecord
  <1>8. pendingBytes' = Total(SizesOf(items)')
    BY <1>1, <1>2, PendingPush
  <1>9. QED
    BY <1>6, <1>7, <1>8 DEF Accounted

LEMMA EnqueueAccounted ==
    ASSUME IInv, Accounted, NEW w \in Writers, NEW s \in Sizes, Enqueue(w, s)
    PROVE  Accounted'
  <1>1. /\ Push(w, s) /\ w \in Waiters /\ TypeOK
        /\ UNCHANGED <<reservations, reserved, reservedBytes, admission>>
    BY DEF Enqueue, Waiters, IInv
  <1>2. pendingBytes' = Total(SizesOf(items)')
    BY <1>1, PendingPush
  <1>3. Counts' = Counts /\ BytesLeft' = BytesLeft
    BY <1>1 DEF Counts, BytesLeft
  <1>4. QED
    BY <1>1, <1>2, <1>3 DEF Accounted

LEMMA ReleaseAccounted ==
    ASSUME IInv, Accounted, NEW r \in Requests, Release(r)
    PROVE  Accounted'
  <1>1. items' = items /\ pendingBytes' = pendingBytes /\ TypeOK
    BY DEF Release, IInv
  <1>2. SizesOf(items)' = SizesOf(items)
    BY <1>1
  <1>3. \A q \in Requests : q # r => admission'[q] = admission[q]
    BY <1>1 DEF Release, TypeOK
  <1>4. CASE admission[r].remaining = 0
    <2>1. ReservationsKept /\ reservations[r].count = 0
      BY <1>4 DEF Release, ReservationsKept, IInv, AdmissionInv
    <2>2. Counts' = Counts /\ BytesLeft' = BytesLeft
      BY <2>1 DEF Counts, BytesLeft, ReservationsKept
    <2>3. QED
      BY <1>1, <1>2, <1>3, <2>1, <2>2 DEF Accounted, ReservationsKept
  <1>5. CASE admission[r].remaining # 0
    <2>1. /\ reservations' = [reservations EXCEPT ![r] = NoReservation]
          /\ reserved' = reserved - reservations[r].count
          /\ reservedBytes' = reservedBytes - reservations[r].bytesLeft
      BY <1>5 DEF Release, CancelReservation
    <2>2. /\ NoReservation \in Holding
          /\ NoReservation.count = 0 /\ NoReservation.bytesLeft = 0
      BY DEF NoReservation, Holding
    <2>3. /\ reserved \in Int /\ reservedBytes \in Int
          /\ reservations[r].count \in Nat /\ reservations[r].bytesLeft \in Nat
      BY <1>1 DEF TypeOK, Holding
    <2>4. /\ reserved' = reserved - reservations[r].count + NoReservation.count
          /\ reservedBytes' = reservedBytes - reservations[r].bytesLeft + NoReservation.bytesLeft
      BY <2>1, <2>2, <2>3
    <2>5. /\ reserved' = Total(Counts') /\ reservedBytes' = Total(BytesLeft')
          /\ \A q \in Requests : reservations'[q].count = 0 => reservations'[q].bytesLeft = 0
          /\ \A q \in Requests \ {r} : reservations'[q] = reservations[q]
          /\ reservations'[r] = NoReservation
      BY <1>1, <2>1, <2>2, <2>4, ReservationChange
    <2>6. QED
      BY <1>1, <1>2, <1>3, <2>2, <2>5 DEF Accounted
  <1>6. QED
    BY <1>4, <1>5

LEMMA WorkerWrittenAccounted ==
    ASSUME IInv, Accounted, WorkerWritten
    PROVE  Accounted'
  <1>1. /\ items # <<>> /\ items \in Seq(Command)
        /\ items' = Tail(items) /\ pendingBytes' = pendingBytes - Head(items).sizeBytes
        /\ UNCHANGED <<reservations, reserved, reservedBytes, admission>>
    BY DEF IInv, WorkerInv, TypeOK, WorkerWritten
  <1>2. Total(SizesOf(Tail(items))) = Total(SizesOf(items)) - Head(items).sizeBytes
    BY <1>1, SizesTail
  <1>3. Counts' = Counts /\ BytesLeft' = BytesLeft
    BY <1>1 DEF Counts, BytesLeft
  <1>4. QED
    BY <1>1, <1>2, <1>3 DEF Accounted

\* The other steps leave the queue's contents and the reservations alone.
LEMMA OtherAccounted ==
    ASSUME Accounted, UNCHANGED <<items, pendingBytes, reservations, reserved, reservedBytes, admission>>
    PROVE  Accounted'
  <1>1. Counts' = Counts /\ BytesLeft' = BytesLeft /\ SizesOf(items)' = SizesOf(items)
    BY DEF Counts, BytesLeft
  <1>2. QED
    BY <1>1 DEF Accounted

LEMMA NextAccounted == IInv /\ Accounted /\ [Next]_vars => Accounted'
  <1> SUFFICES ASSUME IInv, Accounted, [Next]_vars PROVE Accounted'
    OBVIOUS
  <1>1. ASSUME NEW r \in Requests, NEW n \in 1..Capacity, NEW b \in 1..ByteCapacity,
               Admit(r, n, b)
        PROVE  Accounted'
    BY <1>1, AdmitAccounted
  <1>2. ASSUME NEW r \in Requests, NEW s \in Sizes, AdmissionEnqueue(r, s)
        PROVE  Accounted'
    BY <1>2, AdmissionEnqueueAccounted
  <1>3. ASSUME NEW r \in Requests, Release(r)
        PROVE  Accounted'
    BY <1>3, ReleaseAccounted
  <1>4. CASE \/ \E r \in Requests : BarrierBegin(r)
             \/ \E w \in Waiters : WaitPass(w) \/ WaitCancel(w)
    BY <1>4, OtherAccounted DEF BarrierBegin, WaitPass, WaitCancel, queueVars
  <1>5. ASSUME NEW w \in Writers, NEW s \in Sizes, Enqueue(w, s)
        PROVE  Accounted'
    BY <1>5, EnqueueAccounted
  <1>6. CASE Worker
    <2>1. CASE WorkerWritten
      BY <2>1, WorkerWrittenAccounted
    <2>2. CASE WorkerPark \/ WorkerExit \/ WorkerTake \/ WorkerFailed
      BY <2>2, OtherAccounted DEF WorkerPark, WorkerExit, WorkerTake, WorkerFailed, queueVars
    <2>3. QED
      BY <1>6, <2>1, <2>2 DEF Worker
  <1>7. CASE ShutdownBegin \/ ShutdownReturn \/ ShutdownTimeout
    BY <1>7, OtherAccounted DEF ShutdownBegin, ShutdownReturn, ShutdownTimeout, queueVars
  <1>8. CASE UNCHANGED vars
    BY <1>8, OtherAccounted DEF vars, queueVars
  <1>9. QED
    BY <1>1, <1>2, <1>3, <1>4, <1>5, <1>6, <1>7, <1>8 DEF Next
-----------------------------------------------------------------------------
(* The end of the worker and of Shutdown.                                  *)

Ended ==
    /\ worker = "done" /\ failure = 0 => Drained
    /\ closing \in {"ok", "failed"} => worker = "done"
    /\ closing = "ok" => failure = 0

\* When the queue counts no reserved slot nobody holds one.
LEMMA NothingHeld ==
    ASSUME TypeOK, Accounted, reserved = 0
    PROVE  \A r \in Requests : reservations[r].count = 0
  <1>1. Counts \in [Requests -> Nat]
    BY CountsType DEF TypeOK
  <1>2. \A r \in Requests : Counts[r] <= Total(Counts)
    BY <1>1, RequestsAssumption, TotalBound
  <1>3. Total(Counts) = 0
    BY DEF Accounted
  <1>4. \A r \in Requests : Counts[r] = 0
    BY <1>1, <1>2, <1>3
  <1>5. QED
    BY <1>4 DEF Counts

\* Nothing is accepted once the worker has gone.
LEMMA AcceptingEnded ==
    ASSUME IInv, Accounted, Ended, failure = 0,
           accepting \/ \E r \in Requests : reservations[r].count > 0,
           worker' \in {worker, WorkerReadied}, UNCHANGED <<failure, closing>>
    PROVE  Ended'
  <1>1. worker # "done"
    <2>1. TypeOK
      BY DEF IInv
    <2>2. CASE worker = "done"
      <3>1. ~accepting /\ reserved = 0
        BY <2>2 DEF Ended, Drained
      <3>2. \A r \in Requests : reservations[r].count = 0
        BY <2>1, <3>1, NothingHeld
      <3>3. QED
        BY <3>1, <3>2
    <2>3. QED
      BY <2>2
  <1>2. QED
    BY <1>1 DEF Ended, WorkerReadied

LEMMA ReleaseEnded ==
    ASSUME IInv, Accounted, Ended, NEW r \in Requests, Release(r)
    PROVE  Ended'
  <1>1. UNCHANGED <<items, accepting, failure, closing>>
    BY DEF Release
  <1>2. \/ worker' = worker
        \/ worker = "parked" /\ worker' = "top"
    <2>1. admission[r].remaining = 0 => worker' = worker
      BY DEF Release
    <2>2. admission[r].remaining # 0 => worker' = WorkerReadied
      BY DEF Release, CancelReservation
    <2>3. QED
      BY <2>1, <2>2 DEF WorkerReadied
  <1>3. CASE worker = "done" /\ failure = 0
    <2>1. TypeOK /\ AdmissionInv /\ reserved = 0
      BY <1>3 DEF IInv, Ended, Drained
    <2>2. admission[r].remaining = 0
      BY <2>1, NothingHeld DEF AdmissionInv
    <2>3. worker' = worker /\ reserved' = reserved
      BY <2>2 DEF Release
    <2>4. QED
      BY <1>1, <2>3 DEF Ended, Drained
  <1>4. CASE ~(worker = "done" /\ failure = 0)
    BY <1>1, <1>2, <1>4 DEF Ended
  <1>5. QED
    BY <1>3, <1>4

LEMMA WorkerEnded ==
    ASSUME IInv, Ended, Worker
    PROVE  Ended'
  <1>1. worker \in {"top", "writing"} /\ closing \notin {"ok", "failed"} /\ closing' = closing
    BY DEF Worker, WorkerPark, WorkerExit, WorkerTake, WorkerWritten, WorkerFailed, Ended
  <1>2. CASE WorkerPark \/ WorkerTake \/ WorkerWritten
    BY <1>1, <1>2 DEF WorkerPark, WorkerTake, WorkerWritten, Ended
  <1>3. CASE WorkerExit
    BY <1>1, <1>3 DEF WorkerExit, queueVars, Ended, Drained
  <1>4. CASE WorkerFailed
    <2>1. items \in Seq(Command) /\ items # <<>>
      BY <1>4 DEF WorkerFailed, IInv, TypeOK, WorkerInv
    <2>2. Head(items) \in Command
      BY <2>1, HeadTailProperties
    <2>3. Head(items).sequence # 0
      BY <2>2, QueueAssumption DEF Command
    <2>4. QED
      BY <1>1, <1>4, <2>3 DEF WorkerFailed, Ended
  <1>5. QED
    BY <1>2, <1>3, <1>4 DEF Worker

LEMMA NextEnded == IInv /\ Accounted /\ Ended /\ [Next]_vars => Ended'
  <1> SUFFICES ASSUME IInv, Accounted, Ended, [Next]_vars PROVE Ended'
    OBVIOUS
  <1>1. CASE \E r \in Requests, n \in 1..Capacity, b \in 1..ByteCapacity : Admit(r, n, b)
    BY <1>1, AcceptingEnded DEF Admit, Reserve
  <1>2. CASE \E r \in Requests, s \in Sizes : AdmissionEnqueue(r, s)
    BY <1>2, AcceptingEnded DEF AdmissionEnqueue, EnqueueReserved, Push
  <1>3. CASE \E r \in Requests : Release(r)
    BY <1>3, ReleaseEnded
  <1>4. CASE \/ \E r \in Requests : BarrierBegin(r)
             \/ \E w \in Waiters : WaitPass(w) \/ WaitCancel(w)
    BY <1>4 DEF BarrierBegin, WaitPass, WaitCancel, queueVars, Ended, Drained
  <1>5. CASE \E w \in Writers, s \in Sizes : Enqueue(w, s)
    BY <1>5, AcceptingEnded DEF Enqueue, Push
  <1>6. CASE Worker
    BY <1>6, WorkerEnded
  <1>7. CASE ShutdownBegin
    BY <1>7 DEF ShutdownBegin, WorkerReadied, Ended, Drained
  <1>8. CASE ShutdownReturn \/ ShutdownTimeout
    BY <1>8 DEF ShutdownReturn, ShutdownTimeout, queueVars, Ended, Drained
  <1>9. CASE UNCHANGED vars
    BY <1>9 DEF vars, queueVars, Ended, Drained
  <1>10. QED
    BY <1>1, <1>2, <1>3, <1>4, <1>5, <1>6, <1>7, <1>8, <1>9 DEF Next
-----------------------------------------------------------------------------
(* The abstract log.                                                       *)

AppendsTo(a, s, e) == a \o Append(s, e) = Append(a \o s, e)
MovesHead(a, s) == Append(a, Head(s)) \o Tail(s) = a \o s

LEMMA ConcatAppend ==
    ASSUME NEW S, NEW a \in Seq(S), NEW s \in Seq(S), NEW e \in S
    PROVE  AppendsTo(a, s, e)
  <1>1. Append(s, e) = s \o <<e>> /\ <<e>> \in Seq(S)
    BY AppendIsConcat
  <1>2. a \o s \in Seq(S)
    BY ConcatProperties
  <1>3. Append(a \o s, e) = (a \o s) \o <<e>>
    BY <1>2, AppendIsConcat
  <1>4. (a \o s) \o <<e>> = a \o (s \o <<e>>)
    BY <1>1, ConcatAssociative
  <1>5. QED
    BY <1>1, <1>3, <1>4, Zenon DEF AppendsTo

LEMMA ConcatMove ==
    ASSUME NEW S, NEW a \in Seq(S), NEW s \in Seq(S), s # <<>>
    PROVE  MovesHead(a, s)
  <1>1. Head(s) \in S /\ Tail(s) \in Seq(S)
    BY HeadTailProperties
  <1>2. Append(a, Head(s)) = a \o <<Head(s)>> /\ <<Head(s)>> \in Seq(S)
    BY <1>1, AppendIsConcat
  <1>3. s = <<Head(s)>> \o Tail(s)
    BY <1>1, HeadTailProperties
  <1>4. (a \o <<Head(s)>>) \o Tail(s) = a \o (<<Head(s)>> \o Tail(s))
    BY <1>1, <1>2, ConcatAssociative
  <1>5. QED
    BY <1>2, <1>3, <1>4, Zenon DEF MovesHead

\* A command that joins the queue joins the log.
LEMMA PushLogged ==
    ASSUME IInv, NEW w \in Waiters, NEW s \in Sizes, Push(w, s), failure = 0,
           UNCHANGED <<written, failure>>
    PROVE  Log!Next
  <1> DEFINE c == [sequence |-> lastSequence + 1, sizeBytes |-> s, from |-> w]
  <1>1. c \in Command
    BY QueueAssumption DEF IInv, TypeOK, Push, Command
  <1>2. items' = Append(items, c)
    BY DEF Push
  <1> HIDE DEF c
  <1>3. items \in Seq(Command) /\ written \in Seq(Command)
    BY DEF IInv, TypeOK
  <1>4. written \o Append(items, c) = Append(written \o items, c)
    BY <1>1, <1>3, ConcatAppend DEF AppendsTo
  <1>5. Log!Accept(c)
    BY <1>2, <1>4 DEF Log!Accept
  <1>6. QED
    BY <1>1, <1>5 DEF Log!Next

LEMMA WorkerLogged ==
    ASSUME IInv, WorkerWritten \/ WorkerFailed
    PROVE  Log!Next
  <1>1. /\ items \in Seq(Command) /\ written \in Seq(Command)
        /\ items # <<>> /\ failure = 0
    BY DEF IInv, TypeOK, WorkerInv, WorkerWritten, WorkerFailed
  <1>2. Head(items) \in Command
    BY <1>1, HeadTailProperties
  <1>3. Len(written) < Len(written \o items)
    <2>1. Len(items) \in Nat \ {0} /\ Len(written) \in Nat
      BY <1>1, LenProperties, EmptySeq
    <2>2. Len(written \o items) = Len(written) + Len(items)
      BY <1>1, ConcatProperties
    <2>3. QED
      BY <2>1, <2>2
  <1>4. CASE WorkerWritten
    <2>1. written' = Append(written, Head(items)) /\ items' = Tail(items) /\ failure' = failure
      BY <1>4 DEF WorkerWritten
    <2>2. Append(written, Head(items)) \o Tail(items) = written \o items
      BY <1>1, ConcatMove DEF MovesHead
    <2>3. Len(Append(written, Head(items))) = Len(written) + 1
      BY <1>1, <1>2, AppendProperties
    <2>4. Log!Persist
      BY <1>1, <1>3, <2>1, <2>2, <2>3 DEF Log!Persist
    <2>5. QED
      BY <2>4 DEF Log!Next
  <1>5. CASE WorkerFailed
    <2>1. Head(items).sequence # 0
      BY <1>2, QueueAssumption DEF Command
    <2>2. failure' # 0 /\ written' = written /\ items' = items
      BY <1>5, <2>1 DEF WorkerFailed
    <2>3. Log!Halt
      BY <1>1, <1>3, <2>2 DEF Log!Halt
    <2>4. QED
      BY <2>3 DEF Log!Next
  <1>6. QED
    BY <1>4, <1>5

LEMMA InitLogged == Init => Log!Init
  <1> SUFFICES ASSUME Init PROVE Log!Init
    OBVIOUS
  <1>1. written = <<>> /\ items = <<>> /\ failure = 0
    BY DEF Init
  <1>2. written \o items = <<>> /\ Len(written) = 0
    BY <1>1
  <1>3. QED
    BY <1>1, <1>2 DEF Log!Init

LEMMA NextLogged == IInv /\ [Next]_vars => [Log!Next]_(Log!vars)
  <1> SUFFICES ASSUME IInv, [Next]_vars PROVE [Log!Next]_(Log!vars)
    OBVIOUS
  <1>a. ASSUME UNCHANGED <<items, written, failure>>
        PROVE  UNCHANGED Log!vars
    BY <1>a DEF Log!vars
  <1>1. CASE \E r \in Requests :
                \/ \E n \in 1..Capacity, b \in 1..ByteCapacity : Admit(r, n, b)
                \/ Release(r) \/ BarrierBegin(r)
    BY <1>1, <1>a DEF Admit, Reserve, Release, BarrierBegin, queueVars
  <1>2. CASE \E r \in Requests, s \in Sizes : AdmissionEnqueue(r, s)
    BY <1>2, PushLogged DEF AdmissionEnqueue, EnqueueReserved, Waiters
  <1>3. CASE \E w \in Writers, s \in Sizes : Enqueue(w, s)
    BY <1>3, PushLogged DEF Enqueue, Waiters
  <1>4. CASE \E w \in Waiters : WaitPass(w) \/ WaitCancel(w)
    BY <1>4, <1>a DEF WaitPass, WaitCancel, queueVars
  <1>5. CASE Worker
    <2>1. CASE WorkerPark \/ WorkerExit \/ WorkerTake
      BY <2>1, <1>a DEF WorkerPark, WorkerExit, WorkerTake, queueVars
    <2>2. QED
      BY <1>5, <2>1, WorkerLogged DEF Worker
  <1>6. CASE ShutdownBegin \/ ShutdownReturn \/ ShutdownTimeout
    BY <1>6, <1>a DEF ShutdownBegin, ShutdownReturn, ShutdownTimeout, queueVars
  <1>7. CASE UNCHANGED vars
    BY <1>7, <1>a DEF vars, queueVars
  <1>8. QED
    BY <1>1, <1>2, <1>3, <1>4, <1>5, <1>6, <1>7 DEF Next
-----------------------------------------------------------------------------
(* The theorems.                                                           *)

LEMMA NextInv == IInv /\ [Next]_vars => IInv'
  <1> SUFFICES ASSUME IInv, [Next]_vars PROVE IInv'
    OBVIOUS
  <1>1. ASSUME NEW r \in Requests, NEW n \in 1..Capacity, NEW b \in 1..ByteCapacity,
               Admit(r, n, b)
        PROVE  IInv'
    BY <1>1, AdmitInv
  <1>2. ASSUME NEW r \in Requests, NEW s \in Sizes, AdmissionEnqueue(r, s)
        PROVE  IInv'
    BY <1>2, AdmissionEnqueueInv
  <1>3. ASSUME NEW r \in Requests, Release(r)
        PROVE  IInv'
    BY <1>3, ReleaseInv
  <1>4. CASE \/ \E r \in Requests : BarrierBegin(r)
             \/ \E w \in Waiters : WaitPass(w) \/ WaitCancel(w)
    BY <1>4, WaitInv
  <1>5. ASSUME NEW w \in Writers, NEW s \in Sizes, Enqueue(w, s)
        PROVE  IInv'
    BY <1>5, EnqueueInv
  <1>6. CASE Worker
    BY <1>6, WorkerMoveInv, WorkerWrittenInv, WorkerFailedInv DEF Worker
  <1>7. CASE ShutdownBegin \/ ShutdownReturn \/ ShutdownTimeout
    BY <1>7, ShutdownInv
  <1>8. CASE UNCHANGED vars
    BY <1>8 DEF IInv, TypeOK, CapacityRespected, Contiguous, WorkerInv, TicketInv,
       AdmissionInv, vars, queueVars
  <1>9. QED
    BY <1>1, <1>2, <1>3, <1>4, <1>5, <1>6, <1>7, <1>8 DEF Next

THEOREM Invariance == Spec => []IInv
  BY InitInv, NextInv, PTL DEF Spec

\* The queue's state is well typed in every behaviour.
THEOREM TypeCorrect == Spec => []TypeOK
  <1>1. IInv => TypeOK
    BY DEF IInv
  <1>2. QED  BY <1>1, Invariance, PTL

\* Slots and bytes stay within the two capacities, whatever mix of ordinary
\* and reserved commands the callers submit.
THEOREM CapacityTheorem == Spec => []CapacityRespected
  <1>1. IInv => CapacityRespected
    BY DEF IInv
  <1>2. QED  BY <1>1, Invariance, PTL

\* The answers of Wait and Barrier are true: nil means durable, the failure
\* means not durable.
THEOREM WaitTheorem == Spec => []WaitTruthful
  <1>1. IInv => WaitTruthful
    <2> SUFFICES ASSUME IInv, NEW w \in Waiters
                 PROVE  /\ wait[w].state = "ok" /\ wait[w].ticket # 0 =>
                              \E i \in DOMAIN written : written[i].sequence = wait[w].ticket
                        /\ wait[w].state = "failed" =>
                              ~ \E i \in DOMAIN written : written[i].sequence = wait[w].ticket
                        /\ wait[w].state # "unknown"
      BY DEF WaitTruthful
    <2>1. /\ wait[w].ticket \in Nat /\ completedSequence \in Nat
          /\ DOMAIN written = 1..completedSequence
          /\ \A i \in 1..completedSequence : written[i].sequence = i
      BY LenProperties DEF IInv, TypeOK, WaitRecord, Contiguous
    <2>2. QED  BY <2>1 DEF IInv, TicketInv
  <1>2. QED  BY <1>1, Invariance, PTL

LEMMA AccountedAlways == Spec => []Accounted
  <1>1. IInv /\ Accounted /\ [Next]_vars => Accounted'
    BY NextAccounted
  <1>2. QED
    BY <1>1, InitAccounted, Invariance, PTL DEF Spec

\* The queue's counters are the sums over its map and its slice, in every
\* behaviour and for any number of requests: no path of admitting, using,
\* releasing or writing leaks a slot or a byte.
THEOREM AccountingTheorem == Spec => []AccountingExact
  <1>1. IInv /\ Accounted => AccountingExact
    BY DEF IInv, AdmissionInv, Accounted, AccountingExact
  <1>2. QED
    BY <1>1, Invariance, AccountedAlways, PTL

\* Shutdown returns nil only when every accepted command is durable and none
\* can be accepted any more, not even through a reservation.
THEOREM DrainTheorem == Spec => []DrainedMeansDurable
  <1>1. Init => Ended
    BY DEF Init, Ended
  <1>2. IInv /\ Accounted /\ Ended /\ [Next]_vars => Ended'
    BY NextEnded
  <1>3. IInv /\ Accounted /\ Ended => DrainedMeansDurable
    <2> SUFFICES ASSUME IInv, Accounted, Ended, closing = "ok"
                 PROVE  /\ items = <<>> /\ ~accepting
                        /\ Len(written) = lastSequence
                        /\ \A r \in Requests : reservations[r].count = 0
      BY DEF DrainedMeansDurable, Ended
    <2>1. items = <<>> /\ ~accepting /\ reserved = 0
      BY DEF Ended, Drained
    <2>2. Len(items) = 0
      BY <2>1
    <2>3. lastSequence = completedSequence + Len(items) /\ Len(written) = completedSequence
      BY DEF IInv, Contiguous
    <2>4. completedSequence \in Nat
      BY DEF IInv, TypeOK
    <2>5. QED
      BY <2>1, <2>2, <2>3, <2>4, NothingHeld DEF IInv
  <1>4. QED
    BY <1>1, <1>2, <1>3, Invariance, AccountedAlways, PTL DEF Spec

\* Every step of the queue is a step of the write-behind log or leaves it
\* alone: accepted commands keep their order, the durable ones are a prefix
\* that grows by one, and the first failed write ends it.
THEOREM LogTheorem == Spec => Log!Safety
  BY InitLogged, NextLogged, Invariance, PTL DEF Spec, Log!Safety
============================================================================
