---------------------------- MODULE AtomicFiles ----------------------------
(***************************************************************************)
(* What the owners of several append-only files are promised by the batch  *)
(* writer (internal/infrastructure/persistence/jsonlbatch): one write adds *)
(* to all of its files at once; once settled it stays for good or is       *)
(* undone for good; and only the last write can be taken back before that. *)
(***************************************************************************)
EXTENDS Integers, Sequences

CONSTANTS
    Files,
    Transactions   \* the names writes may have

VARIABLES
    contents,   \* the writes each file shows to readers, in order
    kept,       \* the writes settled as committed
    undone      \* the writes settled as rolled back

vars == <<contents, kept, undone>>

Shown == UNION {{contents[f][i] : i \in DOMAIN contents[f]} : f \in Files}

Init == contents = [f \in Files |-> <<>>] /\ kept = {} /\ undone = {}

\* A write becomes visible in all of its files, settled or still uncertain.
Commit ==
    \E t \in Transactions \ (Shown \cup undone), fs \in (SUBSET Files) \ {{}} :
        /\ contents' = [f \in Files |-> IF f \in fs THEN Append(contents[f], t)
                                                   ELSE contents[f]]
        /\ kept' \in {kept, kept \cup {t}}
        /\ UNCHANGED undone

\* The last element of a file, if it is the write t, is taken off.
Without(f, t) ==
    LET c == contents[f]
    IN  IF c # <<>> /\ c[Len(c)] = t THEN SubSeq(c, 1, Len(c) - 1) ELSE c

\* A crash may take back a write that is not settled, from all of its files, and
\* only the last one.
Lose ==
    \E t \in Shown \ kept :
        /\ \A f \in Files : \A i \in DOMAIN contents[f] :
              contents[f][i] = t => i = Len(contents[f])
        /\ contents' = [f \in Files |-> Without(f, t)]
        /\ UNCHANGED <<kept, undone>>

\* A write that readers do not see is rolled back, and will never be seen.
Undo ==
    \E t \in Transactions \ (Shown \cup undone) :
        /\ undone' = undone \cup {t}
        /\ UNCHANGED <<contents, kept>>

Next == Commit \/ Lose \/ Undo

Spec == Init /\ [][Next]_vars
=============================================================================
