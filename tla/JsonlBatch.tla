----------------------------- MODULE JsonlBatch -----------------------------
(***************************************************************************)
(* The write-ahead-logged batch writer that every JSONL owner of CORE sits *)
(* on (internal/infrastructure/persistence/jsonlbatch): one transaction    *)
(* appends to several files, and a crash, a failed write or a failed fsync *)
(* anywhere in it leaves all of its appends or none.                       *)
(*                                                                         *)
(* A file is what readers find (mem, the page cache) and what is on stable *)
(* storage (disk); fsync makes them equal, and a crash leaves the disk     *)
(* content or a prefix of the unsynced rest, perhaps with a torn end; a    *)
(* change of a file's size to less is atomic.                              *)
(* One process at a time holds the OS lock, so there is one writer, `step' *)
(* is where it is, and a crash releases the lock.  An operation that fails *)
(* may have taken effect in mem: a crash in the middle of one is that      *)
(* failure followed by Crash.                                              *)
(*                                                                         *)
(* A Write's caller is told nil ("ok"), that recovery is required or the   *)
(* commit uncertain ("unknown"), or another error, which does not say      *)
(* whether the write was rolled back ("undone") or is committed and only   *)
(* its lock could not be released or closed ("unreported").                *)
(*                                                                         *)
(* A payload is its transaction's number.  The prefix hash and the offset  *)
(* of a prepare record are the content of the file before the append.      *)
(***************************************************************************)
EXTENDS Naturals, Sequences

CONSTANTS
    Files,      \* the data files of the store
    Threshold,  \* journalCheckpointBytesThreshold, in records
    MaxWrites   \* bound of the model: transactions begun

ASSUME JsonlBatchAssumption ==
    /\ Files # {}
    /\ Threshold \in Nat
    /\ MaxWrites \in Nat

VARIABLES
    wal,     \* the journal, .jsonlbatch.wal
    data,    \* the data files
    step,    \* where the holder of the lock is, "idle" when nobody holds it
    todo,    \* the files the current append or rollback loop has not reached
    writes   \* history: the files of each transaction and what its caller was told

vars == <<wal, data, step, todo, writes>>

Transactions == 1..MaxWrites
Block == [tx : Transactions, whole : BOOLEAN]
NoBase == [f \in Files |-> <<>>]
Record == [kind : {"prepare", "commit", "rollback"}, tx : Transactions, whole : BOOLEAN,
           files : SUBSET Files, base : [Files -> Seq(Block)]]
WriteRecord == [files : (SUBSET Files) \ {{}},
                outcome : {"running", "ok", "unreported", "undone", "unknown"}]

TypeOK ==
    /\ wal \in [mem : Seq(Record), disk : Seq(Record)]
    /\ data \in [Files -> [mem : Seq(Block), disk : Seq(Block)]]
    /\ step \in {"idle", "recover", "undo", "checkpoint", "prepare", "append"}
    /\ todo \subseteq Files
    /\ writes \in Seq(WriteRecord)
    /\ Len(writes) <= MaxWrites

Init ==
    /\ wal = [mem |-> <<>>, disk |-> <<>>]
    /\ data = [f \in Files |-> [mem |-> <<>>, disk |-> <<>>]]
    /\ step = "idle"
    /\ todo = {}
    /\ writes = <<>>
-----------------------------------------------------------------------------
(* Files.                                                                  *)

Synced(content) == [mem |-> content, disk |-> content]

Cut(x) == [x EXCEPT !.whole = FALSE]

\* What a failed append leaves in the page cache: nothing, a part, everything.
Attempts(content, x) == {content, Append(content, Cut(x)), Append(content, x)}

\* What a crash may leave of a file.
Survivors(file) ==
    LET mem == file.mem
        kept == {n \in 0..Len(mem) :
                   \A m \in 0..Len(file.disk) :
                       m <= Len(mem) /\ SubSeq(file.disk, 1, m) = SubSeq(mem, 1, m) => m <= n}
    IN  {file.disk}
          \cup {SubSeq(mem, 1, n) : n \in kept}
          \cup {Append(SubSeq(mem, 1, n), Cut(mem[n + 1])) : n \in kept \ {Len(mem)}}
-----------------------------------------------------------------------------
(* The journal, parseJournal.                                              *)

Torn(w) == w # <<>> /\ ~w[Len(w)].whole
Complete(w) == IF Torn(w) THEN SubSeq(w, 1, Len(w) - 1) ELSE w

\* The journal parses: every terminal record closes the prepare before it.
WellFormed(w) ==
    /\ w # <<>> => w[1].kind = "prepare"
    /\ \A i \in 2..Len(w) :
          IF w[i].kind = "prepare" THEN w[i - 1].kind # "prepare"
                                   ELSE w[i - 1].kind = "prepare" /\ w[i - 1].tx = w[i].tx

HasPending(w) == w # <<>> /\ w[Len(w)].kind = "prepare"
Pending(w) == w[Len(w)]

Settled(w) == ~Torn(w) /\ WellFormed(w) /\ ~HasPending(w)

Terminal(kind, t) ==
    [kind |-> kind, tx |-> t, whole |-> TRUE, files |-> {}, base |-> NoBase]
-----------------------------------------------------------------------------
(* The end of a Write.                                                     *)

Current == Len(writes)
Writing == writes # <<>> /\ writes[Current].outcome = "running"

\* The lock is released and the caller of the current Write, if any, told.
Return(outcome) ==
    /\ step' = "idle"
    /\ todo' = {}
    /\ writes' = IF Writing THEN [writes EXCEPT ![Current].outcome = outcome] ELSE writes

\* The error of unlocking or closing the lock file is joined to the answer: an
\* error stays the error it was, a committed Write is reported as a failed one.
ReturnCommitted == Return("ok") \/ Return("unreported")

\* The loop of the next part of the operation.
Enter(s, fs) == step' = s /\ todo' = fs /\ UNCHANGED writes
-----------------------------------------------------------------------------
(* Recovery, recoverLocked.                                                *)

Begin ==
    /\ step = "idle"
    /\ Enter("recover", {})
    /\ UNCHANGED <<wal, data>>

\* The caller's context has ended, its callback wrote nothing or failed, or a
\* file could not be read: nothing has been prepared.
GiveUp ==
    /\ step \in {"recover", "checkpoint", "prepare"}
    /\ Return("unknown")
    /\ UNCHANGED <<wal, data>>

RepairTorn ==
    /\ step = "recover"
    /\ Torn(wal.mem) /\ WellFormed(Complete(wal.mem))
    /\ \/ /\ wal' = Synced(Complete(wal.mem))
          /\ UNCHANGED <<step, todo, writes>>
       \/ /\ wal' \in {wal, [wal EXCEPT !.mem = Complete(wal.mem)]}
          /\ Return("unknown")
    /\ UNCHANGED data

\* Variant: a pending prepare is taken for history.
RecoverDecideIgnoringPending ==
    /\ step = "recover"
    /\ ~Torn(wal.mem)
    /\ IF WellFormed(wal.mem) THEN Enter("checkpoint", {}) ELSE Return("unknown")
    /\ UNCHANGED <<wal, data>>

\* The journal is refused, or has a transaction to undo, or is settled.
RecoverDecide ==
    /\ step = "recover"
    /\ \/ ~WellFormed(Complete(wal.mem)) /\ Return("unknown")
       \/ /\ ~Torn(wal.mem) /\ WellFormed(wal.mem) /\ HasPending(wal.mem)
          /\ Enter("undo", Pending(wal.mem).files)
       \/ Settled(wal.mem) /\ Enter("checkpoint", {})
    /\ UNCHANGED <<wal, data>>

\* A file holds the prepared prefix and at most the prepared payload.
Undoable(f, p) ==
    \/ data[f].mem = p.base[f]
    \/ \E w \in BOOLEAN : data[f].mem = Append(p.base[f], [tx |-> p.tx, whole |-> w])

\* Variant: the truncated file is not synced.
UndoUnsynced(f) ==
    /\ step = "undo" /\ f \in todo
    /\ Undoable(f, Pending(wal.mem))
    /\ data' = [data EXCEPT ![f].mem = Pending(wal.mem).base[f]]
    /\ Enter("undo", todo \ {f})
    /\ UNCHANGED wal

\* rollbackRecord, one file: checked, truncated and synced.
Undo(f) ==
    /\ step = "undo" /\ f \in todo
    /\ \/ /\ Undoable(f, Pending(wal.mem))
          /\ data' = [data EXCEPT ![f] = Synced(Pending(wal.mem).base[f])]
          /\ Enter("undo", todo \ {f})
       \/ /\ Undoable(f, Pending(wal.mem))
          /\ data' = [data EXCEPT ![f].mem = Pending(wal.mem).base[f]]
          /\ Return("unknown")
       \/ UNCHANGED data /\ Return("unknown")
    /\ UNCHANGED wal

\* The rollback record closes the undone transaction: recovery goes on, a
\* Write returns the error it rolled back for.
UndoDone ==
    LET rollback == Terminal("rollback", Pending(wal.mem).tx)
    IN  /\ step = "undo" /\ todo = {}
        /\ \/ /\ wal' = Synced(Append(wal.mem, rollback))
              /\ IF Writing THEN Return("undone") ELSE Enter("checkpoint", {})
           \/ /\ \E w \in Attempts(wal.mem, rollback) : wal' = [wal EXCEPT !.mem = w]
              /\ Return("unknown")
        /\ UNCHANGED data

\* checkpointJournalIfSettled.
Checkpoint ==
    /\ step = "checkpoint"
    /\ \/ /\ Len(wal.mem) <= Threshold
          /\ UNCHANGED wal
          /\ Enter("prepare", {})
       \/ /\ Len(wal.mem) > Threshold
          /\ wal' = Synced(<<>>)
          /\ Enter("prepare", {})
       \/ /\ Len(wal.mem) > Threshold
          /\ wal' \in {wal, [wal EXCEPT !.mem = <<>>]}
          /\ Return("unknown")
    /\ UNCHANGED data
-----------------------------------------------------------------------------
(* A transaction, Write.                                                   *)

PrepareRecord(fs) ==
    [kind |-> "prepare", tx |-> Current + 1, whole |-> TRUE, files |-> fs,
     base |-> [f \in Files |-> IF f \in fs THEN data[f].mem ELSE <<>>]]

\* Variant: an empty set of payloads is prepared like any other.
PrepareEmpty(fs) ==
    /\ step = "prepare"
    /\ Current < MaxWrites
    /\ wal' = Synced(Append(wal.mem, PrepareRecord(fs \ fs)))
    /\ writes' = Append(writes, [files |-> fs \ fs, outcome |-> "running"])
    /\ step' = "append" /\ todo' = {}
    /\ UNCHANGED data

\* The prepare record is durable before any append it describes.
Prepare(fs) ==
    /\ step = "prepare"
    /\ Current < MaxWrites
    /\ \/ /\ wal' = Synced(Append(wal.mem, PrepareRecord(fs)))
          /\ writes' = Append(writes, [files |-> fs, outcome |-> "running"])
          /\ step' = "append" /\ todo' = fs
       \/ /\ \E w \in Attempts(wal.mem, PrepareRecord(fs)) : wal' = [wal EXCEPT !.mem = w]
          /\ writes' = Append(writes, [files |-> fs, outcome |-> "unknown"])
          /\ step' = "idle" /\ todo' = {}
    /\ UNCHANGED data

Payload == [tx |-> Current, whole |-> TRUE]

\* appendPrepared: a failed append, or an ended context, rolls back.  The code
\* goes through the files by name; any order is allowed here and in Undo.
AppendFile(f) ==
    /\ step = "append" /\ f \in todo
    /\ \/ /\ data' = [data EXCEPT ![f] = Synced(Append(data[f].mem, Payload))]
          /\ Enter("append", todo \ {f})
       \/ /\ \E c \in Attempts(data[f].mem, Payload) : data' = [data EXCEPT ![f].mem = c]
          /\ Enter("undo", writes[Current].files)
    /\ UNCHANGED wal

\* Variant: the commit record is not synced.
CommitUnsynced ==
    /\ step = "append" /\ todo = {}
    /\ wal' = [wal EXCEPT !.mem = Append(wal.mem, Terminal("commit", Current))]
    /\ ReturnCommitted
    /\ UNCHANGED data

\* The commit record: durable, uncertain, or not tried as the context ended.
Commit ==
    /\ step = "append" /\ todo = {}
    /\ \/ /\ wal' = Synced(Append(wal.mem, Terminal("commit", Current)))
          /\ ReturnCommitted
       \/ /\ \E w \in Attempts(wal.mem, Terminal("commit", Current)) :
                wal' = [wal EXCEPT !.mem = w]
          /\ Return("unknown")
       \/ /\ Enter("undo", writes[Current].files)
          /\ UNCHANGED wal
    /\ UNCHANGED data
-----------------------------------------------------------------------------
Crash ==
    /\ \E w \in Survivors(wal) : wal' = Synced(w)
    /\ data' \in [Files -> UNION {{Synced(c) : c \in Survivors(data[f])} : f \in Files}]
    /\ \A f \in Files : data'[f].mem \in Survivors(data[f])
    /\ Return("unknown")

Next ==
    \/ Begin \/ GiveUp
    \/ RepairTorn \/ RecoverDecide \/ UndoDone \/ Checkpoint
    \/ \E fs \in (SUBSET Files) \ {{}} : Prepare(fs)
    \/ \E f \in Files : Undo(f) \/ AppendFile(f)
    \/ Commit
    \/ Crash

Spec == Init /\ [][Next]_vars
-----------------------------------------------------------------------------
(* Properties.                                                             *)

Holds(content, t) == \E i \in DOMAIN content : content[i] = [tx |-> t, whole |-> TRUE]

\* The outcomes of a Write whose commit record was synced.
Confirmed == {"ok", "unreported"}

\* A Write that returned nil, or failed only on its lock after the commit, is
\* whole in all of its files, on stable storage too, whatever fails or crashes
\* later.
AcknowledgedDurable ==
    \A t \in DOMAIN writes :
        writes[t].outcome \in Confirmed =>
            \A f \in writes[t].files : Holds(data[f].mem, t) /\ Holds(data[f].disk, t)

\* Recovery is never refused: the journal parses, and each file of a pending
\* transaction is inside its prepared range, so the store is never stuck on
\* ErrRecoveryRequired.
RecoveryApplies ==
    LET w == Complete(wal.mem)
    IN  /\ WellFormed(w)
        /\ HasPending(w) => \A f \in Pending(w).files : Undoable(f, Pending(w))

\* What readers are shown: a pending transaction's files without it.
Visible(f) ==
    LET w == Complete(wal.mem)
    IN  IF HasPending(w) /\ f \in Pending(w).files THEN Pending(w).base[f]
                                                         ELSE data[f].mem

\* The batch writer implements atomic files: a transaction appears in all of
\* its files or in none, in the order begun; one whose error asks neither for
\* recovery nor reports an uncertain commit is settled, kept for good or rolled
\* back for good, though the error does not tell which.
Atomic == INSTANCE AtomicFiles WITH
            contents <- [f \in Files |-> [i \in DOMAIN Visible(f) |-> Visible(f)[i].tx]],
            kept     <- {t \in DOMAIN writes : writes[t].outcome \in Confirmed},
            undone   <- {t \in DOMAIN writes : writes[t].outcome = "undone"}
ImplementsAtomicFiles == Atomic!Spec
=============================================================================
