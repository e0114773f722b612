-------------------------------- MODULE Wal --------------------------------
(***************************************************************************)
(* The write-ahead log of the Loki backend's batch mode                    *)
(* (internal/storage/loki/wal.go): the two files, wal.log and wal.ckpt,    *)
(* and the wal struct of the running process, through crashes, restarts    *)
(* and the errors of every file operation.  Every method holds w.mu, so    *)
(* each is one action; a crash in the middle of a method that writes is an *)
(* action of its own.                                                      *)
(*                                                                         *)
(* The log is the SET of records readRecords would return.  The order of   *)
(* the file is the order of seq and nothing in wal.go depends on it; what  *)
(* does matter, that a torn frame hides every record behind it, is `torn'. *)
(* A length is counted in records.                                         *)
(*                                                                         *)
(* The users of the log (batch.go) are seen through two ghosts: `held',    *)
(* the records whose outcome the pipeline still owes, and `status', what   *)
(* the client was told about each entry and whether it got its outcome.    *)
(***************************************************************************)
EXTENDS Naturals, FiniteSets

CONSTANTS
    Entries,    \* one per call of append; a retry by the client is a new entry
    CompactAt,  \* walCompactBytes, in records
    Faults      \* which calls may fail, and how

AllFaults == {"torn-by-crash",   \* a crash cuts the frame append is writing
              "short-write",     \* Write fails after part of the frame
              "sync-error",      \* Write succeeds, Sync fails
              "ckpt-error",      \* writeCheckpoint fails
              "compact-error",   \* some call of compactLocked fails
              "abandon"}         \* a caller forgets a record without ack

ASSUME ConstantsAssumption ==
    /\ CompactAt \in Nat
    /\ Faults \subseteq AllFaults
    /\ IsFiniteSet(Entries)

VARIABLES
    log,        \* wal.log: the records that can be read back
    torn,       \* wal.log: ends its readable part in a broken frame
    ckptFile,   \* wal.ckpt: the persisted checkpoint (0: no file)
    f,          \* w.f: "none" no process, "open", "broken" closed but not nil, "nil"
    size,       \* w.size
    seq,        \* w.seq: last sequence number handed out
    checkpoint, \* w.checkpoint
    acked,      \* w.acked: acks above the checkpoint, awaiting contiguity
    pending,    \* w.pending
    held,       \* ghost: records in the pipeline, without an outcome yet
    status      \* ghost: what became of each entry

disk   == <<log, torn, ckptFile>>
memory == <<f, size, seq, checkpoint, acked, pending>>
vars   == <<disk, memory, held, status>>

Record == [seq : Nat \ {0}, entry : Entries]
Seqs(R) == {r.seq : r \in R}
Up == f # "none"

Init ==
    /\ log = {} /\ torn = FALSE /\ ckptFile = 0
    /\ f = "none" /\ size = 0 /\ seq = 0 /\ checkpoint = 0
    /\ acked = {} /\ pending = {} /\ held = {}
    /\ status = [e \in Entries |-> "new"]

\* The process is gone and with it the wal struct and the pipeline.
LoseMemory ==
    /\ f' = "none" /\ size' = 0 /\ seq' = 0 /\ checkpoint' = 0
    /\ acked' = {} /\ pending' = {} /\ held' = {}

-----------------------------------------------------------------------------
\* Mutant: openWAL does not load the checkpoint into the struct.
OpenWALIgnoringCheckpoint ==
    /\ f = "none"
    /\ f' = "open"
    /\ size' = Cardinality(log)
    /\ \E last \in {0} \cup Seqs(log) :
          /\ \A s \in Seqs(log) : s <= last
          /\ seq' = last
    /\ checkpoint' = 0
    /\ acked' = {}
    /\ pending' = {r \in log : r.seq > ckptFile}
    /\ UNCHANGED <<disk, held, status>>

\* openWAL: the sequence continues from the largest readable record.
OpenWAL ==
    /\ f = "none"
    /\ f' = "open"
    /\ size' = Cardinality(log)
    /\ \E last \in {0} \cup Seqs(log) :
          /\ \A s \in Seqs(log) : s <= last
          /\ seq' = last
    /\ checkpoint' = ckptFile
    /\ acked' = {}
    /\ pending' = {r \in log : r.seq > ckptFile}
    /\ UNCHANGED <<disk, held, status>>

\* recover: the records to replay leave the struct for the pipeline.
Recover ==
    /\ Up /\ pending # {}
    /\ held' = held \cup pending
    /\ pending' = {}
    /\ UNCHANGED <<disk, f, size, seq, checkpoint, acked, status>>

-----------------------------------------------------------------------------
\* The log once a whole frame has been written: behind a torn frame the
\* record is on disk but no reader gets to it.
Logged(r) == IF torn THEN log ELSE log \cup {r}

NextRecord(e) == [seq |-> seq + 1, entry |-> e]

\* append that returns a sequence number; the caller now holds the record.
Append(e) ==
    /\ f = "open" /\ status[e] = "new"
    /\ log' = Logged(NextRecord(e))
    /\ seq' = seq + 1
    /\ size' = size + 1
    /\ held' = held \cup {NextRecord(e)}
    /\ status' = [status EXCEPT ![e] = "accepted"]
    /\ UNCHANGED <<torn, ckptFile, f, checkpoint, acked, pending>>

\* Mutant: a refused append takes back a number that was never taken.
AppendRefusedTakesBack(e) ==
    /\ Up /\ status[e] = "new"
    /\ seq' = seq - 1
    /\ status' = [status EXCEPT ![e] = "rejected"]
    /\ UNCHANGED <<disk, f, size, checkpoint, acked, pending, held>>

\* append that writes nothing: no handle, a closed one, a record that does not
\* marshal or is too large.
AppendRefused(e) ==
    /\ Up /\ status[e] = "new"
    /\ status' = [status EXCEPT ![e] = "rejected"]
    /\ UNCHANGED <<disk, memory, held>>

\* append whose Write fails half-way: seq is taken back, the bytes stay.
AppendShortWrite(e) ==
    /\ "short-write" \in Faults
    /\ f = "open" /\ status[e] = "new"
    /\ torn' = TRUE
    /\ status' = [status EXCEPT ![e] = "rejected"]
    /\ UNCHANGED <<log, ckptFile, memory, held>>

\* Mutant: a failed Sync does not take its sequence number back.
AppendSyncErrorKeepsSeq(e) ==
    /\ "sync-error" \in Faults
    /\ f = "open" /\ status[e] = "new"
    /\ log' = Logged(NextRecord(e))
    /\ seq' = seq + 1
    /\ status' = [status EXCEPT ![e] = "rejected"]
    /\ UNCHANGED <<torn, ckptFile, f, size, checkpoint, acked, pending, held>>

\* append whose Sync fails: seq is taken back, the whole frame stays.
AppendSyncError(e) ==
    /\ "sync-error" \in Faults
    /\ f = "open" /\ status[e] = "new"
    /\ log' = Logged(NextRecord(e))
    /\ status' = [status EXCEPT ![e] = "rejected"]
    /\ UNCHANGED <<torn, ckptFile, memory, held>>

\* A crash inside append, before the client has an answer: the frame is
\* complete, or (a fault) cut short.
CrashInAppend(e) ==
    /\ f = "open" /\ status[e] = "new"
    /\ \/ log' = Logged(NextRecord(e)) /\ UNCHANGED torn
       \/ "torn-by-crash" \in Faults /\ torn' = TRUE /\ UNCHANGED log
    /\ status' = [status EXCEPT ![e] = "unknown"]
    /\ LoseMemory
    /\ UNCHANGED ckptFile

-----------------------------------------------------------------------------
\* Mutant: compaction also drops the first record past the checkpoint.
CompactOneTooMany(n) ==
    /\ f = "open"
    /\ log' = {r \in log : r.seq > n + 1}
    /\ torn' = FALSE
    /\ size' = Cardinality({r \in log : r.seq > n + 1})
    /\ UNCHANGED f

\* compactLocked, called with the checkpoint at n.
CompactOK(n) ==
    /\ f = "open"
    /\ log' = {r \in log : r.seq > n}
    /\ torn' = FALSE
    /\ size' = Cardinality({r \in log : r.seq > n})
    /\ UNCHANGED f

\* Nothing to compact with: the handle is nil.
CompactNoHandle ==
    /\ f = "nil"
    /\ UNCHANGED <<log, torn, f, size>>

\* Creating, writing or syncing wal.log.compact fails: the log is as before.
CompactTempError ==
    /\ "compact-error" \in Faults /\ f \in {"open", "broken"}
    /\ UNCHANGED <<log, torn, f, size>>

\* Closing the old handle fails: w.f stays non-nil and is closed for good.
CompactCloseError ==
    /\ \/ "compact-error" \in Faults /\ f = "open"
       \/ f = "broken"
    /\ f' = "broken"
    /\ UNCHANGED <<log, torn, size>>

\* The rename fails, or it succeeds and reopening the log fails.
CompactSwapError(n) ==
    /\ "compact-error" \in Faults /\ f = "open"
    /\ f' = "nil"
    /\ \/ UNCHANGED <<log, torn>>
       \/ log' = {r \in log : r.seq > n} /\ torn' = FALSE
    /\ UNCHANGED size

CompactLocked(n) ==
    \/ CompactOK(n)
    \/ CompactNoHandle
    \/ CompactTempError
    \/ CompactCloseError
    \/ CompactSwapError(n)

\* The acks known once S is acknowledged, and the end of their contiguous run.
AckedWith(S) == acked \cup {s \in Seqs(S) : s > checkpoint}

\* Mutant: the checkpoint jumps over records that are not acked yet.
IsAdvanceWithGaps(n, new) ==
    /\ n \in {checkpoint} \cup new
    /\ checkpoint <= n
    /\ n + 1 \notin new

\* Mutant: one ack moves the checkpoint by one record at most.
IsAdvanceByOne(n, new) ==
    /\ n = (IF checkpoint + 1 \in new THEN checkpoint + 1 ELSE checkpoint)

IsAdvance(n, new) ==
    /\ n \in {checkpoint} \cup new
    /\ checkpoint <= n
    /\ (checkpoint + 1)..n \subseteq new
    /\ n + 1 \notin new

\* What ack leaves on disk and in the handle when the checkpoint moves to n.
Persist(n) ==
    \/ /\ n = checkpoint
       /\ UNCHANGED <<disk, f, size>>
    \/ /\ n > checkpoint
       /\ "ckpt-error" \in Faults
       /\ UNCHANGED <<disk, f, size>>
    \/ /\ n > checkpoint
       /\ ckptFile' = n
       /\ IF size > CompactAt
          THEN CompactLocked(n)
          ELSE UNCHANGED <<log, torn, f, size>>

Settle(S) ==
    status' = [e \in Entries |->
                 IF \E r \in S : r.entry = e THEN "settled" ELSE status[e]]

\* ack of a batch that reached its outcome (or of an alert dropped because the
\* queue was full).  It works on a closed log too: only the handle is gone.
Ack(S) ==
    /\ Up /\ S # {}
    /\ \E n \in {checkpoint} \cup AckedWith(S) :
          /\ IsAdvance(n, AckedWith(S))
          /\ checkpoint' = n
          /\ acked' = AckedWith(S) \ ((checkpoint + 1)..n)
          /\ Persist(n)
    /\ held' = held \ S
    /\ Settle(S)
    /\ UNCHANGED <<seq, pending>>

\* A crash inside ack after the checkpoint file was renamed into place and
\* before the compacted log was.
CrashInAck(S) ==
    /\ Up /\ S # {}
    /\ \E n \in {checkpoint} \cup AckedWith(S) :
          /\ IsAdvance(n, AckedWith(S))
          /\ n > checkpoint
          /\ ckptFile' = n
    /\ Settle(S)
    /\ LoseMemory
    /\ UNCHANGED <<log, torn>>

\* The pipeline drops records without acknowledging them: enqueue when the save
\* context ends first (its client gets an error), replay on stopCh.
Abandon(R) ==
    /\ "abandon" \in Faults
    /\ Up /\ R # {}
    /\ held' = held \ R
    /\ \/ status' = [e \in Entries |->
                       IF \E r \in R : r.entry = e THEN "unknown" ELSE status[e]]
       \/ UNCHANGED status
    /\ UNCHANGED <<disk, memory>>

\* close: the struct stays, late acks still reach the checkpoint file.
CloseWAL ==
    /\ f \in {"open", "broken"}
    /\ f' = "nil"
    /\ size' = 0
    /\ UNCHANGED <<disk, seq, checkpoint, acked, pending, held, status>>

\* The process exits or is killed between two calls.
Crash ==
    /\ Up
    /\ LoseMemory
    /\ UNCHANGED <<disk, status>>

-----------------------------------------------------------------------------
AppendStep(e) ==
    \/ Append(e)
    \/ AppendRefused(e)
    \/ AppendShortWrite(e)
    \/ AppendSyncError(e)
    \/ CrashInAppend(e)

AckStep(S) == Ack(S) \/ CrashInAck(S)

Next ==
    \/ OpenWAL
    \/ Recover
    \/ \E e \in Entries : AppendStep(e)
    \/ \E S \in SUBSET held : AckStep(S)
    \/ \E R \in SUBSET held : Abandon(R)
    \/ CloseWAL
    \/ Crash

Spec == Init /\ [][Next]_vars

\* The three circumstances in which the log of this code does lose an accepted
\* record: it was written behind a torn frame, shares its sequence number with
\* another, or was numbered from a sequence that restarted below the checkpoint.
Sound ==
    /\ held \subseteq log
    /\ \A r1, r2 \in log : r1.seq = r2.seq => r1 = r2
    /\ Up => checkpoint <= seq

\* The behaviours of Spec in which none of them arises.
SoundSpec == Init /\ [][Next /\ Sound']_vars

-----------------------------------------------------------------------------
(* Correctness *)

\* The type of every variable; the handle of a dead process holds nothing.
TypeOK ==
    /\ log \subseteq Record /\ IsFiniteSet(log)
    /\ torn \in BOOLEAN
    /\ ckptFile \in Nat
    /\ f \in {"none", "open", "broken", "nil"}
    /\ size \in Nat /\ seq \in Nat /\ checkpoint \in Nat
    /\ acked \subseteq Nat
    /\ pending \subseteq Record /\ held \subseteq Record
    /\ status \in [Entries -> {"new", "accepted", "rejected", "unknown", "settled"}]

\* wal.go:123-124, "a crash cannot lose an accepted alert": until its outcome
\* is known, an accepted entry has a readable record past the persisted
\* checkpoint, so whatever happens next an openWAL finds it to replay.
Durable ==
    \A e \in Entries : status[e] = "accepted" =>
        \E r \in log : r.entry = e /\ r.seq > ckptFile

\* wal.go:154-157, sequence numbers are kept gap-free so that the contiguous
\* checkpoint cannot stall: every number between the checkpoint and the last
\* one handed out is acked, or some record that will be acked carries it.
NoStall ==
    Up => \A s \in (checkpoint + 1)..seq :
              s \in acked \/ s \in Seqs(held \cup pending)

\* wal.go:20-25, a record is forgotten once it has its outcome: with an empty
\* pipeline, a process has settled every record of the log, or it is the frame
\* of an entry whose client was told that it failed.
NothingLeftToSettle ==
    (Up /\ held \cup pending = {}) =>
        \A r \in log : r.seq <= checkpoint \/ status[r.entry] = "rejected"

\* wal.go:23-24, a record is only forgotten once its batch reached its outcome:
\* no step takes a readable record of an unsettled entry off the disk.
ForgetsOnlySettled ==
    [][\A r \in log \ log' : status'[r.entry] = "settled"]_vars

\* Whatever fails, in any order: the checkpoint file never moves back, and a
\* readable record leaves the disk only once that file covers it.
DiskNeverRegresses ==
    [][ckptFile' >= ckptFile /\ \A r \in log \ log' : r.seq <= ckptFile']_vars

=============================================================================
