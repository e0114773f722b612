----------------------------- MODULE WalProofs -----------------------------
(***************************************************************************)
(* Theorems about Wal for every set of entries, every compaction           *)
(* threshold and every set of faults.                                      *)
(*                                                                         *)
(* Durable is not inductive: it says nothing of the records the pipeline   *)
(* holds nor of the acks in memory, and an ack of a record in the pipeline *)
(* is what moves the checkpoint.  IInv adds what relates the three: the    *)
(* pipeline is on disk above the checkpoint, and whatever an ack already   *)
(* covers is settled.                                                      *)
(***************************************************************************)
EXTENDS Wal, TLAPS, FiniteSetTheorems

\* Every record in the pipeline can be read back, lies past the in-memory
\* checkpoint and is not acked.
PipelineOnDisk ==
    /\ \A r \in held \cup pending :
          r \in log /\ checkpoint < r.seq /\ r.seq <= seq /\ r.seq \notin acked
    /\ held \cap pending = {}

\* No number is acked that was not handed out.
AckedHandedOut == \A s \in acked : s <= seq

\* What the persisted or the in-memory checkpoint covers, or an ack waiting for
\* contiguity, has its outcome.
CoveredSettled ==
    \A r \in log :
        \/ r.seq <= ckptFile
        \/ Up /\ (r.seq <= checkpoint \/ r.seq \in acked)
        => status[r.entry] = "settled"

FileBehindMemory == Up => ckptFile <= checkpoint

\* A dead process holds no records and no acks.
DeadHoldsNothing == ~Up => held = {} /\ pending = {} /\ acked = {}

\* An entry has at most one readable record, none before it is appended, and
\* one while it is accepted.
EntryRecords ==
    /\ \A r1, r2 \in log : r1.entry = r2.entry => r1 = r2
    /\ \A r \in log : status[r.entry] # "new"
    /\ \A e \in Entries : status[e] = "accepted" => \E r \in log : r.entry = e

IInv ==
    /\ TypeOK
    /\ Sound
    /\ PipelineOnDisk
    /\ AckedHandedOut
    /\ CoveredSettled
    /\ FileBehindMemory
    /\ DeadHoldsNothing
    /\ EntryRecords

-----------------------------------------------------------------------------
(* Lemmas about the helpers *)

\* The end of a contiguous run is a number, and not below the checkpoint.
LEMMA AdvanceType ==
    ASSUME TypeOK, NEW S \in SUBSET held, NEW n, IsAdvance(n, AckedWith(S))
    PROVE  /\ AckedWith(S) \subseteq Nat
           /\ n \in Nat /\ checkpoint <= n
           /\ (checkpoint + 1)..n \subseteq AckedWith(S)
<1>1. AckedWith(S) \subseteq Nat
  BY DEF TypeOK, AckedWith, Seqs, Record
<1> QED
  BY <1>1 DEF TypeOK, IsAdvance

\* Whatever fails while the checkpoint moves to n, the file holds the old
\* checkpoint or n, and the log loses nothing the file does not cover.
LEMMA PersistEffect ==
    ASSUME TypeOK, Up, NEW n \in Nat, checkpoint <= n, Persist(n)
    PROVE  /\ f' \in {"open", "broken", "nil"}
           /\ size' \in Nat
           /\ torn' \in {torn, FALSE}
           /\ \/ ckptFile' = ckptFile /\ log' = log
              \/ /\ ckptFile' = n /\ n > checkpoint
                 /\ log' \in {log, {r \in log : r.seq > n}}
<1>1. CASE n = checkpoint /\ UNCHANGED <<disk, f, size>>
  BY <1>1 DEF TypeOK, Up, disk
<1>2. CASE n > checkpoint /\ UNCHANGED <<disk, f, size>>
  BY <1>2 DEF TypeOK, Up, disk
<1>3. CASE /\ n > checkpoint /\ ckptFile' = n
           /\ UNCHANGED <<log, torn, f, size>>
  BY <1>3 DEF TypeOK, Up
<1>4. CASE n > checkpoint /\ ckptFile' = n /\ CompactLocked(n)
  <2>1. CASE CompactOK(n)
    <3>1. IsFiniteSet({r \in log : r.seq > n})
      BY FS_Subset DEF TypeOK
    <3>2. size' \in Nat
      BY <2>1, <3>1, FS_CardinalityType DEF CompactOK
    <3> QED
      BY <1>4, <2>1, <3>2 DEF CompactOK
  <2>2. CASE CompactNoHandle
    BY <1>4, <2>2 DEF CompactNoHandle, TypeOK
  <2>3. CASE CompactTempError
    BY <1>4, <2>3 DEF CompactTempError, TypeOK
  <2>4. CASE CompactCloseError
    BY <1>4, <2>4 DEF CompactCloseError, TypeOK
  <2>5. CASE CompactSwapError(n)
    BY <1>4, <2>5 DEF CompactSwapError, TypeOK
  <2> QED
    BY <1>4, <2>1, <2>2, <2>3, <2>4, <2>5 DEF CompactLocked
<1> QED
  BY <1>1, <1>2, <1>3, <1>4 DEF Persist

\* What is left of the log after an ack is still a finite set of records.
LEMMA PersistType ==
    ASSUME TypeOK, Up, NEW n \in Nat, checkpoint <= n, Persist(n)
    PROVE  /\ log' \subseteq Record /\ IsFiniteSet(log')
           /\ torn' \in BOOLEAN /\ ckptFile' \in Nat
           /\ f' \in {"open", "broken", "nil"} /\ size' \in Nat
<1>1. PICK L \in SUBSET log : log' = L
  BY PersistEffect
<1>2. IsFiniteSet(log')
  BY <1>1, FS_Subset DEF TypeOK
<1> QED
  BY <1>1, <1>2, PersistEffect DEF TypeOK

\* The log after a whole frame was written.
LEMMA LoggedType ==
    ASSUME TypeOK, NEW e \in Entries
    PROVE  /\ NextRecord(e) \in Record
           /\ Logged(NextRecord(e)) \subseteq Record
           /\ IsFiniteSet(Logged(NextRecord(e)))
<1>1. NextRecord(e) \in Record
  BY DEF TypeOK, NextRecord, Record
<1>2. IsFiniteSet(log \cup {NextRecord(e)})
  BY FS_AddElement DEF TypeOK
<1> QED
  BY <1>1, <1>2 DEF TypeOK, Logged

-----------------------------------------------------------------------------
(* Type correctness *)

LEMMA TypeInit == Init => TypeOK
<1> SUFFICES ASSUME Init PROVE TypeOK
  OBVIOUS
<1>1. log \subseteq Record /\ IsFiniteSet(log) /\ torn \in BOOLEAN
  BY FS_EmptySet, Zenon DEF Init
<1>2. status \in [Entries -> {"new", "accepted", "rejected", "unknown", "settled"}]
  BY DEF Init
<1> QED
  BY <1>1, <1>2 DEF Init, TypeOK

LEMMA TypeStep == TypeOK /\ [Next]_vars => TypeOK'
<1> SUFFICES ASSUME TypeOK, [Next]_vars
             PROVE  TypeOK'
  OBVIOUS
<1>1. CASE OpenWAL
  <2>1. size' \in Nat
    BY <1>1, FS_CardinalityType DEF OpenWAL, TypeOK
  <2>2. seq' \in Nat
    BY <1>1 DEF OpenWAL, TypeOK, Seqs, Record
  <2> QED
    BY <1>1, <2>1, <2>2 DEF OpenWAL, TypeOK, disk
<1>2. CASE Recover
  BY <1>2 DEF Recover, TypeOK, disk
<1>3. ASSUME NEW e \in Entries, AppendStep(e)
      PROVE  TypeOK'
  <2>1. CASE Append(e)
    BY <2>1, LoggedType DEF Append, TypeOK
  <2>2. CASE AppendRefused(e)
    BY <2>2 DEF AppendRefused, TypeOK, disk, memory
  <2>3. CASE AppendShortWrite(e)
    BY <2>3 DEF AppendShortWrite, TypeOK, memory
  <2>4. CASE AppendSyncError(e)
    BY <2>4, LoggedType DEF AppendSyncError, TypeOK, memory
  <2>5. CASE CrashInAppend(e)
    BY <2>5, LoggedType DEF CrashInAppend, LoseMemory, TypeOK
  <2> QED
    BY <1>3, <2>1, <2>2, <2>3, <2>4, <2>5 DEF AppendStep
<1>4. ASSUME NEW S \in SUBSET held, AckStep(S)
      PROVE  TypeOK'
  <2>0. Settle(S) =>
          status' \in [Entries -> {"new", "accepted", "rejected", "unknown", "settled"}]
    BY DEF TypeOK, Settle
  <2>1. CASE Ack(S)
    <3>1. PICK n \in {checkpoint} \cup AckedWith(S) :
             /\ IsAdvance(n, AckedWith(S))
             /\ checkpoint' = n
             /\ acked' = AckedWith(S) \ ((checkpoint + 1)..n)
             /\ Persist(n)
      BY <2>1 DEF Ack
    <3>2. n \in Nat /\ checkpoint <= n /\ AckedWith(S) \subseteq Nat
      BY <3>1, AdvanceType
    <3>3. Up
      BY <2>1 DEF Ack
    <3> QED
      BY <2>0, <2>1, <3>1, <3>2, <3>3, PersistType DEF Ack, TypeOK
  <2>2. CASE CrashInAck(S)
    <3>1. ckptFile' \in Nat
      BY <2>2, AdvanceType DEF CrashInAck
    <3> QED
      BY <2>0, <2>2, <3>1 DEF CrashInAck, LoseMemory, TypeOK
  <2> QED
    BY <1>4, <2>1, <2>2 DEF AckStep
<1>5. ASSUME NEW R \in SUBSET held, Abandon(R)
      PROVE  TypeOK'
  BY <1>5 DEF Abandon, TypeOK, disk, memory
<1>6. CASE CloseWAL
  BY <1>6 DEF CloseWAL, TypeOK, disk
<1>7. CASE Crash
  BY <1>7 DEF Crash, LoseMemory, TypeOK, disk
<1>8. CASE UNCHANGED vars
  BY <1>8 DEF vars, disk, memory, TypeOK
<1> QED
  BY <1>1, <1>2, <1>3, <1>4, <1>5, <1>6, <1>7, <1>8 DEF Next

\* Every step keeps every variable in its type, whichever calls fail.
THEOREM TypeCorrect == Spec => []TypeOK
  BY TypeInit, TypeStep, PTL DEF Spec

-----------------------------------------------------------------------------
(* Durability *)

\* A sequence number outside AckedWith(S) survives the ack of S: it is how the
\* record of an entry without an outcome stays past the checkpoint.
LEMMA NotCovered ==
    ASSUME TypeOK, NEW S \in SUBSET held, NEW n \in Nat, checkpoint <= n,
           (checkpoint + 1)..n \subseteq AckedWith(S),
           NEW s \in Nat, checkpoint < s, s \notin AckedWith(S)
    PROVE  n < s
<1>1. s \notin (checkpoint + 1)..n
  OBVIOUS
<1> QED
  BY <1>1 DEF TypeOK

\* With IInv, a number of AckedWith(S) is only carried in the log by a record
\* that is settled already or is in S.
LEMMA AckedRecords ==
    ASSUME IInv, NEW S \in SUBSET held, NEW r \in log, r.seq \in AckedWith(S)
    PROVE  r \in S \/ (Up => status[r.entry] = "settled")
<1>1. CASE r.seq \in acked
  BY <1>1 DEF IInv, CoveredSettled
<1>2. CASE \E h \in S : h.seq = r.seq
  <2>1. PICK h \in S : h.seq = r.seq
    BY <1>2
  <2>2. h \in log
    BY DEF IInv, PipelineOnDisk
  <2> QED
    BY <2>1, <2>2 DEF IInv, Sound
<1> QED
  BY <1>1, <1>2 DEF AckedWith, Seqs

LEMMA InvInit == Init /\ Sound => IInv
<1> SUFFICES ASSUME Init, Sound PROVE IInv
  OBVIOUS
<1>1. TypeOK
  BY TypeInit
<1> QED
  BY <1>1 DEF Init, IInv, PipelineOnDisk, AckedHandedOut, CoveredSettled,
              FileBehindMemory, DeadHoldsNothing, EntryRecords, Up

\* The steps of append.
LEMMA InvAppend ==
    ASSUME IInv, TypeOK', Sound', NEW e \in Entries, AppendStep(e)
    PROVE  IInv'
<1> DEFINE rec == NextRecord(e)
<1> USE DEF IInv
<1>0. /\ rec \in Record /\ rec.seq = seq + 1 /\ rec.entry = e
      /\ Logged(rec) \in {log, log \cup {rec}}
  BY LoggedType DEF NextRecord, Logged
<1>1. CASE Append(e)
  <2>0. log' = log \cup {rec}
    BY <1>0, <1>1 DEF Append, Sound
  <2> USE <1>0, <1>1, <2>0 DEF Append
  <2>1. checkpoint <= seq
    BY DEF Sound, Up
  <2>2. PipelineOnDisk'
    BY <2>1 DEF PipelineOnDisk, TypeOK, Record, AckedHandedOut
  <2>3. AckedHandedOut'
    BY DEF AckedHandedOut, TypeOK
  <2>4. CoveredSettled'
    BY <2>1 DEF CoveredSettled, TypeOK, Record, AckedHandedOut, EntryRecords, Up,
                FileBehindMemory
  <2>5. FileBehindMemory' /\ DeadHoldsNothing'
    BY DEF FileBehindMemory, DeadHoldsNothing, Up
  <2>6. EntryRecords'
    BY DEF EntryRecords, TypeOK, Record
  <2> QED
    BY <2>2, <2>3, <2>4, <2>5, <2>6
<1>2. CASE AppendRefused(e)
  <2> USE <1>2 DEF AppendRefused, disk, memory
  <2>1. PipelineOnDisk' /\ AckedHandedOut' /\ FileBehindMemory' /\ DeadHoldsNothing'
    BY DEF PipelineOnDisk, AckedHandedOut, FileBehindMemory, DeadHoldsNothing, Up
  <2>2. CoveredSettled' /\ EntryRecords'
    BY DEF CoveredSettled, EntryRecords, TypeOK, Record, Up
  <2> QED
    BY <2>1, <2>2
<1>3. CASE AppendShortWrite(e)
  <2> USE <1>3 DEF AppendShortWrite, memory
  <2>1. PipelineOnDisk' /\ AckedHandedOut' /\ FileBehindMemory' /\ DeadHoldsNothing'
    BY DEF PipelineOnDisk, AckedHandedOut, FileBehindMemory, DeadHoldsNothing, Up
  <2>2. CoveredSettled' /\ EntryRecords'
    BY DEF CoveredSettled, EntryRecords, TypeOK, Record, Up
  <2> QED
    BY <2>1, <2>2
<1>4. CASE AppendSyncError(e)
  <2>0. log' \in {log, log \cup {rec}}
    BY <1>0, <1>4 DEF AppendSyncError
  <2> USE <1>0, <1>4, <2>0 DEF AppendSyncError, memory
  <2>1. checkpoint <= seq
    BY DEF Sound, Up
  <2>2. PipelineOnDisk' /\ AckedHandedOut' /\ FileBehindMemory' /\ DeadHoldsNothing'
    BY DEF PipelineOnDisk, AckedHandedOut, FileBehindMemory, DeadHoldsNothing, Up
  <2>3. CoveredSettled'
    BY <2>1 DEF CoveredSettled, TypeOK, Record, AckedHandedOut, EntryRecords, Up,
                FileBehindMemory
  <2>4. EntryRecords'
    BY DEF EntryRecords, TypeOK, Record
  <2> QED
    BY <2>2, <2>3, <2>4
<1>5. CASE CrashInAppend(e)
  <2> USE <1>5 DEF CrashInAppend, LoseMemory
  <2>1. log' \in {log, log \cup {rec}}
    BY <1>0
  <2>2. ckptFile <= seq
    BY DEF Sound, Up, FileBehindMemory, TypeOK
  <2>3. PipelineOnDisk' /\ AckedHandedOut' /\ FileBehindMemory' /\ DeadHoldsNothing'
    BY DEF PipelineOnDisk, AckedHandedOut, FileBehindMemory, DeadHoldsNothing, Up
  <2>4. CoveredSettled'
    BY <1>0, <2>1, <2>2 DEF CoveredSettled, TypeOK, Record, EntryRecords, Up
  <2>5. EntryRecords'
    BY <1>0, <2>1 DEF EntryRecords, TypeOK, Record
  <2> QED
    BY <2>3, <2>4, <2>5
<1> QED
  BY <1>1, <1>2, <1>3, <1>4, <1>5 DEF AppendStep

\* The steps of ack: no record without an outcome is covered by the new
\* checkpoint, so none is dropped.
LEMMA InvAck ==
    ASSUME IInv, TypeOK', Sound', NEW S \in SUBSET held, AckStep(S)
    PROVE  IInv'
<1> USE DEF IInv
<1>1. /\ \A r \in log : (\E h \in S : h.entry = r.entry) <=> r \in S
      /\ \A r \in log : status'[r.entry] = IF r \in S THEN "settled" ELSE status[r.entry]
      /\ \A e \in Entries : status'[e] \in {status[e], "settled"}
  <2>1. S \subseteq log
    BY DEF PipelineOnDisk
  <2>2. \A r \in log : (\E h \in S : h.entry = r.entry) <=> r \in S
    BY <2>1 DEF EntryRecords
  <2>3. Settle(S)
    BY DEF AckStep, Ack, CrashInAck
  <2> QED
    BY <2>2, <2>3 DEF Settle, TypeOK, Record
<1>2. Up
  BY DEF AckStep, Ack, CrashInAck
<1>3. ASSUME NEW n, IsAdvance(n, AckedWith(S))
      PROVE  /\ n \in Nat /\ checkpoint <= n /\ ckptFile <= n
             /\ AckedWith(S) \subseteq Nat
             /\ \A r \in log : r.seq <= n => status'[r.entry] = "settled"
             /\ \A r \in log : r.seq \in AckedWith(S) => status'[r.entry] = "settled"
  <2>1. /\ n \in Nat /\ checkpoint <= n /\ AckedWith(S) \subseteq Nat
        /\ (checkpoint + 1)..n \subseteq AckedWith(S)
    BY <1>3, AdvanceType
  <2>2. ckptFile <= n
    BY <2>1, <1>2 DEF FileBehindMemory, TypeOK
  <2>3. \A r \in log : r.seq \in AckedWith(S) => status'[r.entry] = "settled"
    BY <1>1, <1>2, AckedRecords
  <2>4. ASSUME NEW r \in log, r.seq <= n
        PROVE  status'[r.entry] = "settled"
    <3>1. CASE r.seq <= checkpoint
      BY <3>1, <1>1, <1>2 DEF CoveredSettled
    <3>2. CASE checkpoint < r.seq
      <4>1. r.seq \in Nat
        BY DEF TypeOK, Record
      <4>2. r.seq \in AckedWith(S)
        BY <2>1, <2>4, <3>2, <4>1 DEF TypeOK
      <4> QED
        BY <2>3, <4>2
    <3> QED
      BY <3>1, <3>2 DEF TypeOK, Record
  <2> QED
    BY <2>1, <2>2, <2>3, <2>4
<1>4. \A e \in Entries : status'[e] = "accepted" => \E r \in log : r.entry = e /\ status'[r.entry] = "accepted"
  BY <1>1 DEF EntryRecords, TypeOK
<1>5. CASE Ack(S)
  <2>1. PICK n \in {checkpoint} \cup AckedWith(S) :
           /\ IsAdvance(n, AckedWith(S))
           /\ checkpoint' = n
           /\ acked' = AckedWith(S) \ ((checkpoint + 1)..n)
           /\ Persist(n)
    BY <1>5 DEF Ack
  <2>2. /\ n \in Nat /\ checkpoint <= n /\ ckptFile <= n
        /\ AckedWith(S) \subseteq Nat
        /\ \A r \in log : r.seq <= n => status'[r.entry] = "settled"
        /\ \A r \in log : r.seq \in AckedWith(S) => status'[r.entry] = "settled"
    BY <1>3, <2>1
  <2>3. /\ f' \in {"open", "broken", "nil"}
        /\ log' \subseteq log
        /\ ckptFile' <= n
        /\ \A r \in log : r.seq > n => r \in log'
        /\ \A r \in log \ log' : r.seq <= n
    <3>1. /\ f' \in {"open", "broken", "nil"}
          /\ \/ ckptFile' = ckptFile /\ log' = log
             \/ ckptFile' = n /\ log' \in {log, {r \in log : r.seq > n}}
      BY <1>2, <2>1, <2>2, PersistEffect
    <3>2. \A r \in log : r.seq \in Nat
      BY DEF TypeOK, Record
    <3>3. CASE log' = log
      BY <2>2, <3>1, <3>3
    <3>4. CASE ckptFile' = n /\ log' = {r \in log : r.seq > n}
      BY <2>2, <3>1, <3>2, <3>4
    <3> QED
      BY <3>1, <3>3, <3>4
  <2>4. held' = held \ S /\ pending' = pending /\ seq' = seq
    BY <1>5 DEF Ack
  <2>5. ASSUME NEW r \in held' \cup pending'
        PROVE  r \in log' /\ checkpoint' < r.seq /\ r.seq <= seq' /\ r.seq \notin acked'
    <3>1. /\ r \in log /\ checkpoint < r.seq /\ r.seq <= seq /\ r.seq \notin acked
          /\ r \notin S /\ r.seq \in Nat
      BY <2>4, <2>5 DEF PipelineOnDisk, TypeOK, Record
    <3>2. r.seq \notin AckedWith(S)
      BY <3>1 DEF AckedWith, Seqs, PipelineOnDisk, Sound
    <3>3. n < r.seq
      BY <2>1, <2>2, <3>1, <3>2, AdvanceType, NotCovered
    <3> QED
      BY <2>1, <2>2, <2>3, <2>4, <3>1, <3>2, <3>3
  <2>6. PipelineOnDisk'
    BY <2>4, <2>5 DEF PipelineOnDisk
  <2>7. AckedHandedOut'
    BY <2>1, <2>4 DEF AckedHandedOut, AckedWith, Seqs, PipelineOnDisk
  <2>8. CoveredSettled'
    BY <2>1, <2>2, <2>3 DEF CoveredSettled, TypeOK, Record
  <2>9. FileBehindMemory' /\ DeadHoldsNothing'
    BY <2>1, <2>3 DEF FileBehindMemory, DeadHoldsNothing, Up
  <2>10. EntryRecords'
    <3>1. \A r \in log : status'[r.entry] # "new"
      BY <1>1 DEF EntryRecords
    <3>2. \A r \in log : status'[r.entry] = "accepted" => r \in log'
      BY <2>2, <2>3
    <3> QED
      BY <1>4, <2>3, <3>1, <3>2 DEF EntryRecords
  <2> QED
    BY <2>6, <2>7, <2>8, <2>9, <2>10
<1>6. CASE CrashInAck(S)
  <2>1. PICK n : IsAdvance(n, AckedWith(S)) /\ ckptFile' = n
    BY <1>6 DEF CrashInAck
  <2>2. \A r \in log : r.seq <= n => status'[r.entry] = "settled"
    BY <1>3, <2>1
  <2>3. f' = "none" /\ held' = {} /\ pending' = {} /\ acked' = {} /\ log' = log
    BY <1>6 DEF CrashInAck, LoseMemory
  <2>4. PipelineOnDisk' /\ AckedHandedOut' /\ FileBehindMemory' /\ DeadHoldsNothing'
    BY <2>3 DEF PipelineOnDisk, AckedHandedOut, FileBehindMemory, DeadHoldsNothing, Up
  <2>5. CoveredSettled'
    BY <2>1, <2>2, <2>3 DEF CoveredSettled, Up
  <2>6. EntryRecords'
    BY <1>1, <1>4, <2>3 DEF EntryRecords
  <2> QED
    BY <2>4, <2>5, <2>6
<1> QED
  BY <1>5, <1>6 DEF AckStep

LEMMA InvStep == IInv /\ [Next /\ Sound']_vars => IInv'
<1> SUFFICES ASSUME IInv, [Next /\ Sound']_vars
             PROVE  IInv'
  OBVIOUS
<1> USE DEF IInv
<1>0. TypeOK'
  BY TypeStep
<1>1. CASE UNCHANGED vars
  BY <1>1, <1>0 DEF vars, disk, memory, Sound, PipelineOnDisk, AckedHandedOut,
     CoveredSettled, FileBehindMemory, DeadHoldsNothing, EntryRecords, Up
<1> SUFFICES ASSUME Next, Sound'
             PROVE  IInv'
  BY <1>1
<1>2. CASE OpenWAL
  <2> USE <1>2 DEF OpenWAL, disk
  <2>1. PipelineOnDisk'
    BY DEF PipelineOnDisk, DeadHoldsNothing, Up, TypeOK, Record, Seqs
  <2>2. AckedHandedOut' /\ FileBehindMemory' /\ DeadHoldsNothing'
    BY DEF AckedHandedOut, FileBehindMemory, DeadHoldsNothing, Up, TypeOK
  <2>3. CoveredSettled' /\ EntryRecords'
    BY DEF CoveredSettled, EntryRecords, Up
  <2> QED
    BY <1>0, <2>1, <2>2, <2>3
<1>3. CASE Recover
  <2> USE <1>3 DEF Recover, disk
  <2>1. PipelineOnDisk'
    BY DEF PipelineOnDisk
  <2>2. AckedHandedOut' /\ FileBehindMemory' /\ DeadHoldsNothing'
    BY DEF AckedHandedOut, FileBehindMemory, DeadHoldsNothing, Up
  <2>3. CoveredSettled' /\ EntryRecords'
    BY DEF CoveredSettled, EntryRecords, Up
  <2> QED
    BY <1>0, <2>1, <2>2, <2>3
<1>4. CASE \E e \in Entries : AppendStep(e)
  BY <1>0, <1>4, InvAppend
<1>5. CASE \E S \in SUBSET held : AckStep(S)
  BY <1>0, <1>5, InvAck
<1>6. ASSUME NEW R \in SUBSET held, Abandon(R)
      PROVE  IInv'
  <2> USE <1>6 DEF Abandon, disk, memory
  <2>1. PipelineOnDisk' /\ AckedHandedOut' /\ FileBehindMemory' /\ DeadHoldsNothing'
    BY DEF PipelineOnDisk, AckedHandedOut, FileBehindMemory, DeadHoldsNothing, Up
  <2>2. CoveredSettled'
    BY DEF CoveredSettled, PipelineOnDisk, EntryRecords, FileBehindMemory, TypeOK, Record, Up
  <2>3. EntryRecords'
    BY DEF EntryRecords, TypeOK, Record
  <2> QED
    BY <1>0, <2>1, <2>2, <2>3
<1>7. CASE CloseWAL
  <2> USE <1>7 DEF CloseWAL, disk
  <2>1. PipelineOnDisk' /\ AckedHandedOut' /\ FileBehindMemory' /\ DeadHoldsNothing'
    BY DEF PipelineOnDisk, AckedHandedOut, FileBehindMemory, DeadHoldsNothing, Up
  <2>2. CoveredSettled' /\ EntryRecords'
    BY DEF CoveredSettled, EntryRecords, Up
  <2> QED
    BY <1>0, <2>1, <2>2
<1>8. CASE Crash
  <2> USE <1>8 DEF Crash, LoseMemory, disk
  <2>1. PipelineOnDisk' /\ AckedHandedOut' /\ FileBehindMemory' /\ DeadHoldsNothing'
    BY DEF PipelineOnDisk, AckedHandedOut, FileBehindMemory, DeadHoldsNothing, Up
  <2>2. CoveredSettled' /\ EntryRecords'
    BY DEF CoveredSettled, EntryRecords, Up
  <2> QED
    BY <1>0, <2>1, <2>2
<1> QED
  BY <1>2, <1>3, <1>4, <1>5, <1>6, <1>7, <1>8 DEF Next

LEMMA InvDurable == IInv => Durable
  BY DEF IInv, Durable, EntryRecords, CoveredSettled, TypeOK, Record

\* wal.go:123-124: as long as no torn frame precedes new records, no two
\* records share a sequence number and the sequence did not restart below the
\* checkpoint, a crash at any point, any number of failed checkpoint writes and
\* any failed compaction leave every accepted entry on disk to be replayed.
THEOREM AcceptedIsDurable == SoundSpec => []Durable
<1>1. Init => Sound
  BY DEF Init, Sound, Up
<1> QED
  BY <1>1, InvInit, InvStep, InvDurable, PTL DEF SoundSpec

\* An ack moves the file to a covered number or not at all.
LEMMA AckFile ==
    ASSUME TypeOK, FileBehindMemory, NEW S \in SUBSET held, AckStep(S)
    PROVE  \E n \in Nat :
             /\ checkpoint <= n /\ (checkpoint + 1)..n \subseteq AckedWith(S)
             /\ n + 1 \notin AckedWith(S)
             /\ ckptFile <= n
             /\ \/ ckptFile' = ckptFile /\ log' = log
                \/ ckptFile' = n /\ log' \in {log, {r \in log : r.seq > n}}
             /\ Up' => /\ checkpoint' = n
                       /\ acked' = AckedWith(S) \ ((checkpoint + 1)..n)
<1>1. CASE Ack(S)
  <2>1. PICK n \in {checkpoint} \cup AckedWith(S) :
           /\ IsAdvance(n, AckedWith(S))
           /\ checkpoint' = n
           /\ acked' = AckedWith(S) \ ((checkpoint + 1)..n)
           /\ Persist(n)
    BY <1>1 DEF Ack
  <2>2. Up
    BY <1>1 DEF Ack
  <2>3. /\ n \in Nat /\ checkpoint <= n
        /\ (checkpoint + 1)..n \subseteq AckedWith(S) /\ n + 1 \notin AckedWith(S)
    BY <2>1, AdvanceType DEF IsAdvance
  <2>4. ckptFile <= n
    BY <2>2, <2>3 DEF FileBehindMemory, TypeOK
  <2>5. \/ ckptFile' = ckptFile /\ log' = log
        \/ ckptFile' = n /\ log' \in {log, {r \in log : r.seq > n}}
    BY <2>1, <2>2, <2>3, PersistEffect
  <2> QED
    BY <2>1, <2>3, <2>4, <2>5
<1>2. CASE CrashInAck(S)
  <2>1. PICK n : IsAdvance(n, AckedWith(S)) /\ ckptFile' = n
    BY <1>2 DEF CrashInAck
  <2>2. /\ n \in Nat /\ checkpoint <= n
        /\ (checkpoint + 1)..n \subseteq AckedWith(S) /\ n + 1 \notin AckedWith(S)
    BY <2>1, AdvanceType DEF IsAdvance
  <2>3. ckptFile <= n /\ ~Up' /\ log' = log
    BY <1>2, <2>2 DEF CrashInAck, LoseMemory, FileBehindMemory, Up, TypeOK
  <2> QED
    BY <2>1, <2>2, <2>3
<1> QED
  BY <1>1, <1>2 DEF AckStep

\* The dropped records of an ack are records the new checkpoint file covers.
LEMMA AckDrops ==
    ASSUME TypeOK, FileBehindMemory, NEW S \in SUBSET held, AckStep(S)
    PROVE  /\ ckptFile' >= ckptFile
           /\ \A r \in log \ log' : r.seq <= ckptFile'
<1>1. PICK n \in Nat :
         /\ ckptFile <= n
         /\ \/ ckptFile' = ckptFile /\ log' = log
            \/ ckptFile' = n /\ log' \in {log, {r \in log : r.seq > n}}
  BY AckFile
<1>2. \A r \in log : r.seq \in Nat
  BY DEF TypeOK, Record
<1> QED
  BY <1>1, <1>2 DEF TypeOK

\* No other step takes a record off the disk or touches the checkpoint file.
LEMMA OthersKeepDisk ==
    ASSUME TypeOK, [Next]_vars, ~ \E S \in SUBSET held : AckStep(S)
    PROVE  ckptFile' = ckptFile /\ log \subseteq log'
<1>1. CASE \E e \in Entries : AppendStep(e)
  BY <1>1 DEF AppendStep, Append, AppendRefused, AppendShortWrite,
              AppendSyncError, CrashInAppend, Logged, disk
<1>2. CASE OpenWAL \/ Recover \/ CloseWAL \/ Crash \/ \E R \in SUBSET held : Abandon(R)
  BY <1>2 DEF OpenWAL, Recover, CloseWAL, Crash, Abandon, disk
<1> QED
  BY <1>1, <1>2 DEF Next, vars, disk

\* The file stays behind the memory whatever fails.
LEMMA FileBehindStep ==
    TypeOK /\ FileBehindMemory /\ [Next]_vars => FileBehindMemory'
<1> SUFFICES ASSUME TypeOK, FileBehindMemory, [Next]_vars
             PROVE  FileBehindMemory'
  OBVIOUS
<1>1. CASE \E S \in SUBSET held : AckStep(S)
  BY <1>1, AckFile DEF FileBehindMemory, TypeOK
<1>2. CASE \E e \in Entries : AppendStep(e)
  BY <1>2 DEF AppendStep, Append, AppendRefused, AppendShortWrite, LoseMemory,
              AppendSyncError, CrashInAppend, FileBehindMemory, Up, disk, memory
<1>3. CASE OpenWAL \/ Recover \/ CloseWAL \/ Crash \/ \E R \in SUBSET held : Abandon(R)
  BY <1>3 DEF OpenWAL, Recover, CloseWAL, Crash, Abandon, FileBehindMemory, Up,
              LoseMemory, TypeOK, disk, memory
<1> QED
  BY <1>1, <1>2, <1>3 DEF Next, vars, disk, memory, FileBehindMemory, Up

\* wal.go:203-205: whatever fails, in any order, over any number of restarts,
\* the checkpoint file never moves back and compaction only drops records that
\* file covers.
THEOREM DiskIsMonotone == Spec => DiskNeverRegresses
<1>1. Init => FileBehindMemory
  BY DEF Init, FileBehindMemory, Up
<1>2. TypeOK /\ FileBehindMemory /\ [Next]_vars =>
        [ckptFile' >= ckptFile /\ \A r \in log \ log' : r.seq <= ckptFile']_vars
  BY AckDrops, OthersKeepDisk DEF TypeOK
<1> QED
  BY <1>1, <1>2, TypeInit, TypeStep, FileBehindStep, PTL
     DEF Spec, DiskNeverRegresses

\* wal.go:23-24: in the sound behaviours, what compaction drops is settled.
THEOREM ForgottenIsSettled == SoundSpec => ForgetsOnlySettled
<1>1. Init => Sound
  BY DEF Init, Sound, Up
<1>2. IInv /\ IInv' /\ [Next /\ Sound']_vars =>
        [\A r \in log \ log' : status'[r.entry] = "settled"]_vars
  <2> SUFFICES ASSUME IInv, IInv', [Next]_vars, NEW r \in log \ log'
               PROVE  status'[r.entry] = "settled"
    OBVIOUS
  <2> USE DEF IInv
  <2>1. PICK S \in SUBSET held : AckStep(S)
    BY OthersKeepDisk
  <2>2. PICK n \in Nat :
           /\ checkpoint <= n /\ (checkpoint + 1)..n \subseteq AckedWith(S)
           /\ ckptFile' = n
           /\ log' = {h \in log : h.seq > n}
    BY <2>1, AckFile
  <2>3. r.seq \in Nat /\ r.seq <= n /\ r.entry \in Entries
    BY <2>2 DEF TypeOK, Record
  <2>4. Up /\ Settle(S)
    BY <2>1 DEF AckStep, Ack, CrashInAck
  <2>5. CASE r.seq <= checkpoint
    BY <2>3, <2>4, <2>5 DEF CoveredSettled, Settle
  <2>6. CASE checkpoint < r.seq
    <3>1. r.seq \in AckedWith(S)
      BY <2>2, <2>3, <2>6 DEF TypeOK
    <3> QED
      BY <2>3, <2>4, <3>1, AckedRecords DEF Settle
  <2> QED
    BY <2>3, <2>5, <2>6 DEF TypeOK
<1> QED
  BY <1>1, <1>2, InvInit, InvStep, PTL DEF SoundSpec, ForgetsOnlySettled

-----------------------------------------------------------------------------
(* Sequence numbers, whatever fails *)

\* An entry has one record, wherever it is, and none before it is appended.
OneRecordEach ==
    /\ \A r1, r2 \in log \cup held \cup pending : r1.entry = r2.entry => r1 = r2
    /\ \A r \in log \cup held \cup pending : status[r.entry] # "new"

\* The pipeline holds only numbers that were handed out.
NumbersHandedOut == \A r \in held \cup pending : r.seq <= seq

\* A frame past the last number handed out is one of a failed append.
SpareFrames == Up => \A r \in log : r.seq <= seq \/ status[r.entry] = "rejected"

\* Every ack that the checkpoint can move over has moved it.
NoAckIsDue == checkpoint + 1 \notin acked

NumbersInv ==
    /\ TypeOK
    /\ DeadHoldsNothing
    /\ OneRecordEach
    /\ NumbersHandedOut
    /\ SpareFrames
    /\ NoAckIsDue

LEMMA NumbersAppend ==
    ASSUME NumbersInv, NEW e \in Entries, AppendStep(e)
    PROVE  NumbersInv'
<1> USE DEF NumbersInv
<1> DEFINE rec == NextRecord(e)
<1>0. TypeOK'
  <2>1. Next
    BY DEF Next
  <2> QED
    BY <2>1, TypeStep
<1>1. /\ rec \in Record /\ rec.seq = seq + 1 /\ rec.entry = e
      /\ Logged(rec) \in {log, log \cup {rec}} /\ status[e] = "new" /\ Up
  BY LoggedType DEF NextRecord, Logged, AppendStep, Append, AppendRefused, AppendShortWrite,
     AppendSyncError, CrashInAppend, Up
<1>2. \A r \in log \cup held \cup pending : r.entry # e /\ r.entry \in Entries /\ r.seq \in Nat
  BY <1>1 DEF OneRecordEach, TypeOK, Record
<1> HIDE DEF rec
<1>3. CASE Append(e)
  <2>1. /\ log' \in {log, log \cup {rec}} /\ held' = held \cup {rec} /\ seq' = seq + 1
        /\ status' = [status EXCEPT ![e] = "accepted"]
        /\ UNCHANGED <<f, checkpoint, acked, pending>>
    BY <1>1, <1>3 DEF Append, rec
  <2>2. \A r \in log \cup held \cup pending : status'[r.entry] = status[r.entry]
    BY <1>2, <2>1 DEF TypeOK
  <2>3. status'[e] = "accepted"
    BY <2>1 DEF TypeOK
  <2>4. OneRecordEach'
    BY <1>1, <1>2, <2>1, <2>2, <2>3 DEF OneRecordEach
  <2>5. NumbersHandedOut' /\ SpareFrames'
    BY <1>1, <1>2, <2>1, <2>2 DEF NumbersHandedOut, SpareFrames, TypeOK, Up
  <2> QED
    BY <1>0, <1>1, <2>1, <2>4, <2>5 DEF DeadHoldsNothing, NoAckIsDue, Up
<1>4. CASE AppendRefused(e) \/ AppendShortWrite(e) \/ AppendSyncError(e)
  <2>1. /\ log' \in {log, log \cup {rec}} /\ status' = [status EXCEPT ![e] = "rejected"]
        /\ UNCHANGED <<f, seq, checkpoint, acked, pending, held>>
    BY <1>1, <1>4 DEF AppendRefused, AppendShortWrite, AppendSyncError, disk, memory, rec
  <2>2. /\ \A r \in log \cup held \cup pending : status'[r.entry] = status[r.entry]
        /\ status'[e] = "rejected"
    BY <1>2, <2>1 DEF TypeOK
  <2>3. OneRecordEach' /\ NumbersHandedOut' /\ SpareFrames'
    BY <1>1, <1>2, <2>1, <2>2 DEF OneRecordEach, NumbersHandedOut, SpareFrames, Up
  <2> QED
    BY <1>0, <2>1, <2>3 DEF DeadHoldsNothing, NoAckIsDue, Up
<1>5. CASE CrashInAppend(e)
  <2>1. /\ log' \in {log, log \cup {rec}} /\ status' = [status EXCEPT ![e] = "unknown"]
        /\ f' = "none" /\ held' = {} /\ pending' = {} /\ acked' = {}
    BY <1>1, <1>5 DEF CrashInAppend, LoseMemory, rec
  <2>2. /\ \A r \in log : status'[r.entry] = status[r.entry]
        /\ status'[e] = "unknown"
    BY <1>2, <2>1 DEF TypeOK
  <2>3. OneRecordEach'
    BY <1>1, <1>2, <2>1, <2>2 DEF OneRecordEach
  <2> QED
    BY <1>0, <2>1, <2>3 DEF DeadHoldsNothing, NumbersHandedOut, SpareFrames, NoAckIsDue, Up
<1> QED
  BY <1>3, <1>4, <1>5 DEF AppendStep

LEMMA NumbersAck ==
    ASSUME NumbersInv, FileBehindMemory, NEW S \in SUBSET held, AckStep(S)
    PROVE  NumbersInv'
<1> USE DEF NumbersInv
<1>0. TypeOK'
  <2>1. Next
    BY DEF Next
  <2> QED
    BY <2>1, TypeStep
<1>1. /\ log' \subseteq log
      /\ Up' => checkpoint' + 1 \notin acked'
  <2>1. PICK n \in Nat :
           /\ n + 1 \notin AckedWith(S)
           /\ log' \in {log, {r \in log : r.seq > n}}
           /\ Up' => checkpoint' = n /\ acked' = AckedWith(S) \ ((checkpoint + 1)..n)
    BY AckFile
  <2> QED
    BY <2>1
<1>2. /\ Up' => held' = held \ S /\ pending' = pending /\ seq' = seq
      /\ ~Up' => held' = {} /\ pending' = {} /\ acked' = {}
      /\ Up /\ Settle(S)
  <2>1. CASE Ack(S)
    <3>1. PICK n \in {checkpoint} \cup AckedWith(S) : IsAdvance(n, AckedWith(S)) /\ Persist(n)
      BY <2>1 DEF Ack
    <3>2. Up'
      BY <2>1, <3>1, AdvanceType, PersistEffect DEF Ack, Up
    <3> QED
      BY <2>1, <3>2 DEF Ack
  <2>2. CASE CrashInAck(S)
    BY <2>2 DEF CrashInAck, LoseMemory, Up
  <2> QED
    BY <2>1, <2>2 DEF AckStep
<1>3. /\ held' \cup pending' \subseteq held \cup pending
      /\ \A r \in log \cup held \cup pending : status'[r.entry] # "new"
  BY <1>2 DEF OneRecordEach, Settle, TypeOK, Record
<1>4. OneRecordEach'
  BY <1>1, <1>3 DEF OneRecordEach
<1>5. NumbersHandedOut'
  BY <1>2 DEF NumbersHandedOut
<1>6. SpareFrames'
  <2>1. ASSUME Up', NEW r \in log', ~(r.seq <= seq)
        PROVE  status'[r.entry] = "rejected"
    <3>1. r \in log /\ status[r.entry] = "rejected" /\ r.entry \in Entries
      BY <1>1, <1>2, <2>1 DEF SpareFrames, TypeOK, Record
    <3>2. ~ \E h \in S : h.entry = r.entry
      BY <2>1, <3>1 DEF OneRecordEach, NumbersHandedOut
    <3> QED
      BY <1>2, <3>1, <3>2 DEF Settle
  <2> QED
    BY <1>2, <2>1 DEF SpareFrames
<1> QED
  BY <1>0, <1>1, <1>2, <1>4, <1>5, <1>6 DEF DeadHoldsNothing, NoAckIsDue, TypeOK

LEMMA NumbersStep ==
    NumbersInv /\ FileBehindMemory /\ [Next]_vars => NumbersInv' /\ FileBehindMemory'
<1> SUFFICES ASSUME NumbersInv, FileBehindMemory, [Next]_vars
             PROVE  NumbersInv'
  BY FileBehindStep DEF NumbersInv
<1> USE DEF NumbersInv
<1>0. TypeOK'
  BY TypeStep
<1>1. CASE OpenWAL
  <2>1. /\ f' # "none" /\ acked' = {} /\ pending' \subseteq log /\ held' = held
        /\ log' = log /\ status' = status /\ held = {}
        /\ \A r \in log : r.seq <= seq'
    BY <1>1 DEF OpenWAL, disk, DeadHoldsNothing, Up, Seqs
  <2> QED
    BY <1>0, <2>1 DEF DeadHoldsNothing, OneRecordEach, NumbersHandedOut, SpareFrames,
       NoAckIsDue, Up
<1>2. CASE Recover
  BY <1>0, <1>2 DEF Recover, disk, DeadHoldsNothing, OneRecordEach, NumbersHandedOut,
     SpareFrames, NoAckIsDue, Up
<1>3. CASE \E e \in Entries : AppendStep(e)
  BY <1>3, NumbersAppend
<1>4. CASE \E S \in SUBSET held : AckStep(S)
  BY <1>4, NumbersAck
<1>5. ASSUME NEW R \in SUBSET held, Abandon(R)
      PROVE  NumbersInv'
  <2>1. /\ held' \subseteq held /\ UNCHANGED <<disk, memory>> /\ Up
        /\ \A r \in log \cup held \cup pending : status'[r.entry] # "new"
    BY <1>5 DEF Abandon, OneRecordEach, TypeOK, Record
  <2>2. SpareFrames'
    <3>1. ASSUME NEW r \in log, ~(r.seq <= seq)
          PROVE  status'[r.entry] = "rejected"
      <4>1. status[r.entry] = "rejected" /\ r.entry \in Entries
        BY <2>1, <3>1 DEF SpareFrames, TypeOK, Record
      <4>2. ~ \E h \in R : h.entry = r.entry
        BY <3>1 DEF OneRecordEach, NumbersHandedOut
      <4> QED
        BY <1>5, <4>1, <4>2 DEF Abandon
    <3> QED
      BY <2>1, <3>1 DEF SpareFrames, disk, memory
  <2> QED
    BY <1>0, <2>1, <2>2 DEF disk, memory, DeadHoldsNothing, OneRecordEach, NumbersHandedOut,
       NoAckIsDue, Up
<1>6. CASE CloseWAL
  BY <1>0, <1>6 DEF CloseWAL, disk, DeadHoldsNothing, OneRecordEach, NumbersHandedOut,
     SpareFrames, NoAckIsDue, Up
<1>7. CASE Crash
  BY <1>0, <1>7 DEF Crash, LoseMemory, disk, DeadHoldsNothing, OneRecordEach,
     NumbersHandedOut, SpareFrames, NoAckIsDue, Up
<1>8. CASE UNCHANGED vars
  BY <1>0, <1>8 DEF vars, disk, memory, DeadHoldsNothing, OneRecordEach, NumbersHandedOut,
     SpareFrames, NoAckIsDue, Up
<1> QED
  BY <1>1, <1>2, <1>3, <1>4, <1>5, <1>6, <1>7, <1>8 DEF Next

LEMMA NumbersHold == Spec => [](NumbersInv /\ FileBehindMemory)
<1>1. Init => NumbersInv /\ FileBehindMemory
  BY TypeInit DEF Init, NumbersInv, DeadHoldsNothing, OneRecordEach, NumbersHandedOut,
     SpareFrames, NoAckIsDue, FileBehindMemory, Up
<1> QED
  BY <1>1, NumbersStep, PTL DEF Spec

-----------------------------------------------------------------------------
(* The disk between the checkpoint and the last number handed out *)

\* NoStall looks at memory only; a restart makes it a question of the disk, so
\* the numbers past the persisted checkpoint must be without gaps there, and
\* what the pipeline holds past it must be readable.
DiskWithoutGaps ==
    /\ ~torn
    /\ \A r \in log : (ckptFile + 1)..r.seq \subseteq Seqs(log)
    /\ Up => (ckptFile + 1)..seq \subseteq Seqs(log)
    /\ \A r \in held \cup pending : r.seq <= ckptFile \/ r \in log

DiskInv == TypeOK /\ FileBehindMemory /\ DiskWithoutGaps

WholeFrames == Faults \cap {"torn-by-crash", "short-write"} = {}

LEMMA LowerBoundRaised ==
    ASSUME NEW a \in Nat, NEW b \in Nat, NEW k \in Nat, a <= b,
           NEW s \in (b + 1)..k
    PROVE  s \in Nat /\ b < s /\ s \in (a + 1)..k
  OBVIOUS

LEMMA DiskAck ==
    ASSUME DiskInv, NEW S \in SUBSET held, AckStep(S)
    PROVE  DiskWithoutGaps'
<1> USE DEF DiskInv, DiskWithoutGaps
<1>1. PICK n \in Nat :
         /\ checkpoint <= n /\ (checkpoint + 1)..n \subseteq AckedWith(S)
         /\ ckptFile <= n
         /\ \/ ckptFile' = ckptFile /\ log' = log
            \/ ckptFile' = n /\ log' \in {log, {r \in log : r.seq > n}}
         /\ Up' => /\ checkpoint' = n
                   /\ acked' = AckedWith(S) \ ((checkpoint + 1)..n)
  BY AckFile
<1>2. Up /\ (Up' => seq' = seq) /\ held' \cup pending' \subseteq held \cup pending
  BY DEF AckStep, Ack, CrashInAck, LoseMemory, Up
<1>3. ~torn'
  <2>1. CASE Ack(S)
    <3>1. PICK m \in {checkpoint} \cup AckedWith(S) :
             IsAdvance(m, AckedWith(S)) /\ Persist(m)
      BY <2>1 DEF Ack
    <3>2. torn' \in {torn, FALSE}
      BY <1>2, <3>1, AdvanceType, PersistEffect
    <3> QED
      BY <3>2
  <2>2. CASE CrashInAck(S)
    BY <2>2 DEF CrashInAck
  <2> QED
    BY <2>1, <2>2 DEF AckStep
<1>4. ASSUME NEW k \in Nat, (ckptFile + 1)..k \subseteq Seqs(log)
      PROVE  (ckptFile' + 1)..k \subseteq Seqs(log')
  <2>1. SUFFICES ASSUME NEW s \in (ckptFile' + 1)..k
                 PROVE  s \in Seqs(log')
    OBVIOUS
  <2>2. s \in Nat /\ ckptFile' < s /\ s \in (ckptFile + 1)..k
    <3>1. ckptFile \in Nat /\ ckptFile' \in Nat /\ ckptFile <= ckptFile'
      BY <1>1 DEF TypeOK
    <3> QED
      BY <3>1, LowerBoundRaised
  <2>3. PICK r \in log : r.seq = s
    BY <1>4, <2>2 DEF Seqs
  <2>4. r \in log'
    BY <1>1, <2>2, <2>3
  <2> QED
    BY <2>3, <2>4 DEF Seqs
<1>5. \A r \in log' : (ckptFile' + 1)..r.seq \subseteq Seqs(log')
  BY <1>1, <1>4 DEF TypeOK, Record
<1>6. Up' => (ckptFile' + 1)..seq' \subseteq Seqs(log')
  BY <1>2, <1>4 DEF TypeOK
<1>7. \A r \in held' \cup pending' : r.seq <= ckptFile' \/ r \in log'
  <2>1. ASSUME NEW r \in held \cup pending
        PROVE  r.seq <= ckptFile' \/ r \in log'
    BY <1>1 DEF TypeOK, Record
  <2> QED
    BY <1>2, <2>1
<1> QED
  BY <1>3, <1>5, <1>6, <1>7

LEMMA DiskAppend ==
    ASSUME DiskInv, WholeFrames, NEW e \in Entries, AppendStep(e)
    PROVE  DiskWithoutGaps'
<1> USE DEF DiskInv, DiskWithoutGaps
<1> DEFINE rec == NextRecord(e)
<1>1. rec.seq = seq + 1 /\ Logged(rec) = log \cup {rec}
  BY DEF NextRecord, Logged
<1>2. ASSUME Up, log' = log \cup {rec}, ckptFile' = ckptFile
      PROVE  /\ \A r \in log' : (ckptFile' + 1)..r.seq \subseteq Seqs(log')
             /\ (ckptFile + 1)..(seq + 1) \subseteq Seqs(log')
  <2>1. Seqs(log') = Seqs(log) \cup {seq + 1}
    BY <1>1, <1>2 DEF Seqs
  <2>2. (ckptFile + 1)..(seq + 1) \subseteq Seqs(log')
    <3>1. (ckptFile + 1)..seq \subseteq Seqs(log) /\ ckptFile \in Nat /\ seq \in Nat
      BY <1>2 DEF TypeOK
    <3>2. (ckptFile + 1)..(seq + 1) \subseteq (ckptFile + 1)..seq \cup {seq + 1}
      BY <3>1
    <3> QED
      BY <2>1, <3>1, <3>2
  <2> QED
    BY <1>1, <1>2, <2>1, <2>2
<1>3. CASE Append(e)
  <2>1. /\ log' = log \cup {rec} /\ ckptFile' = ckptFile /\ seq' = seq + 1
        /\ held' = held \cup {rec} /\ pending' = pending /\ torn' = torn /\ Up
    BY <1>1, <1>3 DEF Append, Up
  <2> HIDE DEF rec
  <2> QED
    BY <1>2, <2>1
<1>4. CASE AppendRefused(e)
  BY <1>4 DEF AppendRefused, disk, memory, Up
<1>5. CASE AppendShortWrite(e)
  BY <1>5 DEF AppendShortWrite, WholeFrames
<1>6. CASE AppendSyncError(e)
  <2>1. /\ log' = log \cup {rec} /\ Up
        /\ UNCHANGED <<ckptFile, f, seq, held, pending, torn>>
    BY <1>1, <1>6 DEF AppendSyncError, memory, Up
  <2>2. Seqs(log) \subseteq Seqs(log')
    BY <2>1 DEF Seqs
  <2> HIDE DEF rec
  <2> QED
    BY <1>2, <2>1, <2>2 DEF Up
<1>7. CASE CrashInAppend(e)
  <2>1. /\ log' = log \cup {rec} /\ ~torn' /\ Up /\ ~Up' /\ ckptFile' = ckptFile
        /\ held' = {} /\ pending' = {}
    BY <1>1, <1>7 DEF CrashInAppend, WholeFrames, LoseMemory, Up
  <2> QED
    BY <1>2, <2>1
<1> QED
  BY <1>3, <1>4, <1>5, <1>6, <1>7 DEF AppendStep

LEMMA DiskStep == WholeFrames /\ DiskInv /\ [Next]_vars => DiskInv'
<1> SUFFICES ASSUME WholeFrames, DiskInv, [Next]_vars
             PROVE  DiskWithoutGaps'
  BY TypeStep, FileBehindStep DEF DiskInv
<1> USE DEF DiskInv, DiskWithoutGaps
<1>1. CASE OpenWAL
  <2>1. seq' \in {0} \cup Seqs(log) /\ (ckptFile + 1)..seq' \subseteq Seqs(log)
    <3>1. PICK last \in {0} \cup Seqs(log) : seq' = last
      BY <1>1 DEF OpenWAL
    <3>2. CASE last = 0
      BY <3>1, <3>2 DEF TypeOK
    <3>3. CASE last \in Seqs(log)
      BY <3>1, <3>3 DEF Seqs
    <3> QED
      BY <3>1, <3>2, <3>3
  <2>2. /\ log' = log /\ ckptFile' = ckptFile /\ torn' = torn
        /\ held' = held /\ pending' \subseteq log
    BY <1>1 DEF OpenWAL, disk
  <2>3. Seqs(log') = Seqs(log)
    BY <2>2 DEF Seqs
  <2> QED
    BY <2>1, <2>2, <2>3
<1>2. CASE Recover
  BY <1>2 DEF Recover, Seqs, Up, disk
<1>3. CASE \E e \in Entries : AppendStep(e)
  BY <1>3, DiskAppend
<1>4. CASE \E S \in SUBSET held : AckStep(S)
  BY <1>4, DiskAck
<1>5. CASE \E R \in SUBSET held : Abandon(R)
  BY <1>5 DEF Abandon, disk, memory, Up
<1>6. CASE CloseWAL
  BY <1>6 DEF CloseWAL, Up, disk
<1>7. CASE Crash
  BY <1>7 DEF Crash, LoseMemory, Up, disk
<1>8. CASE UNCHANGED vars
  BY <1>8 DEF vars, disk, memory, Up
<1> QED
  BY <1>1, <1>2, <1>3, <1>4, <1>5, <1>6, <1>7, <1>8 DEF Next

\* wal.go:154-157: as long as no frame is cut, the numbers past the persisted
\* checkpoint are readable without a gap, whatever else fails.
THEOREM DiskHasNoGaps == WholeFrames => (Spec => []DiskWithoutGaps)
<1>1. Init => DiskInv
  BY TypeInit DEF Init, DiskInv, DiskWithoutGaps, FileBehindMemory, Up
<1>2. DiskInv => DiskWithoutGaps
  BY DEF DiskInv
<1>3. WholeFrames => (Spec => []DiskWithoutGaps)
  <2> SUFFICES ASSUME WholeFrames
               PROVE  Spec => []DiskWithoutGaps
    OBVIOUS
  <2>1. DiskInv /\ [Next]_vars => DiskInv'
    BY DiskStep
  <2> QED
    BY <1>1, <1>2, <2>1, PTL DEF Spec
<1> QED
  BY <1>3

-----------------------------------------------------------------------------
(* Progress of the checkpoint *)

GapFree == WholeFrames /\ "abandon" \notin Faults

LEMMA StallAck ==
    ASSUME TypeOK, FileBehindMemory, NoStall, NEW S \in SUBSET held, AckStep(S)
    PROVE  NoStall'
<1>1. PICK n \in Nat :
         /\ checkpoint <= n /\ (checkpoint + 1)..n \subseteq AckedWith(S)
         /\ Up' => /\ checkpoint' = n
                   /\ acked' = AckedWith(S) \ ((checkpoint + 1)..n)
  BY AckFile
<1>2. Up /\ (Up' => seq' = seq /\ pending' = pending /\ held' = held \ S)
  BY DEF AckStep, Ack, CrashInAck, LoseMemory, Up
<1>3. SUFFICES ASSUME Up', NEW s \in (n + 1)..seq
               PROVE  s \in acked' \/ s \in Seqs(held' \cup pending')
  BY <1>1, <1>2 DEF NoStall
<1>4. s \in Nat /\ n < s /\ s \in (checkpoint + 1)..seq
  BY <1>1, <1>3 DEF TypeOK
<1>5. CASE s \in AckedWith(S)
  BY <1>1, <1>3, <1>4, <1>5
<1>6. CASE s \notin AckedWith(S)
  <2>1. s \notin acked /\ s \notin Seqs(S)
    BY <1>4, <1>6 DEF AckedWith, TypeOK
  <2>2. PICK r \in held \cup pending : r.seq = s
    BY <1>2, <1>4, <2>1 DEF NoStall, Seqs
  <2> QED
    BY <1>2, <1>3, <2>1, <2>2 DEF Seqs
<1> QED
  BY <1>5, <1>6

LEMMA StallAppend ==
    ASSUME TypeOK, NoStall, NEW e \in Entries, AppendStep(e)
    PROVE  NoStall'
<1>1. CASE Append(e)
  <2> DEFINE rec == NextRecord(e)
  <2>1. SUFFICES ASSUME NEW s \in (checkpoint + 1)..(seq + 1)
                 PROVE  s \in acked' \/ s \in Seqs(held' \cup pending')
    BY <1>1 DEF NoStall, Append
  <2>2. CASE s = seq + 1
    BY <1>1, <2>2 DEF Append, Seqs, NextRecord
  <2>3. CASE s # seq + 1
    <3>1. s \in (checkpoint + 1)..seq
      BY <2>3 DEF TypeOK
    <3> QED
      BY <1>1, <3>1 DEF Append, NoStall, Seqs, Up
  <2> QED
    BY <2>2, <2>3
<1>2. CASE AppendRefused(e) \/ AppendShortWrite(e) \/ AppendSyncError(e)
  BY <1>2 DEF AppendRefused, AppendShortWrite, AppendSyncError, disk, memory, NoStall, Up
<1>3. CASE CrashInAppend(e)
  BY <1>3 DEF CrashInAppend, LoseMemory, NoStall, Up
<1> QED
  BY <1>1, <1>2, <1>3 DEF AppendStep

LEMMA StallStep == GapFree /\ DiskInv /\ NoStall /\ [Next]_vars => NoStall'
<1> SUFFICES ASSUME GapFree, DiskInv, NoStall, [Next]_vars
             PROVE  NoStall'
  OBVIOUS
<1> USE DEF DiskInv
<1>1. CASE OpenWAL
  <2>1. (ckptFile + 1)..seq' \subseteq Seqs(log)
    <3>1. PICK last \in {0} \cup Seqs(log) : seq' = last
      BY <1>1 DEF OpenWAL
    <3>2. CASE last = 0
      BY <3>1, <3>2 DEF TypeOK
    <3>3. CASE last \in Seqs(log)
      BY <3>1, <3>3 DEF Seqs, DiskWithoutGaps
    <3> QED
      BY <3>1, <3>2, <3>3
  <2> QED
    BY <1>1, <2>1 DEF OpenWAL, NoStall, Seqs, TypeOK, Record
<1>2. CASE Recover
  BY <1>2 DEF Recover, NoStall, Seqs, Up, disk
<1>3. CASE \E e \in Entries : AppendStep(e)
  BY <1>3, StallAppend
<1>4. CASE \E S \in SUBSET held : AckStep(S)
  BY <1>4, StallAck
<1>5. CASE \E R \in SUBSET held : Abandon(R)
  BY <1>5 DEF Abandon, GapFree
<1>6. CASE CloseWAL
  BY <1>6 DEF CloseWAL, NoStall, Up, disk
<1>7. CASE Crash
  BY <1>7 DEF Crash, LoseMemory, NoStall, Up, disk
<1>8. CASE UNCHANGED vars
  BY <1>8 DEF vars, disk, memory, NoStall, Up
<1> QED
  BY <1>1, <1>2, <1>3, <1>4, <1>5, <1>6, <1>7, <1>8 DEF Next

\* wal.go:154-157: without torn frames and abandoned records, the contiguous
\* checkpoint always has the record it waits for in the pipeline.
THEOREM CheckpointNeverStalls == GapFree => (Spec => []NoStall)
<1>1. Init => DiskInv /\ NoStall
  BY TypeInit DEF Init, DiskInv, DiskWithoutGaps, FileBehindMemory, NoStall, Up
<1>2. GapFree => (Spec => []NoStall)
  <2> SUFFICES ASSUME GapFree
               PROVE  Spec => []NoStall
    OBVIOUS
  <2>1. DiskInv /\ NoStall /\ [Next]_vars => DiskInv' /\ NoStall'
    BY DiskStep, StallStep DEF GapFree
  <2> QED
    BY <1>1, <2>1, PTL DEF Spec
<1> QED
  BY <1>2

\* wal.go:20-25: under the same faults, once the pipeline is empty the checkpoint
\* has passed every record of the log, but for the frames of failed appends.
THEOREM NothingIsLeft == GapFree => (Spec => []NothingLeftToSettle)
<1>1. NumbersInv /\ NoStall => NothingLeftToSettle
  <2> SUFFICES ASSUME NumbersInv, NoStall, Up, held \cup pending = {}, NEW r \in log,
                      status[r.entry] # "rejected"
               PROVE  r.seq <= checkpoint
    BY DEF NothingLeftToSettle
  <2> USE DEF NumbersInv
  <2>1. r.seq <= seq /\ r.seq \in Nat /\ checkpoint \in Nat /\ seq \in Nat
    BY DEF SpareFrames, TypeOK, Record
  <2>2. seq <= checkpoint
    <3>1. SUFFICES ASSUME checkpoint < seq PROVE FALSE
      BY <2>1
    <3>2. checkpoint + 1 \in (checkpoint + 1)..seq
      BY <2>1, <3>1
    <3>3. checkpoint + 1 \in acked
      BY <3>2 DEF NoStall, Seqs
    <3> QED
      BY <3>3 DEF NoAckIsDue
  <2> QED
    BY <2>1, <2>2
<1>2. GapFree => (Spec => []NothingLeftToSettle)
  <2> SUFFICES ASSUME GapFree
               PROVE  Spec => []NothingLeftToSettle
    OBVIOUS
  <2>1. Spec => []NoStall
    BY CheckpointNeverStalls
  <2> QED
    BY <1>1, <2>1, NumbersHold, PTL
<1> QED
  BY <1>2

=============================================================================
