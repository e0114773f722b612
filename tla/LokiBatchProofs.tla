-------------------------- MODULE LokiBatchProofs --------------------------
(***************************************************************************)
(* Theorems about LokiBatch for every set of entries, every size of the    *)
(* batches and channels, with the log and without, in batches or not.      *)
(*                                                                         *)
(* None of the properties is inductive: what a step may do with a record   *)
(* depends on the record being in one place only, and on what its client   *)
(* was told and which outcome it has while it is there.  IInv says it      *)
(* place by place: replayLeft, in, batch, flushCh, flBatch, and the two    *)
(* sets of records that a request still offers.                            *)
(***************************************************************************)
EXTENDS LokiBatch, TLAPS, SequenceTheorems, FiniteSetTheorems

Rec == [seq : Nat, entry : Entries]

Outcomes == {<<>>, <<"refused">>, <<"full">>, <<"saved">>, <<"failed">>, <<"aborted">>}

\* The type of what a step of LokiBatch reads or writes.
Shape ==
    /\ phase \in {"down", "opening", "starting", "serving", "draining",
                  "closing", "closed"}
    /\ ctx \in {"none", "live", "expired", "overrun"}
    /\ stopResult \in {"none", "nil", "error"} /\ runCancelled \in BOOLEAN
    /\ result \in [Entries -> Results]
    /\ outcomes \in [Entries -> Outcomes]
    /\ stored \subseteq Entries
    /\ offers \subseteq Rec /\ lastOffers \subseteq Rec
    /\ replayLeft \in Seq(Rec) /\ in \in Seq(Rec) /\ batch \in Seq(Rec)
    /\ flBatch \in Seq(Rec) /\ flushCh \in Seq(Seq(Rec))
    /\ log \subseteq Rec /\ IsFiniteSet(log)
    /\ accPc \in {"none", "run", "dispatch", "drain", "lastDispatch", "exited"}
    /\ flPc \in {"none", "idle", "send", "inflight", "backoff", "ack", "exited"}
    /\ Len(in) <= QueueCap /\ Len(flushCh) <= FlushCap
    /\ attempt \in 0..MaxRetries
    /\ seq \in Nat

\* An entry of an earlier process, or one whose client was told of an error.
Earlier == Results \ (Open \cup {"idle", "ok", "cancelled"})

\* No record is in a channel or with a goroutine.
NoRecords ==
    /\ offers = {} /\ lastOffers = {} /\ replayLeft = <<>> /\ in = <<>>
    /\ batch = <<>> /\ flushCh = <<>> /\ flBatch = <<>>

\* Until New replays the log there is nothing in the pipeline, and every client
\* that was answered was answered by an earlier process.
NothingBeforeReplay ==
    /\ phase \in {"down", "opening"} =>
          /\ NoRecords
          /\ accPc \in {"none", "run"} /\ flPc \in {"none", "idle"}
          /\ \A e \in Entries : outcomes[e] = <<>>
    /\ phase \in {"down", "opening", "starting"} =>
          \A e \in Entries : result[e] \in Earlier \cup {"idle"}
    /\ phase # "opening" => pending = {}
    /\ pending \subseteq log

\* Without batches there is no pipeline, without a log nothing to replay.
ModesApart ==
    /\ ~Batching => NoRecords /\ flPc = "none" /\ FALSE \in Modes
    /\ ~UseWAL => f = "none" /\ log = {} /\ replayLeft = <<>> /\ held = {}

Distinct(s) == \A i, j \in DOMAIN s : s[i] = s[j] => i = j

Apart(q) == \A i, j \in DOMAIN q : i # j => Range(q[i]) \cap Range(q[j]) = {}

\* A record is in one place of the pipeline, once.
OnePlace ==
    /\ Distinct(replayLeft) /\ Distinct(in) /\ Apart(flushCh)
    /\ offers \cap lastOffers = {}
    /\ Range(replayLeft) \cap (Range(in) \cup Range(batch) \cup Flushing) = {}
    /\ Range(in) \cap (Range(batch) \cup Flushing) = {}
    /\ Range(batch) \cap Flushing = {}
    /\ Queued(flushCh) \cap Range(flBatch) = {}

\* An entry has one record, in the pipeline as on disk.
OneRecord ==
    /\ \A r1, r2 \in Pipeline : r1.entry = r2.entry => r1 = r2
    /\ \A r1, r2 \in log : r1.entry = r2.entry => r1 = r2

\* What the client of a record was told, by the place of the record.
ResultsFit ==
    /\ \A r \in offers \cup lastOffers : result[r.entry] = "saving"
    /\ \A r \in Range(replayLeft) : result[r.entry] \in Earlier
    /\ \A r \in Range(in) \cup Range(batch) \cup Flushing :
          result[r.entry] \notin Open \cup {"idle"}
    /\ \A r \in log : result[r.entry] \notin {"idle", "arrived", "pushing"}

\* Which outcome an entry has, by the place of its record.
OutcomesFit ==
    /\ \A e \in Entries : result[e] \in Open \cup {"idle"} => outcomes[e] = <<>>
    /\ \A r \in Range(replayLeft) \cup Range(in) \cup Range(batch) \cup Queued(flushCh) :
          outcomes[r.entry] = <<>>
    /\ flPc \in {"send", "inflight", "backoff"} =>
          \A r \in Range(flBatch) :
              outcomes[r.entry] = IF r.entry \in Unconvertible THEN <<"failed">> ELSE <<>>
    /\ flPc = "ack" =>
          \A r \in Range(flBatch) :
              outcomes[r.entry] \in {<<"saved">>, <<"failed">>, <<"aborted">>}
    /\ flPc \in {"none", "idle", "exited"} => flBatch = <<>>
    /\ \A e \in Entries : outcomes[e] = <<"saved">> => e \in stored
    /\ \A e \in Entries :
          result[e] = "ok" => e \in EntriesOf(Pipeline) \/ outcomes[e] # <<>>

\* The log waits for the records of the pipeline and for no other.
Tracked == UseWAL => held = Pipeline

\* How far a stop has come: who is gone and what is empty.
StopFits ==
    /\ stopResult = "nil" =>
          /\ phase = "closed"
          /\ Batching => accPc = "exited" /\ flPc = "exited" /\ replayLeft = <<>>
    /\ accPc \in {"drain", "lastDispatch", "exited"} => Stopping
    /\ accPc = "exited" => batch = <<>>
    /\ flPc = "exited" => accPc = "exited" /\ flushCh = <<>>
    /\ (Stopping /\ ctx # "overrun") => ~HandlersActive
    /\ (accPc \in {"lastDispatch", "exited"} /\ ctx # "overrun") =>
          \A r \in Range(in) : result[r.entry] \in Earlier

IInv ==
    /\ Shape
    /\ NothingBeforeReplay
    /\ ModesApart
    /\ OnePlace
    /\ OneRecord
    /\ ResultsFit
    /\ OutcomesFit
    /\ Tracked
    /\ StopFits

-----------------------------------------------------------------------------
(* Lemmas about sequences *)

LEMMA RangeEmpty == Range(<<>>) = {} /\ Queued(<<>>) = {} /\ Distinct(<<>>) /\ Apart(<<>>)
  BY DEF Range, Queued, Distinct, Apart

LEMMA RangeType ==
    ASSUME NEW S, NEW s \in Seq(S)
    PROVE  Range(s) \subseteq S /\ (s # <<>> => Range(s) # {})
  BY DEF Range

LEMMA RangeAppend ==
    ASSUME NEW S, NEW s \in Seq(S), NEW x \in S
    PROVE  /\ Append(s, x) \in Seq(S)
           /\ Len(Append(s, x)) = Len(s) + 1
           /\ Range(Append(s, x)) = Range(s) \cup {x}
           /\ (Distinct(s) /\ x \notin Range(s)) => Distinct(Append(s, x))
<1> DEFINE t == Append(s, x)
<1>1. /\ t \in Seq(S) /\ Len(t) = Len(s) + 1 /\ t[Len(s) + 1] = x
      /\ \A i \in 1..Len(s) : t[i] = s[i]
  BY AppendProperties
<1>2. /\ DOMAIN s = 1..Len(s) /\ DOMAIN t = 1..(Len(s) + 1)
      /\ Len(s) \in Nat
  BY <1>1, LenProperties
<1> HIDE DEF t
<1>3. Range(t) = Range(s) \cup {x}
  BY <1>1, <1>2 DEF Range
<1>4. ASSUME Distinct(s), x \notin Range(s)
      PROVE  Distinct(t)
  BY <1>1, <1>2, <1>4 DEF Range, Distinct
<1> QED
  BY <1>1, <1>3, <1>4 DEF t

LEMMA RangeTail ==
    ASSUME NEW S, NEW s \in Seq(S), s # <<>>
    PROVE  /\ Head(s) \in S /\ Tail(s) \in Seq(S)
           /\ Len(Tail(s)) = Len(s) - 1
           /\ Range(s) = {Head(s)} \cup Range(Tail(s))
           /\ Distinct(s) => Head(s) \notin Range(Tail(s)) /\ Distinct(Tail(s))
<1> DEFINE t == Tail(s)
<1>1. /\ Head(s) \in S /\ Head(s) = s[1] /\ t \in Seq(S) /\ Len(t) = Len(s) - 1
      /\ \A i \in 1..Len(t) : t[i] = s[i + 1]
  BY HeadTailProperties
<1>2. /\ DOMAIN s = 1..Len(s) /\ DOMAIN t = 1..(Len(s) - 1)
      /\ Len(s) \in Nat \ {0}
  BY <1>1, LenProperties, EmptySeq
<1> HIDE DEF t
<1>3. Range(s) = {s[1]} \cup Range(t)
  <2>1. ASSUME NEW i \in DOMAIN s, i # 1
        PROVE  i - 1 \in DOMAIN t /\ s[i] = t[i - 1]
    BY <1>1, <1>2, <2>1
  <2>2. ASSUME NEW i \in DOMAIN t
        PROVE  i + 1 \in DOMAIN s /\ t[i] = s[i + 1]
    BY <1>1, <1>2
  <2>3. 1 \in DOMAIN s
    BY <1>2
  <2> QED
    BY <2>1, <2>2, <2>3 DEF Range
<1>4. ASSUME Distinct(s)
      PROVE  s[1] \notin Range(t) /\ Distinct(t)
  <2>1. ASSUME NEW i \in DOMAIN t
        PROVE  /\ i + 1 \in DOMAIN s /\ 1 \in DOMAIN s
               /\ t[i] = s[i + 1] /\ i + 1 # 1
    BY <1>1, <1>2
  <2>2. s[1] \notin Range(t)
    BY <1>4, <2>1 DEF Range, Distinct
  <2>3. ASSUME NEW i \in DOMAIN t, NEW j \in DOMAIN t, t[i] = t[j]
        PROVE  i = j
    <3>1. i + 1 = j + 1
      BY <1>4, <2>1, <2>3 DEF Distinct
    <3> QED
      BY <1>2, <3>1
  <2> QED
    BY <2>2, <2>3 DEF Distinct
<1> QED
  BY <1>1, <1>3, <1>4 DEF t

LEMMA QueuedAppend ==
    ASSUME NEW S, NEW q \in Seq(Seq(S)), NEW b \in Seq(S)
    PROVE  /\ Queued(Append(q, b)) = Queued(q) \cup Range(b)
           /\ Queued(q) \subseteq S
           /\ (Apart(q) /\ Range(b) \cap Queued(q) = {}) => Apart(Append(q, b))
<1> DEFINE t == Append(q, b)
<1>1. /\ t \in Seq(Seq(S)) /\ Len(t) = Len(q) + 1 /\ t[Len(q) + 1] = b
      /\ \A i \in 1..Len(q) : t[i] = q[i]
  BY AppendProperties
<1>2. /\ DOMAIN q = 1..Len(q) /\ DOMAIN t = 1..(Len(q) + 1)
      /\ Len(q) \in Nat /\ \A i \in DOMAIN q : q[i] \in Seq(S)
  BY <1>1, LenProperties, ElementOfSeq
<1> HIDE DEF t
<1>3. DOMAIN t = DOMAIN q \cup {Len(q) + 1} /\ Len(q) + 1 \notin DOMAIN q
  BY <1>2
<1>4. Queued(t) = Queued(q) \cup Range(b)
  BY <1>1, <1>2, <1>3 DEF Queued
<1>5. Queued(q) \subseteq S
  BY <1>2, RangeType DEF Queued
<1>6. ASSUME Apart(q), Range(b) \cap Queued(q) = {}
      PROVE  Apart(t)
  <2>1. \A i \in DOMAIN q : t[i] = q[i] /\ Range(b) \cap Range(q[i]) = {}
    BY <1>1, <1>2, <1>6 DEF Queued
  <2>2. t[Len(q) + 1] = b
    BY <1>1
  <2> QED
    BY <1>3, <1>6, <2>1, <2>2 DEF Apart
<1> QED
  BY <1>4, <1>5, <1>6 DEF t

LEMMA QueuedTail ==
    ASSUME NEW S, NEW q \in Seq(Seq(S)), q # <<>>
    PROVE  /\ Queued(q) = Range(Head(q)) \cup Queued(Tail(q))
           /\ Apart(q) => /\ Range(Head(q)) \cap Queued(Tail(q)) = {}
                          /\ Apart(Tail(q))
<1> DEFINE t == Tail(q)
<1>1. /\ Head(q) = q[1] /\ t \in Seq(Seq(S)) /\ Len(t) = Len(q) - 1
      /\ \A i \in 1..Len(t) : t[i] = q[i + 1]
  BY HeadTailProperties
<1>2. /\ DOMAIN q = 1..Len(q) /\ DOMAIN t = 1..(Len(q) - 1)
      /\ Len(q) \in Nat \ {0}
  BY <1>1, LenProperties, EmptySeq
<1> HIDE DEF t
<1>3. ASSUME NEW i \in DOMAIN q, i # 1
      PROVE  i - 1 \in DOMAIN t /\ q[i] = t[i - 1]
  BY <1>1, <1>2, <1>3
<1>4. ASSUME NEW i \in DOMAIN t
      PROVE  i + 1 \in DOMAIN q /\ t[i] = q[i + 1] /\ i + 1 # 1 /\ i \in Nat
  BY <1>1, <1>2
<1>5. 1 \in DOMAIN q
  BY <1>2
<1>6. Queued(q) = Range(q[1]) \cup Queued(t)
  BY <1>3, <1>4, <1>5 DEF Queued
<1>7. ASSUME Apart(q)
      PROVE  Range(q[1]) \cap Queued(t) = {} /\ Apart(t)
  <2>1. Range(q[1]) \cap Queued(t) = {}
    BY <1>4, <1>5, <1>7 DEF Queued, Apart
  <2>2. ASSUME NEW i \in DOMAIN t, NEW j \in DOMAIN t, i # j
        PROVE  Range(t[i]) \cap Range(t[j]) = {}
    <3>1. i + 1 # j + 1
      BY <1>4, <2>2
    <3> QED
      BY <1>4, <1>7, <3>1 DEF Apart
  <2> QED
    BY <2>1, <2>2 DEF Apart
<1> QED
  BY <1>1, <1>6, <1>7 DEF t

\* A replay sends every record it was given, once.
LEMMA InSeqOrderRange ==
    ASSUME NEW S, NEW R \in SUBSET S, IsFiniteSet(R), NEW s \in InSeqOrder(R)
    PROVE  s \in Seq(S) /\ Range(s) = R /\ Distinct(s)
<1> DEFINE n == Cardinality(R)
<1>1. n \in Nat
  BY FS_CardinalityType
<1>2. s \in [1..n -> R] /\ \A i, j \in 1..n : i # j => s[i] # s[j]
  BY DEF InSeqOrder, SetToSeqs
<1>3. s \in Seq(S) /\ Distinct(s)
  BY <1>1, <1>2 DEF Distinct
<1>4. Range(s) \subseteq R
  BY <1>2 DEF Range
<1>5. ASSUME Range(s) # R
      PROVE  FALSE
  <2>1. IsFiniteSet(Range(s)) /\ Cardinality(Range(s)) < n
    <3>1. /\ IsFiniteSet(Range(s)) /\ Cardinality(Range(s)) <= n
          /\ Cardinality(Range(s)) # n
      BY <1>4, <1>5, FS_Subset
    <3>2. Cardinality(Range(s)) \in Nat
      BY <3>1, FS_CardinalityType
    <3> QED
      BY <1>1, <3>1, <3>2
  <2>2. IsFiniteSet(1..n) /\ Cardinality(1..n) = n
    BY <1>1, FS_Interval
  <2>3. s \in [1..n -> Range(s)]
    BY <1>2 DEF Range
  <2> HIDE DEF n
  <2>4. \E x, y \in 1..n : x # y /\ s[x] = s[y]
    BY <2>1, <2>2, <2>3, FS_PigeonHole
  <2> QED
    BY <1>2, <2>4
<1> QED
  BY <1>3, <1>5

-----------------------------------------------------------------------------
(* Lemmas about the calls on the log *)

\* Between calls the log is a finite set of records, one for each entry, none of
\* them of an entry that is not in the log yet.
LEMMA AppendEffect ==
    ASSUME Shape, OneRecord, ResultsFit, NEW e \in Entries, result[e] = "arrived",
           W!Append(e) \/ W!CrashInAppend(e) \/ W!AppendShortWrite(e) \/ W!AppendSyncError(e)
    PROVE  /\ log' \subseteq Rec /\ IsFiniteSet(log') /\ seq' \in Nat
           /\ \A r1, r2 \in log' : r1.entry = r2.entry => r1 = r2
           /\ \A r \in log' : r \in log \/ r.entry = e
           /\ log \subseteq log'
<1> DEFINE rec == [seq |-> seq + 1, entry |-> e]
<1>1. rec \in Rec /\ rec.entry = e
  BY DEF Shape, Rec
<1>2. log' \in {log, log \cup {rec}} /\ seq' \in Nat
  BY DEF W!Append, W!CrashInAppend, W!AppendShortWrite, W!AppendSyncError, W!LoseMemory,
         W!Logged, W!NextRecord, W!memory, Shape
<1>3. \A r \in log : r.entry # e
  BY DEF ResultsFit
<1> HIDE DEF rec
<1>4. IsFiniteSet(log \cup {rec})
  BY FS_AddElement DEF Shape
<1> QED
  BY <1>1, <1>2, <1>3, <1>4 DEF Shape, OneRecord

LEMMA AckEffect ==
    ASSUME Shape, OneRecord, NEW S, W!Ack(S) \/ W!CrashInAck(S)
    PROVE  /\ log' \subseteq log /\ IsFiniteSet(log') /\ seq' \in Nat
           /\ W!Ack(S) => held' = held \ S /\ pending' = pending /\ f' # "none"
           /\ W!CrashInAck(S) => held' = {} /\ pending' = {} /\ f' = "none"
<1>1. ASSUME NEW n, W!Persist(n), f # "none"
      PROVE  log' \subseteq log /\ f' # "none"
  BY <1>1 DEF W!Persist, W!CompactLocked, W!CompactOK, W!CompactNoHandle,
              W!CompactTempError, W!CompactCloseError, W!CompactSwapError, W!disk
<1>2. log' \subseteq log /\ (W!Ack(S) => f' # "none")
  BY <1>1 DEF W!Ack, W!CrashInAck, W!Up
<1>3. IsFiniteSet(log')
  BY <1>2, FS_Subset DEF Shape
<1> QED
  BY <1>2, <1>3 DEF W!Ack, W!CrashInAck, W!LoseMemory, Shape

-----------------------------------------------------------------------------
(* Lemmas about outcomes *)

LEMMA OutcomeValues ==
    /\ <<"refused">> # <<>> /\ <<"full">> # <<>> /\ <<"saved">> # <<>>
    /\ <<"failed">> # <<>> /\ <<"aborted">> # <<>>
    /\ <<"saved">> \notin {<<"refused">>, <<"full">>, <<"failed">>, <<"aborted">>}
  OBVIOUS

\* Entries without an outcome get this one.
LEMMA OutcomeEffect ==
    ASSUME Shape, NEW es, NEW o \in {"refused", "full", "saved", "failed", "aborted"},
           RecordOutcome(es, o), \A e \in es \cap Entries : outcomes[e] = <<>>
    PROVE  /\ outcomes' \in [Entries -> Outcomes]
           /\ \A e \in Entries : outcomes'[e] = IF e \in es THEN <<o>> ELSE outcomes[e]
<1>1. Append(<<>>, o) = <<o>>
  OBVIOUS
<1>2. \A e \in Entries : outcomes'[e] = IF e \in es THEN <<o>> ELSE outcomes[e]
  BY <1>1 DEF RecordOutcome
<1>3. \A e \in Entries : outcomes'[e] \in Outcomes
  BY <1>2 DEF Shape, Outcomes
<1> QED
  BY <1>2, <1>3 DEF RecordOutcome

-----------------------------------------------------------------------------
(* Init, and the steps of main *)

LEMMA InvInit == Init => IInv
<1> SUFFICES ASSUME Init PROVE IInv
  OBVIOUS
<1> USE RangeEmpty, BatchAssumption
<1>1. NoRecords /\ log = {} /\ pending = {} /\ held = {} /\ f = "none" /\ phase = "down"
      /\ seq = 0
  BY DEF Init, W!Init, NoRecords
<1>2. Pipeline = {} /\ Flushing = {}
  BY <1>1 DEF Pipeline, Flushing, NoRecords
<1>3. Shape
  <2>1. IsFiniteSet(log)
    BY <1>1, FS_EmptySet
  <2>2. Len(in) <= QueueCap /\ Len(flushCh) <= FlushCap /\ attempt \in 0..MaxRetries
    BY <1>1 DEF Init, NoRecords
  <2>3. outcomes \in [Entries -> Outcomes] /\ result \in [Entries -> Results]
    BY DEF Init, Outcomes, Results
  <2> QED
    BY <1>1, <2>1, <2>2, <2>3, EmptySeq DEF Init, Shape, NoRecords
<1>4. NothingBeforeReplay /\ ModesApart /\ StopFits
  BY <1>1 DEF Init, NothingBeforeReplay, ModesApart, StopFits, Stopping, Batching, NoRecords
<1>5. OnePlace /\ OneRecord /\ Tracked
  BY <1>1, <1>2 DEF OnePlace, OneRecord, Tracked, NoRecords
<1>6. ResultsFit /\ OutcomesFit
  BY <1>1, <1>2, OutcomeValues DEF Init, ResultsFit, OutcomesFit, NoRecords
<1> QED
  BY <1>3, <1>4, <1>5, <1>6 DEF IInv

\* The process is gone: whatever was in the pipeline, it is empty, and every
\* answer is now that of an earlier process.
LEMMA InvGone ==
    ASSUME IInv, NoProcessNext,
           log' \subseteq Rec, IsFiniteSet(log'), seq' \in Nat,
           \A r1, r2 \in log' : r1.entry = r2.entry => r1 = r2,
           \A r \in log' : r \in log \/ result[r.entry] = "arrived",
           pending' = {}, held' = {}, ~UseWAL => f' = "none" /\ log' = {}
    PROVE  IInv'
<1> USE RangeEmpty, BatchAssumption
<1>1. NoRecords' /\ phase' = "down" /\ Batching' = Batching
  BY DEF NoProcessNext, NoRecords, Batching
<1>2. Pipeline' = {} /\ Flushing' = {} /\ EntriesOf(Pipeline') = {}
  BY <1>1 DEF Pipeline, Flushing, NoRecords, EntriesOf
<1>3. \A e \in Entries :
        /\ outcomes'[e] = <<>>
        /\ result'[e] \in Earlier \cup {"idle"}
        /\ result'[e] = "idle" => result[e] = "idle"
  BY DEF NoProcessNext, Earlier, Results, Open, IInv, Shape
<1>4. Shape'
  <2>1. Len(in') <= QueueCap /\ Len(flushCh') <= FlushCap /\ attempt' \in 0..MaxRetries
    BY <1>1 DEF NoProcessNext, NoRecords
  <2>2. outcomes' \in [Entries -> Outcomes] /\ result' \in [Entries -> Results]
    BY <1>3 DEF NoProcessNext, Outcomes, Earlier, Results
  <2>3. /\ accPc' \in {"none", "run", "dispatch", "drain", "lastDispatch", "exited"}
        /\ flPc' \in {"none", "idle", "send", "inflight", "backoff", "ack", "exited"}
    BY DEF NoProcessNext, IInv, Shape
  <2> QED
    <3>1. /\ ctx' = "none" /\ stopResult' = "none" /\ runCancelled' = FALSE
          /\ stored' \subseteq Entries
      BY DEF NoProcessNext, IInv, Shape
    <3> QED
      BY <1>1, <2>1, <2>2, <2>3, <3>1, EmptySeq DEF Shape, NoRecords
<1>5. /\ ~Batching => flPc' = "none" /\ accPc' = "none"
      /\ Batching => flPc' = "idle" /\ accPc' = "run"
  BY DEF NoProcessNext, IInv, ModesApart, Batching
<1>6. NothingBeforeReplay' /\ ModesApart' /\ StopFits'
  BY <1>1, <1>3, <1>5 DEF NoProcessNext, NothingBeforeReplay, ModesApart, StopFits,
     Stopping, NoRecords, IInv
<1>7. OnePlace' /\ OneRecord' /\ Tracked'
  BY <1>1, <1>2 DEF OnePlace, OneRecord, Tracked, NoRecords
<1>8. ResultsFit'
  <2>1. ASSUME NEW r \in log' PROVE result'[r.entry] \notin {"idle", "arrived", "pushing"}
    BY <1>3 DEF IInv, ResultsFit, Earlier, Results, Open, Rec
  <2> QED
    BY <1>1, <1>2, <2>1 DEF ResultsFit, NoRecords
<1>9. OutcomesFit'
  <2>1. \A e \in Entries : outcomes'[e] # <<"saved">> /\ result'[e] # "ok"
    BY <1>3, OutcomeValues DEF Earlier
  <2>2. flPc' \in {"none", "idle"}
    BY <1>5
  <2> QED
    BY <1>1, <1>2, <1>3, <2>1, <2>2 DEF OutcomesFit, NoRecords
<1> QED
  BY <1>4, <1>6, <1>7, <1>8, <1>9 DEF IInv

LEMMA ExitKeepsInv == IInv /\ Exit => IInv'
<1> SUFFICES ASSUME IInv, Exit PROVE IInv'
  OBVIOUS
<1> USE BatchAssumption
<1>1. log' = log /\ pending' = {} /\ held' = {} /\ seq' \in Nat /\ f' = "none"
  BY DEF Exit, OnWAL, W!Crash, W!LoseMemory, W!disk, walVars, IInv, Shape,
         ModesApart, NothingBeforeReplay
<1>2. NoProcessNext
  BY DEF Exit
<1> QED
  BY <1>1, <1>2, InvGone DEF IInv, Shape, OneRecord, ModesApart

\* A step that leaves every record where it is.
LEMMA SamePlaces ==
    ASSUME UNCHANGED <<offers, lastOffers, replayLeft, in, batch, flushCh, flBatch>>
    PROVE  /\ NoRecords' = NoRecords /\ Pipeline' = Pipeline /\ Flushing' = Flushing
           /\ Range(replayLeft)' = Range(replayLeft) /\ Range(in)' = Range(in)
           /\ Range(batch)' = Range(batch) /\ Range(flBatch)' = Range(flBatch)
           /\ Queued(flushCh)' = Queued(flushCh)
           /\ OnePlace => OnePlace'
  BY DEF NoRecords, Pipeline, Flushing, OnePlace

\* The log is opened: what it holds past the checkpoint is to be replayed.
LEMMA StartKeepsInv == IInv /\ Start => IInv'
<1> SUFFICES ASSUME IInv, Start PROVE IInv'
  OBVIOUS
<1> USE BatchAssumption DEF IInv
<1>1. UNCHANGED <<offers, lastOffers, replayLeft, in, batch, flushCh, flBatch, result,
                  outcomes, stored, accPc, flPc, attempt, ctx, stopResult, runCancelled>>
      /\ phase = "down" /\ phase' = "opening"
  BY DEF Start, reqVars, accVars, flVars
<1>2. /\ log' = log /\ pending' \subseteq log /\ held' = held /\ seq' \in Nat
      /\ ~UseWAL => f' = f
  BY DEF Start, OnWAL, W!OpenWAL, W!disk, walVars, Shape, NothingBeforeReplay, W!Seqs, Rec
<1>3. Shape'
  BY <1>1, <1>2 DEF Shape
<1>4. NothingBeforeReplay'
  BY <1>1, <1>2, SamePlaces DEF NothingBeforeReplay
<1>5. ModesApart' /\ OnePlace' /\ OneRecord' /\ Tracked'
  BY <1>1, <1>2, SamePlaces DEF ModesApart, Batching, OneRecord, Tracked
<1>6. ResultsFit' /\ OutcomesFit'
  BY <1>1, <1>2, SamePlaces DEF ResultsFit, OutcomesFit
<1>7. StopFits'
  BY <1>1, <1>2, SamePlaces DEF StopFits, Stopping, HandlersActive, Batching, NothingBeforeReplay
<1> QED
  BY <1>3, <1>4, <1>5, <1>6, <1>7

\* Replay: what the log recovered is the pipeline, and the log waits for it.
LEMMA ReplayKeepsInv == IInv /\ Replay => IInv'
<1> SUFFICES ASSUME IInv, Replay PROVE IInv'
  OBVIOUS
<1> USE BatchAssumption DEF IInv
<1>1. /\ UNCHANGED <<offers, lastOffers, in, batch, flushCh, flBatch, result, outcomes,
                     stored, accPc, flPc, attempt, ctx, stopResult, runCancelled>>
      /\ phase = "opening" /\ phase' = "starting"
      /\ replayLeft' \in InSeqOrder(pending)
  BY DEF Replay, reqVars, accVars, flVars
<1>2. /\ log' = log /\ pending' = {} /\ held' = held \cup pending /\ seq' = seq
      /\ f' = f /\ pending \subseteq log
  BY DEF Replay, W!Recover, W!disk, walVars, NothingBeforeReplay
<1>3. /\ replayLeft' \in Seq(Rec) /\ Range(replayLeft') = pending /\ Distinct(replayLeft')
      /\ pending \subseteq Rec
  <2>1. IsFiniteSet(pending) /\ pending \in SUBSET Rec
    BY <1>2, FS_Subset DEF Shape
  <2> QED
    BY <1>1, <2>1, InSeqOrderRange
<1>4. NoRecords /\ Pipeline = {} /\ Pipeline' = pending /\ Flushing' = {}
  BY <1>1, <1>3, RangeEmpty DEF NothingBeforeReplay, NoRecords, Pipeline, Flushing
<1>5. Shape'
  BY <1>1, <1>2, <1>3 DEF Shape
<1>6. NothingBeforeReplay'
  BY <1>1, <1>2 DEF NothingBeforeReplay
<1>7. ModesApart'
  <2>1. ~UseWAL => replayLeft' = <<>>
    BY <1>2, <1>3, RangeType DEF ModesApart
  <2>2. ~Batching => replayLeft' = <<>>
    <3>1. ~Batching => ~UseWAL
      BY DEF ModesApart
    <3> QED
      BY <2>1, <3>1
  <2> QED
    BY <1>1, <1>2, <1>4, <2>1, <2>2 DEF ModesApart, Batching, NoRecords
<1>8. OnePlace' /\ OneRecord' /\ Tracked'
  BY <1>1, <1>2, <1>3, <1>4, RangeEmpty DEF OnePlace, OneRecord, Tracked, NoRecords
<1>9. ResultsFit'
  <2>1. \A r \in pending : result[r.entry] \in Earlier
    BY <1>1, <1>2, <1>3 DEF NothingBeforeReplay, ResultsFit, Rec
  <2> QED
    BY <1>1, <1>2, <1>3, <1>4, <2>1, RangeEmpty DEF ResultsFit, NoRecords
<1>10. OutcomesFit'
  BY <1>1, <1>2, <1>3, <1>4, RangeEmpty DEF NothingBeforeReplay, OutcomesFit, NoRecords,
     Rec, Earlier
<1>11. StopFits'
  BY <1>1, <1>2 DEF StopFits, Stopping, HandlersActive, Batching, NothingBeforeReplay
<1> QED
  BY <1>5, <1>6, <1>7, <1>8, <1>9, <1>10, <1>11

\* The other steps of main move no record.
LEMMA MainKeepsInv ==
    ASSUME IInv, Ping \/ Signal \/ Deadline \/ BeginStop \/ Drained \/ OutOfTime
    PROVE  IInv'
<1> USE BatchAssumption DEF IInv
<1>1. UNCHANGED <<offers, lastOffers, replayLeft, in, batch, flushCh, flBatch, result,
                  outcomes, stored, accPc, flPc, attempt>>
  BY DEF Ping, Signal, Deadline, BeginStop, Drained, OutOfTime, FinishStop, reqVars,
         accVars, flVars
<1>2. log' = log /\ pending' = pending /\ held' = held /\ seq' = seq /\ (~UseWAL => f' = f)
  BY DEF Ping, Signal, Deadline, BeginStop, Drained, OutOfTime, FinishStop, CloseWAL,
         W!CloseWAL, W!disk, walVars, ModesApart
<1>3. /\ phase \notin {"down", "opening", "starting"} \/ Ping \/ Deadline
      /\ phase' \notin {"down", "opening", "starting"} \/ Deadline
      /\ Ping => phase = "starting"
      /\ Deadline => phase' = phase
  BY DEF Ping, Signal, Deadline, BeginStop, Drained, OutOfTime, FinishStop
<1>4. Shape'
  <2>1. /\ phase' \in {"down", "opening", "starting", "serving", "draining",
                        "closing", "closed"}
        /\ ctx' \in {"none", "live", "expired", "overrun"}
        /\ stopResult' \in {"none", "nil", "error"} /\ runCancelled' \in BOOLEAN
    BY DEF Ping, Signal, Deadline, BeginStop, Drained, OutOfTime, FinishStop, Shape
  <2> QED
    BY <1>1, <1>2, <2>1 DEF Shape
<1>5. NothingBeforeReplay'
  BY <1>1, <1>2, <1>3, SamePlaces DEF NothingBeforeReplay
<1>6. ModesApart' /\ OnePlace' /\ OneRecord' /\ Tracked'
  BY <1>1, <1>2, SamePlaces DEF ModesApart, Batching, OneRecord, Tracked
<1>7. ResultsFit' /\ OutcomesFit'
  BY <1>1, <1>2, SamePlaces DEF ResultsFit, OutcomesFit
<1>8. StopFits'
  <2>1. stopResult' = "nil" =>
          /\ phase' = "closed"
          /\ Batching => accPc = "exited" /\ flPc = "exited" /\ replayLeft = <<>>
    <3>1. CASE Drained
      BY <3>1 DEF Drained, FinishStop
    <3>2. CASE OutOfTime
      BY <3>2 DEF OutOfTime, FinishStop
    <3>3. CASE Ping \/ Signal \/ Deadline \/ BeginStop
      <4>1. stopResult' = stopResult /\ (phase = "closed" => Deadline)
        BY <3>3 DEF Ping, Signal, Deadline, BeginStop
      <4>2. Deadline => stopResult = "none"
        BY DEF Deadline
      <4> QED
        BY <4>1, <4>2 DEF StopFits
    <3> QED
      BY <3>1, <3>2, <3>3
  <2>2. Stopping => Stopping'
    BY DEF Ping, Signal, Deadline, BeginStop, Drained, OutOfTime, FinishStop, Stopping
  <2>3. (ctx' # "overrun" /\ ~Signal) => ctx # "overrun"
    BY DEF Ping, Signal, Deadline, BeginStop, Drained, OutOfTime, FinishStop
  <2>5. Signal => ~Stopping /\ ~Stopping'
    BY DEF Signal, Stopping
  <2>4. (Stopping' /\ ctx' # "overrun") => ~HandlersActive
    <3>1. phase = "starting" => ~HandlersActive
      BY DEF NothingBeforeReplay, HandlersActive, Earlier, Open
    <3> QED
      BY <2>3, <2>5, <3>1 DEF Ping, Signal, Deadline, BeginStop, Drained, OutOfTime, FinishStop,
         StopFits, Stopping
  <2> QED
    BY <1>1, <2>1, <2>2, <2>3, <2>4, <2>5 DEF StopFits, HandlersActive, Batching
<1> QED
  BY <1>4, <1>5, <1>6, <1>7, <1>8

-----------------------------------------------------------------------------
(* The steps of a request *)

\* What a request outside the pipeline does to its own entry.
RequestEffect(e, told) ==
    /\ UNCHANGED <<phase, ctx, stopResult, runCancelled, offers, lastOffers, replayLeft,
                   in, accPc, batch, flushCh, flPc, flBatch, attempt>>
    /\ UNCHANGED <<pending, held, seq, f>>
    /\ log' \subseteq Rec /\ IsFiniteSet(log') /\ log \subseteq log'
    /\ \A r1, r2 \in log' : r1.entry = r2.entry => r1 = r2
    /\ \A r \in log' : r \in log \/ r.entry = e
    /\ log' = log \/ (UseWAL /\ told = "refused")
    /\ result[e] \in {"idle", "arrived", "pushing"}
    /\ result[e] = "idle" => phase = "serving"
    /\ result' = [result EXCEPT ![e] = told]
    /\ told \in {"arrived", "pushing", "refused", "failed", "ok"}
    /\ outcomes' \in [Entries -> Outcomes]
    /\ \A x \in Entries \ {e} : outcomes'[x] = outcomes[x]
    /\ told \in {"arrived", "pushing"} => outcomes'[e] = <<>>
    /\ told = "ok" => outcomes'[e] # <<>>
    /\ outcomes'[e] = <<"saved">> => e \in stored'
    /\ stored \subseteq stored' /\ stored' \subseteq Entries

LEMMA RequestEffects ==
    ASSUME IInv, NEW e \in Entries, Arrive(e) \/ LogRefused(e) \/ Direct(e)
    PROVE  \E told \in {"arrived", "pushing", "refused", "failed", "ok"} :
               RequestEffect(e, told)
<1> USE DEF IInv, RequestEffect, mainVars, accVars, flVars, reqVars, walVars
<1>0. \A x \in Entries : result[x] \in {"idle", "arrived", "pushing"} => outcomes[x] = <<>>
  BY DEF OutcomesFit, Open
<1>1. CASE Arrive(e)
  <2>1. RequestEffect(e, "arrived")
    BY <1>0, <1>1, OutcomeValues DEF Arrive, Shape, OneRecord
  <2> QED
    BY <2>1
<1>2. CASE LogRefused(e)
  <2>1. /\ outcomes' \in [Entries -> Outcomes]
        /\ \A x \in Entries : outcomes'[x] = IF x \in {e} THEN <<"refused">> ELSE outcomes[x]
    BY <1>0, <1>2, OutcomeEffect DEF LogRefused
  <2>2. UNCHANGED <<pending, held, seq, f>> /\ UseWAL
    BY <1>2 DEF LogRefused, W!AppendRefused, W!AppendShortWrite, W!AppendSyncError,
                W!disk, W!memory
  <2>3. /\ log' \subseteq Rec /\ IsFiniteSet(log') /\ log \subseteq log'
        /\ \A r1, r2 \in log' : r1.entry = r2.entry => r1 = r2
        /\ \A r \in log' : r \in log \/ r.entry = e
    <3>1. CASE W!AppendRefused(e)
      BY <3>1 DEF W!AppendRefused, W!disk, Shape, OneRecord
    <3>2. CASE W!AppendShortWrite(e) \/ W!AppendSyncError(e)
      BY <1>2, <3>2, AppendEffect DEF LogRefused
    <3> QED
      BY <1>2, <3>1, <3>2 DEF LogRefused
  <2>4. RequestEffect(e, "refused")
    BY <1>2, <2>1, <2>2, <2>3, OutcomeValues DEF LogRefused, Shape
  <2> QED
    BY <2>4
<1>3. CASE ConvertFails(e)
  <2>1. /\ outcomes' \in [Entries -> Outcomes]
        /\ \A x \in Entries : outcomes'[x] = IF x \in {e} THEN <<"failed">> ELSE outcomes[x]
    BY <1>0, <1>3, OutcomeEffect DEF ConvertFails
  <2>2. RequestEffect(e, "failed")
    BY <1>3, <2>1, OutcomeValues DEF ConvertFails, Shape, OneRecord
  <2> QED
    BY <2>2
<1>4. CASE Push(e)
  <2>1. RequestEffect(e, "pushing")
    BY <1>0, <1>4, OutcomeValues DEF Push, Shape, OneRecord
  <2> QED
    BY <2>1
<1>5. CASE Pushed(e)
  <2>1. /\ outcomes' \in [Entries -> Outcomes]
        /\ \A x \in Entries : outcomes'[x] = IF x \in {e} THEN <<"saved">> ELSE outcomes[x]
    BY <1>0, <1>5, OutcomeEffect DEF Pushed
  <2>2. RequestEffect(e, "ok")
    BY <1>5, <2>1, OutcomeValues DEF Pushed, Shape, OneRecord
  <2> QED
    BY <2>2
<1>6. CASE PushFails(e)
  <2>1. /\ outcomes' \in [Entries -> Outcomes]
        /\ \A x \in Entries : outcomes'[x] = IF x \in {e} THEN <<"failed">> ELSE outcomes[x]
    BY <1>0, <1>6, OutcomeEffect DEF PushFails
  <2>2. RequestEffect(e, "failed")
    BY <1>6, <2>1, OutcomeValues DEF PushFails, Shape, OneRecord
  <2> QED
    BY <2>2
<1> QED
  BY <1>1, <1>2, <1>3, <1>4, <1>5, <1>6 DEF Direct

LEMMA RequestKeepsInv ==
    ASSUME IInv, NEW e \in Entries, NEW told, RequestEffect(e, told)
    PROVE  IInv'
<1> USE DEF IInv, RequestEffect
<1>1. \A r \in Pipeline \cup log : r \in Rec /\ r.entry # e
  <2>1. Pipeline \cup log \subseteq Rec
    BY RangeType, QueuedAppend DEF Pipeline, Flushing, Shape
  <2> QED
    BY <2>1 DEF Pipeline, Flushing, ResultsFit, Open, Earlier
<1>2. \A x \in Entries : x # e => result'[x] = result[x]
  BY DEF Shape
<1>3. result'[e] = told
  BY DEF Shape
<1>4. Shape'
  BY DEF Shape, Results, Open
<1>5. phase \notin {"down", "opening", "starting"}
  BY DEF NothingBeforeReplay, Earlier, Open
<1>6. NothingBeforeReplay' /\ ModesApart' /\ OnePlace' /\ OneRecord' /\ Tracked'
  <2>1. NothingBeforeReplay'
    BY <1>5, SamePlaces DEF NothingBeforeReplay
  <2>2. ModesApart'
    BY SamePlaces DEF ModesApart, Batching
  <2>3. OnePlace'
    BY SamePlaces
  <2>4. OneRecord' /\ Tracked'
    BY <1>1, <1>3, SamePlaces DEF OneRecord, Tracked
  <2> QED
    BY <2>1, <2>2, <2>3, <2>4
<1>7. ResultsFit'
  BY <1>1, <1>2, <1>3, SamePlaces DEF ResultsFit, Pipeline, Flushing, Rec
<1>8. OutcomesFit'
  <2>1. \A r \in Pipeline : outcomes'[r.entry] = outcomes[r.entry]
    BY <1>1 DEF Rec
  <2>2. \A x \in Entries :
          /\ result'[x] \in Open \cup {"idle"} => outcomes'[x] = <<>>
          /\ outcomes'[x] = <<"saved">> => x \in stored'
          /\ result'[x] = "ok" => x \in EntriesOf(Pipeline) \/ outcomes'[x] # <<>>
    BY <1>2, <1>3 DEF OutcomesFit, Open
  <2> QED
    BY <2>1, <2>2, SamePlaces DEF OutcomesFit, Pipeline, Flushing
<1>9. StopFits'
  <2>1. ASSUME Stopping, ctx # "overrun"
        PROVE  FALSE
    BY <2>1 DEF StopFits, HandlersActive, Open, Stopping
  <2> QED
    BY <2>1, SamePlaces DEF StopFits, Stopping, HandlersActive, Batching
<1> QED
  BY <1>4, <1>6, <1>7, <1>8, <1>9

LEMMA CrashInLogKeepsInv == ASSUME IInv, NEW e \in Entries, CrashInLog(e) PROVE IInv'
<1>1. NoProcessNext /\ W!CrashInAppend(e) /\ UseWAL /\ result[e] = "arrived"
  BY DEF CrashInLog
<1>2. pending' = {} /\ held' = {}
  BY <1>1 DEF W!CrashInAppend, W!LoseMemory
<1> QED
  BY <1>1, <1>2, AppendEffect, InvGone DEF IInv

\* The record of a request that was logged is offered to the channel.
LEMMA LogKeepsInv == ASSUME IInv, NEW e \in Entries, Log(e) PROVE IInv'
<1> USE BatchAssumption DEF IInv
<1> DEFINE rec == [seq |-> IF UseWAL THEN seq + 1 ELSE 0, entry |-> e]
<1>1. /\ UNCHANGED <<phase, ctx, stopResult, runCancelled, lastOffers, replayLeft, in,
                     accPc, batch, flushCh, flPc, flBatch, attempt, outcomes, stored>>
      /\ Batching /\ result[e] = "arrived"
      /\ offers' = offers \cup {rec}
      /\ result' = [result EXCEPT ![e] = "saving"]
  BY DEF Log, mainVars, accVars, flVars
<1>2. rec \in Rec /\ rec.entry = e
  BY DEF Rec, Shape
<1>3. /\ log' \subseteq Rec /\ IsFiniteSet(log') /\ seq' \in Nat
      /\ \A r1, r2 \in log' : r1.entry = r2.entry => r1 = r2
      /\ \A r \in log' : r \in log \/ r.entry = e
      /\ log \subseteq log'
  <2>1. CASE UseWAL
    BY <1>1, <2>1, AppendEffect DEF Log, OnWAL
  <2>2. CASE ~UseWAL
    BY <2>2 DEF Log, OnWAL, walVars, Shape, OneRecord
  <2> QED
    BY <2>1, <2>2
<1>4. /\ UseWAL => held' = held \cup {rec}
      /\ ~UseWAL => held' = held /\ log' = log /\ f' = f
      /\ pending' = pending
  BY DEF Log, OnWAL, W!Append, W!NextRecord, walVars
<1> HIDE DEF rec
<1>5. \A r \in Pipeline \cup log : r \in Rec /\ r.entry # e
  <2>1. Pipeline \cup log \subseteq Rec
    BY RangeType, QueuedAppend DEF Pipeline, Flushing, Shape
  <2> QED
    BY <1>1, <2>1 DEF Pipeline, Flushing, ResultsFit, Open, Earlier
<1>6. Pipeline' = Pipeline \cup {rec} /\ Flushing' = Flushing
  BY <1>1 DEF Pipeline, Flushing
<1>7. \A x \in Entries : result'[x] = IF x = e THEN "saving" ELSE result[x]
  BY <1>1 DEF Shape
<1>8. Shape'
  BY <1>1, <1>2, <1>3 DEF Shape, Results, Open
<1>9. phase \notin {"down", "opening", "starting"}
  BY <1>1 DEF NothingBeforeReplay, Earlier, Open
<1>10. NothingBeforeReplay' /\ ModesApart'
  BY <1>1, <1>3, <1>4, <1>9 DEF NothingBeforeReplay, ModesApart, Batching
<1>11. OnePlace'
  <2>1. rec \notin Pipeline
    BY <1>2, <1>5
  <2> QED
    BY <1>1, <1>6, <2>1 DEF OnePlace, Pipeline
<1>12. OneRecord' /\ Tracked'
  BY <1>2, <1>3, <1>4, <1>5, <1>6 DEF OneRecord, Tracked
<1>13. ResultsFit'
  BY <1>1, <1>2, <1>3, <1>5, <1>6, <1>7 DEF ResultsFit, Pipeline, Flushing, Rec
<1>14. OutcomesFit'
  <2>1. \A x \in Entries :
          /\ result'[x] \in Open \cup {"idle"} => outcomes[x] = <<>>
          /\ result'[x] = "ok" => x \in EntriesOf(Pipeline') \/ outcomes[x] # <<>>
    BY <1>1, <1>6, <1>7 DEF OutcomesFit, Open, EntriesOf
  <2> QED
    BY <1>1, <1>6, <2>1 DEF OutcomesFit
<1>15. StopFits'
  <2>1. ASSUME Stopping, ctx # "overrun"
        PROVE  FALSE
    BY <1>1, <2>1 DEF StopFits, HandlersActive, Open, Stopping
  <2> QED
    BY <1>1, <2>1 DEF StopFits, Stopping, HandlersActive, Batching
<1> QED
  BY <1>8, <1>10, <1>11, <1>12, <1>13, <1>14, <1>15

\* A record that is offered is nowhere else, its entry has no outcome yet and no
\* other record, and its handler is active.
LEMMA OfferedAlone ==
    ASSUME IInv, NEW r \in offers \cup lastOffers
    PROVE  /\ r \in Rec /\ r \in Pipeline /\ result[r.entry] = "saving"
           /\ outcomes[r.entry] = <<>>
           /\ r \notin Range(replayLeft) \cup Range(in) \cup Range(batch) \cup Flushing
           /\ \A h \in Pipeline : h \in Rec /\ (h.entry = r.entry => h = r)
           /\ phase \notin {"down", "opening", "starting"}
           /\ Stopping => ctx = "overrun"
           /\ Batching
<1> USE DEF IInv
<1>1. Pipeline \subseteq Rec
  BY RangeType, QueuedAppend DEF Pipeline, Flushing, Shape
<1>2. r \in Rec /\ r \in Pipeline /\ result[r.entry] = "saving"
  BY <1>1 DEF Pipeline, ResultsFit
<1>3. r \notin Range(replayLeft) \cup Range(in) \cup Range(batch) \cup Flushing
  BY <1>2 DEF ResultsFit, Earlier, Open
<1>4. outcomes[r.entry] = <<>>
  BY <1>2 DEF OutcomesFit, Open, Rec
<1>5. phase \notin {"down", "opening", "starting"}
  BY <1>2 DEF NothingBeforeReplay, Earlier, Open, Rec
<1>6. Stopping => ctx = "overrun"
  BY <1>2 DEF StopFits, HandlersActive, Open, Rec
<1>7. Batching
  BY DEF ModesApart, NoRecords
<1> QED
  BY <1>1, <1>2, <1>3, <1>4, <1>5, <1>6, <1>7 DEF OneRecord

LEMMA EnqueuedKeepsInv ==
    ASSUME IInv, NEW r \in offers \cup lastOffers, Enqueued(r)
    PROVE  IInv'
<1> USE DEF IInv
<1>1. /\ UNCHANGED <<phase, ctx, stopResult, runCancelled, replayLeft, accPc, batch,
                     flushCh, flPc, flBatch, attempt, outcomes, stored>>
      /\ UNCHANGED <<log, pending, held, seq, f>>
      /\ offers' = offers \ {r} /\ lastOffers' = lastOffers \ {r}
      /\ in' = Append(in, r) /\ Len(in) < QueueCap
      /\ result' = [result EXCEPT ![r.entry] = "ok"]
  BY DEF Enqueued, Room, mainVars, accVars, flVars, walVars
<1>2. /\ in' \in Seq(Rec) /\ Len(in') <= QueueCap /\ Range(in') = Range(in) \cup {r}
      /\ Distinct(in')
  <2>1. Len(in) \in Nat
    BY LenProperties DEF Shape
  <2>2. QueueCap \in Nat
    BY BatchAssumption
  <2> QED
    BY <1>1, <2>1, <2>2, OfferedAlone, RangeAppend DEF Shape, OnePlace
<1>3. \A x \in Entries : result'[x] = IF x = r.entry THEN "ok" ELSE result[x]
  BY <1>1 DEF Shape
<1>4. Flushing' = Flushing /\ Pipeline' = Pipeline
  BY <1>1, <1>2 DEF Pipeline, Flushing
<1>5. Shape'
  <2>1. result' \in [Entries -> Results] /\ offers' \subseteq Rec /\ lastOffers' \subseteq Rec
    BY <1>1 DEF Shape, Results
  <2> QED
    BY <1>1, <1>2, <2>1 DEF Shape
<1>6. NothingBeforeReplay' /\ ModesApart'
  BY <1>1, <1>2, OfferedAlone DEF NothingBeforeReplay, ModesApart, Batching
<1>7. OnePlace' /\ OneRecord' /\ Tracked'
  BY <1>1, <1>2, <1>4, OfferedAlone DEF OnePlace, OneRecord, Tracked
<1>8. ResultsFit'
  <2>1. \A h \in Pipeline : h \in Rec /\ result'[h.entry] = IF h = r THEN "ok" ELSE result[h.entry]
    BY <1>3, OfferedAlone DEF Rec
  <2>2. \A h \in log : result'[h.entry] \notin {"idle", "arrived", "pushing"}
    BY <1>3 DEF ResultsFit, Shape, Rec
  <2> QED
    BY <1>1, <1>2, <1>4, <2>1, <2>2, OfferedAlone DEF ResultsFit, Pipeline, Open, Earlier
<1>9. OutcomesFit'
  <2>1. \A x \in Entries :
          /\ result'[x] \in Open \cup {"idle"} => outcomes[x] = <<>>
          /\ result'[x] = "ok" => x \in EntriesOf(Pipeline) \/ outcomes[x] # <<>>
    BY <1>3, OfferedAlone DEF OutcomesFit, Open, EntriesOf
  <2> QED
    BY <1>1, <1>2, <1>4, <2>1, OfferedAlone DEF OutcomesFit
<1>10. StopFits'
  BY <1>1, OfferedAlone DEF StopFits, Stopping, Batching
<1> QED
  BY <1>5, <1>6, <1>7, <1>8, <1>9, <1>10

LEMMA WaitedLongKeepsInv ==
    ASSUME IInv, NEW r \in offers \cup lastOffers, WaitedLong(r)
    PROVE  IInv'
<1> USE DEF IInv
<1>1. /\ UNCHANGED <<phase, ctx, stopResult, runCancelled, replayLeft, in, accPc, batch,
                     flushCh, flPc, flBatch, attempt, outcomes, stored, result>>
      /\ UNCHANGED <<log, pending, held, seq, f>>
      /\ r \in offers
      /\ offers' = offers \ {r} /\ lastOffers' = lastOffers \cup {r}
  BY DEF WaitedLong, mainVars, accVars, flVars, walVars
<1>2. Flushing' = Flushing /\ Pipeline' = Pipeline
  BY <1>1 DEF Pipeline, Flushing
<1>3. Shape'
  BY <1>1 DEF Shape
<1>4. NothingBeforeReplay' /\ ModesApart'
  BY <1>1, OfferedAlone DEF NothingBeforeReplay, ModesApart, Batching
<1>5. OnePlace' /\ OneRecord' /\ Tracked'
  BY <1>1, <1>2, OfferedAlone DEF OnePlace, OneRecord, Tracked
<1>6. ResultsFit' /\ OutcomesFit'
  BY <1>1, <1>2 DEF ResultsFit, OutcomesFit
<1>7. StopFits'
  BY <1>1 DEF StopFits, Stopping, Batching, HandlersActive
<1> QED
  BY <1>3, <1>4, <1>5, <1>6, <1>7

\* A request that gives its record up: its context is over, or the queue is full.
LEMMA DroppedKeepsInv ==
    ASSUME IInv, NEW r \in offers \cup lastOffers, SaveTimedOut(r) \/ QueueFull(r)
    PROVE  IInv'
<1> USE BatchAssumption DEF IInv
<1>1. /\ UNCHANGED <<phase, ctx, stopResult, runCancelled, replayLeft, in, accPc, batch,
                     flushCh, flPc, flBatch, attempt, stored>>
      /\ offers' = offers \ {r} /\ lastOffers' = lastOffers \ {r}
  BY DEF SaveTimedOut, QueueFull, mainVars, accVars, flVars, OnePlace
<1>2. PICK told \in {"cancelled", "full"} : result' = [result EXCEPT ![r.entry] = told]
  BY DEF SaveTimedOut, QueueFull
<1>3. /\ outcomes' \in [Entries -> Outcomes]
      /\ \A x \in Entries \ {r.entry} : outcomes'[x] = outcomes[x]
      /\ outcomes'[r.entry] # <<"saved">>
  <2>1. CASE SaveTimedOut(r)
    BY <2>1, OfferedAlone, OutcomeValues DEF SaveTimedOut, Shape
  <2>2. CASE QueueFull(r)
    <3>1. \A x \in {r.entry} \cap Entries : outcomes[x] = <<>>
      BY OfferedAlone
    <3>2. /\ outcomes' \in [Entries -> Outcomes]
          /\ \A x \in Entries :
                outcomes'[x] = IF x \in {r.entry} THEN <<"full">> ELSE outcomes[x]
      BY <2>2, <3>1, OutcomeEffect DEF QueueFull
    <3> QED
      BY <3>2, OfferedAlone, OutcomeValues DEF Rec
  <2> QED
    BY <2>1, <2>2
<1>4. /\ log' \subseteq log /\ IsFiniteSet(log') /\ seq' \in Nat /\ pending' = pending
      /\ UseWAL => held' = held \ {r}
      /\ ~UseWAL => held' = held /\ f' = f
  <2>1. CASE ~UseWAL
    BY <2>1 DEF SaveTimedOut, QueueFull, AckBatch, OnWAL, walVars, Shape
  <2>2. CASE UseWAL /\ SaveTimedOut(r)
    BY <2>2 DEF SaveTimedOut, OnWAL, W!Abandon, W!disk, W!memory, Shape
  <2>3. CASE UseWAL /\ QueueFull(r)
    BY <2>3, AckEffect DEF QueueFull, AckBatch, OnWAL
  <2> QED
    BY <2>1, <2>2, <2>3
<1>5. \A x \in Entries : result'[x] = IF x = r.entry THEN told ELSE result[x]
  BY <1>2 DEF Shape
<1>6. Flushing' = Flushing /\ Pipeline' = Pipeline \ {r}
  BY <1>1, OfferedAlone DEF Pipeline, Flushing
<1>7. \A h \in Pipeline \ {r} :
        h \in Rec /\ result'[h.entry] = result[h.entry] /\ outcomes'[h.entry] = outcomes[h.entry]
  BY <1>3, <1>5, OfferedAlone DEF Rec
<1>8. Shape'
  <2>1. /\ result' \in [Entries -> Results]
        /\ offers' \subseteq Rec /\ lastOffers' \subseteq Rec /\ log' \subseteq Rec
    BY <1>1, <1>2, <1>4 DEF Shape, Results
  <2> QED
    BY <1>1, <1>3, <1>4, <2>1 DEF Shape
<1>9. NothingBeforeReplay' /\ ModesApart'
  BY <1>1, <1>4, OfferedAlone DEF NothingBeforeReplay, ModesApart, Batching
<1>10. OnePlace' /\ OneRecord' /\ Tracked'
  BY <1>1, <1>4, <1>6 DEF OnePlace, OneRecord, Tracked
<1>11. ResultsFit'
  <2>1. \A h \in log : result'[h.entry] \notin {"idle", "arrived", "pushing"}
    BY <1>5 DEF ResultsFit, Shape, Rec
  <2> QED
    BY <1>1, <1>4, <1>6, <1>7, <2>1, OfferedAlone DEF ResultsFit, Pipeline
<1>12. OutcomesFit'
  <2>1. \A x \in Entries :
          /\ result'[x] \in Open \cup {"idle"} => outcomes'[x] = <<>>
          /\ result'[x] = "ok" => x \in EntriesOf(Pipeline') \/ outcomes'[x] # <<>>
          /\ outcomes'[x] = <<"saved">> => x \in stored
    BY <1>3, <1>5, <1>6 DEF OutcomesFit, Open, EntriesOf
  <2> QED
    <3>1. \A h \in Range(replayLeft) \cup Range(in) \cup Range(batch) \cup Flushing :
             outcomes'[h.entry] = outcomes[h.entry]
      BY <1>7, OfferedAlone DEF Pipeline
    <3> QED
      BY <1>1, <1>6, <2>1, <3>1 DEF OutcomesFit, Flushing
<1>13. StopFits'
  BY <1>1, OfferedAlone DEF StopFits, Stopping, Batching
<1> QED
  BY <1>8, <1>9, <1>10, <1>11, <1>12, <1>13

-----------------------------------------------------------------------------
(* The steps of the replay goroutine and of the accumulator *)

\* Where there is a record, the process is past the replay and works in batches.
LEMMA Occupied ==
    ASSUME IInv, ~NoRecords \/ accPc \in {"dispatch", "drain", "lastDispatch", "exited"}
    PROVE  phase \notin {"down", "opening"} /\ Batching
  BY DEF IInv, NothingBeforeReplay, ModesApart, Batching

LEMMA ReplaySendKeepsInv == IInv /\ ReplaySend => IInv'
<1> SUFFICES ASSUME IInv, ReplaySend PROVE IInv'
  OBVIOUS
<1> DEFINE h == Head(replayLeft)
<1> USE DEF IInv
<1>1. /\ UNCHANGED <<phase, ctx, stopResult, runCancelled, result, offers, lastOffers, accPc,
                     batch, flushCh, flPc, flBatch, attempt, outcomes, stored>>
      /\ UNCHANGED <<log, pending, held, seq, f>>
      /\ replayLeft # <<>> /\ Len(in) < QueueCap
      /\ in' = Append(in, h) /\ replayLeft' = Tail(replayLeft)
  BY DEF ReplaySend, Room, mainVars, reqVars, accVars, flVars, walVars
<1>2. /\ h \in Rec /\ replayLeft' \in Seq(Rec) /\ Range(replayLeft) = {h} \cup Range(replayLeft')
      /\ h \notin Range(replayLeft') /\ Distinct(replayLeft')
  BY <1>1, RangeTail DEF Shape, OnePlace
<1> HIDE DEF h
<1>3. /\ in' \in Seq(Rec) /\ Len(in') <= QueueCap /\ Range(in') = Range(in) \cup {h}
      /\ Distinct(in')
  <2>1. h \notin Range(in)
    BY <1>2 DEF OnePlace
  <2>2. Len(in) \in Nat /\ QueueCap \in Nat
    BY BatchAssumption, LenProperties DEF Shape
  <2> QED
    BY <1>1, <1>2, <2>1, <2>2, RangeAppend DEF Shape, OnePlace
<1>4. Flushing' = Flushing /\ Pipeline' = Pipeline
  BY <1>1, <1>2, <1>3 DEF Pipeline, Flushing
<1>5. phase \notin {"down", "opening"} /\ Batching
  BY <1>1, Occupied DEF NoRecords
<1>6. Shape'
  BY <1>1, <1>2, <1>3 DEF Shape
<1>7. NothingBeforeReplay' /\ ModesApart'
  BY <1>1, <1>5 DEF NothingBeforeReplay, ModesApart, Batching
<1>8. OnePlace' /\ OneRecord' /\ Tracked'
  BY <1>1, <1>2, <1>3, <1>4 DEF OnePlace, OneRecord, Tracked
<1>9. ResultsFit' /\ OutcomesFit'
  BY <1>1, <1>2, <1>3, <1>4 DEF ResultsFit, OutcomesFit, Earlier
<1>10. StopFits'
  BY <1>1, <1>2, <1>3, <1>5 DEF StopFits, Stopping, HandlersActive, Batching, ResultsFit
<1> QED
  BY <1>6, <1>7, <1>8, <1>9, <1>10

LEMMA ReplayStopKeepsInv == IInv /\ ReplayStop => IInv'
<1> SUFFICES ASSUME IInv, ReplayStop PROVE IInv'
  OBVIOUS
<1> USE DEF IInv
<1>1. /\ UNCHANGED <<phase, ctx, stopResult, runCancelled, result, offers, lastOffers, in,
                     accPc, batch, flushCh, flPc, flBatch, attempt, outcomes, stored>>
      /\ UNCHANGED <<log, pending, seq, f>>
      /\ replayLeft # <<>> /\ replayLeft' = <<>>
      /\ held' = held \ Range(replayLeft)
  BY DEF ReplayStop, W!Abandon, W!disk, W!memory, mainVars, reqVars, accVars, flVars
<1>2. Flushing' = Flushing /\ Pipeline' = Pipeline \ Range(replayLeft)
  <2>1. Range(replayLeft) \cap (offers \cup lastOffers) = {}
    BY DEF ResultsFit, Earlier, Open
  <2> QED
    BY <1>1, <2>1, RangeEmpty DEF Pipeline, Flushing, OnePlace
<1>3. phase \notin {"down", "opening"} /\ Batching
  BY <1>1, Occupied DEF NoRecords
<1>4. Shape'
  BY <1>1, EmptySeq DEF Shape
<1>5. NothingBeforeReplay' /\ ModesApart'
  BY <1>1, <1>3 DEF NothingBeforeReplay, ModesApart, Batching
<1>6. OnePlace' /\ OneRecord' /\ Tracked'
  BY <1>1, <1>2, RangeEmpty DEF OnePlace, OneRecord, Tracked
<1>7. ResultsFit'
  BY <1>1, <1>2, RangeEmpty DEF ResultsFit
<1>8. OutcomesFit'
  <2>1. \A x \in Entries : result[x] = "ok" => x \in EntriesOf(Pipeline') \/ outcomes[x] # <<>>
    BY <1>2 DEF OutcomesFit, ResultsFit, Earlier, EntriesOf
  <2> QED
    BY <1>1, <1>2, <2>1, RangeEmpty DEF OutcomesFit
<1>9. StopFits'
  BY <1>1, <1>3 DEF StopFits, Stopping, HandlersActive, Batching
<1> QED
  BY <1>4, <1>5, <1>6, <1>7, <1>8, <1>9

\* A record leaves the channel for the batch.
LEMMA ReceivedKeepsInv ==
    ASSUME IInv, in # <<>>, batch' = Append(batch, Head(in)), in' = Tail(in),
           UNCHANGED <<walVars, mainVars, reqVars, replayLeft, flushCh, flVars, outcomes, stored>>,
           \/ accPc = "run" /\ accPc' \in {"run", "dispatch"}
           \/ accPc = "drain" /\ accPc' = accPc
    PROVE  IInv'
<1> DEFINE h == Head(in)
<1> USE DEF IInv, walVars, mainVars, reqVars, flVars
<1>1. /\ h \in Rec /\ in' \in Seq(Rec) /\ Range(in) = {h} \cup Range(in')
      /\ h \notin Range(in') /\ Distinct(in') /\ Len(in') <= QueueCap
  <2>1. Len(in) \in Nat /\ QueueCap \in Nat
    BY BatchAssumption, LenProperties DEF Shape
  <2> QED
    BY <2>1, RangeTail DEF Shape, OnePlace
<1> HIDE DEF h
<1>2. batch' \in Seq(Rec) /\ Range(batch') = Range(batch) \cup {h}
  BY <1>1, RangeAppend DEF Shape, h
<1>3. Flushing' = Flushing /\ Pipeline' = Pipeline
  BY <1>1, <1>2 DEF Pipeline, Flushing
<1>4. phase \notin {"down", "opening"} /\ Batching
  BY Occupied DEF NoRecords
<1>5. Shape'
  BY <1>1, <1>2 DEF Shape
<1>6. NothingBeforeReplay' /\ ModesApart'
  BY <1>4 DEF NothingBeforeReplay, ModesApart, Batching
<1>7. OnePlace' /\ OneRecord' /\ Tracked'
  BY <1>1, <1>2, <1>3 DEF OnePlace, OneRecord, Tracked
<1>8. ResultsFit' /\ OutcomesFit'
  BY <1>1, <1>2, <1>3 DEF ResultsFit, OutcomesFit
<1>9. StopFits'
  BY <1>1, <1>4 DEF StopFits, Stopping, HandlersActive, Batching
<1> QED
  BY <1>5, <1>6, <1>7, <1>8, <1>9

LEMMA DispatchKeepsInv == IInv /\ Dispatch => IInv'
<1> SUFFICES ASSUME IInv, Dispatch PROVE IInv'
  OBVIOUS
<1> USE DEF IInv
<1>1. /\ UNCHANGED <<phase, ctx, stopResult, runCancelled, result, offers, lastOffers,
                     replayLeft, in, flPc, flBatch, attempt, outcomes, stored>>
      /\ UNCHANGED <<log, pending, held, seq, f>>
      /\ accPc \in {"dispatch", "lastDispatch"} /\ Len(flushCh) < FlushCap
      /\ flushCh' = Append(flushCh, batch) /\ batch' = <<>>
      /\ accPc' = IF accPc = "dispatch" THEN "run" ELSE "exited"
  BY DEF Dispatch, mainVars, reqVars, flVars, walVars
<1>2. /\ flushCh' \in Seq(Seq(Rec)) /\ Len(flushCh') <= FlushCap
      /\ Queued(flushCh') = Queued(flushCh) \cup Range(batch) /\ Apart(flushCh')
      /\ Range(batch') = {} /\ batch' \in Seq(Rec)
  <2>1. Len(flushCh) \in Nat /\ FlushCap \in Nat
    BY BatchAssumption, LenProperties DEF Shape
  <2>2. Range(batch) \cap Queued(flushCh) = {}
    BY DEF OnePlace, Flushing
  <2>3. Apart(flushCh') /\ Queued(flushCh') = Queued(flushCh) \cup Range(batch)
    BY <1>1, <2>2, QueuedAppend DEF Shape, OnePlace
  <2>4. flushCh' \in Seq(Seq(Rec)) /\ Len(flushCh') = Len(flushCh) + 1
    BY <1>1, AppendProperties DEF Shape
  <2> QED
    BY <1>1, <2>1, <2>3, <2>4, RangeEmpty, EmptySeq
<1>3. Flushing' = Flushing \cup Range(batch) /\ Pipeline' = Pipeline
  BY <1>1, <1>2 DEF Pipeline, Flushing
<1>4. phase \notin {"down", "opening"} /\ Batching
  BY <1>1, Occupied
<1>5. Shape'
  BY <1>1, <1>2 DEF Shape
<1>6. NothingBeforeReplay' /\ ModesApart'
  BY <1>1, <1>4 DEF NothingBeforeReplay, ModesApart, Batching
<1>7. OnePlace' /\ OneRecord' /\ Tracked'
  BY <1>1, <1>2, <1>3 DEF OnePlace, OneRecord, Tracked, Flushing
<1>8. ResultsFit' /\ OutcomesFit'
  BY <1>1, <1>2, <1>3 DEF ResultsFit, OutcomesFit
<1>9. StopFits'
  BY <1>1, <1>4 DEF StopFits, Stopping, HandlersActive, Batching
<1> QED
  BY <1>5, <1>6, <1>7, <1>8, <1>9

LEMMA AccumulatorKeepsInv == IInv /\ Accumulator => IInv'
<1> SUFFICES ASSUME IInv, Accumulator PROVE IInv'
  OBVIOUS
<1> USE DEF IInv
<1>1. CASE Accumulate
  BY <1>1, ReceivedKeepsInv DEF Accumulate
<1>2. CASE Dispatch
  BY <1>2, DispatchKeepsInv
<1>3. CASE Drain /\ in # <<>>
  BY <1>3, ReceivedKeepsInv DEF Drain
<1>4. CASE Tick \/ AccStop \/ (Drain /\ in = <<>>)
  <2>1. /\ UNCHANGED <<phase, ctx, stopResult, runCancelled, result, offers, lastOffers,
                       replayLeft, in, batch, flushCh, flPc, flBatch, attempt, outcomes, stored>>
        /\ UNCHANGED <<log, pending, held, seq, f>>
    BY <1>4 DEF Tick, AccStop, Drain, mainVars, reqVars, flVars, walVars
  <2>2. /\ accPc \in {"run", "drain"}
        /\ accPc' \in {"dispatch", "drain", "lastDispatch", "exited"}
        /\ accPc' # "dispatch" => Stopping
        /\ accPc' \in {"lastDispatch", "exited"} => in = <<>>
        /\ accPc' = "exited" => batch = <<>>
    BY <1>4 DEF Tick, AccStop, Drain, StopFits
  <2>3. phase \notin {"down", "opening"} /\ Batching
    BY <1>4, Occupied DEF Tick, AccStop, Drain, NoRecords, Stopping, Batching
  <2>4. Shape'
    BY <2>1, <2>2 DEF Shape
  <2>8. NothingBeforeReplay' /\ ModesApart'
    BY <2>1, <2>2, <2>3 DEF NothingBeforeReplay, ModesApart, Batching
  <2>5. OnePlace' /\ OneRecord' /\ Tracked'
    BY <2>1, SamePlaces DEF OneRecord, Tracked
  <2>6. ResultsFit' /\ OutcomesFit'
    BY <2>1, SamePlaces DEF ResultsFit, OutcomesFit
  <2>7. StopFits'
    BY <2>1, <2>2, <2>3, RangeEmpty DEF StopFits, Stopping, HandlersActive, Batching
  <2> QED
    BY <2>4, <2>5, <2>6, <2>7, <2>8
<1> QED
  BY <1>1, <1>2, <1>3, <1>4 DEF Accumulator

-----------------------------------------------------------------------------
(* The steps of the flusher *)

\* A record the flusher works on is nowhere else, and its client has its answer.
LEMMA FlushedAlone ==
    ASSUME IInv, NEW r \in Flushing
    PROVE  /\ r \in Rec /\ result[r.entry] \notin Open \cup {"idle"}
           /\ r \in Pipeline
           /\ \A h \in offers \cup lastOffers \cup Range(replayLeft) \cup Range(in)
                    \cup Range(batch) :
                 h.entry # r.entry
           /\ \A h \in Pipeline : h \in Rec /\ (h.entry = r.entry => h = r)
           /\ phase \notin {"down", "opening"}
           /\ Batching
<1> USE DEF IInv
<1>1. r \in Pipeline /\ Pipeline \subseteq Rec
  BY RangeType, QueuedAppend DEF Pipeline, Flushing, Shape
<1>2. result[r.entry] \notin Open \cup {"idle"}
  BY DEF ResultsFit
<1>3. \A h \in Pipeline : h.entry = r.entry => h = r
  BY <1>1 DEF OneRecord
<1>4. r \notin offers \cup lastOffers
  BY <1>2 DEF ResultsFit, Open
<1>5. r \notin Range(replayLeft) \cup Range(in) \cup Range(batch)
  BY DEF OnePlace
<1>6. ~NoRecords
  BY RangeEmpty DEF NoRecords, Flushing
<1> QED
  BY <1>1, <1>2, <1>3, <1>4, <1>5, <1>6, Occupied DEF Pipeline

\* deliver ends: every converted group gets the outcome.
LEMMA DeliveredKeepsInv ==
    ASSUME IInv, NEW o \in {"saved", "failed", "aborted"},
           flPc \in {"send", "inflight", "backoff"}, Delivered(o),
           UNCHANGED <<walVars, mainVars, reqVars, replayLeft, in, accVars, flushCh, flBatch>>,
           stored \subseteq stored', stored' \subseteq Entries,
           o = "saved" => Good(flBatch) \subseteq stored'
    PROVE  IInv'
<1> USE DEF IInv, walVars, mainVars, reqVars, accVars
<1>1. flPc' = "ack" /\ attempt' = attempt /\ Range(flBatch) \subseteq Flushing
  BY DEF Delivered, Flushing
<1>2. /\ \A r \in Range(flBatch) : r.entry \in Entries
      /\ \A x \in Entries : x \in Good(flBatch) <=>
             x \notin Unconvertible /\ \E r \in Range(flBatch) : r.entry = x
  BY <1>1, FlushedAlone DEF Good, EntriesOf, Rec
<1>3. /\ outcomes' \in [Entries -> Outcomes]
      /\ \A x \in Entries :
            outcomes'[x] = IF x \in Good(flBatch) THEN <<o>> ELSE outcomes[x]
  <2>1. \A x \in Good(flBatch) \cap Entries : outcomes[x] = <<>>
    BY <1>2 DEF OutcomesFit
  <2> QED
    BY <2>1, OutcomeEffect DEF Delivered
<1>4. <<o>> # <<>> /\ (<<o>> = <<"saved">> => o = "saved")
      /\ <<o>> \in {<<"saved">>, <<"failed">>, <<"aborted">>}
  BY OutcomeValues
<1>5. Shape'
  BY <1>1, <1>3 DEF Shape
<1>6. /\ phase \notin {"down", "opening"} /\ Batching
  BY DEF NothingBeforeReplay, ModesApart
<1>7. NothingBeforeReplay' /\ ModesApart'
  BY <1>6 DEF NothingBeforeReplay, ModesApart, Batching
<1>8. OnePlace' /\ OneRecord' /\ Tracked' /\ ResultsFit'
  BY SamePlaces DEF OneRecord, Tracked, ResultsFit
<1>9. OutcomesFit'
  <2>1. \A x \in Good(flBatch) : result[x] \notin Open \cup {"idle"}
    BY <1>1, FlushedAlone DEF Good, EntriesOf
  <2>2. \A h \in Range(replayLeft) \cup Range(in) \cup Range(batch) \cup Queued(flushCh) :
           h.entry \in Entries /\ h.entry \notin Good(flBatch)
    <3>1. SUFFICES ASSUME NEW h \in Range(replayLeft) \cup Range(in) \cup Range(batch)
                                       \cup Queued(flushCh),
                          NEW r \in Range(flBatch), h.entry = r.entry
                   PROVE  FALSE
      <4>1. \A h \in Pipeline : h \in Rec
        BY RangeType, QueuedAppend DEF Pipeline, Flushing, Shape
      <4> QED
        BY <3>1, <4>1 DEF Good, EntriesOf, Pipeline, Flushing, Rec
    <3>2. r \in Flushing
      BY <1>1
    <3>3. h \in Queued(flushCh) /\ h = r
      BY <3>1, <3>2, FlushedAlone DEF Pipeline, Flushing
    <3> QED
      BY <3>3 DEF OnePlace
  <2>3. \A r \in Range(flBatch) :
           outcomes'[r.entry] \in {<<"saved">>, <<"failed">>, <<"aborted">>}
    BY <1>2, <1>3, <1>4 DEF OutcomesFit
  <2>4. \A x \in Entries :
          /\ result[x] \in Open \cup {"idle"} => outcomes'[x] = <<>>
          /\ outcomes'[x] = <<"saved">> => x \in stored'
          /\ result[x] = "ok" => x \in EntriesOf(Pipeline) \/ outcomes'[x] # <<>>
    BY <1>3, <1>4, <2>1 DEF OutcomesFit
  <2>5. \A h \in Range(replayLeft) \cup Range(in) \cup Range(batch) \cup Queued(flushCh) :
           outcomes'[h.entry] = <<>>
    BY <1>3, <2>2 DEF OutcomesFit
  <2> QED
    BY <1>1, <2>3, <2>4, <2>5, SamePlaces DEF OutcomesFit
<1>10. StopFits'
  BY <1>1, <1>6 DEF StopFits, Stopping, HandlersActive, Batching
<1> QED
  BY <1>5, <1>7, <1>8, <1>9, <1>10

\* The flusher moves on without an outcome.
LEMMA FlusherMovesKeepsInv ==
    ASSUME IInv, flPc \in {"idle", "send", "inflight", "backoff"},
           \/ flPc # "idle" /\ flPc' \in {"send", "inflight", "backoff"}
           \/ flPc' = "exited" /\ flPc = "idle" /\ accPc = "exited" /\ flushCh = <<>>,
           attempt' \in 0..MaxRetries,
           UNCHANGED <<walVars, mainVars, reqVars, replayLeft, in, accVars, flushCh, flBatch,
                       outcomes>>,
           stored \subseteq stored', stored' \subseteq Entries
    PROVE  IInv'
<1> USE DEF IInv, walVars, mainVars, reqVars, accVars
<1>1. phase \notin {"down", "opening"} /\ Batching
  BY Occupied DEF NothingBeforeReplay, ModesApart
<1>2. Shape'
  BY DEF Shape
<1>3. NothingBeforeReplay' /\ ModesApart'
  BY <1>1 DEF NothingBeforeReplay, ModesApart, Batching
<1>4. OnePlace' /\ OneRecord' /\ Tracked' /\ ResultsFit'
  BY SamePlaces DEF OneRecord, Tracked, ResultsFit
<1>5. OutcomesFit'
  BY SamePlaces DEF OutcomesFit
<1>6. StopFits'
  BY <1>1 DEF StopFits, Stopping, HandlersActive, Batching
<1> QED
  BY <1>2, <1>3, <1>4, <1>5, <1>6

LEMMA TakeKeepsInv == IInv /\ Take => IInv'
<1> SUFFICES ASSUME IInv, Take PROVE IInv'
  OBVIOUS
<1> DEFINE es == EntriesOf(Range(flBatch')) \cap Unconvertible
<1> USE DEF IInv
<1>1. /\ UNCHANGED <<phase, ctx, stopResult, runCancelled, result, offers, lastOffers,
                     replayLeft, in, accPc, batch, stored>>
      /\ UNCHANGED <<log, pending, held, seq, f>>
      /\ flPc = "idle" /\ flushCh # <<>>
      /\ flBatch' = Head(flushCh) /\ flushCh' = Tail(flushCh) /\ attempt' = 0
      /\ flPc' = IF Good(flBatch') = {} THEN "ack" ELSE "send"
  BY DEF Take, mainVars, reqVars, accVars, walVars
<1>2. flBatch = <<>> /\ Range(flBatch) = {}
  BY <1>1, RangeEmpty DEF OutcomesFit
<1>3. /\ flBatch' \in Seq(Rec) /\ flushCh' \in Seq(Seq(Rec)) /\ Len(flushCh') <= FlushCap
      /\ Queued(flushCh) = Range(flBatch') \cup Queued(flushCh')
      /\ Range(flBatch') \cap Queued(flushCh') = {} /\ Apart(flushCh')
  <2>1. Len(flushCh) \in Nat /\ FlushCap \in Nat
    BY BatchAssumption, LenProperties DEF Shape
  <2>2. /\ flBatch' \in Seq(Rec) /\ flushCh' \in Seq(Seq(Rec))
        /\ Len(flushCh') = Len(flushCh) - 1
    BY <1>1, RangeTail DEF Shape
  <2>3. flushCh \in Seq(Seq(Rec)) /\ Apart(flushCh) /\ Len(flushCh) <= FlushCap
    BY DEF Shape, OnePlace
  <2>4. /\ Queued(flushCh) = Range(flBatch') \cup Queued(flushCh')
        /\ Range(flBatch') \cap Queued(flushCh') = {} /\ Apart(flushCh')
    BY <1>1, <2>3, QueuedTail
  <2> QED
    BY <2>1, <2>2, <2>3, <2>4
<1>4. Flushing' = Flushing /\ Pipeline' = Pipeline /\ Range(flBatch') \subseteq Flushing
  BY <1>1, <1>2, <1>3 DEF Pipeline, Flushing
<1>5. /\ \A r \in Range(flBatch') : r.entry \in Entries
      /\ \A x \in es : x \in Entries /\ \E r \in Range(flBatch') : r.entry = x
      /\ \A r \in Range(flBatch') : r.entry \in es <=> r.entry \in Unconvertible
      /\ Good(flBatch') = {} => \A r \in Range(flBatch') : r.entry \in Unconvertible
  BY <1>4, FlushedAlone DEF Good, EntriesOf, Rec
<1>6. /\ outcomes' \in [Entries -> Outcomes]
      /\ \A x \in Entries : outcomes'[x] = IF x \in es THEN <<"failed">> ELSE outcomes[x]
  <2>1. \A x \in es \cap Entries : outcomes[x] = <<>>
    BY <1>3, <1>5 DEF OutcomesFit
  <2> QED
    BY <2>1, OutcomeEffect DEF Take
<1> HIDE DEF es
<1>7. Shape'
  <2>1. attempt' \in 0..MaxRetries
    BY <1>1, BatchAssumption
  <2> QED
    BY <1>1, <1>3, <1>6, <2>1 DEF Shape
<1>8. phase \notin {"down", "opening"} /\ Batching
  BY <1>1, Occupied DEF NoRecords
<1>9. NothingBeforeReplay' /\ ModesApart'
  BY <1>1, <1>8 DEF NothingBeforeReplay, ModesApart, Batching
<1>10. OnePlace' /\ OneRecord' /\ Tracked'
  BY <1>1, <1>3, <1>4 DEF OnePlace, OneRecord, Tracked
<1>11. ResultsFit'
  BY <1>1, <1>4 DEF ResultsFit
<1>12. OutcomesFit'
  <2>1. \A x \in Entries :
          /\ result[x] \in Open \cup {"idle"} => outcomes'[x] = <<>>
          /\ outcomes'[x] = <<"saved">> => x \in stored
          /\ result[x] = "ok" => x \in EntriesOf(Pipeline) \/ outcomes'[x] # <<>>
    <3>1. \A x \in es : result[x] \notin Open \cup {"idle"}
      BY <1>4, <1>5, FlushedAlone
    <3> QED
      BY <1>6, <3>1, OutcomeValues DEF OutcomesFit
  <2>2. ASSUME NEW h \in Range(replayLeft) \cup Range(in) \cup Range(batch) \cup Queued(flushCh')
        PROVE  outcomes'[h.entry] = <<>>
    <3>1. h \in Pipeline /\ Pipeline \subseteq Rec
      BY <1>3, RangeType, QueuedAppend DEF Pipeline, Flushing, Shape
    <3>2. h \notin Range(flBatch')
      BY <1>3, <1>4 DEF OnePlace
    <3>3. \A r \in Range(flBatch') : r.entry # h.entry
      BY <1>4, <3>1, <3>2, FlushedAlone
    <3>4. h.entry \notin es
      BY <1>5, <3>3
    <3> QED
      BY <1>3, <1>6, <3>1, <3>4 DEF OutcomesFit, Rec
  <2>3. \A r \in Range(flBatch') :
           outcomes'[r.entry] = IF r.entry \in Unconvertible THEN <<"failed">> ELSE <<>>
    BY <1>3, <1>5, <1>6 DEF OutcomesFit
  <2> QED
    BY <1>1, <1>4, <1>5, <2>1, <2>2, <2>3 DEF OutcomesFit
<1>13. StopFits'
  BY <1>1, <1>8 DEF StopFits, Stopping, HandlersActive, Batching
<1> QED
  BY <1>7, <1>9, <1>10, <1>11, <1>12, <1>13

LEMMA FlushAckKeepsInv == IInv /\ FlushAck => IInv'
<1> SUFFICES ASSUME IInv, FlushAck PROVE IInv'
  OBVIOUS
<1> USE DEF IInv
<1>1. /\ UNCHANGED <<phase, ctx, stopResult, runCancelled, result, offers, lastOffers,
                     replayLeft, in, accPc, batch, flushCh, attempt, outcomes, stored>>
      /\ flPc = "ack" /\ flPc' = "idle" /\ flBatch' = <<>>
  BY DEF FlushAck, mainVars, reqVars, accVars
<1>2. /\ log' \subseteq log /\ IsFiniteSet(log') /\ seq' \in Nat /\ pending' = pending
      /\ UseWAL => held' = held \ Range(flBatch)
      /\ ~UseWAL => held' = held /\ f' = f
  <2>1. CASE ~UseWAL
    BY <2>1 DEF FlushAck, AckBatch, OnWAL, walVars, Shape
  <2>2. CASE UseWAL
    BY <2>2, AckEffect DEF FlushAck, AckBatch, OnWAL
  <2> QED
    BY <2>1, <2>2
<1>3. Flushing' = Flushing \ Range(flBatch) /\ Pipeline' = Pipeline \ Range(flBatch)
  <2>1. Flushing' = Queued(flushCh) /\ Flushing = Queued(flushCh) \cup Range(flBatch)
    BY <1>1, RangeEmpty DEF Flushing
  <2>2. Flushing \cap (offers \cup lastOffers) = {}
    BY DEF ResultsFit, Open
  <2> QED
    BY <1>1, <2>1, <2>2 DEF Pipeline, OnePlace
<1>4. phase \notin {"down", "opening"} /\ Batching
  BY <1>1 DEF NothingBeforeReplay, ModesApart
<1>5. Shape'
  BY <1>1, <1>2, EmptySeq DEF Shape
<1>6. NothingBeforeReplay' /\ ModesApart'
  BY <1>1, <1>2, <1>4 DEF NothingBeforeReplay, ModesApart, Batching
<1>7. OnePlace' /\ OneRecord' /\ Tracked'
  BY <1>1, <1>2, <1>3, RangeEmpty DEF OnePlace, OneRecord, Tracked
<1>8. ResultsFit'
  BY <1>1, <1>2, <1>3 DEF ResultsFit
<1>9. OutcomesFit'
  <2>1. \A r \in Range(flBatch) : outcomes[r.entry] # <<>>
    BY <1>1, OutcomeValues DEF OutcomesFit
  <2>2. \A x \in Entries : result[x] = "ok" => x \in EntriesOf(Pipeline') \/ outcomes[x] # <<>>
    BY <1>3, <2>1 DEF OutcomesFit, EntriesOf
  <2> QED
    BY <1>1, <2>2, RangeEmpty DEF OutcomesFit
<1>10. StopFits'
  BY <1>1, <1>4 DEF StopFits, Stopping, HandlersActive, Batching
<1> QED
  BY <1>5, <1>6, <1>7, <1>8, <1>9, <1>10

LEMMA CrashInFlushAckKeepsInv == IInv /\ CrashInFlushAck => IInv'
<1> SUFFICES ASSUME IInv, CrashInFlushAck PROVE IInv'
  OBVIOUS
<1>1. NoProcessNext /\ W!CrashInAck(Range(flBatch)) /\ UseWAL
  BY DEF CrashInFlushAck
<1>2. /\ log' \subseteq log /\ IsFiniteSet(log') /\ seq' \in Nat
      /\ held' = {} /\ pending' = {}
  BY <1>1, AckEffect DEF IInv
<1> QED
  BY <1>1, <1>2, InvGone DEF IInv, Shape, OneRecord

LEMMA FlusherKeepsInv == IInv /\ Flusher => IInv'
<1> SUFFICES ASSUME IInv, Flusher PROVE IInv'
  OBVIOUS
<1>1. Good(flBatch) \subseteq Entries /\ stored \subseteq Entries
      /\ attempt \in 0..MaxRetries /\ MaxRetries \in Nat
  <2>1. Range(flBatch) \subseteq Rec
    BY RangeType DEF IInv, Shape
  <2> QED
    BY <2>1, BatchAssumption DEF IInv, Shape, Good, EntriesOf, Rec
<1>2. CASE Send
  <2>1. CASE runCancelled
    BY <1>1, <1>2, <2>1, DeliveredKeepsInv DEF Send
  <2>2. CASE ~runCancelled
    BY <1>1, <1>2, <2>2, FlusherMovesKeepsInv DEF Send
  <2> QED
    BY <2>1, <2>2
<1>3. CASE PushOK
  BY <1>1, <1>3, DeliveredKeepsInv DEF PushOK
<1>4. CASE PushError
  <2>1. stored \subseteq stored' /\ stored' \subseteq Entries /\ flPc = "inflight"
        /\ UNCHANGED <<walVars, mainVars, reqVars, replayLeft, in, accVars, flushCh, flBatch>>
    BY <1>1, <1>4 DEF PushError
  <2>2. CASE Delivered("aborted") \/ Delivered("failed")
    BY <2>1, <2>2, DeliveredKeepsInv
  <2>3. CASE /\ attempt < MaxRetries /\ attempt' = attempt + 1
             /\ flPc' = "backoff" /\ UNCHANGED outcomes
    <3>1. attempt' \in 0..MaxRetries
      BY <1>1, <2>3
    <3> QED
      BY <2>1, <2>3, <3>1, FlusherMovesKeepsInv
  <2> QED
    BY <1>4, <2>2, <2>3 DEF PushError
<1>5. CASE Backoff
  <2>1. CASE flPc' = "send" /\ UNCHANGED <<outcomes, attempt>>
    BY <1>1, <1>5, <2>1, FlusherMovesKeepsInv DEF Backoff
  <2>2. CASE Delivered("aborted")
    BY <1>1, <1>5, <2>2, DeliveredKeepsInv DEF Backoff
  <2> QED
    BY <1>5, <2>1, <2>2 DEF Backoff
<1>6. CASE FlusherExit
  BY <1>1, <1>6, FlusherMovesKeepsInv DEF FlusherExit
<1> QED
  BY <1>2, <1>3, <1>4, <1>5, <1>6, TakeKeepsInv, FlushAckKeepsInv DEF Flusher

-----------------------------------------------------------------------------
(* The invariant *)

LEMMA InvStep == IInv /\ [Next]_vars => IInv'
<1> SUFFICES ASSUME IInv, [Next]_vars PROVE IInv'
  OBVIOUS
<1>1. CASE Main
  BY <1>1, StartKeepsInv, ReplayKeepsInv, ExitKeepsInv, MainKeepsInv DEF Main
<1>2. ASSUME NEW e \in Entries, Request(e)
      PROVE  IInv'
  <2>1. CASE Log(e)
    BY <2>1, LogKeepsInv
  <2>2. CASE CrashInLog(e)
    BY <2>2, CrashInLogKeepsInv
  <2>3. CASE Arrive(e) \/ LogRefused(e) \/ Direct(e)
    BY <2>3, RequestEffects, RequestKeepsInv
  <2> QED
    BY <1>2, <2>1, <2>2, <2>3 DEF Request
<1>3. ASSUME NEW r \in offers \cup lastOffers, Offer(r)
      PROVE  IInv'
  BY <1>3, EnqueuedKeepsInv, WaitedLongKeepsInv, DroppedKeepsInv DEF Offer
<1>4. CASE ReplaySend \/ ReplayStop
  BY <1>4, ReplaySendKeepsInv, ReplayStopKeepsInv
<1>5. CASE Accumulator
  BY <1>5, AccumulatorKeepsInv
<1>6. CASE Flusher
  BY <1>6, FlusherKeepsInv
<1>7. CASE CrashInFlushAck
  BY <1>7, CrashInFlushAckKeepsInv
<1>8. CASE UNCHANGED vars
  <2>1. /\ UNCHANGED <<phase, ctx, stopResult, runCancelled, result, offers, lastOffers,
                       replayLeft, in, accPc, batch, flushCh, flPc, flBatch, attempt,
                       outcomes, stored>>
        /\ UNCHANGED <<log, pending, held, seq, f>>
    BY <1>8 DEF vars, mainVars, reqVars, accVars, flVars, walVars
  <2> USE DEF IInv
  <2>2. Shape'
    BY <2>1 DEF Shape
  <2>5. NothingBeforeReplay' /\ ModesApart'
    BY <2>1, SamePlaces DEF NothingBeforeReplay, ModesApart, Batching
  <2>3. OnePlace' /\ OneRecord' /\ Tracked' /\ ResultsFit' /\ OutcomesFit'
    BY <2>1, SamePlaces DEF OneRecord, Tracked, ResultsFit, OutcomesFit
  <2>4. StopFits'
    BY <2>1, SamePlaces DEF StopFits, Stopping, HandlersActive, Batching
  <2> QED
    BY <2>2, <2>3, <2>4, <2>5
<1> QED
  BY <1>1, <1>2, <1>3, <1>4, <1>5, <1>6, <1>7, <1>8 DEF Next

LEMMA InvHolds == Spec => []IInv
  BY InvInit, InvStep, PTL DEF Spec

\* batch.go:148-150: with the log, an unacknowledged record is always somewhere in
\* the pipeline, and nothing is there that the log does not wait for; whatever
\* calls of the log fail.
THEOREM RecordsAreTracked == Spec => []EveryRecordTracked
<1>1. IInv => EveryRecordTracked
  BY DEF IInv, Tracked, EveryRecordTracked
<1> QED
  BY <1>1, InvHolds, PTL

LEMMA OutcomeElements ==
    ASSUME Shape, NEW e \in Entries
    PROVE  /\ Len(outcomes[e]) <= 1
           /\ \A o \in {"saved", "failed", "aborted"} : Recorded(e, o) <=> outcomes[e] = <<o>>
<1>1. Range(<<>>) = {} /\ \A o : Range(<<o>>) = {o}
  BY DEF Range
<1>2. outcomes[e] \in Outcomes
  BY DEF Shape
<1>3. Len(outcomes[e]) <= 1
  <2>1. CASE outcomes[e] = <<>>
    BY <2>1
  <2>2. ASSUME NEW u, outcomes[e] = <<u>>
        PROVE  Len(outcomes[e]) <= 1
    BY <2>2
  <2> QED
    BY <1>2, <2>1, <2>2 DEF Outcomes
<1>4. CASE outcomes[e] = <<>>
  BY <1>1, <1>4, OutcomeValues DEF Recorded
<1>5. ASSUME NEW u, outcomes[e] = <<u>>
      PROVE  \A o : Recorded(e, o) <=> outcomes[e] = <<o>>
  <2>1. \A o : <<u>> = <<o>> <=> u = o
    OBVIOUS
  <2> QED
    BY <1>1, <1>5, <2>1 DEF Recorded
<1> QED
  BY <1>2, <1>3, <1>4, <1>5 DEF Outcomes

\* batch.go:39-40, with the log or without, in batches or not: an alert whose Save
\* returned nil is in the pipeline or has its outcome, no alert gets two, and what
\* is counted as saved is in Loki.
THEOREM NoLossIsSilent == Spec => []NoSilentLoss
<1>1. IInv => NoSilentLoss
  BY OutcomeElements DEF IInv, OutcomesFit, NoSilentLoss
<1> QED
  BY <1>1, InvHolds, PTL

\* batch.go:310-313: behind a stop that returned nil, and a server that shut down
\* in time, is no alert that a client of this process was told yes about.
THEOREM StopDrains == Spec => []CleanStopDrains
<1>1. IInv => CleanStopDrains
  <2> SUFFICES ASSUME IInv, stopResult = "nil", ctx # "overrun", NEW r \in Pipeline
               PROVE  result[r.entry] \notin Open \cup {"ok"}
    BY DEF CleanStopDrains
  <2> USE DEF IInv
  <2>1. /\ phase = "closed" /\ Stopping /\ ~HandlersActive
        /\ Batching => accPc = "exited" /\ flPc = "exited" /\ replayLeft = <<>>
    BY DEF StopFits, Stopping
  <2>2. Pipeline \subseteq Rec
    BY RangeType, QueuedAppend DEF Pipeline, Flushing, Shape
  <2>3. r \notin offers \cup lastOffers
    BY <2>1, <2>2 DEF ResultsFit, HandlersActive, Open, Rec
  <2>4. Batching
    BY <2>3, RangeEmpty DEF ModesApart, NoRecords, Pipeline, Flushing
  <2>5. replayLeft = <<>> /\ batch = <<>> /\ flushCh = <<>> /\ flBatch = <<>>
    BY <2>1, <2>4 DEF StopFits, OutcomesFit
  <2>6. r \in Range(in)
    BY <2>3, <2>5, RangeEmpty DEF Pipeline, Flushing
  <2> QED
    BY <2>1, <2>4, <2>6 DEF StopFits, Earlier
<1> QED
  BY <1>1, InvHolds, PTL

-----------------------------------------------------------------------------
(* The log under the pipeline *)

\* Each step calls the log once at most, and only for records that are held.
LEMMA WalStep == IInv /\ [Next]_vars => [W!Next]_walVars
<1> SUFFICES ASSUME IInv, [Next]_vars PROVE W!Next \/ UNCHANGED walVars
  OBVIOUS
<1> USE DEF OnWAL
<1>1. CASE Main
  <2>1. CASE Start
    BY <2>1 DEF Start, W!Next
  <2>2. CASE Replay
    BY <2>2 DEF Replay, W!Next
  <2>3. CASE Exit
    BY <2>3 DEF Exit, W!Next
  <2>4. CASE Drained \/ OutOfTime
    BY <2>4 DEF Drained, OutOfTime, FinishStop, CloseWAL, W!Next
  <2>5. CASE Ping \/ Signal \/ Deadline \/ BeginStop
    BY <2>5 DEF Ping, Signal, Deadline, BeginStop
  <2> QED
    BY <1>1, <2>1, <2>2, <2>3, <2>4, <2>5 DEF Main
<1>2. ASSUME NEW e \in Entries, Request(e)
      PROVE  W!Next \/ UNCHANGED walVars
  <2>1. CASE Log(e)
    BY <2>1 DEF Log, W!Next, W!AppendStep
  <2>2. CASE LogRefused(e)
    BY <2>2 DEF LogRefused, W!Next, W!AppendStep
  <2>3. CASE CrashInLog(e)
    BY <2>3 DEF CrashInLog, W!Next, W!AppendStep
  <2>4. CASE Arrive(e) \/ Direct(e)
    BY <2>4 DEF Arrive, Direct, ConvertFails, Push, Pushed, PushFails
  <2> QED
    BY <1>2, <2>1, <2>2, <2>3, <2>4 DEF Request
<1>3. ASSUME NEW r \in offers \cup lastOffers, Offer(r)
      PROVE  W!Next \/ UNCHANGED walVars
  <2>1. UseWAL => {r} \in SUBSET held
    BY OfferedAlone DEF IInv, Tracked
  <2>2. CASE SaveTimedOut(r)
    BY <2>1, <2>2 DEF SaveTimedOut, W!Next
  <2>3. CASE QueueFull(r)
    BY <2>1, <2>3 DEF QueueFull, AckBatch, W!Next, W!AckStep
  <2>4. CASE Enqueued(r) \/ WaitedLong(r)
    BY <2>4 DEF Enqueued, WaitedLong
  <2> QED
    BY <1>3, <2>2, <2>3, <2>4 DEF Offer
<1>4. CASE ReplaySend \/ ReplayStop
  <2>1. CASE ReplaySend
    BY <2>1 DEF ReplaySend
  <2>2. CASE ReplayStop
    <3>1. Range(replayLeft) \in SUBSET held
      BY <2>2 DEF ReplayStop, IInv, ModesApart, Tracked, Pipeline
    <3> QED
      BY <2>2, <3>1 DEF ReplayStop, W!Next
  <2> QED
    BY <1>4, <2>1, <2>2
<1>5. CASE Accumulator
  BY <1>5 DEF Accumulator, Accumulate, Tick, Dispatch, AccStop, Drain
<1>6. CASE Flusher \/ CrashInFlushAck
  <2>1. UseWAL => Range(flBatch) \in SUBSET held
    BY DEF IInv, Tracked, Pipeline, Flushing
  <2>2. CASE FlushAck
    BY <2>1, <2>2 DEF FlushAck, AckBatch, W!Next, W!AckStep
  <2>3. CASE CrashInFlushAck
    BY <2>1, <2>3 DEF CrashInFlushAck, W!Next, W!AckStep
  <2>4. CASE Take \/ Send \/ PushOK \/ PushError \/ Backoff \/ FlusherExit
    BY <2>4 DEF Take, Send, PushOK, PushError, Backoff, FlusherExit
  <2> QED
    BY <1>6, <2>2, <2>3, <2>4 DEF Flusher
<1>7. CASE UNCHANGED vars
  BY <1>7 DEF vars
<1> QED
  BY <1>1, <1>2, <1>3, <1>4, <1>5, <1>6, <1>7 DEF Next

\* The pipeline uses the log only in the ways Wal allows: nothing is acknowledged
\* or given up that is not held, whoever acts in which order.
THEOREM PipelineUsesTheLog == Spec => ImplementsWal
<1>1. Init => W!Init
  BY DEF Init
<1> QED
  BY <1>1, InvHolds, WalStep, PTL DEF Spec, ImplementsWal

\* So what WalProofs proves of the log holds of the log in the pipeline.
WP == INSTANCE WalProofs

LEMMA LogIsWal == ImplementsWal => WP!Spec
<1>1. W!Init => WP!Init
  BY Zenon DEF W!Init, WP!Init
<1>2. W!Next => WP!Next
  BY Zenon DEF W!Next, W!OpenWAL, W!Recover, W!AppendStep, W!AckStep, W!Abandon, W!CloseWAL,
     W!Crash, W!Append, W!AppendRefused, W!AppendShortWrite, W!AppendSyncError,
     W!CrashInAppend, W!Ack, W!CrashInAck, W!IsAdvance, W!AckedWith, W!Persist, W!Settle,
     W!LoseMemory, W!CompactLocked, W!CompactOK, W!CompactNoHandle, W!CompactTempError,
     W!CompactCloseError, W!CompactSwapError, W!Up, W!Seqs, W!NextRecord, W!Logged, W!disk,
     W!memory, W!vars, W!Cardinality,
     WP!Next, WP!OpenWAL, WP!Recover, WP!AppendStep, WP!AckStep, WP!Abandon, WP!CloseWAL,
     WP!Crash, WP!Append, WP!AppendRefused, WP!AppendShortWrite, WP!AppendSyncError,
     WP!CrashInAppend, WP!Ack, WP!CrashInAck, WP!IsAdvance, WP!AckedWith, WP!Persist,
     WP!Settle, WP!LoseMemory, WP!CompactLocked, WP!CompactOK, WP!CompactNoHandle,
     WP!CompactTempError, WP!CompactCloseError, WP!CompactSwapError, WP!Up, WP!Seqs,
     WP!NextRecord, WP!Logged, WP!disk, WP!memory, WP!vars, WP!Cardinality
<1>3. UNCHANGED walVars => UNCHANGED WP!vars
  BY DEF walVars, WP!vars, WP!disk, WP!memory
<1> QED
  BY <1>1, <1>2, <1>3, PTL DEF ImplementsWal, WP!Spec

LEMMA WalConstants == WP!ConstantsAssumption
  BY WalAssumption DEF W!ConstantsAssumption, WP!ConstantsAssumption, W!IsFiniteSet,
     WP!IsFiniteSet, W!AllFaults, WP!AllFaults, W!Cardinality, WP!Cardinality

LEMMA LogTypeHolds == Spec => []W!TypeOK
<1>1. WP!Spec => []WP!TypeOK
  BY WP!TypeCorrect, WalConstants DEF WP!ConstantsAssumption
<1>2. WP!TypeOK => W!TypeOK
  BY Zenon DEF WP!TypeOK, W!TypeOK, WP!Record, W!Record, WP!IsFiniteSet, W!IsFiniteSet,
     WP!Cardinality, W!Cardinality
<1> QED
  BY <1>1, <1>2, LogIsWal, PipelineUsesTheLog, PTL

\* Every variable keeps its type, and no channel takes more than its capacity,
\* whatever fails.
THEOREM PipelineTypeCorrect == Spec => []TypeOK
<1>1. IInv /\ W!TypeOK => TypeOK
  BY DEF IInv, Shape, TypeOK
<1> QED
  BY <1>1, InvHolds, LogTypeHolds, PTL

\* Whatever calls of the log fail and wherever the process is killed, the
\* checkpoint file never moves back, and a record leaves the disk only once it
\* covers it, under the pipeline as alone.
THEOREM PipelineNeverRegressesDisk == Spec => W!DiskNeverRegresses
<1>1. WP!Spec => WP!DiskNeverRegresses
  BY WP!DiskIsMonotone, WalConstants DEF WP!ConstantsAssumption
<1>2. WP!DiskNeverRegresses => W!DiskNeverRegresses
  BY DEF WP!DiskNeverRegresses, W!DiskNeverRegresses, WP!vars, W!vars, WP!disk, W!disk,
     WP!memory, W!memory
<1> QED
  BY <1>1, <1>2, LogIsWal, PipelineUsesTheLog, PTL

-----------------------------------------------------------------------------
(* What settles an entry *)

\* Only an acknowledgement settles an entry: one of a full queue, or one of a
\* batch that the flusher is done with.
LEMMA SettlingSteps ==
    ASSUME IInv, W!TypeOK, [Next]_vars, NEW e \in Entries,
           status'[e] = "settled", status[e] # "settled"
    PROVE  \/ result'[e] = "full"
           \/ flPc = "ack" /\ e \in EntriesOf(Range(flBatch))
<1> USE DEF OnWAL
<1>1. status \in [Entries -> {"new", "accepted", "rejected", "unknown", "settled"}]
  BY DEF W!TypeOK
<1>2. CASE Main
  <2>1. CASE Start \/ Replay \/ Exit
    BY <2>1 DEF Start, Replay, Exit, W!OpenWAL, W!Recover, W!Crash, walVars
  <2>2. CASE Drained \/ OutOfTime
    BY <2>2 DEF Drained, OutOfTime, FinishStop, CloseWAL, W!CloseWAL, walVars
  <2>3. CASE Ping \/ Signal \/ Deadline \/ BeginStop
    BY <2>3 DEF Ping, Signal, Deadline, BeginStop, walVars
  <2> QED
    BY <1>2, <2>1, <2>2, <2>3 DEF Main
<1>3. ASSUME NEW x \in Entries, Request(x)
      PROVE  FALSE
  <2>1. CASE Log(x)
    BY <1>1, <2>1 DEF Log, W!Append, walVars
  <2>2. CASE LogRefused(x)
    BY <1>1, <2>2 DEF LogRefused, W!AppendRefused, W!AppendShortWrite, W!AppendSyncError
  <2>3. CASE CrashInLog(x)
    BY <1>1, <2>3 DEF CrashInLog, W!CrashInAppend
  <2>4. CASE Arrive(x) \/ Direct(x)
    BY <2>4 DEF Arrive, Direct, ConvertFails, Push, Pushed, PushFails, walVars
  <2> QED
    BY <1>3, <2>1, <2>2, <2>3, <2>4 DEF Request
<1>4. ASSUME NEW r \in offers \cup lastOffers, Offer(r)
      PROVE  result'[e] = "full"
  <2>1. CASE SaveTimedOut(r)
    BY <1>1, <2>1 DEF SaveTimedOut, W!Abandon, walVars
  <2>2. CASE QueueFull(r)
    <3>1. r.entry = e
      BY <2>2 DEF QueueFull, AckBatch, W!Ack, W!Settle, walVars
    <3> QED
      BY <2>2, <3>1 DEF QueueFull, IInv, Shape
  <2>3. CASE Enqueued(r) \/ WaitedLong(r)
    BY <2>3 DEF Enqueued, WaitedLong, walVars
  <2> QED
    BY <1>4, <2>1, <2>2, <2>3 DEF Offer
<1>5. CASE ReplaySend \/ ReplayStop \/ Accumulator
  BY <1>5 DEF ReplaySend, ReplayStop, Accumulator, Accumulate, Tick, Dispatch, AccStop,
     Drain, walVars
<1>6. CASE Flusher \/ CrashInFlushAck
  <2>1. CASE FlushAck
    BY <2>1 DEF FlushAck, AckBatch, W!Ack, W!Settle, walVars, EntriesOf
  <2>2. CASE CrashInFlushAck
    BY <2>2 DEF CrashInFlushAck, W!CrashInAck, W!Settle, EntriesOf
  <2>3. CASE Take \/ Send \/ PushOK \/ PushError \/ Backoff \/ FlusherExit
    BY <2>3 DEF Take, Send, PushOK, PushError, Backoff, FlusherExit, walVars
  <2> QED
    BY <1>6, <2>1, <2>2, <2>3 DEF Flusher
<1>7. CASE UNCHANGED vars
  BY <1>7 DEF vars, walVars
<1> QED
  BY <1>2, <1>3, <1>4, <1>5, <1>6, <1>7 DEF Next

\* wal.go:22-25: an entry is settled only if Loki stored it, or if this process
\* recorded why not; whatever fails.
THEOREM SettlingHasReason == Spec => SettledForAReason
<1> DEFINE Reasons ==
      \A e \in Entries :
          (status'[e] = "settled" /\ status[e] # "settled") =>
              \/ e \in stored
              \/ \E o \in {"failed", "aborted"} : Recorded(e, o)
              \/ result'[e] = "full"
<1>1. ASSUME IInv, W!TypeOK, [Next]_vars
      PROVE  Reasons
  <2> SUFFICES ASSUME NEW e \in Entries, status'[e] = "settled", status[e] # "settled",
                      flPc = "ack", e \in EntriesOf(Range(flBatch))
               PROVE  \/ e \in stored
                      \/ \E o \in {"failed", "aborted"} : Recorded(e, o)
    BY <1>1, SettlingSteps
  <2>1. outcomes[e] \in {<<"saved">>, <<"failed">>, <<"aborted">>}
    BY <1>1 DEF IInv, OutcomesFit, EntriesOf
  <2> QED
    BY <1>1, <2>1, OutcomeElements DEF IInv, OutcomesFit
<1>2. IInv /\ W!TypeOK /\ [Next]_vars => [Reasons]_vars
  BY <1>1
<1> QED
  BY <1>2, InvHolds, LogTypeHolds, PTL DEF Spec, SettledForAReason

-----------------------------------------------------------------------------
(* What the checkpoint waits for *)

\* Past the checkpoint, every number is acked, in the pipeline, or of a record
\* whose enqueue was cancelled in this process.
Accounted ==
    \A s \in (checkpoint + 1)..seq :
        \/ s \in acked
        \/ s \in W!Seqs(held \cup pending)
        \/ \E r \in log : r.seq = s /\ result[r.entry] = "cancelled"

StallInv ==
    UseWAL => /\ phase = "down" <=> f = "none"
              /\ f # "none" /\ ~Stopping => Accounted

\* The disk as WalProofs has it, in the terms of this module.
DiskFits ==
    /\ W!TypeOK
    /\ f # "none" => ckptFile <= checkpoint
    /\ checkpoint + 1 \notin acked
    /\ \A r \in log : (ckptFile + 1)..r.seq \subseteq W!Seqs(log)
    /\ \A r \in held \cup pending : r.seq <= ckptFile \/ r \in log

\* No frame is cut: a full disk, or a crash in the middle of a Write, leaves
\* records behind it that no reader gets to.
WholeFrames == Faults \cap {"torn-by-crash", "short-write"} = {}

LEMMA DiskFitsHolds == WholeFrames => (Spec => []DiskFits)
<1> SUFFICES ASSUME WholeFrames PROVE Spec => []DiskFits
  OBVIOUS
<1>1. WP!Spec => []WP!DiskWithoutGaps
  BY WP!DiskHasNoGaps, WalConstants DEF WholeFrames, WP!WholeFrames, WP!ConstantsAssumption
<1>2. WP!Spec => [](WP!NumbersInv /\ WP!FileBehindMemory)
  BY WP!NumbersHold, WalConstants DEF WP!ConstantsAssumption
<1>3. W!TypeOK /\ WP!DiskWithoutGaps /\ WP!NumbersInv /\ WP!FileBehindMemory => DiskFits
  BY DEF DiskFits, WP!DiskWithoutGaps, WP!NumbersInv, WP!NoAckIsDue, WP!FileBehindMemory, WP!Up,
     WP!Seqs, W!Seqs
<1> QED
  BY <1>1, <1>2, <1>3, LogIsWal, LogTypeHolds, PipelineUsesTheLog, PTL

\* A step that acknowledges nothing and takes no record out of the pipeline or off
\* the disk.
LEMMA AccountedKept ==
    ASSUME StallInv, UseWAL, UNCHANGED <<f, seq, checkpoint, acked>>,
           held \cup pending \subseteq held' \cup pending', log \subseteq log',
           log \subseteq Rec,
           \A e \in Entries : result[e] = "cancelled" => result'[e] = "cancelled",
           (phase # "down" /\ phase' # "down") \/ phase' = phase,
           Stopping => Stopping'
    PROVE  StallInv'
<1>1. W!Seqs(held \cup pending) \subseteq W!Seqs(held' \cup pending')
  BY DEF W!Seqs
<1>2. ASSUME NEW s, \E r \in log : r.seq = s /\ result[r.entry] = "cancelled"
      PROVE  \E r \in log' : r.seq = s /\ result'[r.entry] = "cancelled"
  <2>1. PICK r \in log : r.seq = s /\ result[r.entry] = "cancelled"
    BY <1>2
  <2>2. r \in log' /\ r.entry \in Entries
    BY <2>1 DEF Rec
  <2> QED
    BY <2>1, <2>2
<1>3. Accounted => Accounted'
  BY <1>1, <1>2 DEF Accounted
<1> QED
  BY <1>3 DEF StallInv, Stopping

\* Acknowledging what the pipeline holds: the rest is as it was.
LEMMA AccountedAck ==
    ASSUME DiskFits, StallInv, UseWAL, NEW S \in SUBSET held, W!Ack(S),
           phase' = phase, log \subseteq Rec,
           \A e \in Entries : result[e] = "cancelled" => result'[e] = "cancelled"
    PROVE  StallInv'
<1>1. WP!TypeOK /\ WP!FileBehindMemory
  BY Zenon DEF DiskFits, W!TypeOK, WP!TypeOK, WP!FileBehindMemory, WP!Up, WP!Record, W!Record,
     WP!IsFiniteSet, W!IsFiniteSet, WP!Cardinality, W!Cardinality
<1>2. WP!AckStep(S)
  BY Zenon DEF W!Ack, W!IsAdvance, W!AckedWith, W!Persist, W!Settle, W!CompactLocked,
     W!CompactOK, W!CompactNoHandle, W!CompactTempError, W!CompactCloseError,
     W!CompactSwapError, W!Up, W!Seqs, W!disk, W!Cardinality,
     WP!AckStep, WP!Ack, WP!IsAdvance, WP!AckedWith, WP!Persist, WP!Settle, WP!CompactLocked,
     WP!CompactOK, WP!CompactNoHandle, WP!CompactTempError, WP!CompactCloseError,
     WP!CompactSwapError, WP!Up, WP!Seqs, WP!disk, WP!Cardinality
<1>3. PICK n \in Nat :
         /\ checkpoint <= n
         /\ \/ ckptFile' = ckptFile /\ log' = log
            \/ ckptFile' = n /\ log' \in {log, {r \in log : r.seq > n}}
         /\ WP!Up' => /\ checkpoint' = n
                      /\ acked' = WP!AckedWith(S) \ ((checkpoint + 1)..n)
  BY <1>1, <1>2, WP!AckFile, WalConstants DEF WP!ConstantsAssumption
<1>4. /\ f # "none" /\ f' # "none" /\ seq' = seq /\ pending' = pending /\ held' = held \ S
      /\ \A e \in Entries : result[e] = "cancelled" => result'[e] = "cancelled"
  <2>1. f' # "none"
    BY DEF W!Ack, W!Persist, W!CompactLocked, W!CompactOK, W!CompactNoHandle,
       W!CompactTempError, W!CompactCloseError, W!CompactSwapError, W!disk, W!Up
  <2> QED
    BY <2>1 DEF W!Ack, W!Up
<1>5. checkpoint' = n /\ acked' = WP!AckedWith(S) \ ((checkpoint + 1)..n)
  BY <1>3, <1>4 DEF WP!Up
<1>6. \A r \in log : r.seq > n => r \in log'
  BY <1>3
<1>7. ASSUME Accounted PROVE Accounted'
  <2>1. checkpoint \in Nat /\ seq \in Nat
    BY DEF DiskFits, W!TypeOK
  <2>2. SUFFICES ASSUME NEW s \in (n + 1)..seq
                 PROVE  \/ s \in acked'
                        \/ s \in W!Seqs(held' \cup pending')
                        \/ \E r \in log' : r.seq = s /\ result'[r.entry] = "cancelled"
    BY <1>4, <1>5 DEF Accounted
  <2>3. s \in Nat /\ n < s /\ s \in (checkpoint + 1)..seq /\ s \notin (checkpoint + 1)..n
        /\ checkpoint < s
    BY <1>3, <2>1
  <2>4. CASE s \in WP!AckedWith(S)
    BY <1>5, <2>3, <2>4
  <2>5. CASE s \notin WP!AckedWith(S)
    <3>1. s \notin acked /\ s \notin WP!Seqs(S)
      BY <2>3, <2>5 DEF WP!AckedWith
    <3>2. CASE s \in W!Seqs(held \cup pending)
      BY <1>4, <3>1, <3>2 DEF W!Seqs, WP!Seqs
    <3>3. CASE \E r \in log : r.seq = s /\ result[r.entry] = "cancelled"
      BY <1>4, <1>6, <2>3, <3>3 DEF Rec
    <3> QED
      BY <1>7, <2>3, <3>1, <3>2, <3>3 DEF Accounted
  <2> QED
    BY <2>4, <2>5
<1> QED
  BY <1>4, <1>7 DEF StallInv, Stopping

\* A new process: what is past the checkpoint is on disk, and is pending.
LEMMA StallStart == DiskFits /\ StallInv /\ UseWAL /\ Start => StallInv'
<1> SUFFICES ASSUME DiskFits, StallInv, UseWAL, Start PROVE StallInv'
  OBVIOUS
<1>1. /\ f' = "open" /\ phase' = "opening" /\ checkpoint' = ckptFile /\ log' = log
      /\ pending' = {r \in log : r.seq > ckptFile} /\ acked' = {}
      /\ seq' \in {0} \cup W!Seqs(log)
  BY DEF Start, OnWAL, W!OpenWAL, W!disk
<1>2. ckptFile \in Nat /\ log \subseteq W!Record
  BY DEF DiskFits, W!TypeOK
<1>3. ASSUME NEW s \in (ckptFile + 1)..seq'
      PROVE  s \in W!Seqs(held' \cup pending')
  <2>1. PICK r \in log : seq' = r.seq
    BY <1>1, <1>2, <1>3 DEF W!Seqs
  <2>2. PICK q \in log : q.seq = s
    BY <1>3, <2>1 DEF DiskFits, W!Seqs
  <2>3. q \in pending'
    BY <1>1, <1>2, <1>3, <2>2 DEF W!Record
  <2> QED
    BY <2>2, <2>3 DEF W!Seqs
<1> QED
  BY <1>1, <1>3 DEF StallInv, Accounted

\* A record the log accepted is in the pipeline.
LEMMA StallLog ==
    ASSUME DiskFits, StallInv, UseWAL, IInv, NEW e \in Entries, Log(e)
    PROVE  StallInv'
<1>1. /\ f = "open" /\ f' = f /\ checkpoint' = checkpoint /\ acked' = acked
      /\ seq' = seq + 1 /\ pending' = pending /\ held' = held \cup {W!NextRecord(e)}
      /\ log \subseteq log' /\ phase' = phase
  BY DEF Log, OnWAL, W!Append, W!Logged, mainVars
<1>2. seq \in Nat /\ checkpoint \in Nat /\ W!NextRecord(e).seq = seq + 1
  BY DEF DiskFits, W!TypeOK, W!NextRecord
<1>3. \A x \in Entries : result[x] = "cancelled" => result'[x] = "cancelled"
  BY DEF Log, IInv, Shape
<1>4. ASSUME Accounted, NEW s \in (checkpoint + 1)..(seq + 1)
      PROVE  \/ s \in acked'
             \/ s \in W!Seqs(held' \cup pending')
             \/ \E r \in log' : r.seq = s /\ result'[r.entry] = "cancelled"
  <2>1. CASE s = seq + 1
    BY <1>1, <1>2, <2>1 DEF W!Seqs
  <2>2. CASE s # seq + 1
    <3>1. s \in (checkpoint + 1)..seq
      BY <1>2, <2>2
    <3>2. CASE s \in acked \/ s \in W!Seqs(held \cup pending)
      BY <1>1, <3>2 DEF W!Seqs
    <3>3. CASE \E r \in log : r.seq = s /\ result[r.entry] = "cancelled"
      BY <1>1, <1>3, <3>3 DEF IInv, Shape, Rec
    <3> QED
      BY <1>4, <3>1, <3>2, <3>3 DEF Accounted
  <2> QED
    BY <2>1, <2>2
<1> QED
  BY <1>1, <1>4 DEF StallInv, Accounted, Stopping

\* A cancelled enqueue gives its record up: it is on disk, and its client knows.
LEMMA StallTimedOut ==
    ASSUME DiskFits, StallInv, UseWAL, IInv, NEW r \in offers \cup lastOffers,
           SaveTimedOut(r)
    PROVE  StallInv'
<1>1. /\ f' = f /\ f # "none" /\ UNCHANGED <<log, checkpoint, acked, seq, pending, phase>>
      /\ held' = held \ {r}
  BY DEF SaveTimedOut, OnWAL, W!Abandon, W!Up, W!disk, W!memory, mainVars
<1>2. r \in held /\ r.entry \in Entries /\ r.seq \in Nat
  BY OfferedAlone DEF IInv, Tracked, Shape, Rec
<1>3. result' = [result EXCEPT ![r.entry] = "cancelled"]
  BY DEF SaveTimedOut
<1>4. /\ \A x \in Entries : result[x] = "cancelled" => result'[x] = "cancelled"
      /\ result'[r.entry] = "cancelled"
  BY <1>2, <1>3 DEF IInv, Shape
<1>5. ckptFile <= checkpoint /\ ckptFile \in Nat /\ checkpoint \in Nat /\ seq \in Nat
  BY <1>1 DEF DiskFits, W!TypeOK
<1>6. ASSUME Accounted, NEW s \in (checkpoint + 1)..seq
      PROVE  \/ s \in acked'
             \/ s \in W!Seqs(held' \cup pending')
             \/ \E q \in log' : q.seq = s /\ result'[q.entry] = "cancelled"
  <2>1. CASE s \in acked
    BY <1>1, <2>1
  <2>2. CASE s \in W!Seqs(held \cup pending)
    <3>1. PICK q \in held \cup pending : q.seq = s
      BY <2>2 DEF W!Seqs
    <3>2. CASE q = r
      <4>1. r \in log
        BY <1>2, <1>5, <3>1, <3>2 DEF DiskFits
      <4> QED
        BY <1>1, <1>4, <3>1, <3>2, <4>1
    <3>3. CASE q # r
      BY <1>1, <3>1, <3>3 DEF W!Seqs
    <3> QED
      BY <3>2, <3>3
  <2>3. CASE \E q \in log : q.seq = s /\ result[q.entry] = "cancelled"
    BY <1>1, <1>4, <2>3 DEF IInv, Shape, Rec
  <2> QED
    BY <1>6, <2>1, <2>2, <2>3 DEF Accounted
<1> QED
  BY <1>1, <1>6 DEF StallInv, Accounted, Stopping

LEMMA StallStep == IInv /\ DiskFits /\ StallInv /\ [Next]_vars => StallInv'
<1> SUFFICES ASSUME IInv, DiskFits, StallInv, [Next]_vars, UseWAL PROVE StallInv'
  BY DEF StallInv
<1> USE DEF OnWAL
<1> DEFINE Kept ==
      /\ UNCHANGED <<f, seq, checkpoint, acked>>
      /\ held \cup pending \subseteq held' \cup pending' /\ log \subseteq log'
      /\ \A e \in Entries : result[e] = "cancelled" => result'[e] = "cancelled"
      /\ (phase # "down" /\ phase' # "down") \/ phase' = phase
      /\ Stopping => Stopping'
<1>1. Kept => StallInv'
  BY AccountedKept DEF IInv, Shape
<1>2. phase' = "down" /\ f' = "none" => StallInv'
  BY DEF StallInv
<1>3. Batching
  BY BatchAssumption DEF IInv, ModesApart
<1>4. CASE Main
  <2>1. CASE Start
    BY <2>1, StallStart
  <2>2. CASE Replay
    <3>1. Kept
      BY <2>2 DEF Replay, W!Recover, W!disk, walVars, reqVars, Stopping
    <3> QED
      BY <1>1, <3>1
  <2>3. CASE Exit
    BY <1>2, <2>3 DEF Exit, W!Crash, W!LoseMemory, NoProcessNext
  <2>4. CASE Drained \/ OutOfTime
    BY <2>4 DEF Drained, OutOfTime, FinishStop, CloseWAL, W!CloseWAL, walVars, StallInv,
       Stopping
  <2>5. CASE Ping \/ Signal \/ Deadline \/ BeginStop
    <3>1. Kept
      BY <2>5 DEF Ping, Signal, Deadline, BeginStop, walVars, reqVars, Stopping
    <3> QED
      BY <1>1, <3>1
  <2> QED
    BY <1>4, <2>1, <2>2, <2>3, <2>4, <2>5 DEF Main
<1>5. ASSUME NEW e \in Entries, Request(e)
      PROVE  StallInv'
  <2>1. CASE Log(e)
    BY <2>1, StallLog
  <2>2. CASE LogRefused(e)
    <3>1. UNCHANGED <<f, seq, checkpoint, acked, held, pending, phase>> /\ log \subseteq log'
      BY <2>2 DEF LogRefused, W!AppendRefused, W!AppendShortWrite, W!AppendSyncError,
         W!Logged, W!memory, W!disk, mainVars
    <3>2. \A x \in Entries : result[x] = "cancelled" => result'[x] = "cancelled"
      BY <2>2 DEF LogRefused, IInv, Shape
    <3> QED
      BY <1>1, <3>1, <3>2 DEF Stopping
  <2>3. CASE CrashInLog(e)
    BY <1>2, <2>3 DEF CrashInLog, W!CrashInAppend, W!LoseMemory, NoProcessNext
  <2>4. CASE Arrive(e)
    <3>1. Kept
      BY <2>4 DEF Arrive, walVars, mainVars, IInv, Shape, Stopping
    <3> QED
      BY <1>1, <3>1
  <2>5. CASE Direct(e)
    <3>1. Kept
      BY <2>5 DEF Direct, ConvertFails, Push, Pushed, PushFails, walVars, mainVars,
         IInv, Shape, Stopping
    <3> QED
      BY <1>1, <3>1
  <2> QED
    BY <1>5, <2>1, <2>2, <2>3, <2>4, <2>5 DEF Request
<1>6. ASSUME NEW r \in offers \cup lastOffers, Offer(r)
      PROVE  StallInv'
  <2>1. {r} \in SUBSET held /\ result[r.entry] = "saving" /\ r.entry \in Entries
    BY OfferedAlone DEF IInv, Tracked, ResultsFit, Shape, Rec
  <2>2. CASE SaveTimedOut(r)
    BY <2>2, StallTimedOut
  <2>3. CASE QueueFull(r)
    <3>1. W!Ack({r}) /\ phase' = phase /\ log \subseteq Rec
      BY <2>3 DEF QueueFull, AckBatch, mainVars, IInv, Shape
    <3>2. \A x \in Entries : result[x] = "cancelled" => result'[x] = "cancelled"
      BY <2>1, <2>3 DEF QueueFull, IInv, Shape
    <3> QED
      BY <2>1, <3>1, <3>2, AccountedAck
  <2>4. CASE Enqueued(r)
    <3>1. Kept
      BY <2>1, <2>4 DEF Enqueued, walVars, mainVars, IInv, Shape, Stopping
    <3> QED
      BY <1>1, <3>1
  <2>5. CASE WaitedLong(r)
    <3>1. Kept
      BY <2>5 DEF WaitedLong, walVars, mainVars, Stopping
    <3> QED
      BY <1>1, <3>1
  <2> QED
    BY <1>6, <2>2, <2>3, <2>4, <2>5 DEF Offer
<1>7. CASE ReplaySend
  <2>1. Kept
    BY <1>7 DEF ReplaySend, walVars, mainVars, reqVars, Stopping
  <2> QED
    BY <1>1, <2>1
<1>8. CASE ReplayStop
  BY <1>8 DEF ReplayStop, W!Abandon, W!memory, mainVars, StallInv, Stopping
<1>9. CASE Accumulator
  <2>1. Kept
    BY <1>9 DEF Accumulator, Accumulate, Tick, Dispatch, AccStop, Drain, walVars, mainVars,
       reqVars, Stopping
  <2> QED
    BY <1>1, <2>1
<1>10. CASE FlushAck
  <2>1. PICK S \in SUBSET held : S = Range(flBatch)
    BY DEF IInv, Tracked, Pipeline, Flushing
  <2>2. W!Ack(S) /\ phase' = phase /\ result' = result /\ log \subseteq Rec
    BY <1>10, <2>1 DEF FlushAck, AckBatch, mainVars, reqVars, IInv, Shape
  <2> QED
    BY <2>2, AccountedAck
<1>11. CASE CrashInFlushAck
  BY <1>2, <1>11 DEF CrashInFlushAck, W!CrashInAck, W!LoseMemory, NoProcessNext
<1>12. CASE Take \/ Send \/ PushOK \/ PushError \/ Backoff \/ FlusherExit
  <2>1. Kept
    BY <1>12 DEF Take, Send, PushOK, PushError, Backoff, FlusherExit, walVars, mainVars,
       reqVars, Stopping
  <2> QED
    BY <1>1, <2>1
<1>13. CASE UNCHANGED vars
  <2>1. Kept
    BY <1>13 DEF vars, walVars, mainVars, reqVars, Stopping
  <2> QED
    BY <1>1, <2>1
<1> QED
  BY <1>4, <1>5, <1>6, <1>7, <1>8, <1>9, <1>10, <1>11, <1>12, <1>13 DEF Next, Flusher

\* batch.go:90-95: while a process serves, the record its checkpoint waits for is
\* in its pipeline or was cancelled in this process; nothing replayed, dropped or
\* sent holds it up.
THEOREM OnlyCancelledStalls == WholeFrames => (Spec => []OnlyCancelledStall)
<1> SUFFICES ASSUME WholeFrames PROVE Spec => []OnlyCancelledStall
  OBVIOUS
<1>1. Init => StallInv
  BY DEF Init, W!Init, StallInv
<1>2. Spec => []StallInv
  <2>1. StallInv /\ [](IInv /\ DiskFits) /\ [][Next]_vars => []StallInv
    <3>1. StallInv /\ (IInv /\ DiskFits) /\ [Next]_vars => StallInv'
      BY StallStep
    <3> QED
      BY <3>1, PTL
  <2> QED
    BY <1>1, <2>1, InvHolds, DiskFitsHolds, PTL DEF Spec
<1>3. IInv /\ DiskFits /\ StallInv => OnlyCancelledStall
  <2> SUFFICES ASSUME IInv, DiskFits, StallInv, UseWAL, Running, ~Stopping, checkpoint < seq
               PROVE  \/ checkpoint + 1 \in W!Seqs(Pipeline)
                      \/ \E r \in log : r.seq = checkpoint + 1 /\ result[r.entry] = "cancelled"
    BY DEF OnlyCancelledStall
  <2>1. f # "none" /\ Accounted
    BY DEF StallInv, Running
  <2>2. checkpoint + 1 \in (checkpoint + 1)..seq /\ checkpoint + 1 \notin acked
    BY DEF DiskFits, W!TypeOK
  <2>3. pending = {} /\ held = Pipeline
    BY DEF IInv, NothingBeforeReplay, Tracked, Running
  <2>4. held \cup pending = Pipeline
    BY <2>3
  <2> QED
    BY <2>1, <2>2, <2>4 DEF Accounted
<1> QED
  BY <1>2, <1>3, InvHolds, DiskFitsHolds, PTL

=============================================================================
