----------------------------- MODULE LokiBatch -----------------------------
(***************************************************************************)
(* The batch pipeline of the Loki backend (internal/storage/loki/batch.go) *)
(* inside the life of the process that runs it (loki.New, Client.Save,     *)
(* Client.Close, main.run): request goroutines offer alerts to a bounded   *)
(* channel, the accumulator groups them, the flusher pushes the groups to  *)
(* Loki with retries, and a replay goroutine re-injects what the           *)
(* write-ahead log recovered.  The log is the module Wal.                  *)
(*                                                                         *)
(* One action is what a goroutine does between two points where another    *)
(* can run: a channel operation, a call under w.mu, a push, a sleep.       *)
(* Loki is external: a push stores its alerts or not, and answers or not.  *)
(***************************************************************************)
EXTENDS Naturals, Sequences, FiniteSets, SequencesExt

CONSTANTS
    Entries,     \* calls of Save; a retry by AlertManager is a new entry
    Unconvertible, \* the entries dataToStream fails on
    Modes,       \* values of cfg.Batch.Enabled: TRUE, or FALSE for no pipeline
    UseWAL,      \* cfg.WAL.Enabled
    CompactAt, Faults,  \* see Wal
    BatchSize,   \* cfg.Size
    QueueCap,    \* capacity of b.in
    FlushCap,    \* capacity of b.flushCh
    MaxRetries,  \* cfg.MaxRetries
    SlowSaves    \* an append may hang until the save context is over

ASSUME BatchAssumption ==
    /\ Unconvertible \subseteq Entries
    /\ UseWAL \in BOOLEAN /\ SlowSaves \in BOOLEAN
    /\ UseWAL => "abandon" \in Faults /\ Modes = {TRUE}
    /\ Modes \subseteq BOOLEAN
    /\ BatchSize \in Nat \ {0} /\ QueueCap \in Nat \ {0}
    /\ FlushCap \in Nat \ {0} /\ MaxRetries \in Nat

VARIABLES
    \* Wal
    log, torn, ckptFile, f, size, seq, checkpoint, acked, pending, held, status,
    \* the process
    phase,        \* where main is
    ctx,          \* the context of the shutdown
    stopResult,   \* what stop returned
    runCancelled, \* b.runCtx is cancelled
    \* goroutines and channels
    result,       \* entry -> where its request is, or what its client was told
    offers,       \* records whose enqueue is in its first select
    lastOffers,   \* records whose enqueue is in its second select
    replayLeft,   \* records the replay goroutine has yet to send
    in,           \* b.in
    accPc, batch, \* the accumulator ("none" if c.batch is nil)
    flushCh,      \* b.flushCh
    flPc, flBatch, attempt, \* the flusher
    \* what can be observed
    outcomes,     \* entry -> what recordOutcome was called with in this process; it
                  \* counts the alerts of the entry, which may be none
    stored        \* entries Loki has stored

W == INSTANCE Wal

ASSUME WalAssumption == W!ConstantsAssumption

walVars  == <<log, torn, ckptFile, f, size, seq, checkpoint, acked, pending,
              held, status>>
mainVars == <<phase, ctx, stopResult, runCancelled>>
reqVars  == <<result, offers, lastOffers>>
accVars  == <<accPc, batch>>
flVars   == <<flPc, flBatch, attempt>>
vars     == <<walVars, mainVars, reqVars, replayLeft, in, accVars, flushCh,
              flVars, outcomes, stored>>

Alive == phase # "down"
Running == phase \in {"starting", "serving", "draining", "closing", "closed"}
Batching == accPc # "none"
Stopping == phase \in {"closing", "closed"}      \* b.stopCh is closed

EntriesOf(R) == {r.entry : r \in R}
Good(b) == EntriesOf(Range(b)) \ Unconvertible

\* A call on the log, skipped when b.wal is nil.
OnWAL(Call) == IF UseWAL THEN Call ELSE UNCHANGED walVars

AckBatch(R) == OnWAL(W!Ack(R))

RecordOutcome(es, o) ==
    outcomes' = [e \in Entries |->
                   IF e \in es THEN Append(outcomes[e], o) ELSE outcomes[e]]

Init ==
    /\ W!Init
    /\ phase = "down" /\ ctx = "none" /\ stopResult = "none"
    /\ runCancelled = FALSE
    /\ offers = {} /\ lastOffers = {} /\ replayLeft = <<>> /\ in = <<>>
    /\ \/ TRUE \in Modes /\ accPc = "run" /\ flPc = "idle"
       \/ FALSE \in Modes /\ accPc = "none" /\ flPc = "none"
    /\ batch = <<>> /\ flushCh = <<>> /\ flBatch = <<>> /\ attempt = 0
    /\ outcomes = [e \in Entries |-> <<>>]
    /\ result = [e \in Entries |-> "idle"]
    /\ stored = {}

-----------------------------------------------------------------------------
(* The process: loki.New, then main.run *)

\* New, up to openWAL.
Start ==
    /\ phase = "down"
    /\ phase' = "opening"
    /\ OnWAL(W!OpenWAL)
    /\ UNCHANGED <<ctx, stopResult, runCancelled, reqVars, replayLeft, in,
                   accVars, flushCh, flVars, outcomes, stored>>

\* What readRecords returned: the file is in the order of seq, and two records
\* under one number are in either order.
InSeqOrder(R) ==
    {s \in SetToSeqs(R) : \A i, j \in DOMAIN s : i < j => s[i].seq <= s[j].seq}

\* Mutant: replay re-injects the whole log instead of what is past the checkpoint.
ReplayWholeLog ==
    /\ phase = "opening"
    /\ phase' = "starting"
    /\ pending' = {} /\ held' = held \cup log
    /\ replayLeft' \in InSeqOrder(log)
    /\ UNCHANGED <<log, torn, ckptFile, f, size, seq, checkpoint, acked, status,
                   ctx, stopResult, runCancelled, reqVars, in, accVars, flushCh,
                   flVars, outcomes, stored>>

\* recover, start and replay: the goroutines run, the ping is on its way.
Replay ==
    /\ phase = "opening"
    /\ phase' = "starting"
    /\ IF pending # {} THEN W!Recover ELSE UNCHANGED walVars
    /\ replayLeft' \in InSeqOrder(pending)
    /\ UNCHANGED <<ctx, stopResult, runCancelled, reqVars, in, accVars, flushCh,
                   flVars, outcomes, stored>>

\* The ping of New: the server starts, or stop runs without a deadline.
Ping ==
    /\ phase = "starting"
    /\ phase' \in {"serving", "closing"}
    /\ UNCHANGED <<walVars, ctx, stopResult, runCancelled, reqVars, replayLeft,
                   in, accVars, flushCh, flVars, outcomes, stored>>

Signal ==
    /\ phase = "serving"
    /\ phase' = "draining" /\ ctx' = "live"
    /\ UNCHANGED <<walVars, stopResult, runCancelled, reqVars, replayLeft, in,
                   accVars, flushCh, flVars, outcomes, stored>>

\* shutdownTimeout passes, during s.Shutdown or during driver.Close.
Deadline ==
    /\ ctx = "live" /\ stopResult = "none"
    /\ ctx' = IF phase = "draining" THEN "overrun" ELSE "expired"
    /\ UNCHANGED <<walVars, phase, stopResult, runCancelled, reqVars, replayLeft,
                   in, accVars, flushCh, flVars, outcomes, stored>>

Open == {"arrived", "saving", "pushing"}

HandlersActive == \E e \in Entries : result[e] \in Open

\* s.Shutdown returns, its handlers done or its context over; Close stops the
\* pipeline.
BeginStop ==
    /\ phase = "draining"
    /\ ~HandlersActive \/ ctx = "overrun"
    /\ phase' = "closing"
    /\ UNCHANGED <<walVars, ctx, stopResult, runCancelled, reqVars, replayLeft,
                   in, accVars, flushCh, flVars, outcomes, stored>>

CloseWAL == IF f \in {"open", "broken"} THEN W!CloseWAL ELSE UNCHANGED walVars

FinishStop(answer) ==
    /\ phase = "closing"
    /\ phase' = "closed"
    /\ stopResult' = answer
    /\ runCancelled' = TRUE
    /\ CloseWAL
    /\ UNCHANGED <<ctx, reqVars, replayLeft, in, accVars, flushCh, flVars,
                   outcomes, stored>>

\* The wait group is done: the accumulator, the flusher and replay are gone, or
\* there never were any.
Drained ==
    /\ Batching => accPc = "exited" /\ flPc = "exited" /\ replayLeft = <<>>
    /\ FinishStop("nil")

OutOfTime ==
    /\ Batching
    /\ ctx \in {"expired", "overrun"}
    /\ FinishStop("error")

\* What is left of a process: nothing but the files and Loki.  A client whose
\* request was open got no answer.
NoProcessNext ==
    /\ phase' = "down" /\ ctx' = "none" /\ stopResult' = "none"
    /\ runCancelled' = FALSE
    /\ offers' = {} /\ lastOffers' = {} /\ replayLeft' = <<>> /\ in' = <<>>
    /\ IF Batching THEN accPc' = "run" /\ flPc' = "idle" ELSE UNCHANGED <<accPc, flPc>>
    /\ batch' = <<>> /\ flushCh' = <<>> /\ flBatch' = <<>> /\ attempt' = 0
    /\ outcomes' = [e \in Entries |-> <<>>]
    /\ result' = [e \in Entries |->
                    CASE result[e] \in Open -> "lost"
                      [] result[e] = "ok" -> "okBefore"
                      [] result[e] = "cancelled" -> "cancelledBefore"
                      [] OTHER -> result[e]]
    /\ UNCHANGED stored

\* main returns after stop, or the process is killed at any point.
Exit ==
    /\ Alive
    /\ OnWAL(W!Crash)
    /\ NoProcessNext

-----------------------------------------------------------------------------
(* Client.Save and enqueue, one goroutine per request *)

Arrive(e) ==
    /\ phase = "serving" /\ result[e] = "idle"
    /\ result' = [result EXCEPT ![e] = "arrived"]
    /\ UNCHANGED <<walVars, mainVars, offers, lastOffers, replayLeft, in, accVars,
                   flushCh, flVars, outcomes, stored>>

\* append succeeded, or there is no log.
Log(e) ==
    /\ Batching /\ result[e] = "arrived"
    /\ OnWAL(W!Append(e))
    /\ offers' = offers \cup {[seq |-> IF UseWAL THEN seq + 1 ELSE 0, entry |-> e]}
    /\ result' = [result EXCEPT ![e] = "saving"]
    /\ UNCHANGED <<mainVars, lastOffers, replayLeft, in, accVars, flushCh, flVars,
                   outcomes, stored>>

\* append fails, with the frame in the file or without.
LogRefused(e) ==
    /\ result[e] = "arrived"
    /\ UseWAL /\ (W!AppendRefused(e) \/ W!AppendShortWrite(e) \/ W!AppendSyncError(e))
    /\ RecordOutcome({e}, "refused")
    /\ result' = [result EXCEPT ![e] = "refused"]
    /\ UNCHANGED <<mainVars, offers, lastOffers, replayLeft, in, accVars, flushCh,
                   flVars, stored>>

CrashInLog(e) ==
    /\ Batching /\ result[e] = "arrived"
    /\ UseWAL /\ W!CrashInAppend(e)
    /\ NoProcessNext

\* Mutant: the channel takes one record more than its capacity.
RoomForOneMore == Len(in) <= QueueCap

Room == Len(in) < QueueCap

\* Mutant: a record is acknowledged when it is queued.
EnqueuedIsAcked(r) ==
    /\ r \in offers \cup lastOffers
    /\ Room
    /\ AckBatch({r})
    /\ in' = Append(in, r)
    /\ offers' = offers \ {r} /\ lastOffers' = lastOffers \ {r}
    /\ result' = [result EXCEPT ![r.entry] = "ok"]
    /\ UNCHANGED <<mainVars, replayLeft, accVars, flushCh, flVars, outcomes,
                   stored>>

\* Either select sends.
Enqueued(r) ==
    /\ r \in offers \cup lastOffers
    /\ Room
    /\ in' = Append(in, r)
    /\ offers' = offers \ {r} /\ lastOffers' = lastOffers \ {r}
    /\ result' = [result EXCEPT ![r.entry] = "ok"]
    /\ UNCHANGED <<walVars, mainVars, replayLeft, accVars, flushCh, flVars,
                   outcomes, stored>>

\* The 100ms of the first select pass.
WaitedLong(r) ==
    /\ r \in offers
    /\ offers' = offers \ {r} /\ lastOffers' = lastOffers \cup {r}
    /\ UNCHANGED <<walVars, mainVars, result, replayLeft, in, accVars, flushCh,
                   flVars, outcomes, stored>>

\* Either select finds the save context over (an append that hung longer than
\* saveTimeout).
SaveTimedOut(r) ==
    /\ SlowSaves
    /\ r \in offers \cup lastOffers
    /\ OnWAL(W!Abandon({r}) /\ status'[r.entry] = "unknown")
    /\ offers' = offers \ {r} /\ lastOffers' = lastOffers \ {r}
    /\ result' = [result EXCEPT ![r.entry] = "cancelled"]
    /\ UNCHANGED <<mainVars, replayLeft, in, accVars, flushCh, flVars, outcomes,
                   stored>>

\* Mutant: a dropped alert is not acknowledged to the log.
QueueFullWithoutAck(r) ==
    /\ r \in lastOffers
    /\ ~Room
    /\ RecordOutcome({r.entry}, "full")
    /\ lastOffers' = lastOffers \ {r}
    /\ result' = [result EXCEPT ![r.entry] = "full"]
    /\ UNCHANGED <<walVars, mainVars, offers, replayLeft, in, accVars, flushCh,
                   flVars, stored>>

\* The default of the second select.
QueueFull(r) ==
    /\ r \in lastOffers
    /\ ~Room
    /\ RecordOutcome({r.entry}, "full")
    /\ AckBatch({r})
    /\ lastOffers' = lastOffers \ {r}
    /\ result' = [result EXCEPT ![r.entry] = "full"]
    /\ UNCHANGED <<mainVars, offers, replayLeft, in, accVars, flushCh, flVars,
                   stored>>

-----------------------------------------------------------------------------
(* Client.Save without batches: it converts, pushes and answers *)

ConvertFails(e) ==
    /\ ~Batching /\ result[e] = "arrived" /\ e \in Unconvertible
    /\ RecordOutcome({e}, "failed")
    /\ result' = [result EXCEPT ![e] = "failed"]
    /\ UNCHANGED <<walVars, mainVars, offers, lastOffers, replayLeft, in, accVars,
                   flushCh, flVars, stored>>

\* The request is on its way; Loki may store it before the answer is here.
Push(e) ==
    /\ ~Batching /\ result[e] = "arrived" /\ e \notin Unconvertible
    /\ result' = [result EXCEPT ![e] = "pushing"]
    /\ stored' \in {stored, stored \cup {e}}
    /\ UNCHANGED <<walVars, mainVars, offers, lastOffers, replayLeft, in, accVars,
                   flushCh, flVars, outcomes>>

Pushed(e) ==
    /\ result[e] = "pushing"
    /\ stored' = stored \cup {e}
    /\ RecordOutcome({e}, "saved")
    /\ result' = [result EXCEPT ![e] = "ok"]
    /\ UNCHANGED <<walVars, mainVars, offers, lastOffers, replayLeft, in, accVars,
                   flushCh, flVars>>

\* An error answer, or none within the context of the Save.
PushFails(e) ==
    /\ result[e] = "pushing"
    /\ stored' \in {stored, stored \cup {e}}
    /\ RecordOutcome({e}, "failed")
    /\ result' = [result EXCEPT ![e] = "failed"]
    /\ UNCHANGED <<walVars, mainVars, offers, lastOffers, replayLeft, in, accVars,
                   flushCh, flVars>>

-----------------------------------------------------------------------------
(* The replay goroutine *)

ReplaySend ==
    /\ Running /\ replayLeft # <<>> /\ Room
    /\ in' = Append(in, Head(replayLeft))
    /\ replayLeft' = Tail(replayLeft)
    /\ UNCHANGED <<walVars, mainVars, reqVars, accVars, flushCh, flVars, outcomes,
                   stored>>

\* Mutant: the replay goroutine does not watch stopCh.
ReplayIgnoresStop == FALSE

\* stopCh: the rest stays in the log, unacknowledged.
ReplayStop ==
    /\ Stopping /\ replayLeft # <<>>
    /\ replayLeft' = <<>>
    /\ W!Abandon(Range(replayLeft)) /\ UNCHANGED status
    /\ UNCHANGED <<mainVars, reqVars, in, accVars, flushCh, flVars, outcomes,
                   stored>>

-----------------------------------------------------------------------------
(* accumulate *)

\* A record from the channel; a full batch is dispatched at once.
Accumulate ==
    /\ Running /\ accPc = "run" /\ in # <<>>
    /\ batch' = Append(batch, Head(in))
    /\ in' = Tail(in)
    /\ accPc' = IF Len(batch') >= BatchSize THEN "dispatch" ELSE "run"
    /\ UNCHANGED <<walVars, mainVars, reqVars, replayLeft, flushCh, flVars,
                   outcomes, stored>>

\* Mutant: the ticker only dispatches full batches.
TickFullOnly ==
    /\ Running /\ accPc = "run" /\ Len(batch) >= BatchSize
    /\ accPc' = "dispatch"
    /\ UNCHANGED <<walVars, mainVars, reqVars, replayLeft, in, batch, flushCh,
                   flVars, outcomes, stored>>

\* The ticker fires; an empty batch is not dispatched.
Tick ==
    /\ Running /\ accPc = "run" /\ batch # <<>>
    /\ accPc' = "dispatch"
    /\ UNCHANGED <<walVars, mainVars, reqVars, replayLeft, in, batch, flushCh,
                   flVars, outcomes, stored>>

\* The send on flushCh, which blocks while the channel is full.
Dispatch ==
    /\ accPc \in {"dispatch", "lastDispatch"}
    /\ Len(flushCh) < FlushCap
    /\ flushCh' = Append(flushCh, batch)
    /\ batch' = <<>>
    /\ accPc' = IF accPc = "dispatch" THEN "run" ELSE "exited"
    /\ UNCHANGED <<walVars, mainVars, reqVars, replayLeft, in, flVars, outcomes,
                   stored>>

AccStop ==
    /\ accPc = "run" /\ Stopping
    /\ accPc' = "drain"
    /\ UNCHANGED <<walVars, mainVars, reqVars, replayLeft, in, batch, flushCh,
                   flVars, outcomes, stored>>

\* Mutant: on stopCh the batch is dispatched and the channel left as it is.
DrainBatchOnly ==
    /\ accPc = "drain"
    /\ accPc' = IF batch = <<>> THEN "exited" ELSE "lastDispatch"
    /\ UNCHANGED <<walVars, mainVars, reqVars, replayLeft, in, batch, flushCh,
                   flVars, outcomes, stored>>

\* The drain takes what is queued, of any length, then dispatches it and closes
\* flushCh.
Drain ==
    /\ accPc = "drain"
    /\ IF in # <<>>
       THEN /\ batch' = Append(batch, Head(in)) /\ in' = Tail(in)
            /\ UNCHANGED accPc
       ELSE /\ accPc' = IF batch = <<>> THEN "exited" ELSE "lastDispatch"
            /\ UNCHANGED <<batch, in>>
    /\ UNCHANGED <<walVars, mainVars, reqVars, replayLeft, flushCh, flVars,
                   outcomes, stored>>

-----------------------------------------------------------------------------
(* flusher, flush and deliver *)

\* Mutant: groups that do not convert are skipped without an outcome.
TakeSkipping ==
    /\ flPc = "idle" /\ flushCh # <<>>
    /\ flBatch' = Head(flushCh)
    /\ flushCh' = Tail(flushCh)
    /\ attempt' = 0
    /\ flPc' = IF Good(flBatch') = {} THEN "ack" ELSE "send"
    /\ UNCHANGED <<walVars, mainVars, reqVars, replayLeft, in, accVars, outcomes,
                   stored>>

\* A batch from flushCh, each group converted on its own.
Take ==
    /\ flPc = "idle" /\ flushCh # <<>>
    /\ flBatch' = Head(flushCh)
    /\ flushCh' = Tail(flushCh)
    /\ RecordOutcome(EntriesOf(Range(flBatch')) \cap Unconvertible, "failed")
    /\ attempt' = 0
    /\ flPc' = IF Good(flBatch') = {} THEN "ack" ELSE "send"
    /\ UNCHANGED <<walVars, mainVars, reqVars, replayLeft, in, accVars, stored>>

\* Mutant: one outcome for the whole batch.
DeliveredOnce(o) ==
    /\ \E e \in Good(flBatch) : RecordOutcome({e}, o)
    /\ flPc' = "ack"
    /\ UNCHANGED attempt

\* Ends deliver with an outcome for every converted group.
Delivered(o) ==
    /\ RecordOutcome(Good(flBatch), o)
    /\ flPc' = "ack"
    /\ UNCHANGED attempt

\* pushPayload starts; on a cancelled context it fails without a request.
Send ==
    /\ flPc = "send"
    /\ IF runCancelled
       THEN Delivered("aborted")
       ELSE flPc' = "inflight" /\ UNCHANGED <<outcomes, attempt>>
    /\ UNCHANGED <<walVars, mainVars, reqVars, replayLeft, in, accVars, flushCh,
                   flBatch, stored>>

PushOK ==
    /\ flPc = "inflight"
    /\ stored' = stored \cup Good(flBatch)
    /\ Delivered("saved")
    /\ UNCHANGED <<walVars, mainVars, reqVars, replayLeft, in, accVars, flushCh,
                   flBatch>>

\* Mutant: the attempts are not counted.
PushErrorForever ==
    /\ flPc = "inflight"
    /\ \E part \in SUBSET Good(flBatch) : stored' = stored \cup part
    /\ \/ runCancelled /\ Delivered("aborted")
       \/ /\ ~runCancelled
          /\ flPc' = "backoff"
          /\ UNCHANGED <<outcomes, attempt>>
    /\ UNCHANGED <<walVars, mainVars, reqVars, replayLeft, in, accVars, flushCh,
                   flBatch>>

\* An error answer, or none in time; Loki may have stored any part of it.
PushError ==
    /\ flPc = "inflight"
    /\ \E part \in SUBSET Good(flBatch) : stored' = stored \cup part
    /\ \/ runCancelled /\ Delivered("aborted")
       \/ ~runCancelled /\ attempt = MaxRetries /\ Delivered("failed")
       \/ /\ ~runCancelled /\ attempt < MaxRetries
          /\ attempt' = attempt + 1
          /\ flPc' = "backoff"
          /\ UNCHANGED outcomes
    /\ UNCHANGED <<walVars, mainVars, reqVars, replayLeft, in, accVars, flushCh,
                   flBatch>>

\* The select of the backoff: the delay, or runCtx.
Backoff ==
    /\ flPc = "backoff"
    /\ \/ flPc' = "send" /\ UNCHANGED <<outcomes, attempt>>
       \/ runCancelled /\ Delivered("aborted")
    /\ UNCHANGED <<walVars, mainVars, reqVars, replayLeft, in, accVars, flushCh,
                   flBatch, stored>>

\* The deferred ackBatch of flush.
FlushAck ==
    /\ flPc = "ack"
    /\ AckBatch(Range(flBatch))
    /\ flPc' = "idle" /\ flBatch' = <<>>
    /\ UNCHANGED <<mainVars, reqVars, replayLeft, in, accVars, flushCh, attempt,
                   outcomes, stored>>

CrashInFlushAck ==
    /\ flPc = "ack" /\ UseWAL
    /\ W!CrashInAck(Range(flBatch))
    /\ NoProcessNext

FlusherExit ==
    /\ flPc = "idle" /\ flushCh = <<>> /\ accPc = "exited"
    /\ flPc' = "exited"
    /\ UNCHANGED <<walVars, mainVars, reqVars, replayLeft, in, accVars, flushCh,
                   flBatch, attempt, outcomes, stored>>

-----------------------------------------------------------------------------
Main == Start \/ Replay \/ Ping \/ Signal \/ Deadline \/ BeginStop \/ Drained
          \/ OutOfTime \/ Exit

Direct(e) == ConvertFails(e) \/ Push(e) \/ Pushed(e) \/ PushFails(e)

Request(e) == Arrive(e) \/ Log(e) \/ LogRefused(e) \/ CrashInLog(e) \/ Direct(e)

Offer(r) == Enqueued(r) \/ WaitedLong(r) \/ SaveTimedOut(r) \/ QueueFull(r)

Accumulator == Accumulate \/ Tick \/ Dispatch \/ AccStop \/ Drain

Flusher == Take \/ Send \/ PushOK \/ PushError \/ Backoff \/ FlushAck \/ FlusherExit

Next ==
    \/ Main
    \/ \E e \in Entries : Request(e)
    \/ \E r \in offers \cup lastOffers : Offer(r)
    \/ ReplaySend \/ ReplayStop
    \/ Accumulator
    \/ Flusher
    \/ CrashInFlushAck

Spec == Init /\ [][Next]_vars

\* Every goroutine keeps running while the process does; a push and the ping
\* return (RequestTimeout), the ticker and the timers fire.  Nothing makes a
\* request or a signal arrive, a deadline pass or a process start.
Fairness ==
    /\ WF_vars(Replay) /\ WF_vars(Ping) /\ WF_vars(BeginStop)
    /\ WF_vars(Drained \/ OutOfTime)
    /\ WF_vars(ReplaySend \/ ReplayStop)
    /\ WF_vars(Accumulate \/ AccStop \/ Drain) /\ WF_vars(Tick) /\ WF_vars(Dispatch)
    /\ WF_vars(Flusher)
    /\ \A e \in Entries :
          /\ WF_vars(Log(e) \/ LogRefused(e) \/ Direct(e))
          /\ WF_vars(\E r \in offers \cup lastOffers : r.entry = e /\ Offer(r))

FairSpec == Spec /\ Fairness

-----------------------------------------------------------------------------
(* Correctness *)

Results == Open \cup {"idle", "ok", "refused", "cancelled", "full", "failed",
                      "lost", "okBefore", "cancelledBefore"}

\* The type of every variable outside Wal, and the capacity of the channels.
TypeOK ==
    /\ W!TypeOK
    /\ phase \in {"down", "opening", "starting", "serving", "draining",
                  "closing", "closed"}
    /\ ctx \in {"none", "live", "expired", "overrun"}
    /\ stopResult \in {"none", "nil", "error"} /\ runCancelled \in BOOLEAN
    /\ result \in [Entries -> Results]
    /\ accPc \in {"none", "run", "dispatch", "drain", "lastDispatch", "exited"}
    /\ flPc \in {"none", "idle", "send", "inflight", "backoff", "ack", "exited"}
    /\ Len(in) <= QueueCap /\ Len(flushCh) <= FlushCap
    /\ attempt \in 0..MaxRetries
    /\ stored \subseteq Entries

Queued(q) == UNION {Range(q[i]) : i \in DOMAIN q}

Flushing == Queued(flushCh) \cup Range(flBatch)

Pipeline == offers \cup lastOffers \cup Range(replayLeft) \cup Range(in)
              \cup Range(batch) \cup Flushing

Recorded(e, o) == o \in Range(outcomes[e])

Replayable(e) == \E r \in log : r.entry = e /\ r.seq > ckptFile

\* batch.go:148-150: an unacknowledged record is always somewhere in the
\* pipeline of the process, so it gets its acknowledgement; and no record is in
\* the pipeline that the log does not wait for.
EveryRecordTracked == (UseWAL /\ Running) => held = Pipeline

\* batch.go:90-95, a record whose enqueue was cancelled "is retained until then",
\* the next start: the record that the checkpoint of a process waits for is in the
\* pipeline, or was cancelled in this process; nothing that was replayed, dropped
\* or sent holds it up.
OnlyCancelledStall ==
    (UseWAL /\ Running /\ ~Stopping /\ checkpoint < seq) =>
        \/ checkpoint + 1 \in W!Seqs(Pipeline)
        \/ \E r \in log : r.seq = checkpoint + 1 /\ result[r.entry] = "cancelled"

\* batch.go:39-40, "every alert is recorded as saved or failed": an alert whose
\* Save returned nil is still in the pipeline or has its outcome, a process never
\* records a second outcome for an alert, and what it counts as saved is in Loki
\* (client.go:127-129, the outcome is recorded at the real point of delivery).
NoSilentLoss ==
    \A e \in Entries :
        /\ result[e] = "ok" => e \in EntriesOf(Pipeline) \/ outcomes[e] # <<>>
        /\ Len(outcomes[e]) <= 1
        /\ Recorded(e, "saved") => e \in stored

\* batch.go:310-313, "on a clean drain it returns nil": when no handler outlived
\* the HTTP server's shutdown, a stop that returned nil leaves behind no alert a
\* client of this process was told yes about, or waits for.  (What it may leave is
\* a replayed record: replay's select may still send once accumulate is gone.)
CleanStopDrains ==
    (stopResult = "nil" /\ ctx # "overrun") =>
        \A r \in Pipeline : result[r.entry] \notin Open \cup {"ok"}

\* wal.go:22-25: an alert the log accepted can be replayed until it is settled,
\* and it is settled only if Loki stored it, or if this process recorded why
\* not, or if an earlier process did.
SettledForAReason ==
    [][\A e \in Entries :
          (status'[e] = "settled" /\ status[e] # "settled") =>
              \/ e \in stored
              \/ \E o \in {"failed", "aborted"} : Recorded(e, o)
              \/ result'[e] = "full"]_vars

\* The pipeline uses the log only in the ways Wal allows.
ImplementsWal == W!Init /\ [][W!Next]_walVars

Unresolved(e) == result[e] \in Open \/ e \in EntriesOf(Pipeline)

\* Every alert in the pipeline of a serving process, and every Save, gets an
\* outcome or its client an error, or the process stops serving.
EveryAlertResolved ==
    \A e \in Entries :
        (phase = "serving" /\ Unresolved(e))
            ~> (~Unresolved(e) \/ phase # "serving")

\* stop returns, with or without a deadline, whatever Loki does: no goroutine
\* of the wait group waits for another for ever.
StopReturns == (phase \in {"draining", "closing"}) ~> (phase \in {"closed", "down"})

-----------------------------------------------------------------------------
(* The pipeline implements AlertStore: an alert is owed until its outcome,  *)
(* wherever in the process it is.                                           *)

Told(e) ==
    CASE result[e] = "idle" -> "none"
      [] result[e] \in Open -> "open"
      [] result[e] \in {"refused", "cancelled", "cancelledBefore", "full",
                       "failed"} -> "error"
      [] OTHER -> result[e]

OutcomeOf(e) ==
    CASE outcomes[e] = <<>> -> "none"
      [] Recorded(e, "saved") -> "saved"
      [] OTHER -> "failed"

Store == INSTANCE AlertStore WITH
    Calls <- Entries,
    Durable <- UseWAL,
    told <- [e \in Entries |-> Told(e)],
    owed <- {e \in Entries : Unresolved(e) /\ outcomes[e] = <<>>},
    outcome <- [e \in Entries |-> OutcomeOf(e)]

\* internal.go:12-21: with a log or without, in batches or not, every step of the
\* backend is one that Storer allows, or none for its callers.
KeepsPromises == Store!Spec

-----------------------------------------------------------------------------
\* batch.go:339-341: records an incomplete drain did not deliver stay on disk
\* for the next start to replay.
IncompleteDrainIsReplayed ==
    \A e \in Entries : (UseWAL /\ Recorded(e, "aborted")) => Replayable(e)

=============================================================================
