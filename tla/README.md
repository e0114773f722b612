# AlertSnitch in TLA+

AlertSnitch receives AlertManager webhooks and stores the alert groups in MySQL,
Postgres or Loki. This directory holds TLA+ models of the parts of it where the
order of steps matters, the TLC configurations that check them on small
instances, and theorems that the TLA+ proof system checks for every value of the
constants. Line numbers refer to the Go sources beside it; `PROJECT.json` maps
every definition to the lines it translates.

## 1. The system

| Part | State it keeps | Operations | Talks to |
|---|---|---|---|
| `main.run` | `stopped`, the signal goroutine, the shutdown context (30 s) | start, wait for a signal, shut down, close the backend | `server`, the backend |
| `internal/server` | `httpServer`, a handler per request or probe | `Start`, `Shutdown`, `webhookPost`, the two probes | the backend's `Save` (20 s), its health checks (5 s) |
| `storage/loki` `Client` | the batch processor, or none | `New`, `Save`, `Close` | batch, transport |
| `storage/loki` `batchProcessor` | `in` (10 x size, at least 1000), `flushCh` (4), the batch, `stopCh`, `runCtx`, the wait group | `enqueue`, `replay`, `accumulate`, `flush`, `deliver`, `stop` | the log, Loki |
| `storage/loki` `wal` | `wal.log`, `wal.ckpt`; `f`, `size`, `seq`, `checkpoint`, `acked`, `pending` | `openWAL`, `recover`, `append`, `ack`, `compactLocked`, `close` | the file system |
| `storage/loki` `ensureMonotonic` | the rows of a stream | sort and move apart | - |
| `storage/loki` labels, streams, rows | none: functions of a group and a receive time | `buildStreamLabels`, `streamKey`, `dataToStream`, `mergeStreams` | the flusher, Loki's rules for names and repeats |
| `metrics` | the saved and failed counters, the `DatabaseUp` gauge | `RecordSaveOutcome`, `Set` | every backend, the probes |
| `storage/sqlstore` | the pool, a transaction per Save, the lookup rows and their locks (in the database) | `Save`, `unitOfWork`, `CheckLiveness`, `CheckReadiness`, `Close` | the database |
| transport, config, registry, null backend, parser | none | pure functions, one request | - |

Goroutines: `main`, the signal goroutine, one per request, and in the batch mode
of Loki the accumulator, the flusher, the replay and a `stop`. They meet at the
channels `in`, `flushCh`, `stopCh`, at the mutex of the log and at the wait
group. Everything of a process is lost when it ends, except the two files of the
log and what Loki or the database has stored.

What is hard: crashes between any two of these steps; every call on a file that
may fail half-way; acknowledgements out of order against a checkpoint that is
contiguous; a shutdown with a deadline that races requests, replay, retries and
their acks; transactions that lock shared rows and are retried; timeouts set
against each other. `PROJECT.json` lists each under "hazards", at its line.

What makes each part correct:

- **log**: an accepted alert can be replayed until it has its outcome; a settled
  one is forgotten in the end; nothing that failed comes back; the checkpoint
  neither goes back nor stalls.
- **pipeline**: an alert has one outcome per process, `saved` only if Loki has
  it; the log waits for a record exactly while it is somewhere in the pipeline;
  a clean stop leaves no alert of a client behind; nobody waits for ever.
- **streams**: no name from outside makes Loki refuse a push; a row is filed under
  the labels of its alert; rows that are equal are all kept, rows that are replayed
  are not stored again.
- **timestamps**: strictly increasing, order kept, no more drift than needed.
- **SQL**: one Save stores its group once or says that it failed; ids are those
  of committed rows; locks are taken in one order and always released.
- **process**: the backend is closed before `main` returns, after the last handler
  whose request had been read, with time left to flush; the gauge follows the backend.
- **any backend**: a Save has one answer that stands; an alert that was taken on
  leaves with an outcome, an error to its client, or the process.

## 2. Modules

| Module | Models | Notes |
|---|---|---|
| `Wal` | `wal.go` | one action per method (all hold `w.mu`), one per place where a file operation fails, and crashes inside `append` and `ack` |
| `LokiBatch` | `batch.go`, `client.go`, the process | `W == INSTANCE Wal`: composes the pipeline with the log on the log's own variables; batch mode or direct |
| `Streams` | `stream.go`, `labels.go`, `encoding.go`, `mergeStreams` | what is written for a group, and what Loki has after retries, crashes and replays |
| `Timestamps` | `timestamps.go` | the loop, a step per row |
| `SqlStore` | `sqlstore/*.go` | both dialects: the initial state picks one; the health checks |
| `Server` | `main.run`, `server.go` | timers that count down; `Tick`; probes and the gauge |
| `AlertStore` | `internal.Storer`, `RecordSaveOutcome` | abstract: what any backend promises; `LokiBatch` and `SqlStore` implement it |
| `WalProofs`, `LokiBatchProofs`, `TimestampsProofs`, `ServerProofs`, `SqlStoreProofs`, `AlertStoreProofs`, `StreamsProofs` | | theorems about the modules they extend |
| `LokiBatchRefinement` | | the proof that `LokiBatch` implements `AlertStore` |
| `MC*` | | model values |

### Wal

`log` is the set of records `readRecords` would return; the file is in the order
of `seq` and no code depends on more than that. A broken frame hides all that is
appended behind it: `torn`. `f` is the handle (`broken` is one that
`compactLocked` closed with an error, non-nil and unusable), lengths are counted
in records. Two ghosts stand for the users of the log: `held`, the records whose
outcome is owed, and `status`, what a client was told. `Faults` says which calls
may fail. In the code a batch is acknowledged with all its records, so `Ack`
takes any subset of `held`.

### LokiBatch

An action is what a goroutine does between two points at which another can run.
The two selects of `enqueue` are `offers` and `lastOffers`; the accumulator and
the flusher have a program counter each. A push stores any part of its batch and
answers or not. `Exit` is the end of the process at any point; a new `Start` of
the same behaviour is the restart. `ctx = "overrun"` is a shutdown whose time
was up before the handlers had ended, `"expired"` one whose time was up in
`stop`. `Drained` and `OutOfTime` may both be enabled: the `select` picks. The replay
is in the wait group, yet between the channel and a closed `stopCh` its `select` may
pick the channel when `accumulate` is already gone: so `CleanStopDrains` promises the
records of this process's clients, and a replayed one may stay for the next start.
A save context that ends in `enqueue` (after 20 s, when the selects take 0.1 s)
needs an append that hangs: the constant `SlowSaves`. `outcomes` are the calls of
`recordOutcome`; one for a group without alerts counts none of them.

`Modes` says whether `cfg.Batch.Enabled` may be true, false or either: without it
there is no accumulator and no flusher (`accPc = "none"`), and a Save converts,
pushes and answers itself (`ConvertFails`, `Push`, `Pushed`, `PushFails`). The
process around it is the same, with nothing to drain.

The abstract specification of the log's users is `Wal` itself: `ImplementsWal`
says that every step of the pipeline is a step that `Wal!Next` allows or leaves
the log alone. What is checked of `Wal` therefore holds of the program, and it
is checked there with more records and more faults than the pipeline can afford.

### AlertStore and its refinements

`AlertStore` knows neither channels nor transactions: `told` is what a client was
told, `owed` the alerts that were taken on and have no outcome, `outcome` what this
process counted, `stored` what the database has. `Saved` and `Failed` are about a
set of calls, because a batch has one fate; `Failed` may have stored any part of
the set; `GiveUp` is the Save whose context ends, which is answered and not counted;
`Durable` allows a new process to `Recover`, and a stopping one to `Leave` what was
recovered.

`LokiBatch` maps `owed` to the alerts whose request is open or whose record is
anywhere in the pipeline (`Unresolved`) and that have no outcome yet, whichever
channel or goroutine holds them; an enqueue is `Accept`, the end of `deliver` is
`Saved` or `Failed` of the whole batch, a group that does not convert is `Failed` when
its batch is taken, the ack to the log is no step at all. `SqlStore` maps `owed` to
the Saves in progress and `stored` to the groups committed; `Commit` is `Saved`, and
a `CommitFails` that took effect is `Failed` with the group stored. The property is
`KeepsPromises` in both.

### Streams

A group is made into streams here, and a batch is any set of groups that are owed, each
with its place: how they get there is `LokiBatch`. Label values are sequences of
characters, because `Quote` and `StreamKey` are about characters. `StreamKey` goes
through the names in the order of `sort.Strings` and writes nothing for one that is
absent; the brackets around a key, which are always the same, are left out. A row's line
is a value that stands for its JSON and its metadata, equal for equal alerts of equal
groups.

A slice of rows is a set whose members say where they were appended (`place` in the
batch, `index` in the group); `UpTo` is the order that the stable sort gives them, and
`EnsureMonotonic` the closed form that `TimestampsProofs` proves of the loop
(`LeastDrift`). Neither the slices nor the map of `mergeStreams` are iterated, so the
module has no recursion and no fold over rows, and can be proved about.
`Prepared` is a constant: what of a stream does not depend on the time.
Loki refuses a push with a name outside `ValidNames`, and drops a row whose stream,
time and line it has. `owed` groups stay so until `AckBatch`; `Crash` leaves them
owed, so the next `Flush` may take them in another batch, with other groups.
`Legacy` groups were logged by a version that stored no receive time, and get the
time of each conversion.

`StoredExactlyOnce` assumes `Spaced`: groups that write to one stream were received
further apart than the nanoseconds their rows take. Without it the property does not
hold (see below), with it neither retries, crashes nor the company in the batch store
a row twice.

### SqlStore

A row of a lookup table is a number, its place in the order of table and hash
(`TablesInOrder`). What a transaction has yet to do is a set of upserts, each with the
stage it belongs to: a stage is a map of the alert group, and those of the least stage
are next.
`Issue` sends an upsert, `Resolve` is the database granting its row lock; the
lock lasts to the end of the transaction. `dialect` is picked once, among `Dialects`, so one
run checks both. `NextPairs` is where the dialects
differ: MySQL resolves all label pairs and then all annotation pairs, sorted;
Postgres resolves each map where it is inserted, in the order Go ranges over it.
The inserts of rows that only this transaction knows are one step. An id names
the attempt that created the row, so an id that survives a rollback shows.
A health check uses the pool once (`CheckLiveness`) or twice (`CheckReadiness`: the
ping, then `checkModel`), in competition with the Saves.

### Server

A tick is five seconds: `ReadTimeout`, `saveTimeout`, `probeTimeout` and
`shutdownTimeout` are 3, 4, 1 and 6. `left[r]` is what a handler has left, `shutdownLeft` what the
context of the shutdown has; what is due happens before the next tick.
Nothing orders the assignment in `Start` and the read in `Shutdown`: a signal that comes
first finds `nil`. Handlers that outlive `Shutdown` keep running beside
`driver.Close`, as they do in `net/http`. There are two ghosts: `signalled` tells a signal
that found the server listening from one that came before, about which the code
promises the same and keeps less (`MCServerEarlySignal`); `late` is the set of requests
that were still being read when the listener closed. Such a request may take
`ReadTimeout` and then `saveTimeout`, 35 s together, of a shutdown that has 30
(`MCServerUndrained`). What the code does keep is `OnlyLateOnClosedBackend`, that no other
handler is cut short, and `CloseKeepsMargin`, that `driver.Close` gets what the longest
drain leaves of the 30 s: 10 s without a late request, and nothing for sure with one.

A probe asks (`Checked`) and then sets the gauge to what it saw (`SetGauge`); the
backend may change, and another probe may ask and answer, in between. The two probes
differ in their answer alone. A backend without a `HealthChecker` (`checker = "none"`)
is found reachable. A member of `Probes` is a client that asks again and
again, one request at a time.

## 3. Runs

`tlc -config X.cfg M` for each run of `PROJECT.json`. Every property of a run has
a mutant there: a definition and the wrong version of it, next to it in the
module, under which TLC finds the property violated.

| Run | Bounds | Shows |
|---|---|---|
| `MCWalSound` | 5 entries, compaction above 1 record, all faults but `abandon` | `Durable`, `ForgetsOnlySettled`, `NoStall`, `NothingLeftToSettle` under `SoundSpec` |
| `MCWalDisk` | 4 entries, compaction above 1 record, all faults | `TypeOK`, `DiskNeverRegresses` |
| `MCLokiBatchMemory` | 3 alerts, one of which does not convert, batches of 2 or none, channels of 1, one retry, fairness | `TypeOK`, `NoSilentLoss`, `CleanStopDrains`, `EveryAlertResolved`, `KeepsPromises` |
| `MCLokiBatchWal` | 2 alerts, one of which does not convert, the log, crashes, slow appends, appends that write nothing or fail to sync, fairness | `EveryRecordTracked`, `OnlyCancelledStall`, `SettledForAReason`, `ImplementsWal`, `EveryAlertResolved`, `KeepsPromises`, `StopReturns` |
| `MCStreams` | 4 groups: one of 2 alerts, its repeat, one whose values spell the key of the first and whose query parameters have an invalid and a reserved name, one without alerts; 3 instants; batches of up to 3; the first may come from an old log | `NoPoisonedPush`, `FiledByItsLabels`, `EveryRowKept`, `StoredExactlyOnce` |
| `MCTimestamps` | up to 4 rows over 4 instants | `StrictlyIncreasing`, `OrderKept`, `LeastDrift` of the result |
| `MCSqlStore` | 2 Saves that share labels, both dialects, 2 attempts, 2 connections, all faults, fairness | `StoredOnce`, `ReferencesExist`, `NoLockCycle` (MySQL), `LocksBelongToTransactions`, `EverySaveReturns`, `KeepsPromises` |
| `MCServer` | the program's timeouts, a request, 2 clients that probe, a backend that comes and goes or has no health check, a signal at any time, fairness | `ExitClosesBackend`, `OnlyLateOnClosedBackend`, `CloseKeepsMargin`, `ServingSignalEndsProcess`, `GaugeFollowsBackend` |

Why these bounds: three records are the least for an ack out of order with a
record on both sides of it, a fourth and a fifth arrive after a restart;
compaction at one record happens in most behaviours; channels of one are full
at once, and three alerts fill the accumulator's batch, a channel and the
flusher together, which is every interaction of a full channel with its two
neighbours; two transactions are the least cycle of locks; two groups on one stream, two rows each
and three instants are every order and overlap of their rows, and a batch of three is
both with the group that tries to join their stream; two probes are the least that
overlap; a second request was checked too, for the safety properties and
`CloseKeepsMargin` beside one probe, and is left out for its time.
In `MCStreams` a failing push stores any of its streams, each whole. `CompactAt = 100` in
`LokiBatch` turns compaction off, and a failing checkpoint is left out of its run
too: neither touches the pipeline, and `Wal` has both. Of the appends that fail after the
write, its run has the failed sync; the short write, after which a process may hide
the records it accepts, is left to the theorems, which hold for all faults.
`MCWalSound` leaves out `abandon`, which stalls the checkpoint as long as its process
runs (`MCLokiBatchWal` has it, with `OnlyCancelledStall`); the theorems about `Durable`
and `ForgetsOnlySettled` have it, and those about `NoStall` and `NothingLeftToSettle`
hold of `Spec`, without the restriction to `SoundSpec`.
Numbers need no bound: an entry is appended once, and a record is a number.
Deadlock is checked except where the model ends: a process that exits (`Server`),
Saves that all returned (`SqlStore` after a `Close`), a loop that is done
(`Timestamps`), and `MCWalSound`, where the next step may be one that `SoundSpec`
excludes.

Runs that TLC refutes, each of them a statement of the repository that its code
does not keep (`PROJECT.json`, "findings", quotes it):

| Run | What happens |
|---|---|
| `MCWalRestart` | the log is compacted to nothing, a restart counts from 1 below the checkpoint, and what it accepts is not replayed |
| `MCLokiBatchAborted` | a delivery aborted by the deadline is acknowledged, not replayed |
| `MCServerUndrained` | a request that is being read when the signal comes is saved after the shutdown's 30 s: `driver.Close` is called beside its handler, with no time left |
| `MCServerEarlySignal` | a signal before `Start` closes the backend and leaves the server up |

### Further disagreements

Met while modelling, and in the models, without a run of their own. To see one,
check the formula as an invariant with the constants in the last column.

| The repository says | A behaviour of the model | Formula |
|---|---|---|
| "a crash cannot lose an accepted alert" (`wal.go:124`) | a crash tears a frame, the next process appends behind it with a successful `Sync`, crashes, and no reader gets past the torn frame (`wal.go:89` does not truncate) | `Durable` of `Wal!Spec`, `Faults = {"torn-by-crash"}` |
| a record whose `Sync` failed is treated "as never accepted" (`wal.go:154`) | the frame is in the file: a restart replays it | `\A r \in held \cup pending : status[r.entry] # "rejected"`, `Faults = {"sync-error"}` |
| the same | the frame shares its number with the next accepted record; after a restart the ack of one settles the other | `Durable` of `Wal!Spec`, `Faults = {"sync-error"}` |
| a cancelled request costs that "the record is retained" (`batch.go:93`) | its number is a gap: the checkpoint stalls, and every later record is retained and replayed | `(Up /\ held \cup pending = {}) => \A r \in log : r.seq > checkpoint => status[r.entry] # "settled"`, `Faults = {"abandon"}` |
| a dropped alert is "acknowledged rather than replayed" (`batch.go:88`) | acked above the checkpoint, in memory only; a restart before the gap closes replays it | `\A r \in Range(replayLeft) : result[r.entry] # "full"` in `MCLokiBatchWal` |
| "retry backoff never blocks accumulation" (`batch.go:36`) | flushCh fills while the flusher sleeps, and the accumulator blocks on it | `flPc = "backoff" => ~(accPc = "dispatch" /\ Len(flushCh) = FlushCap)` in `MCLokiBatchMemory` |
| "size/time-bounded batches" (`batch.go:166`) | the drain makes one batch of all that the channel holds | `Len(flBatch) <= BatchSize`, `BatchSize = 1`, `QueueCap = 2` |
| "a shutdown waits for the replay to finish" (`batch.go:129`) | replay returns on `stopCh` with records left, and stop returns nil | `(stopResult = "nil" /\ ctx # "overrun") => \A r \in log : r.seq <= ckptFile` in `MCLokiBatchWal` |
| the unit of work is shared, "only the dialect-specific INSERT statements differ" (`sqlstore.go:2`) | Postgres resolves rows in map order, so two Saves may deadlock, and 40P01 is not retried | `\A D \in SUBSET Saves : ~LockCycle(D)`, `Dialects = {"postgres"}` |
| "CheckLiveness reports reachability only" (`sqlstore.go:111`) | `PingContext` waits for a connection of a pool that Saves use, and gives up | `probe = "down" => dbClosed`, `Faults = {"timeout"}` |
| "CheckReadiness reports reachability (Ready) and schema compatibility (Healthy)" (`sqlstore.go:121`) | the ping succeeds, Saves take the connections, `checkModel` gives up: the schema is reported as incompatible | `probe = "unhealthy" => dbClosed`, `Faults = {"timeout"}` |
| "the at-least-once guarantee relies on a replayed entry being reproducible" (`client.go:95`) | two groups of one stream received in the same nanoseconds: pushed alone before the crash, together after it, the merge moves their rows and Loki stores them twice | `StoredExactlyOnce` without `Spaced` in `MCStreams` |

The first and the third row, and `MCWalRestart`, are the three circumstances that
`Sound` names: a record accepted behind a torn frame, two records with one number, a
sequence below the checkpoint. A torn frame behind which nothing is accepted is within it.
`SoundSpec` is the log without the three: its runs and theorems say that nothing else
loses a record.

### Fairness

`LokiBatch`: weak fairness for what a running goroutine does next, because the Go
scheduler runs every goroutine that can run; a push returns because of
`RequestTimeout`, the ticker and the timers fire. A `select` with several ready
cases is one disjunction under one fairness condition, except for the ticker,
which is ready again and again and which `select` does not starve. No fairness
for requests, signals, deadlines, crashes and starts. `SqlStore`: the steps of a
Save; a free lock is granted, no timeout is assumed. `Server`: goroutines run and
handlers end (their read, their Save and their check have timeouts); signals, requests
and probes need not come. `GaugeFollowsBackend` is about behaviours in which probes do
keep coming and the backend stays as it is; it says so in its antecedent. `Streams`
has no liveness: that a batch is flushed in the end is `EveryAlertResolved`.

## 4. Proofs

`tlapm` on each module named in the second column of the table; `PROJECT.json`,
"theorems", says what each theorem establishes.

| Of | Module | Properties proved | Assumed beyond the constants' types |
|---|---|---|---|
| `Wal` | `WalProofs` | `TypeOK`, `DiskNeverRegresses` | - |
| | | `Durable`, `ForgetsOnlySettled` | `SoundSpec` |
| | | `DiskWithoutGaps` | `WholeFrames`: no fault that tears a frame |
| | | `NoStall`, `NothingLeftToSettle` | `GapFree`: nor a cancelled append |
| `LokiBatch` | `LokiBatchProofs` | `TypeOK`, `NoSilentLoss`, `EveryRecordTracked`, `CleanStopDrains`, `SettledForAReason`, `ImplementsWal` | - |
| | | `OnlyCancelledStall` | `WholeFrames` |
| | `LokiBatchRefinement` | `KeepsPromises` | - |
| `Timestamps` | `TimestampsProofs` | `TypeOK`, `StrictlyIncreasing`, `OrderKept`, `LeastDrift` | - |
| `SqlStore` | `SqlStoreProofs` | `TypeOK`, `StoredOnce`, `ReferencesExist`, `NoLockCycle`, `LocksBelongToTransactions`, `KeepsPromises` | - |
| `Server` | `ServerProofs` | `TypeOK`, `ExitClosesBackend` | - |
| | | `CloseKeepsMargin`, `OnlyLateOnClosedBackend` | `TimeoutsAssumption`, which the program's constants satisfy |
| `Streams` | `StreamsProofs` | `TypeOK`, `NoPoisonedPush`, `FiledByItsLabels`, `EveryRowKept`, `StoredExactlyOnce` | - |
| `AlertStore` | `AlertStoreProofs` | `TypeOK`, `NothingLost`, `NothingInvented`, `AnswersStand` | - |

**Wal.** `TypeCorrect` holds for any faults; it needs that a failed append leaves
`seq` where it was, and so never takes it below zero. `DiskIsMonotone` adds to the
types that the file's checkpoint never exceeds the one in memory of a running
process (`FileBehindMemory`): what a compaction drops is covered by the file,
written in the same call.

`Durable` is not inductive: it says nothing of who owes an accepted entry its
outcome. `IInv` strengthens it to a conjunction of named parts. The records in
the pipeline or in `pending` are in the log, past the checkpoint in memory and not
acked (`PipelineOnDisk`). An acked number was handed out (`AckedHandedOut`). What
the file, the memory or an ack covers is settled (`CoveredSettled`), which is what
makes a later ack, compaction or crash harmless. The file is behind the memory
(`FileBehindMemory`), a dead process holds nothing (`DeadHoldsNothing`), and an
entry that was accepted has a record (`EntryRecords`). `Sound` supplies that a
number belongs to one record, without which an ack settles a stranger's.
`ForgottenIsSettled` follows from the same invariant.

`NoStall` is about memory, and a restart makes it a question of the disk: a new
process takes its numbers from what it reads, so the numbers past the file's
checkpoint must have no gaps there (`DiskWithoutGaps`, which failed syncs and
checkpoints keep and a torn frame does not). With it, every number handed out stays in
`acked`, `held` or `pending` as long as nobody gives a record up (`GapFree`).
`NothingIsLeft` needs in addition which numbers there are (`NumbersInv`): none was
handed out above `seq` but to frames whose client was told no (`SpareFrames`), and the
number after the checkpoint is not acked (`NoAckIsDue`).

**LokiBatch.** One inductive invariant, `IInv`, carries most theorems. Its parts are
about where a record is and what is known of it there: it is in one place of the
pipeline and once (`OnePlace`, `OneRecord`), what a client was told agrees with the
place (`ResultsFit`), an alert with an outcome is only where its batch waits for its ack
(`OutcomesFit`), the log waits for exactly these records (`Tracked`), without
batches there is no channel in use and before the replay nothing anywhere
(`ModesApart`, `NothingBeforeReplay`), and a stop in progress has emptied what it has
passed (`StopFits`). Each action moves records from one place to the next, so the
lemmas about sequences say what an append, a tail or a concatenation does to the set
of records, and that distinct records stay distinct.

`PipelineUsesTheLog` is the step-by-step refinement of `Wal`: the only thing to show
of an action is that it gives the log a number it may have, or acks a subset of
`held`. It transfers what is proved of `Wal!Spec`; `PipelineTypeCorrect` and
`PipelineNeverRegressesDisk` use it that way. `OnlyCancelledStalls` combines it with
`StallInv`: above the checkpoint, each number of the process is acked, in the pipeline
or belongs to a cancelled append (`Accounted`).

`LokiKeepsPromises` maps a step to what it does to the requests, the outcomes and the
pipeline as a whole. That a record moves from place to place is a stutter, and this
needs `OnePlace`: the batch that gets its outcomes has all the records of its alerts.
What `AlertStoreProofs` proves therefore holds of both backends.

**Timestamps.** The invariant says of the part of the rows the loop has passed
what the theorems say of the whole: strictly increasing, values in the order of
the stable sort, each time the maximum that the rows before it force. It holds
for any `MaxLen` and any set of times.

**Server.** The constants' assumptions say of the timeouts what the code says of them and
keeps: `saveTimeout` and `probeTimeout` are below `shutdownTimeout` (`TimeoutsAssumption`).
Nothing is assumed of `ReadTimeout`. The invariant compares timers. While the server
drains, what a handler has left, and the Save after it, is no more than what the longest
drain has left (`DrainingFits`), which is `CloseKeepsMargin` when the drain ends; and a
handler that is not late has less left than the shutdown (`HandlersFit`), so it ends
first. `OnlyLateHandlersAreCut` adds an invariant on the order of things (`OrderlyInv`):
a server that listened when the signal came is there when `Shutdown` reads
`httpServer`. `ExitIsOrderly` needs no timeouts: `EndInv` says that the
signal goroutine is done only with a closed backend, and `main` returns only after it.

**SqlStore.** `StepKinds` says that every step of a Save goes on, returns an error with
the group stored or not, or returns nil with the group stored; from it follow the
inductive invariant (`OpenIsUnstored`, `DoneIsSettled`) and `StoredOnce`. `StepLocks`
does the same for locks. Both rest on `FailOutcome`: an error that may have been
applied is never the one that is retried. `SqlKeepsPromises` is the refinement: the
initial states map to initial states, `Save` to `Call`, and the three kinds to a
stutter, `Failed` and `Saved`.

`TxInv` is about the inside of a transaction. No row is locked twice (`Exclusive`); the
rows a transaction has locked are the ones it has ids for, and with those it has yet to
lock they are all it refers to; an id it has is committed, or is its own and its lock
keeps others from creating the row (`TxFits`). `ReferencesExist` is the last of these when nothing is
left to do. In MySQL the rows locked are below all that are left (`Upwards`): the Save of
a cycle that wants the greatest row wants one that another Save of the cycle has locked,
and that one wants a greater row still. This is where the sorted pairs, and the fixed order of the
tables (`TablesInOrder`), are used.

**AlertStore.** `PromisesKept` and `NobodyAnsweredTwice` hold of the abstract backend,
so of whatever implements it: of `SqlStore` and of `LokiBatch`, both by theorem.

**Streams.** Three facts about pure functions carry these theorems.

- *Times.* `UpTo` is a total order of the rows (`RowsAreOrdered`), a row's number in it is
  the larger, the later it is (`NumbersIncrease`), and `Nudged` is the largest time that
  a row before it forces. So normalised rows are strictly increasing (`NudgedIncreases`),
  and rows whose times differ already stay where they are (`NudgedStands`).
  `LoopComputesNudged` ties this to the code: rows of which `Timestamps!LeastDrift` holds,
  as `ResultDriftsLeast` says of every result of the loop, have the times `Nudged`.
- *Labels.* `BuildStreamLabels` takes a name from outside only if it is valid, and the
  reserved names and the group's labels win (`StreamLabelsAre`, `LabelsFind`).
- *Keys.* No two label sets have the same key (`KeyTellsApart`). A quoted value cannot
  be the start of another one (`QuoteTellsApart`): at the first character where they
  differ either the escaped characters do, or one has its closing mark where the other has
  a character that is not a bare mark. Two keys that are equal therefore have equal pieces
  up to the first name where they differ, and there a name that one of them lacks would
  have to be a later name of the order.

`StreamsAssumption` says what the last one needs of the environment: the names of a
group's labels are in `NameOrder`, once each. The groups, their alerts, labels and values,
the times and the size of a batch are arbitrary.

`EveryRowKept` and `FiledByItsLabels` are not inductive, since Loki gets a batch that was
converted many steps before. `KeptInv` says of that batch that its payload has one
entry of each alert that is flushed, distinct for distinct alerts, and no other entry
(`Covers`), and of Loki that it has entries of received alerts alone. Distinct entries
come from `NudgedIncreases` after the merge and from `KeyTellsApart` across streams; a
merge of rows under the wrong labels would break `From`.

`StoredExactlyOnce` needs more: not just that a row is there, but at which time, so that a
replay is seen to be one. Under `Spaced` every alert has one entry it can ever have,
`Fixed`: its labels, its line and its receive time plus its place among the alerts of its
group and status. `OnceInv` says that the payload has exactly the `Fixed` entries of the
groups flushed, and Loki none but `Fixed` ones. That a merge with any other groups keeps
them is `NudgedStands`: the rows of one stream have different times before it
(`StampsDiffer`), which is what `Spaced` is for. The hypothesis is about the past as well:
receive times never change, so if they are apart now they were before (`ApartBefore`).

Only model-checked: liveness (`EveryAlertResolved`, `StopReturns`, `EverySaveReturns`,
`ServingSignalEndsProcess`, `GaugeFollowsBackend`), which the prover does not do.

## 5. Not modelled

Configuration, parsing, the registry and the null backend (sequential, no state);
headers, compression and credentials of the transport; Loki's and the database's own
behaviour beyond what a call may answer; the loss of the page cache in a power
failure; a `Rollback` that fails; `WriteTimeout`, that is, what a client sees of an
answer that comes too late. `PROJECT.json`, "components" and "hazards", gives the
reasons one by one.

## 6. Plan

In this order; what is done is described above.

1. *Done*: `Wal`, `LokiBatch`, `Timestamps`, `SqlStore`, `Server`, their proofs.
2. *Done*: `Streams`, `AlertStore` and its two refinements, the direct mode of
   `LokiBatch`, probes and gauge in `Server`, readiness in `SqlStore`, and the theorems
   `SqlKeepsPromises` and `PromisesKept`.
3. *Done*: every safety property of `Wal`, `LokiBatch`, `Timestamps`, `SqlStore` and
   `Server` as a theorem, `ImplementsWal` and both refinements of `AlertStore` among them.
4. *Done*: `Streams` over sets of rows, and every safety property of it as a theorem. With
   it, every safety property that a run checks and TLC does not refute is proved. That its
   closed form is what the loop of `Timestamps` computes.
5. A disk that loses what was not synced, for `wal.go:367`.
