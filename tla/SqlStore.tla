------------------------------ MODULE SqlStore ------------------------------
(***************************************************************************)
(* The MySQL and Postgres backends (internal/storage/sqlstore): concurrent *)
(* Saves, each one transaction that resolves the rows of the lookup tables *)
(* by upserts, inserts the alert group and commits; the retry of MySQL     *)
(* deadlocks; the connection pool they share with the health checks.       *)
(*                                                                         *)
(* The database is external.  An upsert takes the lock of its row, which   *)
(* is held until the transaction ends, and gives the row an id if nobody   *)
(* committed one before.  A row is a number: its place in the order of     *)
(* (table, KvHash).  The rows that only this transaction sees (AlertGroup, *)
(* Alert, the join tables) are one step, Insert: they contend with nobody. *)
(***************************************************************************)
EXTENDS Naturals, Sequences, FiniteSets

CONSTANTS
    Dialects,     \* the databases that may be behind the store
    Saves,        \* calls of Save; a retry by AlertManager is a new one
    Groups,       \* save -> its alert group, as rows of the lookup tables
    MaxOpenConns, \* SetMaxOpenConns, 0 for no limit
    MaxRetries,   \* mysqlDeadlockMaxRetries
    Faults        \* what the database and the clock may do

AllFaults == {"begin-error", "exec-error", "commit-error", "ping-error",
              "deadlock",  \* MySQL reports 1213 without a cycle of row locks
              "timeout",   \* saveTimeout and probeTimeout pass
              "close"}     \* the pool is closed under running Saves

Row == Nat \ {0}
AlertRows == [labels : SUBSET Row, annotations : SUBSET Row]
GroupRows == [receiver : Row, externalURL : Row, groupKey : Row,
              groupLabels : SUBSET Row, commonLabels : SUBSET Row,
              commonAnnotations : SUBSET Row, alerts : Seq(AlertRows)]

ASSUME SqlAssumption ==
    /\ Dialects \subseteq {"mysql", "postgres"}
    /\ IsFiniteSet(Saves)
    /\ \A s \in Saves : Groups[s] \in GroupRows
    /\ MaxOpenConns \in Nat /\ MaxRetries \in Nat \ {0}
    /\ Faults \subseteq AllFaults

Labels(g) == g.groupLabels \cup g.commonLabels
               \cup UNION {g.alerts[i].labels : i \in DOMAIN g.alerts}
Annotations(g) == g.commonAnnotations
                    \cup UNION {g.alerts[i].annotations : i \in DOMAIN g.alerts}

\* The number of a row is its place in the order in which MySQL resolves them.
ASSUME TablesInOrder ==
    \A s, t \in Saves :
        /\ Groups[s].receiver < Groups[t].externalURL
        /\ Groups[s].externalURL < Groups[t].groupKey
        /\ \A l \in Labels(Groups[t]) : Groups[s].groupKey < l
        /\ \A a \in Annotations(Groups[t]) :
              Groups[s].groupKey < a /\ \A l \in Labels(Groups[s]) : l < a

VARIABLES
    dialect,  \* "mysql" or "postgres", for good
    pc,       \* save -> where its goroutine is
    attempt,  \* save -> attempts of unitOfWork before this one
    over,     \* save -> its context is over
    answer,   \* save -> what Save returned
    todo,     \* save -> the upserts its transaction has yet to execute
    want,     \* save -> the row of the statement it is executing
    cache,    \* save -> row -> the id its transaction resolved
    locks,    \* save -> the rows its transaction has locked
    kv,       \* row -> its committed id
    groups,   \* save -> the committed inserts of its alert group
    dbClosed, \* the pool is closed
    probe     \* a health check: "idle", "live" or "ready" in its ping, "query", and
              \* its result "up", "down" (not Ready) or "unhealthy"

saveVars == <<pc, attempt, over, answer>>
txVars   == <<todo, want, cache>>
dbVars   == <<dialect, kv, groups, dbClosed, probe>>
vars     == <<saveVars, txVars, locks, dbVars>>

NoRow == 0
NoId  == <<>>

References(s) == {Groups[s].receiver, Groups[s].externalURL, Groups[s].groupKey}
                   \cup Labels(Groups[s]) \cup Annotations(Groups[s])

Rows == UNION {References(s) : s \in Saves}
Ids == Saves \X (0..MaxRetries)   \* an id names the attempt that created the row

\* One stage of a transaction: an upsert for each row of a map.
Upserts(stage, rows) == [stage : {stage}, row : rows]

Lookups(g) ==
    Upserts(1, {g.receiver}) \cup Upserts(2, {g.externalURL}) \cup Upserts(3, {g.groupKey})

\* MySQL: the label pairs of all the maps, once each, then the annotation pairs.
MySQLPlan(g) == Lookups(g) \cup Upserts(4, Labels(g)) \cup Upserts(5, Annotations(g))

\* Postgres: each map at the insert that uses it.
PostgresPlan(g) ==
    Lookups(g) \cup Upserts(4, g.groupLabels) \cup Upserts(5, g.commonLabels)
      \cup Upserts(6, g.commonAnnotations)
      \cup UNION {Upserts(2 * i + 5, g.alerts[i].labels)
                    \cup Upserts(2 * i + 6, g.alerts[i].annotations) : i \in DOMAIN g.alerts}

Plan(s) ==
    IF dialect = "mysql" THEN MySQLPlan(Groups[s]) ELSE PostgresPlan(Groups[s])

\* The stage a plan is in.
Current(plan) == {u \in plan : \A v \in plan : u.stage <= v.stage}

\* Mutant: the pairs are resolved in the order of the map.
MapOrder(stage) == stage

\* The next pair of a map: MySQL sorts them by KvHash, Postgres ranges over it.
NextPairs(stage) ==
    IF dialect = "mysql" THEN {r \in stage : \A q \in stage : r <= q} ELSE stage

Init ==
    /\ dialect \in Dialects
    /\ pc = [s \in Saves |-> "idle"]
    /\ attempt = [s \in Saves |-> 0]
    /\ over = [s \in Saves |-> FALSE]
    /\ answer = [s \in Saves |-> "none"]
    /\ todo = [s \in Saves |-> {}]
    /\ want = [s \in Saves |-> NoRow]
    /\ cache = [s \in Saves |-> <<>>]
    /\ locks = [s \in Saves |-> {}]
    /\ kv = [r \in Rows |-> NoId]
    /\ groups = [s \in Saves |-> 0]
    /\ dbClosed = FALSE
    /\ probe = "idle"

-----------------------------------------------------------------------------
(* The transaction *)

InTx(s) == pc[s] \in {"exec", "commit"}

\* Connections in use, the probe's apart.
InUse == {s \in Saves : InTx(s)}
FreeConn == MaxOpenConns = 0 \/ Cardinality(InUse) < MaxOpenConns

\* Mutant: the transaction is neither rolled back nor committed.
EndTxKeepingLocks(s) ==
    /\ UNCHANGED locks
    /\ todo' = [todo EXCEPT ![s] = {}]
    /\ want' = [want EXCEPT ![s] = NoRow]

\* Commit or Rollback: the locks are gone, and the connection is back.
EndTx(s) ==
    /\ locks' = [locks EXCEPT ![s] = {}]
    /\ todo' = [todo EXCEPT ![s] = {}]
    /\ want' = [want EXCEPT ![s] = NoRow]

Return(s, a) ==
    /\ answer' = [answer EXCEPT ![s] = a]
    /\ pc' = [pc EXCEPT ![s] = "done"]
    /\ UNCHANGED attempt

\* Mutant: any error of the transaction is retried.
RetriesAnyError(isDeadlock) == TRUE

\* isMySQLDeadlock, which no Postgres error is.
Retries(isDeadlock) == isDeadlock /\ dialect = "mysql"

\* Mutant: the last attempt is followed by one more.
FailOnceMore(s, isDeadlock) ==
    IF Retries(isDeadlock) /\ ~over[s] /\ attempt[s] < MaxRetries
    THEN /\ pc' = [pc EXCEPT ![s] = "backoff"]
         /\ attempt' = [attempt EXCEPT ![s] = @ + 1]
         /\ UNCHANGED answer
    ELSE Return(s, "error")

\* Mutant: the attempts are not counted.
FailUncounted(s, isDeadlock) ==
    IF Retries(isDeadlock) /\ ~over[s]
    THEN /\ pc' = [pc EXCEPT ![s] = "backoff"]
         /\ UNCHANGED <<attempt, answer>>
    ELSE Return(s, "error")

\* What unitOfWork does with an error of runUnitOfWork.
Fail(s, isDeadlock) ==
    IF Retries(isDeadlock) /\ ~over[s] /\ attempt[s] + 1 < MaxRetries
    THEN /\ pc' = [pc EXCEPT ![s] = "backoff"]
         /\ attempt' = [attempt EXCEPT ![s] = @ + 1]
         /\ UNCHANGED answer
    ELSE Return(s, "error")

Save(s) ==
    /\ pc[s] = "idle"
    /\ pc' = [pc EXCEPT ![s] = "begin"]
    /\ UNCHANGED <<attempt, over, answer, txVars, locks, dbVars>>

\* Mutant: a retry keeps the ids that the attempt before it resolved.
BeginKeepingCache(s) ==
    /\ pc[s] = "begin" /\ FreeConn /\ ~dbClosed /\ ~over[s]
    /\ pc' = [pc EXCEPT ![s] = "exec"]
    /\ todo' = [todo EXCEPT ![s] = IF cache[s] = <<>> THEN Plan(s) ELSE {}]
    /\ UNCHANGED <<attempt, over, answer, want, cache, locks, dbVars>>

\* BeginTx gets a connection.
Begin(s) ==
    /\ pc[s] = "begin" /\ FreeConn /\ ~dbClosed /\ ~over[s]
    /\ pc' = [pc EXCEPT ![s] = "exec"]
    /\ todo' = [todo EXCEPT ![s] = Plan(s)]
    /\ cache' = [cache EXCEPT ![s] = <<>>]
    /\ UNCHANGED <<attempt, over, answer, want, locks, dbVars>>

BeginFails(s) ==
    /\ pc[s] = "begin"
    /\ over[s] \/ dbClosed \/ ("begin-error" \in Faults /\ FreeConn)
    /\ Fail(s, FALSE)
    /\ UNCHANGED <<over, txVars, locks, dbVars>>

\* An upsert is sent to the database, where it may wait for the row's lock.
Issue(s) ==
    /\ pc[s] = "exec" /\ want[s] = NoRow
    /\ \E r \in NextPairs({u.row : u \in Current(todo[s])}) : want' = [want EXCEPT ![s] = r]
    /\ UNCHANGED <<saveVars, todo, cache, locks, dbVars>>

Without(plan, r) == plan \ {u \in Current(plan) : u.row = r}

\* The id of a row whose lock s has: the committed one, the one s gave it, or a
\* new one.
IdFor(s, r) ==
    IF kv[r] # NoId THEN kv[r]
    ELSE IF r \in DOMAIN cache[s] THEN cache[s][r] ELSE <<s, attempt[s]>>

HeldByOther(s, r) == \E t \in Saves \ {s} : r \in locks[t]

Resolve(s) ==
    /\ pc[s] = "exec" /\ want[s] # NoRow
    /\ LET r == want[s] IN
          /\ ~HeldByOther(s, r)
          /\ locks' = [locks EXCEPT ![s] = @ \cup {r}]
          /\ cache' = [cache EXCEPT ![s] = [q \in DOMAIN cache[s] \cup {r} |->
                                              IF q = r THEN IdFor(s, r) ELSE cache[s][q]]]
          /\ todo' = [todo EXCEPT ![s] = Without(todo[s], r)]
    /\ want' = [want EXCEPT ![s] = NoRow]
    /\ UNCHANGED <<saveVars, dbVars>>

\* The rows of the group itself, with the ids of the cache.
Insert(s) ==
    /\ pc[s] = "exec" /\ todo[s] = {}
    /\ pc' = [pc EXCEPT ![s] = "commit"]
    /\ UNCHANGED <<attempt, over, answer, txVars, locks, dbVars>>

\* A statement fails, or its context is over; f returns and is rolled back.
ExecFails(s) ==
    /\ pc[s] = "exec"
    /\ "exec-error" \in Faults \/ over[s]
    /\ Fail(s, FALSE)
    /\ EndTx(s)
    /\ UNCHANGED <<over, cache, dbVars>>

\* Saves that wait for each other's locks and for nothing else.
LockCycle(D) ==
    /\ D # {}
    /\ \A s \in D : \E t \in D \ {s} : want[s] \in locks[t]

\* The database picks s as the victim of a deadlock.
Deadlock(s) ==
    /\ pc[s] = "exec"
    /\ \/ \E D \in SUBSET Saves : s \in D /\ LockCycle(D)
       \/ "deadlock" \in Faults /\ dialect = "mysql"
    /\ Fail(s, TRUE)
    /\ EndTx(s)
    /\ UNCHANGED <<over, cache, dbVars>>

\* What a transaction leaves in the database.
Applied(s) ==
    /\ kv' = [r \in Rows |-> IF r \in locks[s] /\ r \in DOMAIN cache[s]
                             THEN cache[s][r] ELSE kv[r]]
    /\ groups' = [groups EXCEPT ![s] = @ + 1]

Commit(s) ==
    /\ pc[s] = "commit"
    /\ Applied(s)
    /\ Return(s, "ok")
    /\ EndTx(s)
    /\ UNCHANGED <<over, cache, dialect, dbClosed, probe>>

\* Mutant: the error of Commit is not returned.
CommitFailsSilently(s) ==
    /\ pc[s] = "commit"
    /\ \/ /\ "deadlock" \in Faults /\ dialect = "mysql"
          /\ Fail(s, TRUE)
          /\ UNCHANGED <<kv, groups>>
       \/ /\ "commit-error" \in Faults \/ over[s]
          /\ Return(s, "ok")
          /\ Applied(s) \/ UNCHANGED <<kv, groups>>
    /\ EndTx(s)
    /\ UNCHANGED <<over, cache, dialect, dbClosed, probe>>

\* Commit returns an error: a deadlock, a context that is over, or a connection
\* that broke before or after the database had applied it.
CommitFails(s) ==
    /\ pc[s] = "commit"
    /\ \/ /\ "deadlock" \in Faults /\ dialect = "mysql"
          /\ Fail(s, TRUE)
          /\ UNCHANGED <<kv, groups>>
       \/ /\ "commit-error" \in Faults \/ over[s]
          /\ Fail(s, FALSE)
          /\ Applied(s) \/ UNCHANGED <<kv, groups>>
    /\ EndTx(s)
    /\ UNCHANGED <<over, cache, dialect, dbClosed, probe>>

\* The select of the backoff: the delay, or the context.
Backoff(s) ==
    /\ pc[s] = "backoff"
    /\ IF over[s]
       THEN \/ Return(s, "error")
            \/ pc' = [pc EXCEPT ![s] = "begin"] /\ UNCHANGED <<attempt, answer>>
       ELSE pc' = [pc EXCEPT ![s] = "begin"] /\ UNCHANGED <<attempt, answer>>
    /\ UNCHANGED <<over, txVars, locks, dbVars>>

-----------------------------------------------------------------------------
(* The environment, the probe and Close *)

SaveTimeout(s) ==
    /\ "timeout" \in Faults
    /\ pc[s] \notin {"idle", "done"} /\ ~over[s]
    /\ over' = [over EXCEPT ![s] = TRUE]
    /\ UNCHANGED <<pc, attempt, answer, txVars, locks, dbVars>>

\* CheckLiveness or CheckReadiness.
Probe ==
    /\ probe \notin {"live", "ready", "query"} /\ ~dbClosed
    /\ probe' \in {"live", "ready"}
    /\ UNCHANGED <<saveVars, txVars, locks, dialect, kv, groups, dbClosed>>

\* A use of the pool fails: it is closed, or it has no connection to give within
\* probeTimeout, or the database answers with an error.
PoolFails(error) ==
    dbClosed \/ (FreeConn /\ error \in Faults) \/ (~FreeConn /\ "timeout" \in Faults)

Ping ==
    /\ probe \in {"live", "ready"}
    /\ \/ FreeConn /\ ~dbClosed /\ probe' = IF probe = "live" THEN "up" ELSE "query"
       \/ PoolFails("ping-error") /\ probe' = "down"
    /\ UNCHANGED <<saveVars, txVars, locks, dialect, kv, groups, dbClosed>>

\* checkModel: a query of its own, whose error may be that there is no row or
\* that it names another version.
CheckModel ==
    /\ probe = "query"
    /\ \/ FreeConn /\ ~dbClosed /\ probe' = "up"
       \/ PoolFails("exec-error") /\ probe' = "unhealthy"
    /\ UNCHANGED <<saveVars, txVars, locks, dialect, kv, groups, dbClosed>>

Close ==
    /\ "close" \in Faults /\ ~dbClosed
    /\ dbClosed' = TRUE
    /\ UNCHANGED <<saveVars, txVars, locks, dialect, kv, groups, probe>>

-----------------------------------------------------------------------------
\* What the goroutine of a Save and the database do for it.
Step(s) ==
    \/ Begin(s) \/ BeginFails(s)
    \/ Issue(s) \/ Resolve(s) \/ Insert(s)
    \/ ExecFails(s) \/ Deadlock(s)
    \/ Commit(s) \/ CommitFails(s)
    \/ Backoff(s)

Next ==
    \/ \E s \in Saves : Save(s) \/ Step(s) \/ SaveTimeout(s)
    \/ Probe \/ Ping \/ CheckModel \/ Close

Spec == Init /\ [][Next]_vars

\* Statements end: a lock that is free is granted, and the database answers.
\* No timeout is assumed to pass and no error to happen.
FairSpec == Spec /\ \A s \in Saves : WF_vars(Step(s))

-----------------------------------------------------------------------------
(* Correctness *)

\* The type of every variable.
TypeOK ==
    /\ dialect \in Dialects
    /\ pc \in [Saves -> {"idle", "begin", "exec", "commit", "backoff", "done"}]
    /\ attempt \in [Saves -> 0..(MaxRetries - 1)]
    /\ over \in [Saves -> BOOLEAN]
    /\ answer \in [Saves -> {"none", "ok", "error"}]
    /\ todo \in [Saves -> SUBSET [stage : Nat, row : Rows]]
    /\ want \in [Saves -> Rows \cup {NoRow}]
    /\ \A s \in Saves : DOMAIN cache[s] \subseteq Rows
    /\ locks \in [Saves -> SUBSET Rows]
    /\ kv \in [Rows -> Ids \cup {NoId}]
    /\ groups \in [Saves -> Nat]
    /\ dbClosed \in BOOLEAN
    /\ probe \in {"idle", "live", "ready", "query", "up", "down", "unhealthy"}

\* sqlstore.go:61-70: the retry of a deadlock never stores a group twice,
\* whatever Commit answered, and a Save that returned nil has stored its group.
StoredOnce ==
    \A s \in Saves : groups[s] <= 1 /\ (answer[s] = "ok" => groups[s] = 1)

\* mysql.go:55-64, kv.go:56-84: every id the inserts of a transaction use is the
\* committed id of that row, or this attempt created the row and its lock keeps
\* others from it: no foreign key dangles, after a retry or not.
ReferencesExist ==
    \A s \in Saves : pc[s] = "commit" =>
        \A r \in References(s) :
            /\ r \in DOMAIN cache[s]
            /\ \/ cache[s][r] = kv[r]
               \/ kv[r] = NoId /\ r \in locks[s] /\ cache[s][r] = <<s, attempt[s]>>

\* kv.go:34-36: MySQL Saves take the locks of the lookup rows in one order, so
\* that no set of them waits in a cycle.
NoLockCycle == dialect = "mysql" => \A D \in SUBSET Saves : ~LockCycle(D)

\* Locks are held by open transactions only: whatever path a Save took out of
\* its transaction, the rows it touched are free for the other ones.
LocksBelongToTransactions ==
    \A s \in Saves : locks[s] # {} => InTx(s)

\* A Save counts its outcome and answers in one step (Return).
Told(s) ==
    CASE pc[s] = "idle" -> "none"
      [] pc[s] = "done" -> answer[s]
      [] OTHER -> "open"

OutcomeOf(s) ==
    CASE answer[s] = "ok" -> "saved" [] answer[s] = "error" -> "failed" [] OTHER -> "none"

Store == INSTANCE AlertStore WITH
    Calls <- Saves,
    Durable <- FALSE,
    told <- [s \in Saves |-> Told(s)],
    owed <- {s \in Saves : pc[s] \notin {"idle", "done"}},
    outcome <- [s \in Saves |-> OutcomeOf(s)],
    stored <- {s \in Saves : groups[s] > 0}

\* internal.go:12-21: every step is one that Storer allows, or none for its
\* callers, whatever the database answered and when.
KeepsPromises == Store!Spec

\* sqlstore.go:61-64: no Save waits for ever, for a lock, for a connection or in
\* its retries, and none needs its timeout to return.
EverySaveReturns == \A s \in Saves : (pc[s] = "begin") ~> (pc[s] = "done")

=============================================================================
