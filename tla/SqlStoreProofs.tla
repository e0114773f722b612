--------------------------- MODULE SqlStoreProofs ---------------------------
(***************************************************************************)
(* A SQL backend stores a group once, keeps no lock behind, inserts no      *)
(* dangling reference, takes the locks of MySQL in one order and           *)
(* implements AlertStore, for any number of Saves, any groups, both        *)
(* dialects, any pool and any set of faults.  The first arguments are      *)
(* about where a Save is, what it returned and what it applied (IInv); the *)
(* others about what its transaction has locked and cached and what is     *)
(* left of its plan (TxInv).                                               *)
(***************************************************************************)
EXTENDS SqlStore, TLAPS, FiniteSetTheorems, WellFoundedInduction

\* The variables that the arguments are about are functions on Saves.
Shape ==
    /\ pc \in [Saves -> {"idle", "begin", "exec", "commit", "backoff", "done"}]
    /\ answer \in [Saves -> {"none", "ok", "error"}]
    /\ groups \in [Saves -> Nat]
    /\ locks = [s \in Saves |-> locks[s]]

\* A Save that has not returned has stored nothing.
OpenIsUnstored ==
    \A s \in Saves : pc[s] # "done" => answer[s] = "none" /\ groups[s] = 0

\* One that has returned has stored its group at most once, and once if it said so.
DoneIsSettled ==
    \A s \in Saves : pc[s] = "done" =>
        /\ answer[s] # "none" /\ groups[s] <= 1
        /\ answer[s] = "ok" => groups[s] = 1

IInv == Shape /\ OpenIsUnstored /\ DoneIsSettled /\ LocksBelongToTransactions

\* What a step of s may do to it: go on, or return what it has stored.
Advances(s) ==
    /\ pc' = [pc EXCEPT ![s] = pc'[s]]
    /\ pc'[s] \in {"begin", "exec", "commit", "backoff"}
    /\ UNCHANGED <<answer, groups>>

ReturnsError(s) ==
    /\ pc' = [pc EXCEPT ![s] = "done"]
    /\ answer' = [answer EXCEPT ![s] = "error"]
    /\ groups' = groups \/ groups' = [groups EXCEPT ![s] = @ + 1]

ReturnsOk(s) ==
    /\ pc' = [pc EXCEPT ![s] = "done"]
    /\ answer' = [answer EXCEPT ![s] = "ok"]
    /\ groups' = [groups EXCEPT ![s] = @ + 1]

\* unitOfWork retries or returns the error.
LEMMA FailOutcome ==
  ASSUME IInv, NEW s \in Saves, NEW d \in BOOLEAN, Fail(s, d)
  PROVE  \/ /\ pc' = [pc EXCEPT ![s] = "backoff"] /\ pc'[s] = "backoff"
            /\ UNCHANGED answer /\ d = TRUE
         \/ /\ pc' = [pc EXCEPT ![s] = "done"]
            /\ answer' = [answer EXCEPT ![s] = "error"]
  BY DEF IInv, Shape, Fail, Return, Retries

\* Every step of a Save is one of the three.
LEMMA StepKinds ==
  ASSUME IInv, NEW s \in Saves, Step(s)
  PROVE  /\ pc[s] \notin {"idle", "done"}
         /\ Advances(s) \/ ReturnsError(s) \/ ReturnsOk(s)
<1> USE DEF IInv, Shape, Advances, ReturnsError, ReturnsOk, dbVars, saveVars
<1>1. CASE Begin(s)
  BY <1>1 DEF Begin
<1>2. CASE BeginFails(s)
  BY <1>2, FailOutcome DEF BeginFails
<1>3. CASE Issue(s) \/ Resolve(s)
  BY <1>3 DEF Issue, Resolve
<1>4. CASE Insert(s)
  BY <1>4 DEF Insert
<1>5. CASE ExecFails(s)
  BY <1>5, FailOutcome DEF ExecFails
<1>6. CASE Deadlock(s)
  BY <1>6, FailOutcome DEF Deadlock
<1>7. CASE Commit(s)
  BY <1>7 DEF Commit, Applied, Return
<1>8. CASE CommitFails(s)
  BY <1>8, FailOutcome DEF CommitFails, Applied
<1>9. CASE Backoff(s)
  BY <1>9 DEF Backoff, Return
<1> QED
  BY <1>1, <1>2, <1>3, <1>4, <1>5, <1>6, <1>7, <1>8, <1>9 DEF Step

\* A step that does not end the transaction of s leaves it there, and one that
\* does leaves it without locks.
LEMMA StepLocks ==
  ASSUME IInv, NEW s \in Saves, Step(s)
  PROVE  /\ locks' = [t \in Saves |-> locks'[t]]
         /\ \A t \in Saves \ {s} : locks'[t] = locks[t]
         /\ locks'[s] # {} => pc'[s] \in {"exec", "commit"}
<1> USE DEF IInv, Shape, LocksBelongToTransactions, InTx, saveVars
<1>1. CASE Begin(s)
  BY <1>1 DEF Begin
<1>2. CASE BeginFails(s) \/ Backoff(s)
  BY <1>2 DEF BeginFails, Backoff
<1>3. CASE Issue(s)
  BY <1>3 DEF Issue
<1>4. CASE Resolve(s)
  BY <1>4 DEF Resolve
<1>5. CASE Insert(s)
  BY <1>5 DEF Insert
<1>6. CASE ExecFails(s) \/ Deadlock(s) \/ Commit(s) \/ CommitFails(s)
  BY <1>6 DEF ExecFails, Deadlock, Commit, CommitFails, EndTx
<1> QED
  BY <1>1, <1>2, <1>3, <1>4, <1>5, <1>6 DEF Step

\* The steps that are nobody's: a timeout, a health check, Close.
Environment ==
    \/ \E s \in Saves : SaveTimeout(s)
    \/ Probe \/ Ping \/ CheckModel \/ Close

LEMMA EnvironmentLeavesSaves ==
  ASSUME Environment PROVE UNCHANGED <<pc, answer, groups, locks>>
  BY DEF Environment, SaveTimeout, Probe, Ping, CheckModel, Close, saveVars, dbVars

-----------------------------------------------------------------------------
LEMMA InitIInv == Init => IInv
  BY DEF Init, IInv, Shape, OpenIsUnstored, DoneIsSettled,
         LocksBelongToTransactions

LEMMA NextIInv == IInv /\ [Next]_vars => IInv'
<1> SUFFICES ASSUME IInv, [Next]_vars PROVE IInv'
  OBVIOUS
<1> USE DEF IInv, Shape, OpenIsUnstored, DoneIsSettled, LocksBelongToTransactions,
            InTx
<1>1. ASSUME NEW s \in Saves, Save(s) PROVE IInv'
  BY <1>1 DEF Save, dbVars
<1>2. ASSUME NEW s \in Saves, Step(s) PROVE IInv'
  <2>1. Shape'
    BY <1>2, StepKinds, StepLocks DEF Advances, ReturnsError, ReturnsOk
  <2>2. OpenIsUnstored' /\ DoneIsSettled'
    BY <1>2, StepKinds DEF Advances, ReturnsError, ReturnsOk
  <2>3. LocksBelongToTransactions'
    BY <1>2, StepKinds, StepLocks DEF Advances, ReturnsError, ReturnsOk
  <2> QED
    BY <2>1, <2>2, <2>3
<1>3. CASE Environment
  BY <1>3, EnvironmentLeavesSaves
<1>4. CASE UNCHANGED vars
  BY <1>4 DEF vars, saveVars, dbVars
<1> QED
  BY <1>1, <1>2, <1>3, <1>4 DEF Next, Environment

LEMMA Invariant == Spec => []IInv
  BY InitIInv, NextIInv, PTL DEF Spec

\* sqlstore.go:61-70: whatever is retried and whatever Commit answered, a group is
\* stored at most once, and once if its Save returned nil.
THEOREM EachGroupStoredOnce == Spec => []StoredOnce
<1>1. IInv => StoredOnce
  BY DEF IInv, Shape, OpenIsUnstored, DoneIsSettled, StoredOnce
<1> QED
  BY <1>1, Invariant, PTL

\* sqlstore.go:92-110: no path out of a transaction keeps a lock.
THEOREM NoLockLeftBehind == Spec => []LocksBelongToTransactions
<1>1. IInv => LocksBelongToTransactions
  BY DEF IInv
<1> QED
  BY <1>1, Invariant, PTL

-----------------------------------------------------------------------------
(* The refinement: a step of a Save is a step of AlertStore, or none. *)

LEMMA InitRefines == Init => Store!Init
  BY DEF Init, Store!Init, Told, OutcomeOf

LEMMA SaveRefines ==
  ASSUME IInv, NEW s \in Saves, Save(s) PROVE Store!Call(s)
  BY DEF IInv, Shape, OpenIsUnstored, Save, dbVars, Store!Call, Told, OutcomeOf

LEMMA StepRefines ==
  ASSUME IInv, NEW s \in Saves, Step(s)
  PROVE  \/ UNCHANGED Store!vars
         \/ Store!Saved({s}) \/ Store!Failed({s})
<1> USE DEF IInv, Shape, OpenIsUnstored, DoneIsSettled, Told, OutcomeOf
<1>0. pc[s] \notin {"idle", "done"} /\ answer[s] = "none" /\ groups[s] = 0
  BY StepKinds
<1>1. CASE Advances(s)
  BY <1>0, <1>1 DEF Advances, Store!vars
<1>2. CASE ReturnsOk(s)
  BY <1>0, <1>2 DEF ReturnsOk, Store!Saved, Store!Count, Store!Answer
<1>3. CASE ReturnsError(s)
  <2> DEFINE kept == {t \in Saves : groups[t] > 0}
  <2>1. PICK part \in SUBSET {s} : kept' = kept \cup part
    <3>1. CASE groups' = groups
      <4>1. kept' = kept \cup {}
        BY <3>1
      <4> QED
        BY <4>1
    <3>2. CASE groups' = [groups EXCEPT ![s] = @ + 1]
      <4>1. kept' = kept \cup {s}
        BY <1>0, <3>2
      <4> QED
        BY <4>1
    <3> QED
      BY <1>3, <3>1, <3>2 DEF ReturnsError
  <2>2. \E p \in SUBSET {s} : kept' = kept \cup p
    BY <2>1
  <2>3. Store!Count({s}, "failed") /\ Store!Answer({s}, "error")
    BY <1>0, <1>3 DEF ReturnsError, Store!Count, Store!Answer
  <2> QED
    BY <1>0, <1>3, <2>2, <2>3 DEF ReturnsError, Store!Failed
<1> QED
  BY <1>1, <1>2, <1>3, StepKinds

LEMMA NextRefines == IInv /\ [Next]_vars => [Store!Next]_(Store!vars)
<1> SUFFICES ASSUME IInv, [Next]_vars PROVE [Store!Next]_(Store!vars)
  OBVIOUS
<1>1. ASSUME NEW s \in Saves, Save(s) PROVE Store!Next
  BY <1>1, SaveRefines DEF Store!Next
<1>2. ASSUME NEW s \in Saves, Step(s) PROVE [Store!Next]_(Store!vars)
  <2>1. {s} \in SUBSET Saves
    OBVIOUS
  <2> QED
    BY <1>2, <2>1, StepRefines DEF Store!Next
<1>3. CASE Environment
  BY <1>3, EnvironmentLeavesSaves DEF Store!vars, Told, OutcomeOf
<1>4. CASE UNCHANGED vars
  BY <1>4 DEF vars, saveVars, dbVars, Store!vars, Told, OutcomeOf
<1> QED
  BY <1>1, <1>2, <1>3, <1>4 DEF Next, Environment

\* internal.go:12-21: a SQL backend is a Storer.
THEOREM SqlKeepsPromises == Spec => KeepsPromises
  BY InitRefines, NextRefines, Invariant, PTL DEF Spec, KeepsPromises, Store!Spec

-----------------------------------------------------------------------------
(* What a transaction resolves, and in which order *)

RowsOf(plan) == {u.row : u \in plan}

\* The id s has for a row is the committed one, or its own if there is none.
IdStands(s, r) ==
    cache[s][r] = kv[r] \/ (kv[r] = NoId /\ cache[s][r] = <<s, attempt[s]>>)

\* MySQL goes through the rows upwards.
Upwards(s) ==
    /\ \A u, v \in todo[s] : u.stage < v.stage => u.row < v.row
    /\ \A r \in locks[s], u \in todo[s] : r < u.row
    /\ want[s] # NoRow => \A u \in todo[s] : want[s] <= u.row

\* Where the transaction of s stands: the rows it needs are locked and cached or
\* still to do.
TxFits(s) ==
    /\ InTx(s) => /\ DOMAIN cache[s] = locks[s]
                  /\ References(s) = locks[s] \cup RowsOf(todo[s])
                  /\ \A r \in locks[s] : IdStands(s, r)
    /\ ~InTx(s) => todo[s] = {}
    /\ pc[s] = "commit" => todo[s] = {}
    /\ want[s] # NoRow => want[s] \in RowsOf(Current(todo[s]))
    /\ dialect = "mysql" => Upwards(s)

Exclusive == \A s, t \in Saves : s # t => locks[s] \cap locks[t] = {}

CacheTyped ==
    /\ cache = [s \in Saves |-> cache[s]]
    /\ \A s \in Saves : \A r \in DOMAIN cache[s] : cache[s][r] \in Ids

TxInv ==
    /\ TypeOK /\ CacheTyped /\ LocksBelongToTransactions
    /\ Exclusive
    /\ \A s \in Saves : TxFits(s)

LEMMA RowsAreNumbers ==
    /\ Rows \subseteq Nat /\ NoRow \notin Rows
    /\ \A s \in Saves : References(s) \subseteq Rows
<1>1. \A s \in Saves : References(s) \subseteq Row
  <2> SUFFICES ASSUME NEW s \in Saves PROVE References(s) \subseteq Row
    OBVIOUS
  <2>1. /\ Groups[s].receiver \in Row /\ Groups[s].externalURL \in Row
        /\ Groups[s].groupKey \in Row /\ Groups[s].groupLabels \subseteq Row
        /\ Groups[s].commonLabels \subseteq Row /\ Groups[s].commonAnnotations \subseteq Row
        /\ Groups[s].alerts \in Seq(AlertRows)
    BY SqlAssumption DEF GroupRows
  <2>2. \A i \in DOMAIN Groups[s].alerts :
            Groups[s].alerts[i].labels \subseteq Row /\ Groups[s].alerts[i].annotations \subseteq Row
    <3> SUFFICES ASSUME NEW i \in DOMAIN Groups[s].alerts
                 PROVE  /\ Groups[s].alerts[i].labels \subseteq Row
                        /\ Groups[s].alerts[i].annotations \subseteq Row
      OBVIOUS
    <3>1. Groups[s].alerts[i] \in AlertRows
      BY <2>1
    <3> QED
      BY <3>1 DEF AlertRows
  <2>3. Labels(Groups[s]) \subseteq Row /\ Annotations(Groups[s]) \subseteq Row
    BY <2>1, <2>2 DEF Labels, Annotations
  <2> QED
    BY <2>1, <2>3 DEF References
<1> QED
  BY <1>1 DEF Rows, Row, NoRow

\* A plan upserts the rows of the group and no other.
LEMMA PlanRows ==
    ASSUME NEW s \in Saves
    PROVE  RowsOf(Plan(s)) = References(s) /\ Plan(s) \subseteq [stage : Nat, row : Rows]
<1> DEFINE g == Groups[s]
<1>1. DOMAIN g.alerts \subseteq Nat
  <2>1. g.alerts \in Seq(AlertRows)
    BY SqlAssumption DEF GroupRows
  <2> QED
    BY <2>1
<1>2. /\ \A R : \A n \in Nat : RowsOf(Upserts(n, R)) = R
      /\ \A R : \A n \in Nat : R \subseteq Rows => Upserts(n, R) \subseteq [stage : Nat, row : Rows]
  <2>1. ASSUME NEW n \in Nat, NEW R PROVE RowsOf(Upserts(n, R)) = R
    <3>1. ASSUME NEW r \in R PROVE r \in RowsOf(Upserts(n, R))
      <4>1. [stage |-> n, row |-> r] \in Upserts(n, R)
        BY DEF Upserts
      <4> QED
        BY <4>1 DEF RowsOf
    <3> QED
      BY <3>1 DEF RowsOf, Upserts
  <2> QED
    BY <2>1 DEF Upserts
<1>3. \A P, Q : RowsOf(P \cup Q) = RowsOf(P) \cup RowsOf(Q)
  BY DEF RowsOf
<1>4. References(s) \subseteq Rows
  BY RowsAreNumbers
<1>5. /\ RowsOf(Lookups(g)) = {g.receiver, g.externalURL, g.groupKey}
      /\ Lookups(g) \subseteq [stage : Nat, row : Rows]
  <2> DEFINE a == Upserts(1, {g.receiver})
             b == Upserts(2, {g.externalURL})
             c == Upserts(3, {g.groupKey})
  <2>1. RowsOf(a) = {g.receiver} /\ RowsOf(b) = {g.externalURL} /\ RowsOf(c) = {g.groupKey}
    BY <1>2
  <2>2. {g.receiver} \subseteq Rows /\ {g.externalURL} \subseteq Rows /\ {g.groupKey} \subseteq Rows
    BY <1>4 DEF References
  <2>3. /\ a \subseteq [stage : Nat, row : Rows] /\ b \subseteq [stage : Nat, row : Rows]
        /\ c \subseteq [stage : Nat, row : Rows]
    BY <1>2, <2>2
  <2>4. Lookups(g) = (a \cup b) \cup c
    BY DEF Lookups
  <2> HIDE DEF a, b, c
  <2>5. RowsOf(a \cup b) = {g.receiver, g.externalURL}
    BY <1>3, <2>1
  <2>6. RowsOf((a \cup b) \cup c) = RowsOf(a \cup b) \cup RowsOf(c)
    BY <1>3
  <2> QED
    BY <2>1, <2>3, <2>4, <2>5, <2>6
<1>6. CASE dialect = "mysql"
  <2>1. RowsOf(MySQLPlan(g)) = References(s)
    <3>1. RowsOf(Upserts(4, Labels(g))) = Labels(g) /\ RowsOf(Upserts(5, Annotations(g))) = Annotations(g)
      BY <1>2
    <3>2. RowsOf(MySQLPlan(g)) = RowsOf(Lookups(g) \cup Upserts(4, Labels(g)))
                                   \cup RowsOf(Upserts(5, Annotations(g)))
      BY <1>3 DEF MySQLPlan
    <3>3. RowsOf(Lookups(g) \cup Upserts(4, Labels(g)))
            = RowsOf(Lookups(g)) \cup RowsOf(Upserts(4, Labels(g)))
      BY <1>3
    <3> QED
      BY <1>5, <3>1, <3>2, <3>3 DEF References
  <2>2. MySQLPlan(g) \subseteq [stage : Nat, row : Rows]
    BY <1>2, <1>4, <1>5 DEF MySQLPlan, References
  <2> QED
    BY <1>6, <2>1, <2>2 DEF Plan
<1>7. CASE dialect # "mysql"
  <2> DEFINE OfAlert(i) == Upserts(2 * i + 5, g.alerts[i].labels)
                             \cup Upserts(2 * i + 6, g.alerts[i].annotations)
             OfAlerts == UNION {OfAlert(i) : i \in DOMAIN g.alerts}
             OfGroup == Lookups(g) \cup Upserts(4, g.groupLabels)
                          \cup Upserts(5, g.commonLabels) \cup Upserts(6, g.commonAnnotations)
  <2>1. \A i \in DOMAIN g.alerts :
            /\ RowsOf(OfAlert(i)) = g.alerts[i].labels \cup g.alerts[i].annotations
            /\ g.alerts[i].labels \subseteq Rows /\ g.alerts[i].annotations \subseteq Rows =>
                 OfAlert(i) \subseteq [stage : Nat, row : Rows]
    BY <1>1, <1>2, <1>3
  <2> HIDE DEF OfAlert
  <2>2. RowsOf(OfAlerts) = UNION {g.alerts[i].labels \cup g.alerts[i].annotations : i \in DOMAIN g.alerts}
    <3>1. RowsOf(OfAlerts) = UNION {RowsOf(OfAlert(i)) : i \in DOMAIN g.alerts}
      BY DEF RowsOf
    <3> QED
      BY <2>1, <3>1
  <2>3. RowsOf(OfGroup) = {g.receiver, g.externalURL, g.groupKey} \cup g.groupLabels
                            \cup g.commonLabels \cup g.commonAnnotations
    <3>1. /\ RowsOf(Upserts(4, g.groupLabels)) = g.groupLabels
          /\ RowsOf(Upserts(5, g.commonLabels)) = g.commonLabels
          /\ RowsOf(Upserts(6, g.commonAnnotations)) = g.commonAnnotations
      BY <1>2
    <3> DEFINE two == Lookups(g) \cup Upserts(4, g.groupLabels)
               three == two \cup Upserts(5, g.commonLabels)
    <3>2. RowsOf(two) = RowsOf(Lookups(g)) \cup RowsOf(Upserts(4, g.groupLabels))
      BY <1>3
    <3>3. RowsOf(three) = RowsOf(two) \cup RowsOf(Upserts(5, g.commonLabels))
      BY <1>3
    <3>4. RowsOf(OfGroup) = RowsOf(three) \cup RowsOf(Upserts(6, g.commonAnnotations))
      BY <1>3
    <3> QED
      BY <1>5, <3>1, <3>2, <3>3, <3>4
  <2>4. PostgresPlan(g) = OfGroup \cup OfAlerts
    BY DEF PostgresPlan, OfAlert
  <2>5. RowsOf(PostgresPlan(g)) = References(s)
    <3> DEFINE L == UNION {g.alerts[i].labels : i \in DOMAIN g.alerts}
               A == UNION {g.alerts[i].annotations : i \in DOMAIN g.alerts}
    <3>1. UNION {g.alerts[i].labels \cup g.alerts[i].annotations : i \in DOMAIN g.alerts} = L \cup A
      OBVIOUS
    <3>2. Labels(g) = g.groupLabels \cup g.commonLabels \cup L /\ Annotations(g) = g.commonAnnotations \cup A
      BY DEF Labels, Annotations
    <3>3. RowsOf(PostgresPlan(g)) = RowsOf(OfGroup) \cup RowsOf(OfAlerts)
      BY <1>3, <2>4
    <3> HIDE DEF L, A, OfGroup, OfAlerts
    <3> QED
      BY <2>2, <2>3, <3>1, <3>2, <3>3 DEF References
  <2>6. PostgresPlan(g) \subseteq [stage : Nat, row : Rows]
    <3>1. \A i \in DOMAIN g.alerts : OfAlert(i) \subseteq [stage : Nat, row : Rows]
      BY <1>4, <2>1 DEF References, Labels, Annotations
    <3>2. OfGroup \subseteq [stage : Nat, row : Rows]
      BY <1>2, <1>4, <1>5 DEF References, Labels, Annotations
    <3> QED
      BY <2>4, <3>1, <3>2
  <2> QED
    BY <1>7, <2>5, <2>6 DEF Plan
<1> QED
  BY <1>6, <1>7

\* A MySQL plan is in the order of the rows.
LEMMA MySQLPlanIsUpwards ==
    ASSUME NEW s \in Saves, dialect = "mysql", NEW u \in Plan(s), NEW v \in Plan(s),
           u.stage < v.stage
    PROVE  u.row < v.row
<1> DEFINE g == Groups[s]
<1>1. u \in MySQLPlan(g) /\ v \in MySQLPlan(g)
  BY DEF Plan
<1>2. /\ g.receiver \in Nat /\ g.externalURL \in Nat /\ g.groupKey \in Nat
      /\ Labels(g) \subseteq Nat /\ Annotations(g) \subseteq Nat
  BY RowsAreNumbers DEF References
<1>3. \A w \in MySQLPlan(g) :
          \/ w.stage = 1 /\ w.row = g.receiver
          \/ w.stage = 2 /\ w.row = g.externalURL
          \/ w.stage = 3 /\ w.row = g.groupKey
          \/ w.stage = 4 /\ w.row \in Labels(g)
          \/ w.stage = 5 /\ w.row \in Annotations(g)
  BY DEF MySQLPlan, Lookups, Upserts
<1>4. /\ g.receiver < g.externalURL /\ g.externalURL < g.groupKey
      /\ \A l \in Labels(g) : g.groupKey < l
      /\ \A a \in Annotations(g) : g.groupKey < a /\ \A l \in Labels(g) : l < a
  BY TablesInOrder
<1> QED
  BY <1>1, <1>2, <1>3, <1>4

-----------------------------------------------------------------------------
(* TxInv is inductive *)

LEMMA InitTxInv == Init => TxInv
<1> SUFFICES ASSUME Init PROVE TxInv
  OBVIOUS
<1>1. TypeOK
  <2>1. attempt \in [Saves -> 0..(MaxRetries - 1)]
    BY SqlAssumption DEF Init
  <2>2. todo \in [Saves -> SUBSET [stage : Nat, row : Rows]] /\ locks \in [Saves -> SUBSET Rows]
    BY DEF Init
  <2>3. kv \in [Rows -> Ids \cup {NoId}] /\ want \in [Saves -> Rows \cup {NoRow}]
    BY DEF Init
  <2>4. \A s \in Saves : DOMAIN cache[s] \subseteq Rows
    BY DEF Init
  <2> QED
    BY <2>1, <2>2, <2>3, <2>4 DEF Init, TypeOK
<1>2. \A s \in Saves : TxFits(s)
  BY DEF Init, TxFits, InTx, Upwards
<1> QED
  BY <1>1, <1>2 DEF Init, TxInv, CacheTyped, LocksBelongToTransactions, Exclusive

\* A save whose transaction is as it was, and whose rows have the ids they had.
LEMMA TxFitsKept ==
    ASSUME NEW t \in Saves, TxFits(t), dialect' = dialect,
           InTx(t)' = InTx(t), (pc[t] = "commit")' => pc[t] = "commit",
           UNCHANGED <<attempt[t], todo[t], want[t], cache[t], locks[t]>>,
           \A r \in locks[t] : kv'[r] = kv[r]
    PROVE  TxFits(t)'
<1>1. InTx(t) => \A r \in locks[t] : IdStands(t, r)'
  BY DEF TxFits, IdStands
<1>2. RowsOf(todo[t])' = RowsOf(todo[t]) /\ RowsOf(Current(todo[t]))' = RowsOf(Current(todo[t]))
  BY DEF RowsOf, Current
<1>3. References(t)' = References(t)
  BY DEF References
<1>4. dialect = "mysql" => Upwards(t)'
  BY DEF TxFits, Upwards
<1> QED
  BY <1>1, <1>2, <1>3, <1>4 DEF TxFits

\* The variables of a step, each a function on Saves.
Typed == TypeOK /\ CacheTyped

\* A step of s that leaves the transaction of s where it was.
LEMMA TxOutside ==
    ASSUME TxInv, NEW s \in Saves, Typed',
           pc' = [pc EXCEPT ![s] = pc'[s]], attempt' = [attempt EXCEPT ![s] = attempt'[s]],
           ~InTx(s), ~InTx(s)', UNCHANGED <<txVars, locks, dialect, kv>>
    PROVE  TxInv'
<1>1. ASSUME NEW t \in Saves PROVE TxFits(t)'
  <2>1. CASE t = s
    <3>1. todo'[s] = {} /\ locks'[s] = {} /\ want'[s] = NoRow
      BY DEF TxInv, TxFits, LocksBelongToTransactions, txVars, RowsOf, Current
    <3> QED
      BY <2>1, <3>1 DEF TxFits, Upwards
  <2>2. CASE t # s
    <3>1. pc'[t] = pc[t] /\ attempt'[t] = attempt[t]
      BY <2>2 DEF TxInv, TypeOK
    <3> QED
      BY <3>1, TxFitsKept DEF TxInv, InTx, txVars
  <2> QED
    BY <2>1, <2>2
<1>2. LocksBelongToTransactions'
  BY DEF TxInv, TypeOK, LocksBelongToTransactions, InTx
<1>3. Exclusive'
  BY DEF TxInv, Exclusive
<1> QED
  BY <1>1, <1>2, <1>3 DEF TxInv, Typed

\* The end of a transaction, applied or not.
LEMMA TxEnds ==
    ASSUME TxInv, NEW s \in Saves, Typed', InTx(s), ~InTx(s)', EndTx(s),
           pc' = [pc EXCEPT ![s] = pc'[s]], attempt' = [attempt EXCEPT ![s] = attempt'[s]],
           UNCHANGED <<cache, dialect>>,
           \A r \in Rows \ locks[s] : kv'[r] = kv[r]
    PROVE  TxInv'
<1>1. ASSUME NEW t \in Saves PROVE TxFits(t)'
  <2>1. CASE t = s
    <3>1. todo'[s] = {} /\ locks'[s] = {} /\ want'[s] = NoRow
      BY DEF EndTx, TxInv, TypeOK
    <3> QED
      BY <2>1, <3>1 DEF TxFits, Upwards
  <2>2. CASE t # s
    <3>1. /\ pc'[t] = pc[t] /\ attempt'[t] = attempt[t] /\ todo'[t] = todo[t]
          /\ want'[t] = want[t] /\ locks'[t] = locks[t]
      BY <2>2 DEF EndTx, TxInv, TypeOK
    <3>2. \A r \in locks[t] : kv'[r] = kv[r]
      BY <2>2 DEF TxInv, TypeOK, Exclusive
    <3> QED
      BY <3>1, <3>2, TxFitsKept DEF TxInv, InTx
  <2> QED
    BY <2>1, <2>2
<1>2. LocksBelongToTransactions' /\ Exclusive'
  BY DEF TxInv, TypeOK, LocksBelongToTransactions, Exclusive, InTx, EndTx
<1> QED
  BY <1>1, <1>2 DEF TxInv, Typed

\* unitOfWork retries within its bound, or returns.
LEMMA FailTyped ==
    ASSUME TypeOK, NEW s \in Saves, NEW d \in BOOLEAN, Fail(s, d)
    PROVE  /\ pc' = [pc EXCEPT ![s] = pc'[s]] /\ pc'[s] \in {"backoff", "done"}
           /\ attempt' = [attempt EXCEPT ![s] = attempt'[s]]
           /\ pc' \in [Saves -> {"idle", "begin", "exec", "commit", "backoff", "done"}]
           /\ attempt' \in [Saves -> 0..(MaxRetries - 1)]
           /\ answer' \in [Saves -> {"none", "ok", "error"}]
<1>1. CASE /\ pc' = [pc EXCEPT ![s] = "backoff"] /\ attempt[s] + 1 < MaxRetries
           /\ attempt' = [attempt EXCEPT ![s] = @ + 1] /\ UNCHANGED answer
  BY <1>1, SqlAssumption DEF TypeOK
<1>2. CASE Return(s, "error")
  BY <1>2 DEF TypeOK, Return
<1> QED
  BY <1>1, <1>2 DEF Fail

\* Commit gives every row of the transaction the id it had there.
LEMMA AppliedTyped ==
    ASSUME TxInv, NEW s \in Saves, Applied(s)
    PROVE  /\ kv' \in [Rows -> Ids \cup {NoId}] /\ groups' \in [Saves -> Nat]
           /\ \A r \in Rows \ locks[s] : kv'[r] = kv[r]
  BY DEF TxInv, TypeOK, CacheTyped, Applied

-----------------------------------------------------------------------------
LEMMA BeginKeepsTxInv ==
    ASSUME TxInv, NEW s \in Saves, Begin(s)
    PROVE  TxInv'
<1>1. /\ pc' = [pc EXCEPT ![s] = "exec"] /\ pc[s] = "begin"
      /\ todo' = [todo EXCEPT ![s] = Plan(s)] /\ cache' = [cache EXCEPT ![s] = <<>>]
      /\ UNCHANGED <<attempt, over, answer, want, locks, dialect, kv, groups, dbClosed, probe>>
  BY DEF Begin, dbVars
<1>2. locks[s] = {} /\ want[s] = NoRow
  BY <1>1 DEF TxInv, TxFits, LocksBelongToTransactions, InTx, RowsOf, Current
<1>3. DOMAIN <<>> = {}
  OBVIOUS
<1>4. Typed'
  <2>1. todo' \in [Saves -> SUBSET [stage : Nat, row : Rows]]
    BY <1>1, PlanRows DEF TxInv, TypeOK
  <2>2. CacheTyped' /\ \A t \in Saves : DOMAIN cache'[t] \subseteq Rows
    BY <1>1, <1>3 DEF TxInv, TypeOK, CacheTyped
  <2> QED
    BY <1>1, <2>1, <2>2 DEF TxInv, TypeOK, Typed
<1>5. TxFits(s)'
  <2>1. todo'[s] = Plan(s) /\ pc'[s] = "exec" /\ locks'[s] = {} /\ want'[s] = NoRow
        /\ DOMAIN cache'[s] = {}
    BY <1>1, <1>2, <1>3 DEF TxInv, TypeOK, CacheTyped
  <2>2. References(s)' = References(s) /\ RowsOf(todo[s])' = References(s)
    BY <2>1, PlanRows DEF References, RowsOf
  <2>3. dialect = "mysql" => Upwards(s)'
    BY <2>1, MySQLPlanIsUpwards DEF Upwards
  <2> QED
    BY <1>1, <2>1, <2>2, <2>3 DEF TxFits, InTx
<1>6. ASSUME NEW t \in Saves, t # s PROVE TxFits(t)'
  <2>1. pc'[t] = pc[t] /\ todo'[t] = todo[t] /\ cache'[t] = cache[t]
    BY <1>1, <1>6 DEF TxInv, TypeOK, CacheTyped
  <2> QED
    BY <1>1, <2>1, TxFitsKept DEF TxInv, InTx
<1>7. LocksBelongToTransactions' /\ Exclusive'
  BY <1>1 DEF TxInv, TypeOK, LocksBelongToTransactions, Exclusive, InTx
<1> QED
  BY <1>4, <1>5, <1>6, <1>7 DEF TxInv, Typed

LEMMA IssueKeepsTxInv ==
    ASSUME TxInv, NEW s \in Saves, Issue(s)
    PROVE  TxInv'
<1>1. PICK r \in NextPairs({u.row : u \in Current(todo[s])}) : want' = [want EXCEPT ![s] = r]
  BY DEF Issue
<1>2. /\ pc[s] = "exec" /\ UNCHANGED <<pc, attempt, todo, cache, locks, over, answer, dialect,
                                        kv, groups, dbClosed, probe>>
  BY DEF Issue, saveVars, dbVars
<1>3. /\ r \in RowsOf(Current(todo[s]))
      /\ dialect = "mysql" => \A q \in RowsOf(Current(todo[s])) : r <= q
  BY <1>1 DEF NextPairs, RowsOf
<1>4. RowsOf(Current(todo[s])) \subseteq Rows
  BY DEF RowsOf, Current, TxInv, TypeOK
<1>5. Typed'
  BY <1>1, <1>2, <1>3, <1>4 DEF TxInv, TypeOK, Typed, CacheTyped
<1>6. want'[s] = r
  BY <1>1 DEF TxInv, TypeOK
<1>7. ASSUME dialect = "mysql", NEW v \in todo[s] PROVE r <= v.row
  <2>1. PICK w \in todo[s] : w.row = r /\ \A x \in todo[s] : w.stage <= x.stage
    BY <1>3 DEF RowsOf, Current
  <2>2. /\ w.stage \in Nat /\ v.stage \in Nat /\ w.row \in Nat /\ v.row \in Nat
    <3>1. w \in [stage : Nat, row : Rows] /\ v \in [stage : Nat, row : Rows]
      BY <1>7, <2>1 DEF TxInv, TypeOK
    <3> QED
      BY <3>1, RowsAreNumbers
  <2>3. CASE w.stage < v.stage
    BY <1>7, <2>1, <2>2, <2>3 DEF TxInv, TxFits, Upwards
  <2>4. CASE w.stage = v.stage
    <3>1. v \in Current(todo[s])
      BY <1>7, <2>1, <2>4 DEF Current
    <3> QED
      BY <1>3, <1>7, <3>1 DEF RowsOf
  <2> QED
    BY <2>1, <2>2, <2>3, <2>4
<1>8. TxFits(s)'
  <2>1. dialect = "mysql" => Upwards(s)'
    BY <1>2, <1>6, <1>7 DEF TxInv, TxFits, Upwards
  <2>2. RowsOf(todo[s])' = RowsOf(todo[s]) /\ RowsOf(Current(todo[s]))' = RowsOf(Current(todo[s]))
        /\ References(s)' = References(s)
    BY <1>2 DEF RowsOf, Current, References
  <2>3. \A q \in locks[s] : IdStands(s, q)' = IdStands(s, q)
    BY <1>2 DEF IdStands
  <2> QED
    BY <1>2, <1>3, <1>6, <2>1, <2>2, <2>3 DEF TxInv, TxFits, InTx
<1>9. ASSUME NEW t \in Saves, t # s PROVE TxFits(t)'
  <2>1. want'[t] = want[t]
    BY <1>1, <1>9 DEF TxInv, TypeOK
  <2> QED
    BY <1>2, <2>1, TxFitsKept DEF TxInv, InTx
<1> QED
  BY <1>2, <1>5, <1>8, <1>9 DEF TxInv, Typed, LocksBelongToTransactions, Exclusive, InTx

\* An upsert locks its row and caches its id, and MySQL goes on to greater rows.
LEMMA ResolveKeepsTxInv ==
    ASSUME TxInv, NEW s \in Saves, Resolve(s)
    PROVE  TxInv'
<1> DEFINE r == want[s]
<1>1. /\ pc[s] = "exec" /\ r # NoRow /\ ~HeldByOther(s, r)
      /\ locks' = [locks EXCEPT ![s] = locks[s] \cup {r}]
      /\ cache' = [cache EXCEPT ![s] = [q \in DOMAIN cache[s] \cup {r} |->
                                          IF q = r THEN IdFor(s, r) ELSE cache[s][q]]]
      /\ todo' = [todo EXCEPT ![s] = Without(todo[s], r)]
      /\ want' = [want EXCEPT ![s] = NoRow]
      /\ UNCHANGED <<pc, attempt, over, answer, dialect, kv, groups, dbClosed, probe>>
  BY DEF Resolve, saveVars, dbVars
<1> HIDE DEF r
<1>2. /\ locks'[s] = locks[s] \cup {r} /\ want'[s] = NoRow /\ todo'[s] = Without(todo[s], r)
      /\ cache'[s] = [q \in DOMAIN cache[s] \cup {r} |->
                                          IF q = r THEN IdFor(s, r) ELSE cache[s][q]]
      /\ \A t \in Saves \ {s} : /\ locks'[t] = locks[t] /\ want'[t] = want[t]
                                /\ todo'[t] = todo[t] /\ cache'[t] = cache[t]
  BY <1>1 DEF TxInv, TypeOK, CacheTyped
<1>3. r \in RowsOf(Current(todo[s])) /\ r \in Rows /\ DOMAIN cache[s] = locks[s]
  <2>1. r \in RowsOf(Current(todo[s]))
    BY <1>1 DEF TxInv, TxFits, r
  <2>2. DOMAIN cache[s] = locks[s]
    BY <1>1 DEF TxInv, TxFits, InTx
  <2> QED
    BY <2>1, <2>2 DEF RowsOf, Current, TxInv, TypeOK
<1>4. IdFor(s, r) \in Ids /\ (IdFor(s, r) = kv[r] \/ (kv[r] = NoId /\ IdFor(s, r) = <<s, attempt[s]>>))
  <2>1. <<s, attempt[s]>> \in Ids
    <3>1. attempt[s] \in 0..MaxRetries
      BY SqlAssumption DEF TxInv, TypeOK
    <3> QED
      BY <3>1 DEF Ids
  <2>2. CASE kv[r] # NoId
    <3>1. kv[r] \in Ids \cup {NoId}
      BY <1>3 DEF TxInv, TypeOK
    <3>2. IdFor(s, r) = kv[r]
      BY <2>2 DEF IdFor
    <3> QED
      BY <2>2, <3>1, <3>2
  <2>3. CASE kv[r] = NoId /\ r \in DOMAIN cache[s]
    <3>1. IdStands(s, r) /\ cache[s][r] \in Ids
      BY <1>1, <1>3, <2>3 DEF TxInv, TxFits, CacheTyped, InTx
    <3> QED
      <4>1. IdFor(s, r) = cache[s][r]
        BY <2>3 DEF IdFor
      <4> QED
        BY <2>3, <3>1, <4>1, Zenon DEF IdStands
  <2>4. CASE kv[r] = NoId /\ r \notin DOMAIN cache[s]
    BY <2>1, <2>4 DEF IdFor
  <2> QED
    BY <2>2, <2>3, <2>4
<1>5. Typed'
  <2>1. todo' \in [Saves -> SUBSET [stage : Nat, row : Rows]]
    BY <1>1 DEF TxInv, TypeOK, Without
  <2>2. CacheTyped'
    <3>1. cache' = [t \in Saves |-> cache'[t]]
      BY <1>1 DEF TxInv, CacheTyped
    <3>2. ASSUME NEW t \in Saves, NEW q \in DOMAIN cache'[t] PROVE cache'[t][q] \in Ids
      BY <1>2, <1>4, <3>2 DEF TxInv, CacheTyped
    <3> QED
      BY <3>1, <3>2 DEF CacheTyped
  <2>3. \A t \in Saves : DOMAIN cache'[t] \subseteq Rows
    BY <1>2, <1>3 DEF TxInv, TypeOK
  <2>4. locks' \in [Saves -> SUBSET Rows] /\ want' \in [Saves -> Rows \cup {NoRow}]
    BY <1>1, <1>3 DEF TxInv, TypeOK
  <2> QED
    BY <1>1, <2>1, <2>2, <2>3, <2>4 DEF TxInv, TypeOK, Typed
<1>6. ASSUME dialect = "mysql" PROVE Upwards(s)'
  <2>1. PICK w \in todo[s] : w.row = r /\ \A x \in todo[s] : w.stage <= x.stage
    BY <1>3 DEF RowsOf, Current
  <2>2. ASSUME NEW v \in todo'[s] PROVE r < v.row
    <3>1. v \in todo[s] /\ ~(v \in Current(todo[s]) /\ v.row = r)
      BY <1>2, <2>2 DEF Without
    <3>2. /\ w.stage \in Nat /\ v.stage \in Nat /\ w.row \in Nat /\ v.row \in Nat
      <4>1. w \in [stage : Nat, row : Rows] /\ v \in [stage : Nat, row : Rows]
        BY <2>1, <3>1 DEF TxInv, TypeOK
      <4> QED
        BY <4>1, RowsAreNumbers
    <3>3. r <= v.row
      BY <1>1, <1>6, <3>1 DEF TxInv, TxFits, Upwards, r
    <3>4. CASE w.stage < v.stage
      BY <1>6, <2>1, <3>1, <3>4 DEF TxInv, TxFits, Upwards
    <3>5. CASE w.stage = v.stage
      <4>1. v \in Current(todo[s])
        BY <2>1, <3>1, <3>5 DEF Current
      <4> QED
        BY <2>1, <3>1, <3>2, <3>3, <4>1
    <3> QED
      BY <2>1, <3>1, <3>2, <3>4, <3>5
  <2>3. todo'[s] \subseteq todo[s]
    BY <1>2 DEF Without
  <2> QED
    BY <1>2, <1>6, <2>2, <2>3 DEF TxInv, TxFits, Upwards
<1>7. TxFits(s)'
  <2>1. RowsOf(todo[s]) = {r} \cup RowsOf(Without(todo[s], r))
    BY <1>3 DEF RowsOf, Without, Current
  <2>2. References(s)' = References(s) /\ RowsOf(todo[s])' = RowsOf(Without(todo[s], r))
    BY <1>2 DEF RowsOf, References
  <2>3. References(s)' = locks'[s] \cup RowsOf(todo[s])'
    BY <1>1, <1>2, <2>1, <2>2 DEF TxInv, TxFits, InTx
  <2>4. ASSUME NEW q \in locks'[s] PROVE IdStands(s, q)'
    <3>1. CASE q = r
      BY <1>1, <1>2, <1>4, <3>1 DEF IdStands
    <3>2. CASE q # r
      <4>1. q \in locks[s] /\ cache'[s][q] = cache[s][q]
        BY <1>2, <1>3, <2>4, <3>2
      <4>2. IdStands(s, q)
        BY <1>1, <4>1 DEF TxInv, TxFits, InTx
      <4> QED
        BY <1>1, <4>1, <4>2 DEF IdStands
    <3> QED
      BY <3>1, <3>2
  <2>5. DOMAIN cache'[s] = locks'[s] /\ pc'[s] = "exec" /\ want'[s] = NoRow
    BY <1>1, <1>2, <1>3
  <2> QED
    BY <1>1, <1>6, <2>3, <2>4, <2>5 DEF TxFits, InTx
<1>8. ASSUME NEW t \in Saves, t # s PROVE TxFits(t)'
  BY <1>1, <1>2, <1>8, TxFitsKept DEF TxInv, InTx
<1>9. LocksBelongToTransactions'
  BY <1>1, <1>2 DEF TxInv, LocksBelongToTransactions, InTx
<1>10. Exclusive'
  BY <1>1, <1>2 DEF TxInv, Exclusive, HeldByOther
<1> QED
  BY <1>5, <1>7, <1>8, <1>9, <1>10 DEF TxInv, Typed

LEMMA InsertKeepsTxInv ==
    ASSUME TxInv, NEW s \in Saves, Insert(s)
    PROVE  TxInv'
<1>1. /\ pc[s] = "exec" /\ todo[s] = {} /\ pc' = [pc EXCEPT ![s] = "commit"]
      /\ UNCHANGED <<attempt, over, answer, todo, want, cache, locks, dialect, kv, groups,
                     dbClosed, probe>>
  BY DEF Insert, txVars, dbVars
<1>2. Typed' /\ pc'[s] = "commit" /\ \A t \in Saves \ {s} : pc'[t] = pc[t]
  BY <1>1 DEF TxInv, TypeOK, CacheTyped, Typed
<1>3. TxFits(s)'
  <2>1. RowsOf(todo[s])' = RowsOf(todo[s]) /\ RowsOf(Current(todo[s]))' = RowsOf(Current(todo[s]))
        /\ References(s)' = References(s) /\ Upwards(s)' = Upwards(s)
        /\ \A r : IdStands(s, r)' = IdStands(s, r)
    BY <1>1 DEF RowsOf, Current, References, Upwards, IdStands
  <2> QED
    BY <1>1, <1>2, <2>1 DEF TxInv, TxFits, InTx
<1>4. ASSUME NEW t \in Saves, t # s PROVE TxFits(t)'
  BY <1>1, <1>2, <1>4, TxFitsKept DEF TxInv, InTx
<1> QED
  BY <1>1, <1>2, <1>3, <1>4 DEF TxInv, Typed, LocksBelongToTransactions, Exclusive, InTx

\* A failure ends the transaction, if there was one.
LEMMA FailKeepsTxInv ==
    ASSUME TxInv, NEW s \in Saves, NEW d \in BOOLEAN, Fail(s, d),
           \/ InTx(s) /\ EndTx(s) /\ UNCHANGED cache
           \/ ~InTx(s) /\ UNCHANGED <<txVars, locks>>,
           UNCHANGED <<over, dialect, dbClosed, probe>>,
           Applied(s) \/ UNCHANGED <<kv, groups>>,
           ~InTx(s) => UNCHANGED kv
    PROVE  TxInv'
<1>1. /\ pc' = [pc EXCEPT ![s] = pc'[s]] /\ pc'[s] \in {"backoff", "done"}
      /\ attempt' = [attempt EXCEPT ![s] = attempt'[s]]
      /\ pc' \in [Saves -> {"idle", "begin", "exec", "commit", "backoff", "done"}]
      /\ attempt' \in [Saves -> 0..(MaxRetries - 1)]
      /\ answer' \in [Saves -> {"none", "ok", "error"}]
  BY FailTyped DEF TxInv
<1>2. /\ kv' \in [Rows -> Ids \cup {NoId}] /\ groups' \in [Saves -> Nat]
      /\ \A r \in Rows \ locks[s] : kv'[r] = kv[r]
  BY AppliedTyped DEF TxInv, TypeOK
<1>3. CASE InTx(s) /\ EndTx(s) /\ UNCHANGED cache
  <2>1. Typed'
    BY <1>1, <1>2, <1>3 DEF EndTx, TxInv, TypeOK, CacheTyped, Typed
  <2> QED
    BY <1>1, <1>2, <1>3, <2>1, TxEnds DEF InTx
<1>4. CASE ~InTx(s) /\ UNCHANGED <<txVars, locks>>
  <2>1. Typed'
    BY <1>1, <1>2, <1>4 DEF txVars, TxInv, TypeOK, CacheTyped, Typed
  <2> QED
    BY <1>1, <1>2, <1>4, <2>1, TxOutside DEF InTx
<1> QED
  BY <1>3, <1>4

LEMMA CommitKeepsTxInv ==
    ASSUME TxInv, NEW s \in Saves, Commit(s)
    PROVE  TxInv'
<1>1. /\ pc[s] = "commit" /\ pc' = [pc EXCEPT ![s] = "done"]
      /\ answer' = [answer EXCEPT ![s] = "ok"] /\ Applied(s) /\ EndTx(s)
      /\ UNCHANGED <<attempt, over, cache, dialect, dbClosed, probe>>
  BY DEF Commit, Return
<1>2. /\ kv' \in [Rows -> Ids \cup {NoId}] /\ groups' \in [Saves -> Nat]
      /\ \A r \in Rows \ locks[s] : kv'[r] = kv[r]
  BY <1>1, AppliedTyped
<1>3. Typed'
  BY <1>1, <1>2 DEF EndTx, TxInv, TypeOK, CacheTyped, Typed
<1>4. pc'[s] = "done" /\ attempt' = [attempt EXCEPT ![s] = attempt'[s]]
  BY <1>1 DEF TxInv, TypeOK
<1> QED
  BY <1>1, <1>2, <1>3, <1>4, TxEnds DEF InTx

\* Save and the backoff: before the transaction, or between two.
LEMMA OutsideKeepsTxInv ==
    ASSUME TxInv, NEW s \in Saves, Save(s) \/ Backoff(s)
    PROVE  TxInv'
<1>1. /\ pc' = [pc EXCEPT ![s] = pc'[s]] /\ pc'[s] \in {"begin", "done"}
      /\ pc[s] \in {"idle", "backoff"}
      /\ answer' \in [Saves -> {"none", "ok", "error"}]
      /\ UNCHANGED <<attempt, over, txVars, locks, dbVars>>
  BY DEF Save, Backoff, Return, TxInv, TypeOK
<1>2. Typed' /\ attempt' = [attempt EXCEPT ![s] = attempt'[s]]
  BY <1>1 DEF txVars, dbVars, TxInv, TypeOK, CacheTyped, Typed
<1> QED
  BY <1>1, <1>2, TxOutside DEF InTx, dbVars

\* A timeout, a health check and Close touch no transaction.
LEMMA EnvironmentKeepsTxInv ==
    ASSUME TxInv, Environment \/ UNCHANGED vars
    PROVE  TxInv'
<1>1. UNCHANGED <<pc, attempt, answer, todo, want, cache, locks, dialect, kv, groups>>
  BY DEF Environment, SaveTimeout, Probe, Ping, CheckModel, Close, saveVars, txVars, dbVars, vars
<1>2. /\ over' \in [Saves -> BOOLEAN] /\ dbClosed' \in BOOLEAN
      /\ probe' \in {"idle", "live", "ready", "query", "up", "down", "unhealthy"}
  BY DEF Environment, SaveTimeout, Probe, Ping, CheckModel, Close, saveVars, txVars, dbVars,
     vars, TxInv, TypeOK
<1>3. Typed'
  BY <1>1, <1>2 DEF TxInv, TypeOK, CacheTyped, Typed
<1>4. \A t \in Saves : TxFits(t)'
  BY <1>1, TxFitsKept DEF TxInv, InTx
<1> QED
  BY <1>1, <1>3, <1>4 DEF TxInv, Typed, LocksBelongToTransactions, Exclusive, InTx

LEMMA NextTxInv == TxInv /\ [Next]_vars => TxInv'
<1> SUFFICES ASSUME TxInv, [Next]_vars PROVE TxInv'
  OBVIOUS
<1>1. ASSUME NEW s \in Saves, Step(s) PROVE TxInv'
  <2>1. CASE Begin(s)
    BY <2>1, BeginKeepsTxInv
  <2>2. CASE Issue(s)
    BY <2>2, IssueKeepsTxInv
  <2>3. CASE Resolve(s)
    BY <2>3, ResolveKeepsTxInv
  <2>4. CASE Insert(s)
    BY <2>4, InsertKeepsTxInv
  <2>5. CASE Commit(s)
    BY <2>5, CommitKeepsTxInv
  <2>6. CASE Backoff(s)
    BY <2>6, OutsideKeepsTxInv
  <2>7. CASE BeginFails(s)
    <3>1. /\ UNCHANGED <<txVars, locks>> /\ ~InTx(s)
          /\ UNCHANGED <<over, dialect, dbClosed, probe>> /\ UNCHANGED <<kv, groups>>
      BY <2>7 DEF BeginFails, InTx, dbVars
    <3>2. Fail(s, FALSE)
      BY <2>7 DEF BeginFails
    <3> QED
      BY <3>1, <3>2, FailKeepsTxInv, Zenon
  <2>8. CASE ExecFails(s)
    <3>1. /\ EndTx(s) /\ UNCHANGED cache /\ InTx(s)
          /\ UNCHANGED <<over, dialect, dbClosed, probe>> /\ UNCHANGED <<kv, groups>>
      BY <2>8 DEF ExecFails, InTx, dbVars
    <3>2. Fail(s, FALSE)
      BY <2>8 DEF ExecFails
    <3> QED
      BY <3>1, <3>2, FailKeepsTxInv, Zenon
  <2>9. CASE Deadlock(s)
    <3>1. /\ EndTx(s) /\ UNCHANGED cache /\ InTx(s)
          /\ UNCHANGED <<over, dialect, dbClosed, probe>> /\ UNCHANGED <<kv, groups>>
      BY <2>9 DEF Deadlock, InTx, dbVars
    <3>2. Fail(s, TRUE)
      BY <2>9 DEF Deadlock
    <3> QED
      BY <3>1, <3>2, FailKeepsTxInv, Zenon
  <2>10. CASE CommitFails(s)
    BY <2>10, FailKeepsTxInv DEF CommitFails, InTx
  <2> QED
    BY <1>1, <2>1, <2>2, <2>3, <2>4, <2>5, <2>6, <2>7, <2>8, <2>9, <2>10 DEF Step
<1> QED
  BY <1>1, OutsideKeepsTxInv, EnvironmentKeepsTxInv DEF Next, Environment

LEMMA TxInvariant == Spec => []TxInv
  BY InitTxInv, NextTxInv, PTL DEF Spec

\* Every variable keeps its type; a Save makes at most MaxRetries attempts.
THEOREM SqlTypeCorrect == Spec => []TypeOK
<1>1. TxInv => TypeOK
  BY DEF TxInv
<1> QED
  BY <1>1, TxInvariant, PTL

\* mysql.go:55-64, kv.go:56-84: when the rows of a group are inserted, every id they
\* refer to is committed, or of a row this attempt created and still has locked.
THEOREM NoDanglingReference == Spec => []ReferencesExist
<1>1. TxInv => ReferencesExist
  <2> SUFFICES ASSUME TxInv, NEW s \in Saves, pc[s] = "commit", NEW r \in References(s)
               PROVE  /\ r \in DOMAIN cache[s]
                      /\ \/ cache[s][r] = kv[r]
                         \/ kv[r] = NoId /\ r \in locks[s] /\ cache[s][r] = <<s, attempt[s]>>
    BY DEF ReferencesExist
  <2>1. r \in locks[s] /\ DOMAIN cache[s] = locks[s] /\ IdStands(s, r)
    BY DEF TxInv, TxFits, InTx, RowsOf
  <2> QED
    BY <2>1 DEF IdStands
<1> QED
  BY <1>1, TxInvariant, PTL

-----------------------------------------------------------------------------
(* The order of the locks *)

\* A finite set of saves has one that wants the greatest row.
LEMMA GreatestExists ==
    ASSUME NEW D, IsFiniteSet(D), D # {}, NEW g, \A x \in D : g[x] \in Nat
    PROVE  \E x \in D : \A y \in D : g[y] <= g[x]
<1> DEFINE NoGreatest == {E \in SUBSET D : E # {} /\ \A x \in E : \E y \in E : g[x] < g[y]}
           Sizes == {Cardinality(E) : E \in NoGreatest}
<1>1. SUFFICES ASSUME D \in NoGreatest PROVE FALSE
  <2> SUFFICES ASSUME ~ \E x \in D : \A y \in D : g[y] <= g[x] PROVE D \in NoGreatest
    BY <1>1
  <2> QED
    OBVIOUS
<1>2. \A E \in NoGreatest : IsFiniteSet(E) /\ Cardinality(E) \in Nat
  BY FS_Subset, FS_CardinalityType
<1>3. Sizes \subseteq Nat /\ Sizes # {}
  BY <1>1, <1>2
<1>4. PICK n \in Sizes : \A m \in Sizes : ~(<<m, n>> \in OpToRel(<, Nat))
  BY <1>3, WFMin, NatLessThanWellFounded
<1>5. PICK E \in NoGreatest : Cardinality(E) = n
  BY <1>4
<1>6. PICK x \in E : TRUE
  BY <1>5
<1> DEFINE F == E \ {x}
<1>7. IsFiniteSet(F) /\ Cardinality(F) = n - 1 /\ n \in Nat
  BY <1>2, <1>3, <1>4, <1>5, FS_RemoveElement
<1>8. F \notin NoGreatest
  <2> SUFFICES ASSUME F \in NoGreatest PROVE FALSE
    OBVIOUS
  <2>1. Cardinality(F) \in Sizes /\ Cardinality(F) \in Nat
    BY <1>2
  <2>2. <<Cardinality(F), n>> \in OpToRel(<, Nat)
    BY <1>7, <2>1 DEF OpToRel
  <2> QED
    BY <1>4, <2>1, <2>2
<1>9. CASE F = {}
  BY <1>5, <1>9
<1>10. CASE F # {}
  <2>1. PICK m \in F : \A y \in F : ~(g[m] < g[y])
    BY <1>8, <1>10
  <2>2. PICK y \in E : g[m] < g[y]
    BY <1>5, <2>1
  <2>3. y = x
    BY <2>1, <2>2
  <2>4. PICK z \in E : g[x] < g[z]
    BY <1>5
  <2>5. z \in F /\ g[m] \in Nat /\ g[x] \in Nat /\ g[z] \in Nat
    BY <1>5, <2>1, <2>4
  <2> QED
    BY <2>1, <2>2, <2>3, <2>4, <2>5
<1> QED
  BY <1>9, <1>10

\* kv.go:34-36: no set of MySQL Saves waits in a cycle, however many there are.
THEOREM MySQLLocksInOrder == Spec => []NoLockCycle
<1>1. TxInv => NoLockCycle
  <2> SUFFICES ASSUME TxInv, dialect = "mysql", NEW D \in SUBSET Saves, LockCycle(D)
               PROVE  FALSE
    BY DEF NoLockCycle
  <2>1. IsFiniteSet(D) /\ D # {}
    BY SqlAssumption, FS_Subset DEF LockCycle
  <2>2. \A s \in D : want[s] \in Rows \cup {NoRow} /\ want[s] \in Nat
    <3>1. \A s \in D : want[s] \in Rows \cup {NoRow}
      BY DEF TxInv, TypeOK
    <3>2. NoRow \in Nat
      BY DEF NoRow
    <3> QED
      BY <3>1, <3>2, RowsAreNumbers
  <2>3. PICK s \in D : \A t \in D : want[t] <= want[s]
    BY <2>1, <2>2, GreatestExists
  <2>4. PICK t \in D : want[s] \in locks[t]
    BY DEF LockCycle
  <2>5. want[t] # NoRow
    <3>1. PICK q \in D : want[t] \in locks[q]
      BY DEF LockCycle
    <3> QED
      BY <3>1, RowsAreNumbers DEF TxInv, TypeOK
  <2>6. PICK u \in todo[t] : u.row = want[t]
    BY <2>5 DEF TxInv, TxFits, RowsOf, Current
  <2>7. want[s] < want[t]
    BY <2>4, <2>6 DEF TxInv, TxFits, Upwards
  <2> QED
    BY <2>2, <2>3, <2>7
<1> QED
  BY <1>1, TxInvariant, PTL

=============================================================================
