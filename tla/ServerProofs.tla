---------------------------- MODULE ServerProofs ----------------------------
(***************************************************************************)
(* The timeouts of the server against the timeout of the shutdown, for any *)
(* values of them: what the drain can take of the shutdown's context, and  *)
(* which handlers can outlive it.  Nothing is assumed of ReadTimeout, and  *)
(* of the others what the code's constants satisfy: 20 s and 5 s are less  *)
(* than 30 s.  What does not depend on the timeouts is at the end: the     *)
(* types, and that main only returns once the backend is closed.           *)
(***************************************************************************)
EXTENDS Server, TLAPS

-----------------------------------------------------------------------------
(* The inductive invariant: its parts say what is left of each timer.      *)

Probing(p) == req[p] \in {"asking", "sawUp", "sawDown"}

\* A timer never holds more than it was set to.
TimersBounded ==
    /\ \A r \in Requests : req[r] = "reading" => left[r] \in 0 .. ReadTimeout
    /\ \A r \in Requests : req[r] = "saving" => left[r] \in 0 .. SaveTimeout
    /\ \A p \in Probes : Probing(p) => left[p] \in 0 .. ProbeTimeout
    /\ sig = "shutdown" => shutdownLeft = ShutdownTimeout

\* What handler h may take from the moment the listener is closed.
Allowance(h) == LongestHandler + IF h \in late THEN ReadTimeout ELSE 0

\* While the server drains, what a handler has left and what is gone of the
\* shutdown's context fit in the handler's allowance together.
HandlersFit ==
    /\ httpServer = "closed"
    /\ \A r \in Requests : req[r] = "reading" =>
          r \in late /\ left[r] + ShutdownTimeout <= shutdownLeft + ReadTimeout
    /\ \A h \in Handlers : Active(h) /\ req[h] # "reading" =>
          left[h] + ShutdownTimeout <= shutdownLeft + Allowance(h)

\* Time only passes while a handler is not done, so what is gone fits in the
\* allowance of one of them.
DrainingFits ==
    sig = "draining" =>
        HandlersFit /\ ShutdownTimeout <= shutdownLeft + LongestDrain

\* There is no server before Start makes one, so Start does not undo a Shutdown.
NoServerAtStart == main = "start" => httpServer = "nil"

\* The types the timers need.
TimerTypes ==
    /\ req \in [Handlers -> {"idle", "reading", "saving", "200", "400", "500",
                           "asking", "sawUp", "sawDown"}]
    /\ \A r \in Requests : ~Probing(r)
    /\ \A p \in Probes : req[p] \notin {"reading", "saving"}
    /\ left \in [Handlers -> Nat]
    /\ shutdownLeft \in Nat
    /\ late \subseteq Requests

BudgetInv == TimerTypes /\ TimersBounded /\ DrainingFits /\ NoServerAtStart

-----------------------------------------------------------------------------
\* The longest handler is a Save or a probe.
LEMMA LongestType ==
    /\ LongestHandler \in Nat /\ LongestHandler < ShutdownTimeout
    /\ SaveTimeout <= LongestHandler /\ ProbeTimeout <= LongestHandler
    /\ LongestDrain \in Nat
    /\ \A h \in Handlers : Allowance(h) \in Nat /\ Allowance(h) <= LongestDrain
                          /\ LongestHandler <= Allowance(h)
<1>1. /\ LongestHandler \in Nat /\ LongestHandler < ShutdownTimeout
      /\ SaveTimeout <= LongestHandler /\ ProbeTimeout <= LongestHandler
    BY ServerAssumption, TimeoutsAssumption DEF LongestHandler
<1> QED
    BY <1>1, ServerAssumption DEF LongestDrain, Allowance

\* Time passes for every timer that is not at zero.
LEMMA TickKeepsBudget ==
    ASSUME BudgetInv, Tick
    PROVE  BudgetInv'
<1> USE ServerAssumption DEF BudgetInv, Handlers, Probing
<1>1. \A h \in Handlers : Active(h) => left[h] > 0
    BY DEF Tick, Urgent, TimerTypes
<1>2. sig \in {"draining", "closing"} => shutdownLeft > 0
    BY DEF Tick, Urgent, TimerTypes
<1>3. \A h \in Handlers : left'[h] = IF Active(h) THEN left[h] - 1 ELSE left[h]
    BY DEF Tick
<1>4. TimerTypes'
    BY <1>1, <1>2 DEF Tick, TimerTypes, ghosts
<1>5. TimersBounded'
    BY <1>1, <1>3 DEF Tick, TimersBounded, TimerTypes, Active
<1>6. DrainingFits'
  <2> SUFFICES ASSUME sig' = "draining"
               PROVE  HandlersFit' /\ ShutdownTimeout <= shutdownLeft' + LongestDrain'
      BY DEF DrainingFits
  <2>1. /\ HandlersFit /\ shutdownLeft' = shutdownLeft - 1 /\ req' = req /\ late' = late
        /\ httpServer' = httpServer /\ sig = "draining" /\ LongestDrain' = LongestDrain
      BY DEF Tick, DrainingFits, ghosts, LongestDrain
  <2>2. PICK h \in Handlers : Active(h)
      BY <2>1 DEF Tick, Urgent, Idle
  <2>3. HandlersFit'
      BY <1>1, <1>3, <2>1, LongestType DEF HandlersFit, Active, TimerTypes, Allowance
  <2>4. left'[h] \in Nat /\ left'[h] + ShutdownTimeout <= shutdownLeft' + LongestDrain
    <3>1. left'[h] \in Nat /\ left'[h] = left[h] - 1 /\ left[h] \in Nat /\ shutdownLeft \in Nat
        BY <1>1, <1>3, <2>2 DEF TimerTypes
    <3>2. CASE req[h] = "reading"
      <4>1. h \in Requests
          BY <2>2, <3>2 DEF TimerTypes
      <4>2. h \in late /\ left[h] + ShutdownTimeout <= shutdownLeft + ReadTimeout
          BY <2>1, <3>2, <4>1 DEF HandlersFit
      <4>3. LongestDrain = LongestHandler + ReadTimeout
          BY <4>2 DEF LongestDrain
      <4> QED
          BY <2>1, <3>1, <4>2, <4>3, LongestType
    <3>3. CASE req[h] # "reading"
      <4>1. left[h] + ShutdownTimeout <= shutdownLeft + Allowance(h)
          BY <2>1, <2>2, <3>3 DEF HandlersFit
      <4> QED
          BY <2>1, <3>1, <4>1, LongestType
    <3> QED
        BY <3>2, <3>3
  <2>5. ShutdownTimeout <= shutdownLeft' + LongestDrain'
      BY <2>1, <2>4, LongestType, <1>4 DEF TimerTypes
  <2> QED
      BY <2>3, <2>5
<1> QED
    BY <1>4, <1>5, <1>6 DEF Tick, NoServerAtStart

\* A request that is read in time leaves its Save the time it needs.
LEMMA HandlerKeepsBudget ==
    ASSUME BudgetInv, NEW r \in Requests, Receive(r) \/ Handler(r)
    PROVE  BudgetInv'
<1> USE ServerAssumption, LongestType
        DEF BudgetInv, TimerTypes, TimersBounded, DrainingFits, HandlersFit,
            NoServerAtStart, Handlers, Probing, Active, Allowance, LongestDrain, ghosts
<1>1. CASE Receive(r)
    BY <1>1 DEF Receive
<1>2. CASE BadRequest(r)
    BY <1>2 DEF BadRequest
<1>3. CASE Save(r)
    BY <1>3 DEF Save
<1>4. CASE Saved(r)
    BY <1>4 DEF Saved
<1>5. CASE SaveFailed(r)
    BY <1>5 DEF SaveFailed
<1> QED
    BY <1>1, <1>2, <1>3, <1>4, <1>5 DEF Handler

\* A probe is shorter than the shutdown, and no webhook handler.
LEMMA ProbeKeepsBudget ==
    ASSUME BudgetInv, NEW p \in Probes, Probe(p) \/ ProbeHandler(p)
    PROVE  BudgetInv'
<1> USE ServerAssumption, LongestType
        DEF BudgetInv, TimerTypes, TimersBounded, DrainingFits, HandlersFit,
            NoServerAtStart, Handlers, Probing, Active, Allowance, LongestDrain, ghosts
<1>1. CASE Probe(p)
    BY <1>1 DEF Probe
<1>2. CASE Checked(p)
    BY <1>2 DEF Checked
<1>3. CASE SetGauge(p)
    BY <1>3 DEF SetGauge
<1> QED
    BY <1>1, <1>2, <1>3 DEF ProbeHandler

LEMMA BudgetInductive ==
    ASSUME BudgetInv, [Next]_vars
    PROVE  BudgetInv'
<1> USE ServerAssumption, LongestType
        DEF BudgetInv, TimerTypes, TimersBounded, DrainingFits, HandlersFit,
            NoServerAtStart, Handlers, Probing, Active, Allowance, LongestDrain, ghosts
<1>1. CASE StartServer \/ Listen \/ ListenFails \/ ServeReturns \/ Exit \/ Notify
    BY <1>1 DEF StartServer, Listen, ListenFails, ServeReturns, Exit, Notify
<1>2. CASE Signal
    BY <1>2 DEF Signal
<1>3. CASE Shutdown
    BY <1>3 DEF Shutdown
<1>4. CASE Drained \/ Closed
    BY <1>4 DEF Drained, Closed
<1>5. CASE \E r \in Requests : Receive(r) \/ Handler(r)
    BY <1>5, HandlerKeepsBudget
<1>6. CASE \E p \in Probes : Probe(p) \/ ProbeHandler(p)
    BY <1>6, ProbeKeepsBudget
<1>7. CASE Tick
    BY <1>7, TickKeepsBudget
<1>8. CASE BackendChanges \/ UNCHANGED vars
    BY <1>8 DEF BackendChanges, vars
<1> QED
    BY <1>1, <1>2, <1>3, <1>4, <1>5, <1>6, <1>7, <1>8 DEF Next

\* server.go:22-24: driver.Close is called with all of the shutdown's time left but
\* what the longest handler takes, or the longest handler and the read of its
\* request when one was being read.  Where ReadTimeout + SaveTimeout is less than
\* ShutdownTimeout that is some; the code's constants only leave some without the
\* read.
THEOREM CloseKeepsItsMargin == Spec => CloseKeepsMargin
<1>1. Init => BudgetInv
    BY DEF Init, BudgetInv, TimerTypes, TimersBounded, DrainingFits, NoServerAtStart,
           Handlers, Probing
<1>2. BudgetInv /\ [Next]_vars => BudgetInv'
    BY BudgetInductive
<1>3. BudgetInv /\ [Next]_vars
        => [driver = "open" /\ driver' = "closing"
              => shutdownLeft + LongestDrain >= ShutdownTimeout]_vars
  <2> SUFFICES ASSUME BudgetInv, Next, driver = "open", driver' = "closing"
               PROVE  shutdownLeft + LongestDrain >= ShutdownTimeout
      OBVIOUS
  <2>1. CASE Shutdown
    <3>1. shutdownLeft = ShutdownTimeout
        BY <2>1 DEF Shutdown, BudgetInv, TimersBounded
    <3> QED
        BY <3>1, ServerAssumption, LongestType
  <2>2. CASE Drained
    <3>1. shutdownLeft \in Nat /\ ShutdownTimeout <= shutdownLeft + LongestDrain
        BY <2>2 DEF Drained, BudgetInv, DrainingFits, TimerTypes
    <3> QED
        BY <3>1, ServerAssumption, LongestType
  <2>3. CASE ~Shutdown /\ ~Drained
      BY <2>3 DEF Next, StartServer, Listen, ListenFails, ServeReturns, Exit, Notify,
                  Signal, Closed, Receive, Handler, BadRequest, Save, Saved, SaveFailed,
                  Probe, ProbeHandler, Checked, SetGauge, BackendChanges, health, Tick
  <2> QED
      BY <2>1, <2>2, <2>3
<1> QED
    BY <1>1, <1>2, <1>3, PTL DEF Spec, CloseKeepsMargin

-----------------------------------------------------------------------------
(* Signals that come once the server listens: an early one changes none of *)
(* what is said here, because its `signalled' never becomes "serving".     *)

\* While no signal has come, or one came to a server that listens, what the
\* signal goroutine has done says what became of the server; the handlers that are
\* left when the backend is closed are late.
OrderlyInv ==
    /\ signalled = "not" => sig \in {"spawned", "waiting"}
    /\ signalled = "not" /\ main = "serving" => httpServer = "serving"
    /\ signalled # "serving" \/ main \notin {"start", "listen"}
    /\ signalled = "serving" /\ Running =>
          /\ sig \in {"shutdown", "draining", "closing", "done"}
          /\ sig = "shutdown" => httpServer = "serving"
          /\ sig \in {"draining", "closing", "done"} => httpServer = "closed"
          /\ sig \in {"closing", "done"} => \A h \in Handlers : Active(h) => h \in late
    /\ driver # "open" => sig \in {"closing", "done"}

\* Only here does the order of the signal and the listener matter.
LEMMA OrderlyInductive ==
    ASSUME BudgetInv, OrderlyInv, [Next]_vars
    PROVE  OrderlyInv'
<1> USE DEF OrderlyInv, Idle, Active, Running, Handlers, ghosts
<1>1. CASE StartServer \/ Listen
    BY <1>1 DEF StartServer, Listen, BudgetInv, NoServerAtStart
<1>2. CASE ListenFails \/ ServeReturns \/ Exit \/ Notify
    BY <1>2 DEF ListenFails, ServeReturns, Exit, Notify
<1>3. CASE Signal
    BY <1>3 DEF Signal
<1>4. CASE Shutdown
    BY <1>4 DEF Shutdown
<1>5. CASE Drained
  <2>1. ASSUME sig = "draining", shutdownLeft = 0, NEW h \in Handlers, Active(h)
        PROVE  h \in late
    <3>1. HandlersFit /\ left[h] \in Nat
        BY <2>1 DEF BudgetInv, DrainingFits, TimerTypes
    <3>2. CASE req[h] = "reading"
        BY <3>1, <3>2 DEF HandlersFit, BudgetInv, TimerTypes
    <3>3. CASE req[h] # "reading"
      <4>1. left[h] + ShutdownTimeout <= Allowance(h)
          BY <2>1, <3>1, <3>3, LongestType DEF HandlersFit
      <4> QED
          BY <3>1, <4>1, LongestType, ServerAssumption DEF Allowance
    <3> QED
        BY <3>2, <3>3
  <2>2. \A h \in Handlers : Active(h) => h \in late
      BY <1>5, <2>1 DEF Drained
  <2> QED
      BY <1>5, <2>2 DEF Drained, BudgetInv, DrainingFits, HandlersFit
<1>6. CASE Closed
    BY <1>6 DEF Closed
<1>7. ASSUME NEW r \in Requests, Receive(r) \/ Handler(r)
      PROVE  OrderlyInv'
  <2>1. CASE Receive(r)
      BY <2>1 DEF Receive, BudgetInv, TimerTypes
  <2>2. CASE Handler(r)
      BY <2>2 DEF Handler, BadRequest, Save, Saved, SaveFailed, BudgetInv, TimerTypes
  <2> QED
      BY <1>7, <2>1, <2>2
<1>8. ASSUME NEW p \in Probes, Probe(p) \/ ProbeHandler(p)
      PROVE  OrderlyInv'
    BY <1>8 DEF Probe, ProbeHandler, Checked, SetGauge, BudgetInv, TimerTypes
<1>9. CASE Tick \/ BackendChanges \/ UNCHANGED vars
    BY <1>9 DEF Tick, BackendChanges, vars
<1> QED
    BY <1>1, <1>2, <1>3, <1>4, <1>5, <1>6, <1>7, <1>8, <1>9 DEF Next

\* main.go:215-217: after a signal to a server that listens, the backend is only
\* closed under handlers whose request was still being read at the start of the
\* shutdown; a Save that had begun, and every probe, is over.
THEOREM OnlyLateHandlersAreCut == Spec => []OnlyLateOnClosedBackend
<1>1. Init => BudgetInv /\ OrderlyInv
    BY DEF Init, BudgetInv, TimerTypes, TimersBounded, DrainingFits, NoServerAtStart,
           OrderlyInv, Handlers, Probing
<1>2. BudgetInv /\ OrderlyInv /\ [Next]_vars => BudgetInv' /\ OrderlyInv'
    BY BudgetInductive, OrderlyInductive
<1>3. OrderlyInv => OnlyLateOnClosedBackend
    BY DEF OrderlyInv, OnlyLateOnClosedBackend
<1> QED
    BY <1>1, <1>2, <1>3, PTL DEF Spec

-----------------------------------------------------------------------------
(* Types and the order of the end: whatever the timeouts and the moment of *)
(* the signal.                                                             *)

\* A timer at zero is urgent, so no timer goes below; main leaves its wait only
\* behind the signal goroutine, and that one only behind driver.Close.
EndInv ==
    /\ TypeOK
    /\ sig = "done" => driver = "closed"
    /\ main = "exited" => sig = "done"

LEMMA InitEndInv == Init => EndInv
  BY DEF Init, EndInv, TypeOK

LEMMA TickKeepsEndInv == EndInv /\ Tick => EndInv'
<1> SUFFICES ASSUME EndInv, Tick PROVE EndInv'
    OBVIOUS
<1> USE DEF EndInv
<1>1. UNCHANGED <<main, sig, signalled, late, httpServer, req, driver, checker, gauge>>
    BY DEF Tick, health, ghosts
<1>2. left' \in [Handlers -> Nat]
  <2>1. left' = [h \in Handlers |-> IF Active(h) THEN left[h] - 1 ELSE left[h]]
      BY DEF Tick
  <2>2. \A h \in Handlers : left[h] \in Nat /\ (Active(h) => left[h] # 0)
      BY DEF Tick, Urgent, TypeOK
  <2> QED
      BY <2>1, <2>2
<1>3. shutdownLeft' \in Nat
  <2>1. sig \in {"draining", "closing"} => shutdownLeft # 0
      BY DEF Tick, Urgent
  <2>2. shutdownLeft \in Nat
      BY DEF TypeOK
  <2> QED
      BY <2>1, <2>2 DEF Tick
<1> QED
    BY <1>1, <1>2, <1>3 DEF TypeOK

LEMMA NextEndInv == EndInv /\ [Next]_vars => EndInv'
<1> SUFFICES ASSUME EndInv, [Next]_vars PROVE EndInv'
    OBVIOUS
<1> USE ServerAssumption DEF EndInv, TypeOK, health, ghosts
<1>1. CASE StartServer \/ Listen \/ ListenFails \/ ServeReturns \/ Exit \/ Notify
    BY <1>1 DEF StartServer, Listen, ListenFails, ServeReturns, Exit, Notify, Running
<1>2. CASE Signal
    BY <1>2 DEF Signal, Running
<1>3. CASE Shutdown
    BY <1>3 DEF Shutdown
<1>4. CASE Drained \/ Closed
    BY <1>4 DEF Drained, Closed
<1>5. ASSUME NEW r \in Requests, Receive(r) \/ Handler(r)
      PROVE  EndInv'
  <2>1. r \in Handlers
      BY DEF Handlers
  <2> QED
      BY <1>5, <2>1 DEF Receive, Handler, BadRequest, Save, Saved, SaveFailed
<1>6. ASSUME NEW p \in Probes, Probe(p) \/ ProbeHandler(p)
      PROVE  EndInv'
  <2>1. p \in Handlers
      BY DEF Handlers
  <2> QED
      BY <1>6, <2>1 DEF Probe, ProbeHandler, Checked, SetGauge
<1>7. CASE Tick
    BY <1>7, TickKeepsEndInv
<1>8. CASE BackendChanges
  <2>1. checker' \in {"up", "down", "none"}
      BY <1>8, Zenon DEF BackendChanges
  <2>2. UNCHANGED <<main, sig, ghosts, httpServer, req, left, shutdownLeft, driver, gauge>>
      BY <1>8 DEF BackendChanges
  <2> QED
      BY <2>1, <2>2
<1>9. CASE UNCHANGED vars
    BY <1>9 DEF vars
<1> QED
    BY <1>1, <1>2, <1>3, <1>4, <1>5, <1>6, <1>7, <1>8, <1>9 DEF Next

LEMMA EndInvHolds == Spec => []EndInv
    BY InitEndInv, NextEndInv, PTL DEF Spec

\* Every variable keeps its type, whatever the timeouts: no timer runs below zero.
THEOREM ServerTypeCorrect == Spec => []TypeOK
<1>1. EndInv => TypeOK
    BY DEF EndInv
<1> QED
    BY <1>1, EndInvHolds, PTL

\* main.go:215-217: a process that ends by itself after a signal has closed its
\* backend, whenever the signal came and whatever the timeouts.
THEOREM ExitIsOrderly == Spec => []ExitClosesBackend
<1>1. EndInv => ExitClosesBackend
    BY DEF EndInv, ExitClosesBackend
<1> QED
    BY <1>1, EndInvHolds, PTL

=============================================================================
