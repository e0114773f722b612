------------------------------- MODULE Server -------------------------------
(***************************************************************************)
(* The life of the process around its backend: main.run (main.go), the     *)
(* HTTP server it starts and shuts down, the webhook handler and the two   *)
(* probes with the DatabaseUp gauge (internal/server/server.go).  Three    *)
(* kinds of goroutine run: main, the one that waits for a signal, and a    *)
(* handler per request.                                                    *)
(*                                                                         *)
(* Time matters here: the timeouts of the server, of a Save and of the     *)
(* shutdown are set against each other.  Each is a timer that counts down, *)
(* and Tick lets time pass for all of them; what a goroutine does when its *)
(* timer is at zero happens before the next tick.  net/http and the        *)
(* backend are external.                                                   *)
(***************************************************************************)
EXTENDS Naturals, FiniteSets

CONSTANTS
    Requests,        \* POSTs to /webhook
    Probes,          \* clients of the probes; a client asks again and again
    ReadTimeout,     \* of the http.Server: the whole request is read in it
    SaveTimeout,     \* saveTimeout
    ProbeTimeout,    \* probeTimeout
    ShutdownTimeout  \* shutdownTimeout

ASSUME ServerAssumption ==
    /\ ReadTimeout \in Nat \ {0} /\ SaveTimeout \in Nat \ {0}
    /\ ProbeTimeout \in Nat \ {0} /\ ShutdownTimeout \in Nat \ {0}
    /\ Requests \cap Probes = {}

\* server.go:22-26: saveTimeout is "kept strictly below main.shutdownTimeout", and
\* probeTimeout is too.  Nothing is assumed of ReadTimeout.
ASSUME TimeoutsAssumption ==
    SaveTimeout < ShutdownTimeout /\ ProbeTimeout < ShutdownTimeout

Handlers == Requests \cup Probes

VARIABLES
    main,         \* where main is, in run
    sig,          \* where the signal goroutine is
    signalled,    \* ghost: the signal came "early", to a server that "serves", or "not"
    httpServer,   \* s.httpServer, and whether it listens or was shut down
    req,          \* handler -> where it is, or its answer
    left,         \* handler -> time left to what it is doing
    shutdownLeft, \* time left to the context of the shutdown
    driver,       \* the backend: "open", "closing" or "closed"
    checker,      \* the backend's health check: it finds it "up" or "down" (in its
                  \* timeout), or there is "none", as the backend has no HealthChecker
    gauge,        \* metrics.DatabaseUp
    late          \* ghost: the requests still being read when the listener closed

vars == <<main, sig, signalled, httpServer, req, left, shutdownLeft, driver,
          checker, gauge, late>>

health == <<checker, gauge>>
ghosts == <<signalled, late>>

\* server.go:180-182: without a HealthChecker it counts as always reachable.
Reachable == checker # "down"

Active(h) == req[h] \in {"reading", "saving", "asking", "sawUp", "sawDown"}
Running == main \notin {"exited", "fatal", "killed"}

Init ==
    /\ main = "start"
    /\ sig = "spawned"
    /\ signalled = "not"
    /\ httpServer = "nil"
    /\ req = [h \in Handlers |-> "idle"]
    /\ left = [h \in Handlers |-> 0]
    /\ shutdownLeft = 0
    /\ driver = "open"
    /\ checker \in {"up", "down", "none"} /\ gauge = 0
    /\ late = {}

-----------------------------------------------------------------------------
(* main: Start, then the wait for the signal goroutine *)

\* Start assigns s.httpServer.
StartServer ==
    /\ main = "start"
    /\ main' = "listen" /\ httpServer' = "set"
    /\ UNCHANGED <<sig, ghosts, req, left, shutdownLeft, driver, health>>

\* ListenAndServe: at once ErrServerClosed if Shutdown came first.
Listen ==
    /\ main = "listen"
    /\ IF httpServer = "closed"
       THEN main' = "wait" /\ UNCHANGED httpServer
       ELSE main' = "serving" /\ httpServer' = "serving"
    /\ UNCHANGED <<sig, ghosts, req, left, shutdownLeft, driver, health>>

\* It cannot listen: logrus.Fatalf ends the process.
ListenFails ==
    /\ main = "listen"
    /\ main' = "fatal"
    /\ UNCHANGED <<sig, ghosts, httpServer, req, left, shutdownLeft, driver, health>>

\* ListenAndServe returns ErrServerClosed as soon as Shutdown is called.
ServeReturns ==
    /\ main = "serving" /\ httpServer = "closed"
    /\ main' = "wait"
    /\ UNCHANGED <<sig, ghosts, httpServer, req, left, shutdownLeft, driver, health>>

\* Mutant: main does not wait for the signal goroutine.
ExitAtOnce ==
    /\ main = "wait"
    /\ main' = "exited"
    /\ UNCHANGED <<sig, ghosts, httpServer, req, left, shutdownLeft, driver, health>>

\* <-stopped
Exit ==
    /\ main = "wait" /\ sig = "done"
    /\ main' = "exited"
    /\ UNCHANGED <<sig, ghosts, httpServer, req, left, shutdownLeft, driver, health>>

-----------------------------------------------------------------------------
(* The signal goroutine *)

Notify ==
    /\ Running /\ sig = "spawned"
    /\ sig' = "waiting"
    /\ UNCHANGED <<main, ghosts, httpServer, req, left, shutdownLeft, driver, health>>

\* SIGINT or SIGTERM.  Before Notify it kills the process; the second one is not
\* read by anybody.
Signal ==
    /\ Running /\ signalled = "not"
    /\ signalled' = IF main = "serving" THEN "serving" ELSE "early"
    /\ IF sig = "waiting"
       THEN /\ sig' = "shutdown" /\ shutdownLeft' = ShutdownTimeout
            /\ UNCHANGED main
       ELSE main' = "killed" /\ UNCHANGED <<sig, shutdownLeft>>
    /\ UNCHANGED <<httpServer, req, left, driver, health, late>>

\* Mutant: s.Shutdown does not check that there is a server.
ShutdownWithoutCheck ==
    /\ Running /\ sig = "shutdown"
    /\ IF httpServer = "nil"
       THEN main' = "panicked" /\ UNCHANGED <<sig, httpServer>>
       ELSE sig' = "draining" /\ httpServer' = "closed" /\ UNCHANGED main
    /\ UNCHANGED <<ghosts, req, left, shutdownLeft, driver, health>>

\* s.Shutdown: nothing to do while there is no server, else its listener is closed.
Shutdown ==
    /\ Running /\ sig = "shutdown"
    /\ \/ /\ httpServer = "nil"
          /\ sig' = "closing" /\ driver' = "closing"
          /\ UNCHANGED <<httpServer, late>>
       \/ /\ httpServer # "nil"
          /\ sig' = "draining" /\ httpServer' = "closed"
          /\ late' = {r \in Requests : req[r] = "reading"}
          /\ UNCHANGED driver
    /\ UNCHANGED <<main, signalled, req, left, shutdownLeft, health>>

\* Mutant: http.Server.Close in place of Shutdown.
IdleOrNot == TRUE

\* No handler is running.
Idle == \A h \in Handlers : ~Active(h)

\* http.Server.Shutdown returns, its handlers done or its context over, and
\* driver.Close is called with what is left of the context.
Drained ==
    /\ Running /\ sig = "draining"
    /\ Idle \/ shutdownLeft = 0
    /\ sig' = "closing" /\ driver' = "closing"
    /\ UNCHANGED <<main, ghosts, httpServer, req, left, shutdownLeft, health>>

\* Mutant: stopped is not closed.
ClosedSilently ==
    /\ Running /\ sig = "closing"
    /\ driver' = "closed"
    /\ UNCHANGED <<main, sig, ghosts, httpServer, req, left, shutdownLeft, health>>

\* driver.Close returns, within its context; close(stopped).
Closed ==
    /\ Running /\ sig = "closing"
    /\ sig' = "done" /\ driver' = "closed"
    /\ UNCHANGED <<main, ghosts, httpServer, req, left, shutdownLeft, health>>

-----------------------------------------------------------------------------
(* webhookPost, one goroutine per request *)

Receive(r) ==
    /\ Running /\ httpServer = "serving" /\ req[r] = "idle"
    /\ req' = [req EXCEPT ![r] = "reading"]
    /\ left' = [left EXCEPT ![r] = ReadTimeout]
    /\ UNCHANGED <<main, sig, ghosts, httpServer, shutdownLeft, driver, health>>

\* The body does not come, does not parse, or has another version.
BadRequest(r) ==
    /\ Running /\ req[r] = "reading"
    /\ req' = [req EXCEPT ![r] = "400"]
    /\ UNCHANGED <<main, sig, ghosts, httpServer, left, shutdownLeft, driver, health>>

\* Mutant: the time a Save takes is not bounded apart from the request's.
SaveForShutdownTimeout(r) ==
    /\ Running /\ req[r] = "reading"
    /\ req' = [req EXCEPT ![r] = "saving"]
    /\ left' = [left EXCEPT ![r] = ShutdownTimeout]
    /\ UNCHANGED <<main, sig, ghosts, httpServer, shutdownLeft, driver, health>>

\* The body is read, at the latest when ReadTimeout passes; the context of the
\* Save is not the request's.
Save(r) ==
    /\ Running /\ req[r] = "reading"
    /\ req' = [req EXCEPT ![r] = "saving"]
    /\ left' = [left EXCEPT ![r] = SaveTimeout]
    /\ UNCHANGED <<main, sig, ghosts, httpServer, shutdownLeft, driver, health>>

\* Save returns, within its context.
Saved(r) ==
    /\ Running /\ req[r] = "saving"
    /\ req' = [req EXCEPT ![r] = "200"]
    /\ UNCHANGED <<main, sig, ghosts, httpServer, left, shutdownLeft, driver, health>>

SaveFailed(r) ==
    /\ Running /\ req[r] = "saving"
    /\ req' = [req EXCEPT ![r] = "500"]
    /\ UNCHANGED <<main, sig, ghosts, httpServer, left, shutdownLeft, driver, health>>

-----------------------------------------------------------------------------
(* healthyProbe and readyProbe, which differ in their answer alone *)

Probe(p) ==
    /\ Running /\ httpServer = "serving" /\ req[p] = "idle"
    /\ req' = [req EXCEPT ![p] = "asking"]
    /\ left' = [left EXCEPT ![p] = ProbeTimeout]
    /\ UNCHANGED <<main, sig, ghosts, httpServer, shutdownLeft, driver, health>>

\* The health check returns, within its context.
Checked(p) ==
    /\ Running /\ req[p] = "asking"
    /\ req' = [req EXCEPT ![p] = IF Reachable THEN "sawUp" ELSE "sawDown"]
    /\ UNCHANGED <<main, sig, ghosts, httpServer, left, shutdownLeft, driver, health>>

\* Mutant: a failed check leaves the gauge as it is.
SetGaugeUp(p) ==
    /\ Running /\ req[p] \in {"sawUp", "sawDown"}
    /\ gauge' = IF req[p] = "sawUp" THEN 1 ELSE gauge
    /\ req' = [req EXCEPT ![p] = "idle"]
    /\ UNCHANGED <<main, sig, ghosts, httpServer, left, shutdownLeft, driver, checker>>

\* probe sets the gauge to what it saw, and the handler answers.
SetGauge(p) ==
    /\ Running /\ req[p] \in {"sawUp", "sawDown"}
    /\ gauge' = IF req[p] = "sawUp" THEN 1 ELSE 0
    /\ req' = [req EXCEPT ![p] = "idle"]
    /\ UNCHANGED <<main, sig, ghosts, httpServer, left, shutdownLeft, driver, checker>>

\* The backend is lost or back.
BackendChanges ==
    /\ Running
    /\ \/ checker = "up" /\ checker' = "down"
       \/ checker = "down" /\ checker' = "up"
    /\ UNCHANGED <<main, sig, ghosts, httpServer, req, left, shutdownLeft, driver,
                   gauge>>

-----------------------------------------------------------------------------
\* What does not wait for time to pass: a timer at zero, the call of Shutdown,
\* a Shutdown whose handlers are done.
Urgent ==
    \/ \E h \in Handlers : Active(h) /\ left[h] = 0
    \/ sig = "shutdown"
    \/ sig = "draining" /\ (Idle \/ shutdownLeft = 0)
    \/ sig = "closing" /\ shutdownLeft = 0

Tick ==
    /\ Running /\ ~Urgent
    /\ \/ ~Idle
       \/ sig \in {"draining", "closing"}
    /\ left' = [h \in Handlers |-> IF Active(h) THEN left[h] - 1 ELSE left[h]]
    /\ shutdownLeft' = IF sig \in {"draining", "closing"}
                       THEN shutdownLeft - 1 ELSE shutdownLeft
    /\ UNCHANGED <<main, sig, ghosts, httpServer, req, driver, health>>

Handler(r) == BadRequest(r) \/ Save(r) \/ Saved(r) \/ SaveFailed(r)

ProbeHandler(p) == Checked(p) \/ SetGauge(p)

Next ==
    \/ StartServer \/ Listen \/ ListenFails \/ ServeReturns \/ Exit
    \/ Notify \/ Signal \/ Shutdown \/ Drained \/ Closed
    \/ \E r \in Requests : Receive(r) \/ Handler(r)
    \/ \E p \in Probes : Probe(p) \/ ProbeHandler(p)
    \/ BackendChanges
    \/ Tick

Spec == Init /\ [][Next]_vars

\* Goroutines run; a handler ends because its read and its Save have timeouts.
\* Nothing makes a signal, a request or a probe come.
FairSpec ==
    /\ Spec
    /\ WF_vars(StartServer) /\ WF_vars(Listen \/ ListenFails)
    /\ WF_vars(ServeReturns) /\ WF_vars(Exit)
    /\ WF_vars(Notify) /\ WF_vars(Shutdown) /\ WF_vars(Drained) /\ WF_vars(Closed)
    /\ \A r \in Requests : WF_vars(Handler(r))
    /\ \A p \in Probes : WF_vars(ProbeHandler(p))

-----------------------------------------------------------------------------
(* Correctness *)

\* The type of every variable.
TypeOK ==
    /\ main \in {"start", "listen", "serving", "wait", "exited", "fatal", "killed"}
    /\ sig \in {"spawned", "waiting", "shutdown", "draining", "closing", "done"}
    /\ signalled \in {"not", "early", "serving"}
    /\ httpServer \in {"nil", "set", "serving", "closed"}
    /\ req \in [Handlers -> {"idle", "reading", "saving", "200", "400", "500",
                           "asking", "sawUp", "sawDown"}]
    /\ left \in [Handlers -> Nat]
    /\ shutdownLeft \in Nat
    /\ driver \in {"open", "closing", "closed"}
    /\ checker \in {"up", "down", "none"} /\ gauge \in {0, 1}
    /\ late \subseteq Requests

\* main.go:215-217: a process that ends after a signal has closed its backend.
ExitClosesBackend == main = "exited" => driver = "closed"

\* main.go:215-217, "drains in-flight requests and then flushes/closes the backend":
\* no handler of a server that was listening when the signal came uses a backend
\* that is being closed.
NoHandlerOnClosedBackend ==
    (Running /\ signalled = "serving" /\ driver # "open") =>
        \A h \in Handlers : ~Active(h)

\* What the program keeps of it: a handler outlives the drain only if its request
\* was still being read when the listener closed; every probe, and every Save
\* that had begun by then, is over before driver.Close is called.
OnlyLateOnClosedBackend ==
    (Running /\ signalled = "serving" /\ driver # "open") =>
        \A h \in Handlers : Active(h) => h \in late

\* What the drain can take: the longest handler, behind the read of its request if
\* that was not over when the listener closed.
LongestHandler == IF SaveTimeout > ProbeTimeout THEN SaveTimeout ELSE ProbeTimeout
LongestDrain == LongestHandler + IF late = {} THEN 0 ELSE ReadTimeout

\* server.go:22-24, what the program keeps of it: no more than the longest drain is
\* gone of the shutdown's context when driver.Close is called, so 10 s of the 30
\* are left when every request had been read.
CloseKeepsMargin ==
    [][driver = "open" /\ driver' = "closing"
        => shutdownLeft + LongestDrain >= ShutdownTimeout]_vars

\* main.go:215-217: a signal to a server that listens ends the process, its
\* requests drained or not.
ServingSignalEndsProcess == (signalled = "serving") ~> ~Running

Gauged == \E p \in Probes : SetGauge(p)

\* server.go:180-182, reachability is reflected into the DatabaseUp gauge: once
\* the backend stays as it is, lost or back, and probes keep coming, the gauge
\* says so for good, whatever probes were in flight meanwhile.
GaugeFollowsBackend ==
    \A b \in BOOLEAN :
        (<>[](Reachable = b) /\ []<><<Gauged>>_vars) => <>[](gauge = IF b THEN 1 ELSE 0)

\* main.go:215-217, "on SIGINT/SIGTERM it drains in-flight requests and then
\* flushes/closes the backend": whenever the signal comes, the process ends.
SignalEndsProcess == (signalled # "not") ~> ~Running

=============================================================================
