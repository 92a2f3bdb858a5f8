---------------------------- MODULE ServiceProcess ----------------------------
(***************************************************************************)
(* The life of one process of the service: run in cmd/api/main.go, the two *)
(* HTTP servers it starts, the request handlers, the background workers,   *)
(* and the connection pool they share, from the first connection to the    *)
(* exit.  A shutdown is driven by a signal, by a listener that fails, or   *)
(* by a step of the start that fails.  Time passes in ticks, as far as     *)
(* deadlines and the shutdown budget need it.                              *)
(***************************************************************************)
EXTENDS Integers, FiniteSets

CONSTANTS Requests,        \* requests that may arrive
          Deadline,        \* the deadline of each request, set by the router
          MetricsOn,       \* whether METRICS_PORT is not 0
          Workers,         \* the enabled background workers
          MaxConns,        \* connections of the pool
          ShutdownTimeout, \* the budget of a graceful shutdown
          MaxAge           \* bound: how long a handler may be at work

ASSUME ProcessAssumption ==
  /\ Deadline \in [Requests -> Nat \ {0}]
  /\ {MaxConns, ShutdownTimeout, MaxAge} \subseteq Nat \ {0}
  /\ MetricsOn \in BOOLEAN
  /\ IsFiniteSet(Requests) /\ IsFiniteSet(Workers)

VARIABLES pc,        \* where run is
          outcome,   \* how the process ended
          signalled, \* signalCtx is cancelled
          elapsed,   \* time since shutdownCtx was made
          pool,      \* the connection pool
          api,       \* the API server: its listener and its Serve goroutine
          req,       \* each request and its handler
          scrape,    \* a scrape in flight
          worker     \* each background worker

vars == <<pc, outcome, signalled, elapsed, pool, api, req, scrape, worker>>

Idle == [at |-> "none", age |-> 0, late |-> FALSE, cut |-> FALSE]

Init == /\ pc = "database"
        /\ outcome = "none"
        /\ signalled = FALSE
        /\ elapsed = 0
        /\ pool = "none"
        /\ api = "off"
        /\ req = [r \in Requests |-> Idle]
        /\ scrape = "none"
        /\ worker = [w \in Workers |-> "off"]

Alive == pc # "exited"

\* A handler that has not returned.
Active(r) == req[r].at \in {"running", "querying"}

\* Connections checked out of the pool.
Held == {r \in Requests : req[r].at = "querying"}
          \cup {w \in Workers : worker[w] = "querying"}

ConnFree == Cardinality(Held) < MaxConns

\* run returns: its deferred calls are next.
Returns(how) == pc' = "defers" /\ outcome' = how

-----------------------------------------------------------------------------
(***************************************************************************)
(* The start.                                                              *)
(***************************************************************************)

\* run returns before the deferred Close is in place.
ExitsWith(how) == pc' = "exited" /\ outcome' = how

\* database.New fails and leaves the pool it made open.
LeaksPool == pool' = "open" /\ ExitsWith("error")

\* database.New fails: the DSN does not parse, or the ping fails and New
\* closes the pool it made.
NewFails == pool' \in {"none", "closed"} /\ ExitsWith("error")

\* database.New under signalCtx: with the context cancelled the ping fails.
ConnectDatabase ==
  /\ pc = "database"
  /\ \/ ~signalled /\ pool' = "open" /\ pc' = "build" /\ UNCHANGED outcome
     \/ NewFails
  /\ UNCHANGED <<signalled, elapsed, api, req, scrape, worker>>

\* The clients, services and handlers; the workers start on their own
\* goroutines before run has a listener.
BuildComponents ==
  /\ pc = "build"
  /\ \/ pc' = "listen" /\ worker' = [w \in Workers |-> "waiting"] /\ UNCHANGED outcome
     \/ Returns("error") /\ UNCHANGED worker
  /\ UNCHANGED <<signalled, elapsed, pool, api, req, scrape>>

\* net.Listen for the API and for the metrics, then the Serve goroutines.
Listen ==
  /\ pc = "listen"
  /\ \/ pc' = "select" /\ api' = "serving" /\ UNCHANGED outcome
     \/ Returns("error") /\ UNCHANGED api
  /\ UNCHANGED <<signalled, elapsed, pool, req, scrape, worker>>

-----------------------------------------------------------------------------
(***************************************************************************)
(* The handlers, the scrapes and the workers.                              *)
(***************************************************************************)

Arrive(r) ==
  /\ Alive /\ api = "serving" /\ req[r].at = "none"
  /\ req' = [req EXCEPT ![r].at = "running", ![r].late = signalled]
  /\ UNCHANGED <<pc, outcome, signalled, elapsed, pool, api, scrape, worker>>

\* A handler that has run into its deadline does not start another statement.
Acquire(r) ==
  /\ Alive /\ req[r].at = "running" /\ ~req[r].cut
  /\ req[r].age < Deadline[r]
  /\ pool = "open" /\ ConnFree
  /\ req' = [req EXCEPT ![r].at = "querying"]
  /\ UNCHANGED <<pc, outcome, signalled, elapsed, pool, api, scrape, worker>>

\* A statement ends: with its result, or because its context is cancelled.
Release(r) ==
  /\ Alive /\ req[r].at = "querying"
  /\ req' = [req EXCEPT ![r].at = "running"]
  /\ UNCHANGED <<pc, outcome, signalled, elapsed, pool, api, scrape, worker>>

\* A handler returns, with an error when its deadline passed, its connection
\* was cut or the pool is closed.
Answer(r) ==
  /\ Alive /\ req[r].at = "running"
  /\ req' = [req EXCEPT ![r].at = "done"]
  /\ UNCHANGED <<pc, outcome, signalled, elapsed, pool, api, scrape, worker>>

\* The metrics server takes scrapes until its Shutdown is called.  A scrape
\* has no deadline of its own and may hang.
Scrape ==
  /\ \/ /\ MetricsOn /\ scrape = "none"
        /\ pc = "select" \/ (Alive /\ api # "off" /\ outcome = "error")
        /\ scrape' = "running"
     \/ Alive /\ scrape = "running" /\ scrape' = "done"
  /\ UNCHANGED <<pc, outcome, signalled, elapsed, pool, api, req, worker>>

\* Run of a worker: a pass starts with the timer and checks out a connection
\* for each statement; the context cancels what is left of the pass.
WorkerQuery(w) ==
  /\ Alive /\ worker[w] = "waiting" /\ ~signalled
  /\ pool = "open" /\ ConnFree
  /\ worker' = [worker EXCEPT ![w] = "querying"]
  /\ UNCHANGED <<pc, outcome, signalled, elapsed, pool, api, req, scrape>>

WorkerRelease(w) ==
  /\ Alive /\ worker[w] = "querying"
  /\ worker' = [worker EXCEPT ![w] = "waiting"]
  /\ UNCHANGED <<pc, outcome, signalled, elapsed, pool, api, req, scrape>>

WorkerStop(w) ==
  /\ Alive /\ worker[w] = "waiting" /\ signalled
  /\ worker' = [worker EXCEPT ![w] = "stopped"]
  /\ UNCHANGED <<pc, outcome, signalled, elapsed, pool, api, req, scrape>>

-----------------------------------------------------------------------------
(***************************************************************************)
(* The end.                                                                *)
(***************************************************************************)

\* The first SIGINT or SIGTERM cancels signalCtx.  Once run has called stop,
\* another one terminates the process; when run returns an error, stop is the
\* last deferred call.
Signal ==
  \/ /\ Alive /\ ~signalled
     /\ signalled' = TRUE
     /\ UNCHANGED <<pc, outcome, elapsed, pool, api, req, scrape, worker>>
  \/ /\ Alive /\ (pc \in {"metrics", "drain", "await"} \/ outcome = "ok")
     /\ pc' = "exited" /\ outcome' = "killed"
     /\ UNCHANGED <<signalled, elapsed, pool, api, req, scrape, worker>>

\* Accept fails for good: the Serve goroutine reports it on serveErr.
ServeFails ==
  /\ Alive /\ api = "serving"
  /\ api' = "failed"
  /\ UNCHANGED <<pc, outcome, signalled, elapsed, pool, req, scrape, worker>>

\* The select of run: a failed listener returns at once, a signal starts the
\* shutdown; with both it may be either.
Wake ==
  /\ pc = "select"
  /\ \/ api = "failed" /\ Returns("error")
     \/ signalled /\ pc' = "metrics" /\ UNCHANGED outcome
  /\ UNCHANGED <<signalled, elapsed, pool, api, req, scrape, worker>>

OutOfTime == elapsed = ShutdownTimeout

\* Shutdown without a budget waits for the scrape.
ScrapeOver == scrape # "running"

\* metricsSrv.Shutdown returns when no scrape is left or the budget is spent.
MetricsDown == scrape # "running" \/ OutOfTime

\* Until it returns the API server still takes requests; srv.Shutdown closes
\* its listener first.
DrainMetrics ==
  /\ pc = "metrics"
  /\ MetricsDown
  /\ pc' = "drain"
  /\ api' = IF api = "serving" THEN "closed" ELSE api
  /\ UNCHANGED <<outcome, signalled, elapsed, pool, req, scrape, worker>>

\* Shutdown gives the handlers no time.
NeverWaits == /\ \E r \in Requests : Active(r)
              /\ req' = [r \in Requests |-> [req[r] EXCEPT !.cut = Active(r)]]

\* srv.Shutdown gives up at the end of the budget, and srv.Close cuts the
\* connections of the handlers that are left, which go on.
ForceClose == /\ OutOfTime
              /\ \E r \in Requests : Active(r)
              /\ req' = [r \in Requests |-> [req[r] EXCEPT !.cut = Active(r)]]

\* Shutdown is not waited for.
NotAwaited == UNCHANGED req

\* srv.Shutdown returns when no handler is left.
Drained == (\A r \in Requests : ~Active(r)) /\ UNCHANGED req

DrainRequests ==
  /\ pc = "drain"
  /\ Drained \/ ForceClose
  /\ pc' = "await"
  /\ UNCHANGED <<outcome, signalled, elapsed, pool, api, scrape, worker>>

\* The last receive from serveErr: the Serve goroutine has returned by now.
AwaitServe ==
  /\ pc = "await"
  /\ Returns("ok")
  /\ UNCHANGED <<signalled, elapsed, pool, api, req, scrape, worker>>

\* The deferred db.Close begins: the pool hands out no connection any more.
StartClose ==
  /\ pc = "defers"
  /\ pc' = "closing"
  /\ pool' = "closing"
  /\ UNCHANGED <<outcome, signalled, elapsed, api, req, scrape, worker>>

AllReturned == Held = {}

\* It ends when every connection has been returned, and the process exits with
\* whatever goroutines are left.
Exit ==
  /\ pc = "closing"
  /\ AllReturned
  /\ pc' = "exited"
  /\ pool' = "closed"
  /\ UNCHANGED <<outcome, signalled, elapsed, api, req, scrape, worker>>

\* Time passes.  The deadline puts an end to a statement, as does a cut
\* connection; a handler in the middle of something that ignores its context
\* (the body of the request, a password hash) is not interrupted.
Tick ==
  /\ Alive
  /\ \A r \in Requests :
       /\ req[r].at = "querying" => req[r].age < Deadline[r] /\ ~req[r].cut
       /\ Active(r) => req[r].age < MaxAge
  /\ pc \in {"metrics", "drain"} => ~OutOfTime
  /\ \/ pc \in {"metrics", "drain"}
     \/ \E r \in Requests : Active(r)
  /\ req' = [r \in Requests |-> [req[r] EXCEPT !.age = IF Active(r) THEN @ + 1 ELSE @]]
  /\ elapsed' = IF pc \in {"metrics", "drain"} THEN elapsed + 1 ELSE elapsed
  /\ UNCHANGED <<pc, outcome, signalled, pool, api, scrape, worker>>

RunStep == \/ ConnectDatabase \/ BuildComponents \/ Listen \/ Wake \/ DrainMetrics
           \/ DrainRequests \/ AwaitServe \/ StartClose \/ Exit

HandlerEnds(r) == Release(r) \/ Answer(r)

Next == \/ RunStep
        \/ \E r \in Requests : Arrive(r) \/ Acquire(r) \/ HandlerEnds(r)
        \/ Scrape
        \/ \E w \in Workers : WorkerQuery(w) \/ WorkerRelease(w) \/ WorkerStop(w)
        \/ Signal
        \/ ServeFails
        \/ Tick

Spec == Init /\ [][Next]_vars

\* run goes on when it can, time passes, a statement ends (its context or the
\* statement timeout sees to it) and so does a handler.
LiveSpec == /\ Spec
            /\ WF_vars(RunStep)
            /\ WF_vars(Tick)
            /\ \A r \in Requests : WF_vars(Release(r)) /\ WF_vars(Answer(r))
            /\ \A w \in Workers : WF_vars(WorkerRelease(w))

-----------------------------------------------------------------------------

\* run, its servers and its workers are where the code can be, and the pool
\* hands out no more than MaxConns connections (database.New).
TypeOK ==
  /\ pc \in {"database", "build", "listen", "select", "metrics", "drain", "await",
            "defers", "closing", "exited"}
  /\ outcome \in {"none", "ok", "error", "killed"}
  /\ signalled \in BOOLEAN
  /\ elapsed \in 0 .. ShutdownTimeout
  /\ pool \in {"none", "open", "closing", "closed"}
  /\ api \in {"off", "serving", "failed", "closed"}
  /\ \A r \in Requests : /\ req[r].at \in {"none", "running", "querying", "done"}
                         /\ req[r].age \in 0 .. MaxAge
  /\ scrape \in {"none", "running", "done"}
  /\ worker \in [Workers -> {"off", "waiting", "querying", "stopped"}]
  /\ Cardinality(Held) <= MaxConns

\* "Drain HTTP first, then close the pool": while the pool closes, or after,
\* a handler is at work only if its connection was cut at the end of the
\* budget or if run returned because the listener failed.  (With the types.)
PoolOutlivesHandlers ==
  /\ TypeOK
  /\ pool \in {"closing", "closed"} =>
       \A r \in Requests : Active(r) => req[r].cut \/ outcome = "error"

\* A graceful shutdown gives a request that was there at the signal its whole
\* budget: one that is cut has been at work for that long.  If its deadline is
\* shorter, its handler was past it, in work that ignores the context.  Only a
\* request that came after the signal gets less; the API server accepts it for
\* as long as a scrape holds up the metrics server.
ShutdownKeepsRequests ==
  \A r \in Requests :
    req[r].cut => req[r].age >= ShutdownTimeout \/ req[r].late

\* A process that was not killed leaves no pool open and no connection checked
\* out when it exits, whichever step of the start or the end failed.
ExitLeavesNothingOpen ==
  pc = "exited" /\ outcome # "killed" =>
    pool \in {"none", "closed"} /\ Held = {}

\* After a signal the process exits, whatever requests, scrapes and workers
\* are doing.
SignalEndsProcess == signalled ~> (pc = "exited")

=============================================================================
