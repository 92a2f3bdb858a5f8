------------------------ MODULE ServiceProcessProofs ------------------------
(***************************************************************************)
(* Proofs about ServiceProcess, for any requests and deadlines, workers,   *)
(* pool size and shutdown budget.                                          *)
(***************************************************************************)
EXTENDS ServiceProcess, FiniteSetTheorems, TLAPS

Handlers == [at : {"none", "running", "querying", "done"}, age : Nat,
             late : BOOLEAN, cut : BOOLEAN]

Starting == {"database", "build", "listen"}
Draining == {"metrics", "drain"}
Serving  == {"select", "await"} \cup Draining

(* Handlers are records, and TypeOK's other conjuncts.                     *)
TypeInv == TypeOK /\ req \in [Requests -> Handlers]

(* Where run is tells what the pool, the listener and the outcome are.     *)
RunInv ==
  /\ pc = "database" => pool = "none"
  /\ pc \in {"build", "listen", "defers"} \cup Serving => pool = "open"
  /\ pc = "closing" => pool = "closing"
  /\ pc \in Starting \cup Serving => outcome = "none"
  /\ pc \in {"defers", "closing"} => outcome \in {"ok", "error"}
  /\ pc = "exited" => outcome # "none"
  /\ pc \in Starting => api = "off" /\ \A r \in Requests : req[r].at = "none"
  /\ pc \in {"database", "build"} => \A w \in Workers : worker[w] = "off"
  /\ pc \in {"select", "metrics"} => api \in {"serving", "failed"}
  /\ pc = "drain" => api \in {"closed", "failed"}

(* Past the drain, and so when a graceful shutdown closes the pool, nobody *)
(* can arrive and whoever is left was cut; nobody is cut before arriving.  *)
Drain ==
  /\ pc = "await" \/ outcome = "ok" \/ (outcome = "killed" /\ pool # "open") =>
       api \in {"closed", "failed"} /\ \A r \in Requests : Active(r) => req[r].cut
  /\ \A r \in Requests : req[r].at = "none" => ~req[r].cut

(* The budget runs from the signal, and every request that was there then  *)
(* has aged with it.                                                       *)
BudgetInv ==
  /\ pc \in Starting \cup {"select"} => elapsed = 0
  /\ pc \in Draining =>
       /\ signalled
       /\ \A r \in Requests : Active(r) /\ ~req[r].late => req[r].age >= elapsed

Inv == /\ TypeInv /\ RunInv /\ Drain /\ BudgetInv
       /\ ShutdownKeepsRequests /\ ExitLeavesNothingOpen

-----------------------------------------------------------------------------
(* The pool.                                                               *)

(* Held is a finite set: of handlers and workers.                          *)
LEMMA HeldFinite == IsFiniteSet(Held) /\ Cardinality(Held) \in Nat
<1>1. IsFiniteSet(Requests \cup Workers)
  BY ProcessAssumption, FS_Union, Zenon
<1>2. Held \subseteq Requests \cup Workers
  BY Zenon DEF Held
<1> QED
  BY <1>1, <1>2, FS_Subset, FS_CardinalityType, Zenon

(* A connection is handed out only while one is free.                      *)
LEMMA HeldKept ==
  ASSUME TypeOK, NEW x, Held' \subseteq Held \/ (ConnFree /\ Held' \subseteq Held \cup {x})
  PROVE  Cardinality(Held') <= MaxConns
<1>1. Cardinality(Held) <= MaxConns /\ MaxConns \in Nat
  BY ProcessAssumption, Zenon DEF TypeOK
<1>2. CASE Held' \subseteq Held
  <2>1. Cardinality(Held') <= Cardinality(Held) /\ Cardinality(Held') \in Nat
    BY <1>2, HeldFinite, FS_Subset, FS_CardinalityType, Zenon
  <2> QED
    BY <1>1, <2>1, HeldFinite
<1>3. CASE ConnFree /\ Held' \subseteq Held \cup {x}
  <2>1. /\ IsFiniteSet(Held \cup {x})
        /\ Cardinality(Held \cup {x}) = IF x \in Held THEN Cardinality(Held)
                                        ELSE Cardinality(Held) + 1
    BY HeldFinite, FS_AddElement, Zenon
  <2>2. /\ Cardinality(Held') <= Cardinality(Held \cup {x}) /\ Cardinality(Held') \in Nat
        /\ Cardinality(Held \cup {x}) \in Nat
    BY <1>3, <2>1, FS_Subset, FS_CardinalityType, Zenon
  <2>3. Cardinality(Held) + 1 <= MaxConns
    BY <1>1, <1>3, HeldFinite DEF ConnFree
  <2> QED
    BY <1>1, <2>1, <2>2, <2>3, HeldFinite
<1> QED
  BY <1>2, <1>3, Zenon

-----------------------------------------------------------------------------
(* The steps of run.                                                       *)

(* Steps that leave the handlers, the workers and the time alone keep the  *)
(* types, if what they set has its type.                                   *)
LEMMA QuietType ==
  ASSUME TypeInv, UNCHANGED <<elapsed, req, worker>>,
         pc' \in Starting \cup Serving \cup {"defers", "closing", "exited"},
         outcome' \in {"none", "ok", "error", "killed"}, signalled' \in BOOLEAN,
         pool' \in {"none", "open", "closing", "closed"},
         api' \in {"off", "serving", "failed", "closed"},
         scrape' \in {"none", "running", "done"}
  PROVE  TypeInv'
<1>1. Held' = Held
  BY Zenon DEF Held
<1>2. Cardinality(Held') <= MaxConns
  BY <1>1, Zenon DEF TypeInv, TypeOK
<1> QED
  BY <1>2, Zenon DEF TypeInv, TypeOK, Starting, Serving, Draining

(* The start.                                                              *)
LEMMA StartStep ==
  ASSUME Inv, ConnectDatabase \/ BuildComponents \/ Listen
  PROVE  Inv'
<1> USE DEF Inv, Starting, Serving, Draining
<1>1. CASE ConnectDatabase
  <2>1. TypeInv'
    <3>1. /\ pool' \in {"none", "open", "closed"} /\ pc' \in {"build", "exited"}
          /\ outcome' \in {outcome, "error"}
      BY <1>1, Zenon DEF ConnectDatabase, NewFails, ExitsWith
    <3> QED
      BY <1>1, <3>1, QuietType DEF ConnectDatabase, TypeInv, TypeOK
  <2>2. RunInv' /\ Drain' /\ BudgetInv'
    BY <1>1, Zenon DEF ConnectDatabase, NewFails, ExitsWith, RunInv, Drain, BudgetInv, Active
  <2>3. Held' = {}
    BY <1>1, Zenon DEF ConnectDatabase, Held, RunInv
  <2>4. ShutdownKeepsRequests' /\ ExitLeavesNothingOpen'
    BY <1>1, <2>3, Zenon
    DEF ConnectDatabase, NewFails, ExitsWith, ShutdownKeepsRequests, ExitLeavesNothingOpen
  <2> QED
    BY <2>1, <2>2, <2>4, Zenon
<1>2. CASE BuildComponents
  <2>1. TypeInv'
    <3>1. worker' \in [Workers -> {"off", "waiting", "querying", "stopped"}]
      BY <1>2, Zenon DEF BuildComponents, TypeInv, TypeOK
    <3>2. Held' = {}
      BY <1>2, Zenon DEF BuildComponents, Held, RunInv
    <3>3. Cardinality(Held') <= MaxConns
      BY <3>2, HeldKept, Zenon DEF TypeInv
    <3> QED
      BY <1>2, <3>1, <3>3 DEF BuildComponents, Returns, TypeInv, TypeOK
  <2> QED
    BY <1>2, <2>1, Zenon
    DEF BuildComponents, Returns, RunInv, Drain, BudgetInv, Active, ShutdownKeepsRequests,
        ExitLeavesNothingOpen
<1>3. CASE Listen
  <2>1. TypeInv'
    BY <1>3, QuietType, Zenon DEF Listen, Returns, TypeInv, TypeOK
  <2> QED
    BY <1>3, <2>1, Zenon
    DEF Listen, Returns, RunInv, Drain, BudgetInv, Active, ShutdownKeepsRequests,
        ExitLeavesNothingOpen
<1> QED
  BY <1>1, <1>2, <1>3, Zenon

(* The wait for a signal, the shutdown of the metrics server, the last     *)
(* receive and the close of the pool: no handler is touched.               *)
LEMMA EndStep ==
  ASSUME Inv, Wake \/ DrainMetrics \/ AwaitServe \/ StartClose \/ Exit
  PROVE  Inv'
<1> USE DEF Inv, Starting, Serving, Draining
<1>1. CASE Wake
  <2>1. TypeInv'
    BY <1>1, QuietType, Zenon DEF Wake, Returns, TypeInv, TypeOK
  <2>2. BudgetInv'
    BY <1>1 DEF Wake, Returns, BudgetInv, Active, TypeInv, Handlers
  <2> QED
    BY <1>1, <2>1, <2>2, Zenon
    DEF Wake, Returns, RunInv, Drain, Active, ShutdownKeepsRequests, ExitLeavesNothingOpen
<1>2. CASE DrainMetrics
  <2>1. TypeInv'
    BY <1>2, QuietType, ZenonT(40) DEF DrainMetrics, TypeInv, TypeOK
  <2> QED
    BY <1>2, <2>1, Zenon
    DEF DrainMetrics, RunInv, Drain, BudgetInv, Active, ShutdownKeepsRequests,
        ExitLeavesNothingOpen
<1>3. CASE AwaitServe
  <2>1. TypeInv'
    BY <1>3, QuietType, Zenon DEF AwaitServe, Returns, TypeInv, TypeOK
  <2> QED
    BY <1>3, <2>1, Zenon
    DEF AwaitServe, Returns, RunInv, Drain, BudgetInv, Active, ShutdownKeepsRequests,
        ExitLeavesNothingOpen
<1>4. CASE StartClose
  <2>1. TypeInv'
    BY <1>4, QuietType, Zenon DEF StartClose, TypeInv, TypeOK
  <2> QED
    BY <1>4, <2>1, Zenon
    DEF StartClose, RunInv, Drain, BudgetInv, Active, ShutdownKeepsRequests,
        ExitLeavesNothingOpen
<1>5. CASE Exit
  <2>1. TypeInv'
    BY <1>5, QuietType, ZenonT(40) DEF Exit, TypeInv, TypeOK
  <2>2. Held' = {}
    BY <1>5, Zenon DEF Exit, AllReturned, Held
  <2> QED
    BY <1>5, <2>1, <2>2, Zenon
    DEF Exit, RunInv, Drain, BudgetInv, Active, ShutdownKeepsRequests, ExitLeavesNothingOpen
<1> QED
  BY <1>1, <1>2, <1>3, <1>4, <1>5, Zenon

(* srv.Shutdown returns, or gives up and cuts who is left: these have been *)
(* at work for the whole budget, or arrived after the signal.              *)
LEMMA DrainStep ==
  ASSUME Inv, DrainRequests
  PROVE  Inv'
<1> USE DEF Inv, Starting, Serving, Draining
<1>1. CASE Drained
  <2>1. TypeInv'
    BY <1>1, QuietType DEF DrainRequests, Drained, TypeInv, TypeOK
  <2> QED
    BY <1>1, <2>1, Zenon
    DEF DrainRequests, Drained, RunInv, Drain, BudgetInv, Active, ShutdownKeepsRequests,
        ExitLeavesNothingOpen
<1>2. CASE ForceClose
  <2>1. \A r \in Requests : /\ req'[r].at = req[r].at /\ req'[r].age = req[r].age
                            /\ req'[r].late = req[r].late /\ req'[r].cut = Active(r)
                            /\ req'[r] \in Handlers
    <3> TAKE r \in Requests
    <3>1. /\ req'[r] = [req[r] EXCEPT !.cut = Active(r)] /\ Active(r) \in BOOLEAN
          /\ req[r] \in Handlers
      BY <1>2 DEF ForceClose, TypeInv, Active
    <3> HIDE DEF Active
    <3>2. req'[r] = [at |-> req[r].at, age |-> req[r].age, late |-> req[r].late,
                     cut |-> Active(r)]
      BY <3>1, Zenon DEF Handlers
    <3> QED
      BY <3>1, <3>2, Zenon DEF Handlers
  <2>2. req' \in [Requests -> Handlers]
    BY <1>2, <2>1, Zenon DEF ForceClose
  <2>3. Held' = Held /\ Cardinality(Held') <= MaxConns
    BY <2>1, Zenon DEF DrainRequests, Held, TypeInv, TypeOK
  <2>4. TypeInv'
    BY <1>2, <2>1, <2>2, <2>3, ZenonT(40) DEF DrainRequests, TypeInv, TypeOK
  <2>5. \A r \in Requests : Active(r)' <=> Active(r)
    BY <2>1, Zenon DEF Active
  <2>6. RunInv' /\ BudgetInv' /\ ExitLeavesNothingOpen'
    BY <2>1, <2>5, Zenon DEF DrainRequests, RunInv, BudgetInv, ExitLeavesNothingOpen
  <2>8. Drain'
    <3>1. \A r \in Requests : /\ Active(r)' => req'[r].cut
                              /\ req'[r].at = "none" => ~req'[r].cut
      BY <2>1, <2>5, Zenon DEF Active
    <3>2. api' \in {"closed", "failed"}
      BY Zenon DEF DrainRequests, RunInv
    <3> QED
      BY <3>1, <3>2, Zenon DEF Drain
  <2>7. ShutdownKeepsRequests'
    <3>1. \A r \in Requests : Active(r) /\ ~req[r].late => req[r].age >= ShutdownTimeout
      BY <1>2, Zenon DEF DrainRequests, BudgetInv, ForceClose, OutOfTime
    <3> QED
      BY <2>1, <3>1, Zenon DEF ShutdownKeepsRequests
  <2> QED
    BY <2>4, <2>6, <2>7, <2>8, Zenon
<1> QED
  BY <1>1, <1>2, Zenon DEF DrainRequests

-----------------------------------------------------------------------------
(* Handlers, workers, signals and time.                                    *)

(* A handler step changes one handler's place.                             *)
LEMMA HandlerStep ==
  ASSUME Inv, NEW r \in Requests, Arrive(r) \/ Acquire(r) \/ HandlerEnds(r)
  PROVE  Inv'
<1> USE DEF Inv, Starting, Serving, Draining
<1>1. /\ \A q \in Requests \ {r} : req'[q] = req[q]
      /\ req'[r].age = req[r].age /\ req'[r].cut = req[r].cut
      /\ req' \in [Requests -> Handlers]
  BY DEF Arrive, Acquire, HandlerEnds, Release, Answer, TypeInv, TypeOK, Handlers
<1>2. /\ Alive /\ UNCHANGED <<pc, outcome, signalled, elapsed, pool, api, scrape, worker>>
  BY Zenon DEF Arrive, Acquire, HandlerEnds, Release, Answer
<1>3. \/ /\ req'[r].at = "running" /\ req'[r].late = signalled
         /\ req[r].at = "none" /\ api = "serving"
      \/ /\ req'[r].at = "querying" /\ req'[r].late = req[r].late
         /\ Active(r) /\ ConnFree
      \/ /\ req'[r].at \in {"running", "done"} /\ req'[r].late = req[r].late
         /\ Active(r)
  BY DEF Arrive, Acquire, HandlerEnds, Release, Answer, TypeInv, Handlers, Active
<1>4. Held' \subseteq Held \/ (ConnFree /\ Held' \subseteq Held \cup {r})
  BY <1>1, <1>2, <1>3, Zenon DEF Held, Active
<1>5. Cardinality(Held') <= MaxConns
  BY <1>4, HeldKept, Zenon DEF TypeInv
<1>6. TypeInv'
  BY <1>1, <1>2, <1>3, <1>5 DEF TypeInv, TypeOK, Active
<1>7. RunInv'
  BY <1>1, <1>2, <1>3, Zenon DEF RunInv, Active
<1>8. Drain'
  BY <1>1, <1>2, <1>3, Zenon DEF Drain, Active
<1>9. BudgetInv'
  <2>1. pc \in Draining /\ req'[r].at \in {"running", "querying"} /\ ~req'[r].late
          => req[r].age >= elapsed
    BY <1>3, Zenon DEF BudgetInv, Active
  <2> QED
    BY <1>1, <1>2, <2>1, Zenon DEF BudgetInv, Active
<1>10. ShutdownKeepsRequests'
  BY <1>1, <1>3, Zenon DEF ShutdownKeepsRequests, Drain, Active
<1>11. ExitLeavesNothingOpen'
  BY <1>2, Zenon DEF ExitLeavesNothingOpen, Alive
<1> QED
  BY <1>6, <1>7, <1>8, <1>9, <1>10, <1>11, Zenon

(* A worker checks out and returns a connection, or stops.                 *)
LEMMA WorkerStep ==
  ASSUME Inv, NEW w \in Workers, WorkerQuery(w) \/ WorkerRelease(w) \/ WorkerStop(w)
  PROVE  Inv'
<1> USE DEF Inv, Starting, Serving, Draining
<1>1. /\ Alive /\ UNCHANGED <<pc, outcome, signalled, elapsed, pool, api, req, scrape>>
      /\ worker[w] # "off"
      /\ worker' \in [Workers -> {"off", "waiting", "querying", "stopped"}]
      /\ \A v \in Workers \ {w} : worker'[v] = worker[v]
  BY Zenon DEF WorkerQuery, WorkerRelease, WorkerStop, TypeInv, TypeOK
<1>2. Held' \subseteq Held \/ (ConnFree /\ Held' \subseteq Held \cup {w})
  BY <1>1, Zenon DEF WorkerQuery, WorkerRelease, WorkerStop, Held, TypeInv, TypeOK
<1>3. Cardinality(Held') <= MaxConns
  BY <1>2, HeldKept, Zenon DEF TypeInv
<1>4. TypeInv'
  BY <1>1, <1>3 DEF TypeInv, TypeOK
<1> QED
  BY <1>1, <1>4, Zenon
  DEF RunInv, Drain, BudgetInv, Active, ShutdownKeepsRequests, ExitLeavesNothingOpen, Alive

(* Signals, scrapes and a listener that fails leave handlers and workers.  *)
LEMMA OutsideStep ==
  ASSUME Inv, Signal \/ Scrape \/ ServeFails
  PROVE  Inv'
<1> USE DEF Inv, Starting, Serving, Draining
<1>1. CASE Signal
  <2>1. TypeInv'
    <3>1. UNCHANGED <<elapsed, pool, api, req, scrape, worker>>
      BY <1>1, Zenon DEF Signal
    <3>2. signalled' \in BOOLEAN
      BY <1>1, Zenon DEF Signal, TypeInv, TypeOK
    <3>3. /\ pc' \in Starting \cup Serving \cup {"defers", "closing", "exited"}
          /\ outcome' \in {"none", "ok", "error", "killed"}
      BY <1>1, Zenon DEF Signal, TypeInv, TypeOK
    <3>4. /\ pool' \in {"none", "open", "closing", "closed"}
          /\ api' \in {"off", "serving", "failed", "closed"}
          /\ scrape' \in {"none", "running", "done"}
      BY <3>1, Zenon DEF TypeInv, TypeOK
    <3> QED
      BY <3>1, <3>2, <3>3, <3>4, QuietType, Zenon
  <2> QED
    BY <1>1, <2>1
    DEF Signal, Alive, RunInv, Drain, BudgetInv, Active, ShutdownKeepsRequests,
        ExitLeavesNothingOpen
<1>2. CASE Scrape
  <2>1. TypeInv'
    BY <1>2, QuietType DEF Scrape, TypeInv, TypeOK
  <2>2. Held' = Held
    BY <1>2, Zenon DEF Scrape, Held
  <2> QED
    BY <1>2, <2>1, <2>2, Zenon
    DEF Scrape, RunInv, Drain, BudgetInv, Active, ShutdownKeepsRequests, ExitLeavesNothingOpen
<1>3. CASE ServeFails
  <2>1. TypeInv'
    BY <1>3, QuietType DEF ServeFails, TypeInv, TypeOK
  <2> QED
    BY <1>3, <2>1, Zenon
    DEF ServeFails, Alive, RunInv, Drain, BudgetInv, Active, ShutdownKeepsRequests,
        ExitLeavesNothingOpen
<1> QED
  BY <1>1, <1>2, <1>3, Zenon

(* Time passes for every handler and, once it runs, for the budget.        *)
LEMMA TickStep ==
  ASSUME Inv, Tick
  PROVE  Inv'
<1> USE DEF Inv, Starting, Serving, Draining
<1>1. \A r \in Requests : /\ req'[r].at = req[r].at /\ req'[r].late = req[r].late
                          /\ req'[r].cut = req[r].cut /\ req'[r] \in Handlers
                          /\ req'[r].age = IF Active(r) THEN req[r].age + 1 ELSE req[r].age
  <2> TAKE r \in Requests
  <2>1. /\ req[r] \in Handlers
        /\ req'[r] = [req[r] EXCEPT !.age = IF Active(r) THEN req[r].age + 1 ELSE req[r].age]
    BY Zenon DEF Tick, TypeInv
  <2>2. (IF Active(r) THEN req[r].age + 1 ELSE req[r].age) \in Nat
    BY <2>1 DEF Handlers
  <2> QED
    BY <2>1, <2>2, Zenon DEF Handlers
<1>2. /\ Alive /\ UNCHANGED <<pc, outcome, signalled, pool, api, scrape, worker>>
      /\ elapsed' = IF pc \in Draining THEN elapsed + 1 ELSE elapsed
      /\ req' \in [Requests -> Handlers]
  BY <1>1, Zenon DEF Tick
<1>3. \A r \in Requests : Active(r)' <=> Active(r)
  BY <1>1, Zenon DEF Active
<1>4. Held' = Held /\ Cardinality(Held') <= MaxConns
  BY <1>1, <1>2, Zenon DEF Held, TypeInv, TypeOK
<1>5. elapsed \in Nat /\ elapsed' \in 0 .. ShutdownTimeout
  <2>1. elapsed \in 0 .. ShutdownTimeout /\ ShutdownTimeout \in Nat
    BY ProcessAssumption, Zenon DEF TypeInv, TypeOK
  <2>2. pc \in Draining => elapsed # ShutdownTimeout
    BY Zenon DEF Tick, OutOfTime
  <2> QED
    BY <1>2, <2>1, <2>2
<1>6. \A r \in Requests : /\ req'[r].age \in 0 .. MaxAge
                          /\ req[r].age >= ShutdownTimeout => req'[r].age >= ShutdownTimeout
  <2> TAKE r \in Requests
  <2>1. /\ req[r].age \in 0 .. MaxAge /\ MaxAge \in Nat /\ ShutdownTimeout \in Nat
        /\ Active(r) => req[r].age < MaxAge
    BY ProcessAssumption, Zenon DEF TypeInv, TypeOK, Tick
  <2> QED
    BY <1>1, <2>1
<1>7. TypeInv'
  BY <1>1, <1>2, <1>4, <1>5, <1>6 DEF TypeInv, TypeOK
<1>8. RunInv' /\ Drain' /\ ShutdownKeepsRequests' /\ ExitLeavesNothingOpen'
  BY <1>1, <1>2, <1>3, <1>4, <1>6, ZenonT(40)
  DEF RunInv, Drain, ShutdownKeepsRequests, ExitLeavesNothingOpen
<1>9. BudgetInv'
  <2>1. ASSUME NEW r \in Requests, pc \in Draining, Active(r), ~req[r].late
        PROVE  req'[r].age >= elapsed'
    <3>1. req[r].age >= elapsed /\ req[r].age \in Nat
      BY <2>1, Zenon DEF BudgetInv, TypeInv, Handlers
    <3> QED
      BY <1>1, <1>2, <1>5, <2>1, <3>1
  <2> QED
    BY <1>1, <1>2, <1>3, <2>1, Zenon DEF BudgetInv
<1> QED
  BY <1>7, <1>8, <1>9, Zenon

-----------------------------------------------------------------------------
(* Theorems.                                                               *)

(* Nothing has been started.                                               *)
LEMMA InitInv == Init => Inv
<1> SUFFICES ASSUME Init PROVE Inv
  BY Zenon
<1>1. Held = {}
  BY Zenon DEF Init, Held, Idle
<1>2. TypeInv
  <2>1. Cardinality(Held) <= MaxConns
    BY <1>1, FS_EmptySet, ProcessAssumption
  <2>2. Idle \in Handlers
    BY Zenon DEF Idle, Handlers
  <2>4. 0 \in 0 .. ShutdownTimeout /\ 0 \in 0 .. MaxAge
    BY ProcessAssumption
  <2>5. req \in [Requests -> Handlers]
    BY <2>2, Zenon DEF Init
  <2>6. \A r \in Requests : req[r].at = "none" /\ req[r].age = 0
    BY Zenon DEF Init, Idle
  <2>7. worker \in [Workers -> {"off", "waiting", "querying", "stopped"}]
    BY Zenon DEF Init
  <2> QED
    BY <2>1, <2>4, <2>5, <2>6, <2>7, Zenon DEF Init, TypeInv, TypeOK
<1>3. RunInv /\ Drain /\ BudgetInv /\ ShutdownKeepsRequests /\ ExitLeavesNothingOpen
  BY Zenon DEF Init, Idle, RunInv, Drain, BudgetInv, ShutdownKeepsRequests, ExitLeavesNothingOpen,
         Active, Starting, Serving, Draining
<1> QED
  BY <1>2, <1>3, Zenon DEF Inv

(* Every step of the process keeps the invariant.                          *)
LEMMA InvStep == Inv /\ [Next]_vars => Inv'
<1> SUFFICES ASSUME Inv, [Next]_vars PROVE Inv'
  BY Zenon
<1>1. CASE Next
  BY <1>1, StartStep, EndStep, DrainStep, HandlerStep, WorkerStep, OutsideStep, TickStep, Zenon
  DEF Next, RunStep
<1>2. CASE UNCHANGED vars
  <2>1. Held' = Held /\ Cardinality(Held') <= MaxConns
    BY <1>2, Zenon DEF vars, Held, Inv, TypeInv, TypeOK
  <2> QED
    BY <1>2, <2>1
    DEF vars, Inv, TypeInv, TypeOK, RunInv, Drain, BudgetInv, Active, ShutdownKeepsRequests,
        ExitLeavesNothingOpen
<1> QED
  BY <1>1, <1>2, Zenon

(* The invariant of the process.                                           *)
THEOREM Invariance == Spec => []Inv
<1>1. Init => Inv
  BY InitInv, Zenon
<1>2. Inv /\ [Next]_vars => Inv'
  BY InvStep, Zenon
<1> QED
  BY <1>1, <1>2, PTL DEF Spec

(* The pool closes behind the handlers: whoever is still at work then was  *)
(* cut at the end of the budget, or the listener had failed.               *)
THEOREM PoolClosesLast == Spec => []PoolOutlivesHandlers
<1>1. Inv => PoolOutlivesHandlers
  <2> SUFFICES ASSUME Inv, pool \in {"closing", "closed"}, NEW r \in Requests, Active(r),
                      outcome # "error"
               PROVE  req[r].cut
    BY Zenon DEF Inv, TypeInv, PoolOutlivesHandlers
  <2>1. outcome \in {"ok", "killed"}
    <3>1. pc \in {"closing", "exited"}
      BY Zenon DEF Inv, TypeInv, TypeOK, RunInv, Serving, Draining
    <3>2. outcome # "none"
      BY <3>1, Zenon DEF Inv, RunInv
    <3> QED
      BY <3>2, Zenon DEF Inv, TypeInv, TypeOK
  <2> QED
    BY <2>1, Zenon DEF Inv, Drain
<1> QED
  BY <1>1, Invariance, PTL

(* srv.Close cuts a request that was there at the signal only when it has  *)
(* had the whole budget, whatever its deadline and whether or not its      *)
(* handler heeds it.                                                       *)
THEOREM GracefulShutdown == Spec => []ShutdownKeepsRequests
<1>1. Inv => ShutdownKeepsRequests
  BY Zenon DEF Inv
<1> QED
  BY <1>1, Invariance, PTL

(* A process that is not killed leaves no pool and no connection open.     *)
THEOREM NothingLeftOpen == Spec => []ExitLeavesNothingOpen
<1>1. Inv => ExitLeavesNothingOpen
  BY Zenon DEF Inv
<1> QED
  BY <1>1, Invariance, PTL
=============================================================================
