------------------------------- MODULE Process -------------------------------
(***************************************************************************)
(* The dipper process: its start-up, the supervision of its tasks and the  *)
(* shutdown. Every long-running service is a task of one tree; a handler   *)
(* task waits for a signal or for the supervisor's request and then stops  *)
(* the services one by one; the supervisor joins what ends and bounds the  *)
(* teardown.                                                               *)
(*                                                                         *)
(* Time is counted in stop steps (STOP_STEP_TIMEOUT).                      *)
(***************************************************************************)
EXTENDS Integers, Sequences, SequencesExt, FiniteSetsExt

CONSTANTS
  StopOrder,     \* the services, in the order they are stopped
  DomainRetries, \* RCA_DOMAIN_FETCH_MAX_RETRIES
  UrlRetries,    \* INDEXER_URLS_FETCH_MAX_RETRIES
  IisaTries,     \* tries of the IISA health check
  AllowEmpty,    \* allow_empty_at_startup
  TeardownGrace          \* TEARDOWN_GRACE, in stop steps

ASSUME ProcessAssumption ==
  /\ StopOrder \in Seq(STRING) /\ Len(StopOrder) > 0
  /\ "signal handler" \notin Range(StopOrder)
  /\ {DomainRetries, UrlRetries} \subseteq Nat /\ IisaTries \in Nat \ {0}
  /\ AllowEmpty \in BOOLEAN
  /\ TeardownGrace \in Nat \ {0}

Services == Range(StopOrder)
Handler  == "signal handler"
Tasks    == Services \cup {Handler}

VARIABLES
  prBoot,      \* start-up: [step, attempt]
  prTask,      \* [task -> "run", "ok" or "err"], a panic is an "err"
  prJoined,    \* tasks the supervisor has joined
  prAsked,     \* services told to stop
  prRequested, \* Shutdown.requested
  prHeard,     \* waiters of Shutdown.trigger that were notified since they registered
  prWaiters,   \* waiters registered with Shutdown.trigger
  prPending,   \* who has set the flag and not yet called notify_waiters
  prSup,       \* where supervise is
  prDeadline,  \* time since teardown_deadline was set, or -1
  prSince,     \* time since the teardown began (ghost)
  prFirst,     \* whether first_failure is set
  prHandler,   \* the handler task: [at, step, age, all, error]
  prPool,      \* the DB pool: "open", "closing" or "closed"
  prSignal,    \* whether a signal came (ghost)
  prExit       \* how the process ended: "none", "ok" or "failed"

prShared == <<prRequested, prHeard, prWaiters, prPending>>
supVars  == <<prSup, prDeadline, prSince, prFirst>>
prVars   == <<prBoot, prTask, prJoined, prAsked, prShared, supVars, prHandler, prPool, prSignal,
              prExit>>

Up == prBoot.step = "up" /\ prExit = "none"

ProcessTypeOK ==
  /\ prBoot.step \in {"config", "domain", "database", "urls", "iisa", "networks", "role", "size",
                      "bind", "up"}
  /\ prBoot.attempt \in 0 .. Max({DomainRetries, UrlRetries, IisaTries - 1})
  /\ prTask \in [Tasks -> {"run", "ok", "err"}]
  /\ prJoined \subseteq Tasks /\ prAsked \subseteq Services
  /\ prRequested \in BOOLEAN /\ prFirst \in BOOLEAN /\ prSignal \in BOOLEAN
  /\ prHeard \subseteq prWaiters /\ prWaiters \subseteq {"supervisor", Handler}
  /\ prPending \subseteq {"supervisor", Handler}
  /\ prSup \in {"top", "register", "check", "parked", "bounded"}
  /\ prDeadline \in -1 .. TeardownGrace /\ prSince \in Nat
  /\ prHandler.at \in {"register", "check", "parked", "stop", "flush", "close", "end"}
  /\ prHandler.step \in 1 .. Len(StopOrder) + 1 /\ prHandler.age \in 0 .. 1
  /\ prHandler.all \in BOOLEAN /\ prHandler.error \in BOOLEAN
  /\ prPool \in {"open", "closing", "closed"}
  /\ prExit \in {"none", "ok", "failed"}

ProcessInit ==
  /\ prBoot = [step |-> "config", attempt |-> 0]
  /\ prTask = [t \in Tasks |-> "run"]
  /\ prJoined = {} /\ prAsked = {}
  /\ prRequested = FALSE /\ prHeard = {} /\ prWaiters = {} /\ prPending = {}
  /\ prSup = "top" /\ prDeadline = -1 /\ prSince = 0 /\ prFirst = FALSE
  /\ prHandler = [at |-> "register", step |-> 1, age |-> 0, all |-> TRUE, error |-> FALSE]
  /\ prPool = "open" /\ prSignal = FALSE /\ prExit = "none"

-----------------------------------------------------------------------------
(* main: the start-up. A step that fails is tried again after a pause, or  *)
(* the process ends with an error.                                         *)

BootTry(step, next, retries, ok) ==
  /\ prBoot.step = step /\ prExit = "none"
  /\ \/ ok /\ prBoot' = [step |-> next, attempt |-> 0] /\ UNCHANGED prExit
     \/ ~ok /\ prBoot.attempt < retries
            /\ prBoot' = [prBoot EXCEPT !.attempt = @ + 1] /\ UNCHANGED prExit
     \/ ~ok /\ prBoot.attempt = retries /\ prExit' = "failed" /\ UNCHANGED prBoot
  /\ UNCHANGED <<prTask, prJoined, prAsked, prShared, supVars, prHandler, prPool, prSignal>>

(* The configuration loads and its sections are accepted.                  *)
LoadConfig(ok) == BootTry("config", "domain", 0, ok)

(* The RecurringCollector's EIP-712 domain.                                *)
FetchDomain(ok) == BootTry("domain", "database", DomainRetries, ok)

(* The DB connects and its migrations run.                                 *)
ConnectDb(ok) == BootTry("database", "urls", 0, ok)

(* The first snapshot of the indexers' URLs: an empty one is a failure,    *)
(* unless the configuration allows it.                                     *)
FetchUrls(found) ==
  BootTry("urls", "iisa", UrlRetries, found = "some" \/ (found = "none" /\ AllowEmpty))

(* IISA answers a health check.                                            *)
CheckIisa(ok) == BootTry("iisa", "networks", IisaTries - 1, ok)

(* The networks registry loads.                                            *)
LoadNetworks(ok) == BootTry("networks", "role", 0, ok)

(* The signer holds AGREEMENT_MANAGER_ROLE.                                *)
CheckRole(ok) == BootTry("role", "size", 0, ok)

(* The DB pool is large enough for the worker's loops.                     *)
SizePool(ok) == BootTry("size", "bind", 0, ok)

(* The health endpoint binds; then every service is spawned.               *)
BindHealthServer(ok) == BootTry("bind", "up", 0, ok)

Boot ==
  \/ \E ok \in BOOLEAN :
       \/ LoadConfig(ok) \/ FetchDomain(ok) \/ ConnectDb(ok) \/ CheckIisa(ok)
       \/ LoadNetworks(ok) \/ CheckRole(ok) \/ SizePool(ok) \/ BindHealthServer(ok)
  \/ \E found \in {"some", "none", "error"} : FetchUrls(found)

-----------------------------------------------------------------------------
(* Shutdown: the flag and the waiters.                                     *)

(* Shutdown::request sets the flag first and wakes the waiters after.      *)
SetRequested(who) == prRequested' = TRUE /\ prPending' = prPending \cup {who}

NotifyAll(who) ==
  /\ Up /\ who \in prPending
  /\ prHeard' = prWaiters
  /\ prPending' = prPending \ {who}
  /\ UNCHANGED <<prBoot, prTask, prJoined, prAsked, prRequested, prWaiters, supVars,
                 prHandler, prPool, prSignal, prExit>>

(* Mutant: a waiter that has registered does not look at the flag.         *)
AfterRegisterParks == "parked"

(* requested_signal registers first, then reads the flag, then waits.      *)
AfterRegister == "check"

WaitsAt(at) == at \in {"register", "check", "parked"}

(* A waiter's next step on its own; "go" when the wait is over.            *)
WaiterNext(who, at) ==
  CASE at = "register" -> AfterRegister
    [] at = "check"    -> IF prRequested THEN "go" ELSE "parked"
    [] at = "parked"   -> IF who \in prHeard THEN "go" ELSE "parked"

Registers(who, at) ==
  /\ prWaiters' = IF at = "register" THEN prWaiters \cup {who}
                  ELSE IF WaiterNext(who, at) = "go" THEN prWaiters \ {who} ELSE prWaiters
  /\ prHeard' = IF at # "register" /\ WaiterNext(who, at) = "go" THEN prHeard \ {who} ELSE prHeard

-----------------------------------------------------------------------------
(* The tasks.                                                              *)

(* A service ends: told to, on its own, with an error or by a panic.       *)
ServiceEnds(s, how) ==
  /\ Up /\ prTask[s] = "run"
  /\ prTask' = [prTask EXCEPT ![s] = how]
  /\ UNCHANGED <<prBoot, prJoined, prAsked, prShared, supVars, prHandler, prPool, prSignal,
                 prExit>>

(* The handler's select gives a signal, or no signal could be registered.  *)
SignalComes(registered) ==
  /\ Up /\ prTask[Handler] = "run" /\ WaitsAt(prHandler.at)
  /\ SetRequested(Handler)
  /\ prWaiters' = prWaiters \ {Handler} /\ prHeard' = prHeard \ {Handler}
  /\ prHandler' = [prHandler EXCEPT !.at = "stop", !.error = ~registered]
  /\ prSignal' = registered
  /\ UNCHANGED <<prBoot, prTask, prJoined, prAsked, supVars, prPool, prExit>>

(* The handler's select waits on requested_signal.                         *)
HandlerWaits ==
  /\ Up /\ prTask[Handler] = "run" /\ WaitsAt(prHandler.at)
  /\ LET next == WaiterNext(Handler, prHandler.at)
     IN /\ next # prHandler.at
        /\ prHandler' = [prHandler EXCEPT !.at = IF next = "go" THEN "stop" ELSE next]
        /\ Registers(Handler, prHandler.at)
        /\ IF next = "go" THEN SetRequested(Handler) ELSE UNCHANGED <<prRequested,
                                                                      prPending>>
  /\ UNCHANGED <<prBoot, prTask, prJoined, prAsked, supVars, prPool, prSignal, prExit>>

Stopping == StopOrder[prHandler.step]

(* Handle::stop of a service that runs: tell it.                           *)
AskShutdown ==
  /\ Up /\ prTask[Handler] = "run" /\ prHandler.at = "stop"
  /\ Handler \notin prPending /\ Stopping \notin prAsked
  /\ prAsked' = prAsked \cup {Stopping}
  /\ UNCHANGED <<prBoot, prTask, prJoined, prShared, supVars, prHandler, prPool, prSignal,
                 prExit>>

(* Mutant: only the last step says whether everything stopped.             *)
AllStoppedLast(all, stopped) == stopped

(* all_stopped &= stop_service(...).                                       *)
AllStopped(all, stopped) == all /\ stopped

AfterStop(step) == IF step = Len(StopOrder) THEN "flush" ELSE "stop"

(* stop_service: the service has ended, or the step's time is over.        *)
StopStep(stopped) ==
  /\ Up /\ prTask[Handler] = "run" /\ prHandler.at = "stop" /\ Stopping \in prAsked
  /\ IF stopped THEN prTask[Stopping] # "run" ELSE prTask[Stopping] = "run" /\ prHandler.age = 1
  /\ prHandler' = [prHandler EXCEPT !.at = AfterStop(prHandler.step), !.step = @ + 1,
                                    !.age = 0, !.all = AllStopped(@, stopped)]
  /\ UNCHANGED <<prBoot, prTask, prJoined, prAsked, prShared, supVars, prPool, prSignal,
                 prExit>>

(* The flush of the lifecycle events, in time or not; then the pool, if    *)
(* everything stopped.                                                     *)
FlushStep(stopped) ==
  /\ Up /\ prTask[Handler] = "run" /\ prHandler.at = "flush"
  /\ stopped \/ prHandler.age = 1
  /\ LET all == AllStopped(prHandler.all, stopped)
     IN /\ prHandler' = [prHandler EXCEPT !.at = IF all THEN "close" ELSE "end", !.age = 0,
                                          !.all = all]
        /\ prPool' = IF all THEN "closing" ELSE prPool
  /\ UNCHANGED <<prBoot, prTask, prJoined, prAsked, prShared, supVars, prSignal, prExit>>

(* db_conn.close() ends, or its step's time is over.                       *)
CloseStep(closed) ==
  /\ Up /\ prTask[Handler] = "run" /\ prHandler.at = "close"
  /\ closed \/ prHandler.age = 1
  /\ prHandler' = [prHandler EXCEPT !.at = "end", !.age = 0]
  /\ prPool' = IF closed THEN "closed" ELSE prPool
  /\ UNCHANGED <<prBoot, prTask, prJoined, prAsked, prShared, supVars, prSignal, prExit>>

(* The handler ends, with the registration's error if there was one.       *)
HandlerEnds ==
  /\ Up /\ prTask[Handler] = "run" /\ prHandler.at = "end"
  /\ prTask' = [prTask EXCEPT ![Handler] = IF prHandler.error THEN "err" ELSE "ok"]
  /\ UNCHANGED <<prBoot, prJoined, prAsked, prShared, supVars, prHandler, prPool, prSignal,
                 prExit>>

(* The handler panics, wherever it is, and takes its registration along.   *)
HandlerDies ==
  /\ Up /\ prTask[Handler] = "run"
  /\ prTask' = [prTask EXCEPT ![Handler] = "err"]
  /\ prWaiters' = prWaiters \ {Handler} /\ prHeard' = prHeard \ {Handler}
  /\ prPending' = prPending \ {Handler}
  /\ UNCHANGED <<prBoot, prJoined, prAsked, prRequested, supVars, prHandler, prPool,
                 prSignal, prExit>>

-----------------------------------------------------------------------------
(* supervise.                                                              *)

Supervising == Up /\ "supervisor" \notin prPending

(* Mutant: the deadline starts again with every wait.                      *)
DeadlineEachWait == 0

(* teardown_deadline is set on the first pass that sees the request.       *)
Deadline == IF prDeadline = -1 THEN 0 ELSE prDeadline

(* Mutant: only a failure starts the watchdog.                             *)
BoundedAfterFailure == prRequested /\ prFirst

(* Once shutdown is requested the wait is bounded, since the task that     *)
(* stops the others may be dead.                                           *)
BoundedStops == prRequested

(* The top of the loop picks the wait.                                     *)
SupTop ==
  /\ Supervising /\ prSup = "top" /\ prJoined # Tasks
  /\ IF BoundedStops THEN prSup' = "bounded" /\ prDeadline' = Deadline
                ELSE prSup' = "register" /\ UNCHANGED prDeadline
  /\ UNCHANGED <<prBoot, prTask, prJoined, prAsked, prShared, prSince, prFirst, prHandler,
                 prPool, prSignal, prExit>>

(* The unbounded wait's select: requested_signal.                          *)
SupWaits ==
  /\ Supervising /\ WaitsAt(prSup)
  /\ LET next == WaiterNext("supervisor", prSup)
     IN /\ next # prSup
        /\ prSup' = IF next = "go" THEN "top" ELSE next
        /\ Registers("supervisor", prSup)
  /\ UNCHANGED <<prBoot, prTask, prJoined, prAsked, prRequested, prPending, prDeadline,
                 prSince, prFirst, prHandler, prPool, prSignal, prExit>>

(* Mutant: a failure during the teardown is only logged.                   *)
FailureSeenBeforeShutdown(t) == ~prRequested

(* What makes a joined task the first failure: an error or panic at any    *)
(* time, any end before shutdown was requested.                            *)
FailureSeen(t) == prTask[t] = "err" \/ ~prRequested

(* join_next_with_id gives a task, in either wait.                         *)
SupJoins(t) ==
  /\ Supervising /\ prSup # "top"
  /\ prTask[t] # "run" /\ t \notin prJoined
  /\ prJoined' = prJoined \cup {t}
  /\ prFirst' = (prFirst \/ FailureSeen(t))
  /\ prSup' = "top"
  /\ prWaiters' = prWaiters \ {"supervisor"} /\ prHeard' = prHeard \ {"supervisor"}
  /\ IF prRequested THEN UNCHANGED <<prRequested, prPending>> ELSE SetRequested("supervisor")
  /\ UNCHANGED <<prBoot, prTask, prAsked, prDeadline, prSince, prHandler, prPool, prSignal,
                 prExit>>

(* The grace period is over: abort what runs and fail.                     *)
SupGivesUp ==
  /\ Supervising /\ prSup = "bounded" /\ prDeadline = TeardownGrace
  /\ prExit' = "failed"
  /\ UNCHANGED <<prBoot, prTask, prJoined, prAsked, prShared, supVars, prHandler, prPool,
                 prSignal>>

(* The tree is empty: the process ends.                                    *)
SupEnds ==
  /\ Supervising /\ prSup = "top" /\ prJoined = Tasks
  /\ prExit' = IF prFirst THEN "failed" ELSE "ok"
  /\ UNCHANGED <<prBoot, prTask, prJoined, prAsked, prShared, supVars, prHandler, prPool,
                 prSignal>>

(* A step's time passes once the teardown is on. What is due happens       *)
(* before: a step is far longer than a task takes to run.                  *)
ProcessTick ==
  /\ Up /\ prDeadline \in 0 .. TeardownGrace - 1 /\ prPending = {}
  /\ prTask[Handler] = "run" =>
       /\ prHandler.age = 0 /\ prHandler.at # "end"
       /\ WaitsAt(prHandler.at) => WaiterNext(Handler, prHandler.at) = prHandler.at
  /\ prDeadline' = prDeadline + 1 /\ prSince' = prSince + 1
  /\ prHandler' = [prHandler EXCEPT !.age = IF prHandler.at \in {"stop", "flush", "close"}
                                              THEN 1 ELSE 0]
  /\ UNCHANGED <<prBoot, prTask, prJoined, prAsked, prShared, prSup, prFirst, prPool,
                 prSignal, prExit>>

HandlerStep ==
  \/ HandlerWaits \/ AskShutdown \/ HandlerEnds
  \/ \E ok \in BOOLEAN : StopStep(ok) \/ FlushStep(ok) \/ CloseStep(ok)
SupStep == SupTop \/ SupWaits \/ (\E t \in Tasks : SupJoins(t)) \/ SupGivesUp \/ SupEnds

ProcessNext ==
  \/ Boot
  \/ \E ok \in BOOLEAN : SignalComes(ok)
  \/ \E who \in {"supervisor", Handler} : NotifyAll(who)
  \/ \E s \in Services, how \in {"ok", "err"} : ServiceEnds(s, how)
  \/ HandlerStep \/ HandlerDies \/ SupStep \/ ProcessTick

ProcessSpec == ProcessInit /\ [][ProcessNext]_prVars

(* The two tasks run and time passes. Services need not end.               *)
ProcessFairSpec ==
  /\ ProcessSpec
  /\ \A who \in {"supervisor", Handler} : WF_prVars(NotifyAll(who))
  /\ WF_prVars(Boot) /\ WF_prVars(HandlerStep) /\ WF_prVars(SupStep) /\ WF_prVars(ProcessTick)

-----------------------------------------------------------------------------

(* CleanExitIsClean. The process ends without an error only when a signal  *)
(* asked for it, every task ended well and none ended before the request   *)
(* was seen: a crash during the teardown, a handler that dies and a task   *)
(* that ends by itself all make it fail (supervise).                       *)
CleanExitIsClean ==
  prExit = "ok" => prSignal /\ \A t \in Tasks : prTask[t] = "ok"

(* PoolClosedAlone. The DB pool is closed only when no service is left     *)
(* that could use it, whichever stop steps ran out of time (the stop       *)
(* sequence).                                                              *)
PoolClosedAlone == prPool # "open" => \A s \in Services : prTask[s] # "run"

(* TeardownWithinGrace. The teardown never outlasts its grace period,      *)
(* however the ends of slow services are spread over it                    *)
(* (teardown_deadline).                                                    *)
TeardownWithinGrace == prSince <= TeardownGrace

(* RequestHeard. A request for shutdown reaches the handler, which starts  *)
(* the stop sequence, whenever it comes: also between the handler's look   *)
(* at the flag and its wait (Shutdown::requested_signal).                  *)
RequestHeard == prRequested ~> (prTask[Handler] # "run" \/ ~WaitsAt(prHandler.at))

(* ShutdownEnds. A request for shutdown ends the process, however many     *)
(* services never stop, and also when the handler that runs the stop       *)
(* sequence has died (supervise).                                          *)
ShutdownEnds == prRequested ~> prExit # "none"

-----------------------------------------------------------------------------

(* Only a signal and the stop sequence, with services that never stop.     *)
NothingStops ==
  \/ Boot \/ SignalComes(TRUE)
  \/ \E who \in {"supervisor", Handler} : NotifyAll(who)
  \/ HandlerStep \/ SupStep \/ ProcessTick
NothingStopsSpec == ProcessInit /\ [][NothingStops]_prVars

(* StopSequenceCeiling. The comment on TEARDOWN_GRACE: the stop sequence   *)
(* takes at most 65 s, 13 steps of 5 s, also when no service stops.        *)
StopSequenceCeiling == prHandler.at = "end" => prSince <= 13
=============================================================================
