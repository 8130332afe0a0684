----------------------------- MODULE WorkerLoops -----------------------------
(***************************************************************************)
(* The worker's loops as tasks: how they share the DB pool with each other *)
(* and with the background services, how a loop that dies takes the worker *)
(* down, how a stop drains it, and what the health endpoint says of it.    *)
(* What happens to the jobs is the module JobQueue, how a loop waits for   *)
(* one is JobSignal.                                                       *)
(***************************************************************************)
EXTENDS Integers, FiniteSetsExt

CONSTANTS
  Loops,           \* worker_concurrency loops
  MaxPool,         \* the largest db.max_connections
  Background,      \* the most connections other services hold at once
  JobTimeout,      \* PROCESS_JOB_TIMEOUT
  AcquireTimeout,  \* ACQUIRE_TIMEOUT
  TickTime,        \* DEFAULT_QUEUE_POLL_PERIOD and SUBSCRIBE_TIMEOUT
  Threshold        \* health.threshold

ASSUME WorkerLoopsAssumption ==
  /\ IsFiniteSet(Loops)
  /\ {MaxPool, Background, JobTimeout, AcquireTimeout, TickTime} \subseteq Nat \ {0}
  /\ Threshold \in Nat   \* any: main warns of one not above the job timeout

(* The longest turn of a loop: its tick, the wait for a connection and the *)
(* job. 451 s in the code, where the default threshold is 840 s.           *)
TurnTime == TickTime + AcquireTimeout + JobTimeout

VARIABLES
  wkPool,     \* connections of the DB pool
  wkAt,       \* [loop -> where it is]
  wkListens,  \* loops whose listener holds a connection
  wkSpent,    \* [loop -> time in its tick, its wait for a connection or its job]
  wkAge,      \* [loop -> age of its watermark]
  wkStuck,    \* [loop -> time it has been wedged] (ghost)
  wkOthers,   \* connections the background services hold
  wkStop,     \* the value of the stop channel
  wkJoined,   \* loops the worker has joined
  wkFailed,   \* first_err is set
  wkWorker    \* the worker's future: "run", "ok" or "err"

wkVars == <<wkPool, wkAt, wkListens, wkSpent, wkAge, wkStuck, wkOthers, wkStop, wkJoined,
            wkFailed, wkWorker>>

LoopEnded   == {"done", "died"}
HoldsTx == {"job", "wantQuery", "query", "wedged"}   \* the popped job's transaction
Long(n) == Min({n, Threshold + 1})

LoopsTypeOK ==
  /\ wkPool \in 1 .. MaxPool
  /\ wkAt \in [Loops -> {"tick", "wantPop"} \cup HoldsTx \cup LoopEnded]
  /\ wkListens \subseteq Loops /\ wkJoined \subseteq Loops
  /\ wkSpent \in [Loops -> 0 .. TurnTime]
  /\ wkAge \in [Loops -> 0 .. Threshold + 1]
  /\ wkStuck \in [Loops -> 0 .. Threshold + 1]
  /\ wkOthers \in 0 .. Background
  /\ wkStop \in BOOLEAN /\ wkFailed \in BOOLEAN
  /\ wkWorker \in {"run", "ok", "err"}

(* Mutant: the listener's connection is left out.                          *)
RequiredConnsNoListener(loops) == loops * 2

(* main: the smallest pool the service starts with, 3 connections for each *)
(* loop and 2 for the other services.                                      *)
RequiredConns(loops) == loops * 3 + 2

LoopsInit ==
  /\ wkPool \in {n \in 1 .. MaxPool : RequiredConns(Cardinality(Loops)) <= n}
  /\ wkAt = [l \in Loops |-> "tick"]
  /\ wkListens = {} /\ wkJoined = {}
  /\ wkSpent = [l \in Loops |-> 0]
  /\ wkAge = [l \in Loops |-> 0]     \* Liveness::register seeds it to now
  /\ wkStuck = [l \in Loops |-> 0]
  /\ wkOthers = 0
  /\ wkStop = FALSE /\ wkFailed = FALSE /\ wkWorker = "run"

-----------------------------------------------------------------------------
(* The DB pool.                                                            *)

Used ==
  Cardinality(wkListens) + wkOthers
    + Cardinality({l \in Loops : wkAt[l] \in HoldsTx})
    + Cardinality({l \in Loops : wkAt[l] = "query"})
Free == Used < wkPool

OtherTakes ==
  /\ Free /\ wkOthers < Background /\ wkOthers' = wkOthers + 1
  /\ UNCHANGED <<wkPool, wkAt, wkListens, wkSpent, wkAge, wkStuck, wkStop, wkJoined, wkFailed,
                 wkWorker>>
OtherReturns ==
  /\ wkOthers > 0 /\ wkOthers' = wkOthers - 1
  /\ UNCHANGED <<wkPool, wkAt, wkListens, wkSpent, wkAge, wkStuck, wkStop, wkJoined, wkFailed,
                 wkWorker>>

-----------------------------------------------------------------------------
(* run_loop.                                                               *)

Moves(l, where, spent) ==
  /\ wkAt' = [wkAt EXCEPT ![l] = where]
  /\ wkSpent' = [wkSpent EXCEPT ![l] = spent]
  /\ UNCHANGED <<wkPool, wkOthers, wkStop, wkJoined, wkFailed, wkWorker>>

(* The subscription opens, or breaks.                                      *)
Listens(l) ==
  /\ wkAt[l] = "tick"
  /\ \/ l \notin wkListens /\ Free /\ wkListens' = wkListens \cup {l}
     \/ l \in wkListens /\ wkListens' = wkListens \ {l}
  /\ UNCHANGED <<wkPool, wkAt, wkSpent, wkAge, wkStuck, wkOthers, wkStop, wkJoined, wkFailed,
                 wkWorker>>

(* Mutant: a turn of the loop does not move its watermark.                 *)
TickProgressNone(l) == wkAge

(* record_progress: every turn of the loop counts, idle ones too.          *)
TickProgress(l) == [wkAge EXCEPT ![l] = 0]

(* next_tick returns: stop, or go and pop a job.                           *)
NextTick(l) ==
  /\ wkAt[l] = "tick"
  /\ IF wkStop
       THEN /\ Moves(l, "done", 0)
            /\ wkListens' = wkListens \ {l}
            /\ UNCHANGED wkAge
       ELSE /\ Moves(l, "wantPop", 0)
            /\ wkAge' = TickProgress(l)
            /\ UNCHANGED wkListens
  /\ UNCHANGED wkStuck

(* pop begins a transaction: it finds a job, or nothing; or no connection  *)
(* came in time.                                                           *)
Pop(l) ==
  /\ wkAt[l] = "wantPop"
  /\ \/ Free /\ Moves(l, "job", 0)
     \/ Free /\ Moves(l, "tick", 0)
     \/ ~Free /\ wkSpent[l] >= AcquireTimeout /\ Moves(l, "tick", 0)
  /\ UNCHANGED <<wkListens, wkAge, wkStuck>>

(* A handler queries the registry on a connection of its own.              *)
Query(l) ==
  /\ \/ wkAt[l] = "job" /\ Moves(l, "wantQuery", wkSpent[l])
     \/ wkAt[l] = "wantQuery" /\ Free /\ Moves(l, "query", wkSpent[l])
     \/ wkAt[l] = "query" /\ Moves(l, "job", wkSpent[l])
  /\ UNCHANGED <<wkListens, wkAge, wkStuck>>

(* run_job_with_timeout returns: the handler's result or the timeout. The  *)
(* job's row is settled and its transaction ends.                          *)
JobEnds(l) ==
  /\ \/ wkAt[l] = "job"
     \/ wkAt[l] \in {"wantQuery", "query"} /\ wkSpent[l] = JobTimeout
  /\ Moves(l, "tick", 0)
  /\ UNCHANGED <<wkListens, wkAge, wkStuck>>

(* The row's transaction hangs in the database, where no timeout of the    *)
(* loop reaches.                                                           *)
Wedges(l) ==
  /\ wkAt[l] = "job" /\ Moves(l, "wedged", 0)
  /\ UNCHANGED <<wkListens, wkAge, wkStuck>>

(* A handler panics: the loop's task ends and gives its connections back.  *)
Panics(l) ==
  /\ wkAt[l] \in {"job", "query"} /\ Moves(l, "died", 0)
  /\ wkListens' = wkListens \ {l}
  /\ UNCHANGED <<wkAge, wkStuck>>

-----------------------------------------------------------------------------
(* service::new: the worker's future joins the loops.                      *)

(* Mutant: only a loop that was told to stop stops the others.             *)
StopsOthersOnOk(l) == wkStop \/ wkAt[l] = "done"

(* stop_tx.send(true) after any loop ended.                                *)
StopsOthers(l) == TRUE

(* Mutant: a panic is swallowed.                                           *)
LoopFailedNever(l) == FALSE

LoopFailed(l) == wkAt[l] = "died"

JoinLoop(l) ==
  /\ wkWorker = "run" /\ wkAt[l] \in LoopEnded /\ l \notin wkJoined
  /\ wkJoined' = wkJoined \cup {l}
  /\ wkFailed' = (wkFailed \/ LoopFailed(l))
  /\ wkStop' = StopsOthers(l)
  /\ UNCHANGED <<wkPool, wkAt, wkListens, wkSpent, wkAge, wkStuck, wkOthers, wkWorker>>

WorkerEnds ==
  /\ wkWorker = "run" /\ wkJoined = Loops
  /\ wkWorker' = IF wkFailed THEN "err" ELSE "ok"
  /\ UNCHANGED <<wkPool, wkAt, wkListens, wkSpent, wkAge, wkStuck, wkOthers, wkStop, wkJoined,
                 wkFailed>>

(* Handle::stop.                                                           *)
StopWorker ==
  /\ ~wkStop /\ wkStop' = TRUE
  /\ UNCHANGED <<wkPool, wkAt, wkListens, wkSpent, wkAge, wkStuck, wkOthers, wkJoined, wkFailed,
                 wkWorker>>

(* Time passes; a timeout that is due comes first. The watermark of a loop *)
(* that has ended stays registered, and ages.                              *)
LoopsTick ==
  /\ \A l \in Loops :
       /\ wkAt[l] = "tick" => wkSpent[l] < TickTime
       /\ wkAt[l] = "wantPop" => ~Free /\ wkSpent[l] < AcquireTimeout
       /\ wkAt[l] \in {"job", "wantQuery", "query"} => wkSpent[l] < JobTimeout
  /\ wkSpent' = [l \in Loops |-> IF wkAt[l] \in LoopEnded \cup {"wedged"}
                                   THEN 0 ELSE wkSpent[l] + 1]
  /\ wkAge' = [l \in Loops |-> Long(wkAge[l] + 1)]
  /\ wkStuck' = [l \in Loops |-> IF wkAt[l] = "wedged" THEN Long(wkStuck[l] + 1) ELSE wkStuck[l]]
  /\ UNCHANGED <<wkPool, wkAt, wkListens, wkOthers, wkStop, wkJoined, wkFailed, wkWorker>>

WorkerStep(l) == NextTick(l) \/ Pop(l) \/ Query(l) \/ JobEnds(l)

LoopsNext ==
  \/ OtherTakes \/ OtherReturns \/ WorkerEnds \/ StopWorker \/ LoopsTick
  \/ \E l \in Loops : Listens(l) \/ WorkerStep(l) \/ Wedges(l) \/ Panics(l) \/ JoinLoop(l)

LoopsSpec == LoopsInit /\ [][LoopsNext]_wkVars

-----------------------------------------------------------------------------
(* Liveness::is_healthy_at.                                                *)

(* Mutant: one loop that moves is enough.                                  *)
HealthyAny == \E l \in Loops : wkAge[l] <= Threshold

Healthy == \A l \in Loops : wkAge[l] <= Threshold

(* PoolNeverLocked. When a loop waits for a connection and none is free,   *)
(* someone holds one who waits for nothing: the loops cannot come to wait  *)
(* for each other with a listener and a job each (the sizing in main).     *)
PoolNeverLocked ==
  (\E l \in Loops : wkAt[l] \in {"wantPop", "wantQuery"}) /\ ~Free =>
    wkOthers > 0 \/ \E l \in Loops : wkAt[l] \in {"job", "query", "wedged"}

(* WedgedIsSeen. A loop that has hung for longer than the threshold makes  *)
(* the endpoint report it, however busy the other loops are                *)
(* (Liveness::is_healthy_at).                                              *)
WedgedIsSeen == \A l \in Loops : wkStuck[l] > Threshold => ~Healthy

(* SlowIsHealthy. While its loops run and none is wedged, the endpoint     *)
(* never reports the worker as stalled: not for an idle loop, one that     *)
(* waits for its subscription, a pool with nothing to give, or jobs that   *)
(* take until their timeout, if the threshold is as long as the longest    *)
(* turn, as the default is (record_progress, DEFAULT_HEALTH_THRESHOLD).    *)
SlowIsHealthy ==
  Threshold >= TurnTime /\ (\A l \in Loops : wkAt[l] \notin LoopEnded \cup {"wedged"}) => Healthy

(* DeathFailsWorker. A worker that ends after a loop panicked ends with an *)
(* error, so that the process restarts (the join of the loops).            *)
DeathFailsWorker == (\E l \in Loops : wkAt[l] = "died") => wkWorker # "ok"

(* DeathDrainsWorker. A loop that dies takes the worker down: no worker    *)
(* runs on with fewer loops (the join of the loops).                       *)
DeathDrainsWorker ==
  (\E l \in Loops : wkAt[l] = "died") ~> (wkWorker = "err" \/ \E l \in Loops : wkAt[l] = "wedged")

(* Loops run, jobs end, connections come back and time passes.             *)
LoopsFairSpec ==
  /\ LoopsSpec
  /\ WF_wkVars(WorkerEnds) /\ WF_wkVars(OtherReturns) /\ SF_wkVars(LoopsTick)
  /\ \A l \in Loops : WF_wkVars(NextTick(l)) /\ SF_wkVars(Pop(l)) /\ SF_wkVars(JobEnds(l))
                      /\ WF_wkVars(JoinLoop(l))
=============================================================================
