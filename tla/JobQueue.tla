------------------------------ MODULE JobQueue -------------------------------
(***************************************************************************)
(* The PostgreSQL job queue (dipper-pgmq) and the worker loops that drain  *)
(* it (worker/service.rs).                                                 *)
(*                                                                         *)
(* A loop pops a job inside a transaction that stays open, holding the     *)
(* row's lock, until the handler's result has been written back; the       *)
(* Running status pop writes is therefore never visible to another         *)
(* session, and a rollback (panic, crash, failed settlement, lost          *)
(* connection) makes the row exactly what it was before the pop. `status`  *)
(* and `attempts` below are the committed columns; `lock` is the row lock. *)
(*                                                                         *)
(* Abstractions. A handler is only the JobResult it returns; the job       *)
(* timeout is one way of returning Retryable. `due` is the set of jobs     *)
(* with scheduled_for <= now(). The NOTIFY wake-up only makes a loop tick  *)
(* earlier than its one-second poll, so a tick is always possible.         *)
(* `birth` is the order of created_at and the v7 id.                       *)
(***************************************************************************)
EXTENDS Integers

CONSTANTS
  Jobs,          \* the jobs that may ever be pushed
  Loops,         \* the worker loops of `new` (its `concurrency`)
  NoLoop,        \* the value of `lock` for an unlocked row
  NoJob,         \* the job of a loop that runs none
  Priority,      \* [Jobs -> {-1, 0, 1}]: Sweep, Background, Interactive
  MaxAttempts,   \* [Jobs -> positive]
  MaxFaults      \* bound on crashes, lost connections, DB errors, stops

ASSUME JobsAssumption ==
  /\ Priority \in [Jobs -> -1 .. 1]
  /\ MaxAttempts \in [Jobs -> Nat \ {0}]
  /\ NoJob \notin Jobs
  /\ NoLoop \notin Loops
  /\ MaxFaults \in Nat

VARIABLES
  status,     \* "absent", "Queued", "Failed" or "removed": the row of each job
  attempts,   \* attempt_count
  due,        \* the jobs whose scheduled_for <= now()
  birth,      \* rank of the row's created_at; 0 before the push
  pushes,     \* number of pushes so far
  lock,       \* which loop's open transaction holds the row
  phase,      \* where each loop is in run_loop
  job,        \* the job each loop is processing
  result,     \* what its handler returned
  signal,     \* the watch channel's value: "run" or "stop"
  faults      \* faults so far (bounds the model, not the code)

rowVars  == <<status, attempts, due, birth, pushes>>
loopVars == <<phase, job, result>>
vars     == <<status, attempts, due, birth, pushes, lock, phase, job, result,
              signal, faults>>

Results == {"Ok", "Retryable", "Deferred", "Fatal"}
Phases  == {"waiting", "ticked", "running", "settling", "exited"}

TypeOK ==
  /\ status \in [Jobs -> {"absent", "Queued", "Failed", "removed"}]
  /\ attempts \in [Jobs -> Nat]
  /\ due \in SUBSET Jobs
  /\ birth \in [Jobs -> Nat]
  /\ pushes \in Nat
  /\ lock \in [Jobs -> Loops \cup {NoLoop}]
  /\ phase \in [Loops -> Phases]
  /\ job \in [Loops -> Jobs \cup {NoJob}]
  /\ result \in [Loops -> Results \cup {"none"}]
  /\ signal \in {"run", "stop"}
  /\ faults \in 0 .. MaxFaults

Init ==
  /\ status = [j \in Jobs |-> "absent"]
  /\ attempts = [j \in Jobs |-> 0]
  /\ due = {}
  /\ birth = [j \in Jobs |-> 0]
  /\ pushes = 0
  /\ lock = [j \in Jobs |-> NoLoop]
  /\ phase = [l \in Loops |-> "waiting"]
  /\ job = [l \in Loops |-> NoJob]
  /\ result = [l \in Loops |-> "none"]
  /\ signal = "run"
  /\ faults = 0

-----------------------------------------------------------------------------
(* The rows.                                                               *)

(* A push inserts a row that is due at once.                               *)
Push(j) ==
  /\ status[j] = "absent"
  /\ status' = [status EXCEPT ![j] = "Queued"]
  /\ due' = due \cup {j}
  /\ pushes' = pushes + 1
  /\ birth' = [birth EXCEPT ![j] = pushes + 1]
  /\ UNCHANGED <<attempts, lock, loopVars, signal, faults>>

(* Time passes a row's scheduled_for.                                      *)
BecomeDue(j) ==
  /\ status[j] = "Queued"
  /\ j \notin due
  /\ due' = due \cup {j}
  /\ UNCHANGED <<status, attempts, birth, pushes, lock, loopVars, signal,
                 faults>>

(* ORDER BY priority DESC, created_at, id.                                 *)
Before(j, k) ==
  \/ Priority[j] > Priority[k]
  \/ Priority[j] = Priority[k] /\ birth[j] < birth[k]

(* Rows FOR UPDATE SKIP LOCKED can return.                                 *)
Poppable(j) == status[j] = "Queued" /\ j \in due /\ lock[j] = NoLoop

(* Mutant: the column counts the attempts left.                            *)
RequeueCountsDown(j) ==
  /\ attempts' = [attempts EXCEPT ![j] = @ - 1]
  /\ due' = due \ {j}
  /\ UNCHANGED <<status, birth, pushes>>

(* Mutant: the ceiling is tested before this attempt is counted.           *)
RequeueOneTooMany(j) ==
  /\ attempts' = [attempts EXCEPT ![j] = @ + 1]
  /\ IF attempts[j] >= MaxAttempts[j]
       THEN status' = [status EXCEPT ![j] = "Failed"] /\ UNCHANGED due
       ELSE due' = due \ {j} /\ UNCHANGED status
  /\ UNCHANGED <<birth, pushes>>

(* requeue with count_attempt set: one more failed attempt, Failed at the  *)
(* ceiling with scheduled_for untouched.                                   *)
RequeueCounted(j) ==
  /\ attempts' = [attempts EXCEPT ![j] = @ + 1]
  /\ IF attempts[j] + 1 >= MaxAttempts[j]
       THEN /\ status' = [status EXCEPT ![j] = "Failed"]
            /\ UNCHANGED due
       ELSE /\ due' = due \ {j}
            /\ UNCHANGED status
  /\ UNCHANGED <<birth, pushes>>

(* requeue with count_attempt clear.                                       *)
RequeueUncounted(j) ==
  /\ due' = due \ {j}
  /\ UNCHANGED <<status, attempts, birth, pushes>>

RemoveRow(j) ==
  /\ status' = [status EXCEPT ![j] = "removed"]
  /\ UNCHANGED <<attempts, due, birth, pushes>>

(* Mutant: a failed attempt is re-queued like a deferred one.              *)
WriteBackUncounted(j, r) ==
  \/ r \in {"Ok", "Fatal"} /\ RemoveRow(j)
  \/ r \in {"Retryable", "Deferred"} /\ RequeueUncounted(j)

(* Mutant: a fatal job is given up on without spending its attempts.       *)
WriteBackGivesUp(j, r) ==
  \/ r = "Ok" /\ RemoveRow(j)
  \/ r = "Retryable" /\ RequeueCounted(j)
  \/ r = "Deferred" /\ RequeueUncounted(j)
  \/ /\ r = "Fatal"
     /\ status' = [status EXCEPT ![j] = "Failed"]
     /\ UNCHANGED <<attempts, due, birth, pushes>>

(* The write that each JobResult calls for.                                *)
WriteBack(j, r) ==
  \/ r \in {"Ok", "Fatal"} /\ RemoveRow(j)
  \/ r = "Retryable" /\ RequeueCounted(j)
  \/ r = "Deferred" /\ RequeueUncounted(j)

-----------------------------------------------------------------------------
(* The loops.                                                              *)

(* next_tick returns: a poll, or the stop signal, which select! prefers.   *)
Tick(l) ==
  /\ phase[l] = "waiting"
  /\ signal = "run"
  /\ phase' = [phase EXCEPT ![l] = "ticked"]
  /\ UNCHANGED <<rowVars, lock, job, result, signal, faults>>

(* Mutant: a stopped loop leaves only once the queue is empty.             *)
ExitLoopWhenDrained(l) ==
  /\ phase[l] = "waiting"
  /\ signal = "stop"
  /\ \A j \in Jobs : status[j] # "Queued"
  /\ phase' = [phase EXCEPT ![l] = "exited"]
  /\ UNCHANGED <<rowVars, lock, job, result, signal, faults>>

ExitLoop(l) ==
  /\ phase[l] = "waiting"
  /\ signal = "stop"
  /\ phase' = [phase EXCEPT ![l] = "exited"]
  /\ UNCHANGED <<rowVars, lock, job, result, signal, faults>>

Pop(l, j) ==
  /\ phase[l] = "ticked"
  /\ Poppable(j)
  /\ \A k \in Jobs : Poppable(k) => ~Before(k, j)
  /\ lock' = [lock EXCEPT ![j] = l]
  /\ phase' = [phase EXCEPT ![l] = "running"]
  /\ job' = [job EXCEPT ![l] = j]
  /\ UNCHANGED <<rowVars, result, signal, faults>>

PopNothing(l) ==
  /\ phase[l] = "ticked"
  /\ \A j \in Jobs : ~Poppable(j)
  /\ phase' = [phase EXCEPT ![l] = "waiting"]
  /\ UNCHANGED <<rowVars, lock, job, result, signal, faults>>

(* process_job returns, or run_job_with_timeout gives up on it with a      *)
(* Retryable error.                                                        *)
HandlerReturns(l, r) ==
  /\ phase[l] = "running"
  /\ phase' = [phase EXCEPT ![l] = "settling"]
  /\ result' = [result EXCEPT ![l] = r]
  /\ UNCHANGED <<rowVars, lock, job, signal, faults>>

Idle(l) ==
  /\ phase' = [phase EXCEPT ![l] = "waiting"]
  /\ job' = [job EXCEPT ![l] = NoJob]
  /\ result' = [result EXCEPT ![l] = "none"]

(* remove, mark_as_failed_and_reschedule or reschedule commits.            *)
Settle(l) ==
  /\ phase[l] = "settling"
  /\ lock[job[l]] = l
  /\ WriteBack(job[l], result[l])
  /\ lock' = [lock EXCEPT ![job[l]] = NoLoop]
  /\ Idle(l)
  /\ UNCHANGED <<signal, faults>>

(* Mutant: the settlement is a new statement, not part of the transaction  *)
(* that popped the job.                                                    *)
SettleLostWrites(l) ==
  /\ phase[l] = "settling"
  /\ lock[job[l]] # l
  /\ WriteBack(job[l], result[l])
  /\ Idle(l)
  /\ UNCHANGED <<lock, signal, faults>>

(* The connection was already gone: the write fails, the error is logged.  *)
SettleLost(l) ==
  /\ phase[l] = "settling"
  /\ lock[job[l]] # l
  /\ Idle(l)
  /\ UNCHANGED <<rowVars, lock, signal, faults>>

-----------------------------------------------------------------------------
(* Faults.                                                                 *)

Fault ==
  /\ faults < MaxFaults
  /\ faults' = faults + 1

(* pop returns an error; the loop carries on.                              *)
PopFails(l) ==
  /\ phase[l] = "ticked"
  /\ phase' = [phase EXCEPT ![l] = "waiting"]
  /\ Fault
  /\ UNCHANGED <<rowVars, lock, job, result, signal>>

(* The settlement fails: dropping the transaction rolls it back.           *)
SettleFails(l) ==
  /\ phase[l] = "settling"
  /\ lock[job[l]] = l
  /\ lock' = [lock EXCEPT ![job[l]] = NoLoop]
  /\ Idle(l)
  /\ Fault
  /\ UNCHANGED <<rowVars, signal>>

(* PostgreSQL drops the session under a running handler, which goes on     *)
(* unaware: the rollback frees the row for another loop.                   *)
ConnectionLost(l) ==
  /\ phase[l] \in {"running", "settling"}
  /\ lock[job[l]] = l
  /\ lock' = [lock EXCEPT ![job[l]] = NoLoop]
  /\ Fault
  /\ UNCHANGED <<rowVars, loopVars, signal>>

(* Mutant: the guard outlives the task that panicked.                      *)
PanicKeepsGuard(l) ==
  /\ phase[l] = "running"
  /\ phase' = [phase EXCEPT ![l] = "exited"]
  /\ job' = [job EXCEPT ![l] = NoJob]
  /\ Fault
  /\ UNCHANGED <<rowVars, lock, result, signal>>

(* A handler panics: the loop's task ends, its JobGuard is dropped.        *)
Panic(l) ==
  /\ phase[l] = "running"
  /\ lock' = [j \in Jobs |-> IF lock[j] = l THEN NoLoop ELSE lock[j]]
  /\ phase' = [phase EXCEPT ![l] = "exited"]
  /\ job' = [job EXCEPT ![l] = NoJob]
  /\ Fault
  /\ UNCHANGED <<rowVars, result, signal>>

(* The JoinSet reports an ended loop: stop the rest.                       *)
StopTheRest ==
  /\ \E l \in Loops : phase[l] = "exited"
  /\ signal = "run"
  /\ signal' = "stop"
  /\ UNCHANGED <<rowVars, lock, loopVars, faults>>

(* Handle::stop.                                                           *)
Stop ==
  /\ signal = "run"
  /\ signal' = "stop"
  /\ Fault
  /\ UNCHANGED <<rowVars, lock, loopVars>>

FreshLoops ==
  /\ phase' = [l \in Loops |-> "waiting"]
  /\ job' = [l \in Loops |-> NoJob]
  /\ result' = [l \in Loops |-> "none"]
  /\ signal' = "run"

(* The worker future resolved, the process ended and was started again.    *)
Restart ==
  /\ \A l \in Loops : phase[l] = "exited"
  /\ signal = "stop"
  /\ FreshLoops
  /\ UNCHANGED <<rowVars, lock, faults>>

(* The process dies: every open transaction is rolled back.                *)
Crash ==
  /\ Fault
  /\ lock' = [j \in Jobs |-> NoLoop]
  /\ FreshLoops
  /\ UNCHANGED rowVars

-----------------------------------------------------------------------------
LoopStep(l) ==
  \/ Tick(l)
  \/ ExitLoop(l)
  \/ \E j \in Jobs : Pop(l, j)
  \/ PopNothing(l)
  \/ \E r \in Results : HandlerReturns(l, r)
  \/ Settle(l)
  \/ SettleLost(l)

LoopFault(l) ==
  \/ PopFails(l)
  \/ SettleFails(l)
  \/ ConnectionLost(l)
  \/ Panic(l)

Next ==
  \/ \E j \in Jobs : Push(j) \/ BecomeDue(j)
  \/ \E l \in Loops : LoopStep(l) \/ LoopFault(l)
  \/ StopTheRest
  \/ Stop
  \/ Restart
  \/ Crash

Spec == Init /\ [][Next]_vars

(* A loop keeps taking steps: it polls every second, a handler is cut off  *)
(* after PROCESS_JOB_TIMEOUT, and time passes any scheduled_for. The       *)
(* service's supervisor restarts a process that ended.                     *)
Fairness ==
  /\ \A l \in Loops : WF_vars(LoopStep(l))
  /\ \A j \in Jobs : WF_vars(BecomeDue(j))
  /\ WF_vars(StopTheRest)
  /\ WF_vars(Restart)

FairSpec == Spec /\ Fairness

-----------------------------------------------------------------------------
(* Properties.                                                             *)

(* A row lock belongs to a loop that is really processing that job, and    *)
(* the committed row is still Queued and due: what another session sees    *)
(* while the job runs is an ordinary queued row, so only the lock (SKIP    *)
(* LOCKED) keeps two live transactions off one job.                        *)
LockDiscipline ==
  \A j \in Jobs : \A l \in Loops :
    lock[j] = l =>
      /\ job[l] = j
      /\ phase[l] \in {"running", "settling"}
      /\ status[j] = "Queued"
      /\ j \in due

(* Failed is reached exactly when the attempts are spent, and a row that   *)
(* may still be popped has at least one attempt left (requeue's CASE).     *)
AttemptBudget ==
  \A j \in Jobs :
    /\ attempts[j] <= MaxAttempts[j]
    /\ status[j] = "Failed" <=> attempts[j] = MaxAttempts[j]
    /\ status[j] = "absent" => attempts[j] = 0

(* Once pushed, a row's status and attempt count are changed only by the   *)
(* loop whose transaction still holds it, after that loop's handler        *)
(* returned. In particular a loop that outlived its transaction (its       *)
(* connection was lost and another loop took the job over) changes nothing *)
(* when it settles, and a removed row had a handler return Ok or Fatal.    *)
OnlyTheHolderSettles ==
  [][\A j \in Jobs :
       \/ status[j] = "absent"
       \/ status'[j] = status[j] /\ attempts'[j] = attempts[j]
       \/ \E l \in Loops :
            /\ lock[j] = l /\ lock'[j] = NoLoop
            /\ phase[l] = "settling" /\ phase'[l] = "waiting"
            /\ (status'[j] = "removed") = (result[l] \in {"Ok", "Fatal"})
            /\ (attempts'[j] > attempts[j]) = (result[l] = "Retryable")]_vars

(* The queue is a ledger of jobs.                                          *)
Ledger == INSTANCE JobLedger WITH
  place <- [j \in Jobs |->
              IF lock[j] # NoLoop THEN "held"
              ELSE IF status[j] = "absent" THEN "new"
              ELSE IF status[j] = "Queued" THEN "pending"
              ELSE IF status[j] = "removed" THEN "done" ELSE "dead"],
  tries <- attempts

LedgerSpec == Ledger!Spec

(* Unless some job is deferred for ever, every queued job ends: removed    *)
(* with a verdict or Failed at its ceiling. Deferral is excluded because   *)
(* it costs no attempt and a deferred job keeps its place ahead of         *)
(* younger jobs; panics and crashes are excluded by MaxFaults because they *)
(* cost no attempt either.                                                 *)
JobsEnd ==
  <>[](\A l \in Loops : result[l] # "Deferred") =>
    \A j \in Jobs : status[j] = "Queued" ~> status[j] \in {"removed", "Failed"}

(* A stop, or the death of one loop, drains every loop: each finishes the  *)
(* job it is on and exits (unless the whole process is started afresh).    *)
Draining == signal = "stop" \/ \E l \in Loops : phase[l] = "exited"

StopDrains == Draining ~> (\A l \in Loops : phase[l] = "exited") \/ ~Draining

=============================================================================
