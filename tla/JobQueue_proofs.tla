--------------------------- MODULE JobQueue_proofs ---------------------------
(***************************************************************************)
(* Proofs about JobQueue, for any number of jobs, loops and faults: its    *)
(* inductive invariant, who may settle a job, and that the queue           *)
(* implements JobLedger.                                                   *)
(***************************************************************************)
EXTENDS JobQueue, TLAPS

(* A loop past its pop has a job, and one past its handler has a result.   *)
LoopShape ==
  \A l \in Loops :
    /\ phase[l] \in {"running", "settling"} => job[l] \in Jobs
    /\ phase[l] = "settling" => result[l] \in Results

IInv == TypeOK /\ LoopShape /\ LockDiscipline /\ AttemptBudget

(* The inductive invariant holds initially.                                *)
LEMMA InitIInv == Init => IInv
<1> USE JobsAssumption
<1> SUFFICES ASSUME Init PROVE IInv
  OBVIOUS
<1>1. TypeOK
  BY DEF Init, TypeOK, Phases
<1>2. LoopShape /\ LockDiscipline
  BY DEF Init, LoopShape, LockDiscipline
<1>3. AttemptBudget
  <2>1. \A j \in Jobs : MaxAttempts[j] \in Nat /\ MaxAttempts[j] # 0
    OBVIOUS
  <2>2. \A j \in Jobs : attempts[j] = 0 /\ status[j] = "absent"
    BY DEF Init
  <2>3. \A j \in Jobs : attempts[j] <= MaxAttempts[j]
    <3> TAKE j \in Jobs
    <3>1. \A n \in Nat : 0 <= n
      OBVIOUS
    <3> QED BY <2>1, <2>2, <3>1
  <2>4. \A j \in Jobs : status[j] # "Failed" /\ attempts[j] # MaxAttempts[j]
    BY <2>1, <2>2
  <2> QED BY <2>2, <2>3, <2>4 DEF AttemptBudget
<1> QED BY <1>1, <1>2, <1>3 DEF IInv

(* Every loop's ordinary step preserves the invariant.                     *)
LEMMA LoopStepIInv ==
  ASSUME IInv, NEW l \in Loops, LoopStep(l)
  PROVE  IInv'
<1> USE JobsAssumption
<1>1. CASE Tick(l) \/ ExitLoop(l) \/ PopNothing(l)
  BY <1>1 DEF Tick, ExitLoop, PopNothing, IInv, TypeOK, LoopShape,
     LockDiscipline, AttemptBudget, Phases, rowVars
<1>2. CASE \E j \in Jobs : Pop(l, j)
  <2> PICK j \in Jobs : Pop(l, j)
    BY <1>2
  <2>1. TypeOK' /\ LoopShape' /\ AttemptBudget'
    BY DEF Pop, IInv, TypeOK, LoopShape, AttemptBudget, Phases, rowVars
  <2>2. LockDiscipline'
    BY DEF Pop, Poppable, IInv, TypeOK, LoopShape, LockDiscipline, rowVars
  <2> QED BY <2>1, <2>2 DEF IInv
<1>3. CASE \E r \in Results : HandlerReturns(l, r)
  BY <1>3 DEF HandlerReturns, IInv, TypeOK, LoopShape, LockDiscipline,
     AttemptBudget, Phases, rowVars
<1>4. CASE Settle(l)
  <2> DEFINE j == job[l]
  <2>1. /\ j \in Jobs /\ lock[j] = l /\ status[j] = "Queued" /\ j \in due
        /\ result[l] \in Results
    BY <1>4 DEF Settle, IInv, LoopShape, LockDiscipline, TypeOK
  <2>2. /\ attempts[j] \in Nat /\ MaxAttempts[j] \in Nat
        /\ attempts[j] < MaxAttempts[j]
    BY <2>1 DEF IInv, TypeOK, AttemptBudget
  <2>3. \A k \in Jobs \ {j} : /\ status'[k] = status[k] /\ (k \in due' <=> k \in due)
                              /\ attempts'[k] = attempts[k]
                              /\ lock'[k] = lock[k]
    BY <1>4, <2>1 DEF Settle, WriteBack, RemoveRow, RequeueCounted,
       RequeueUncounted, IInv, TypeOK
  <2>4. TypeOK'
    BY <1>4, <2>1 DEF Settle, WriteBack, RemoveRow, RequeueCounted,
       RequeueUncounted, Idle, IInv, TypeOK, Phases
  <2>5. LoopShape'
    BY <1>4 DEF Settle, Idle, IInv, TypeOK, LoopShape
  <2>6. LockDiscipline'
    BY <1>4, <2>1, <2>3 DEF Settle, Idle, IInv, TypeOK, LockDiscipline
  <2>7. AttemptBudget'
    BY <1>4, <2>1, <2>2, <2>3 DEF Settle, WriteBack, RemoveRow,
       RequeueCounted, RequeueUncounted, IInv, TypeOK, AttemptBudget
  <2> QED BY <2>4, <2>5, <2>6, <2>7 DEF IInv
<1>5. CASE SettleLost(l)
  BY <1>5 DEF SettleLost, Idle, IInv, TypeOK, LoopShape, LockDiscipline,
     AttemptBudget, Phases, rowVars
<1> QED BY <1>1, <1>2, <1>3, <1>4, <1>5 DEF LoopStep

(* Every fault preserves the invariant.                                    *)
LEMMA LoopFaultIInv ==
  ASSUME IInv, NEW l \in Loops, LoopFault(l)
  PROVE  IInv'
<1> USE JobsAssumption
<1>1. CASE PopFails(l)
  BY <1>1 DEF PopFails, Fault, IInv, TypeOK, LoopShape, LockDiscipline,
     AttemptBudget, Phases, rowVars
<1>2. CASE SettleFails(l)
  BY <1>2 DEF SettleFails, Fault, Idle, IInv, TypeOK, LoopShape,
     LockDiscipline, AttemptBudget, Phases, rowVars
<1>3. CASE ConnectionLost(l)
  BY <1>3 DEF ConnectionLost, Fault, IInv, TypeOK, LoopShape,
     LockDiscipline, AttemptBudget, Phases, rowVars, loopVars
<1>4. CASE Panic(l)
  BY <1>4 DEF Panic, Fault, IInv, TypeOK, LoopShape, LockDiscipline,
     AttemptBudget, Phases, rowVars
<1> QED BY <1>1, <1>2, <1>3, <1>4 DEF LoopFault

(* Every step preserves the invariant.                                     *)
LEMMA NextIInv == IInv /\ [Next]_vars => IInv'
<1> USE JobsAssumption
<1> SUFFICES ASSUME IInv, [Next]_vars PROVE IInv'
  OBVIOUS
<1>1. ASSUME NEW j \in Jobs, Push(j) \/ BecomeDue(j) PROVE IInv'
  <2>1. CASE Push(j)
    BY <2>1 DEF Push, IInv, TypeOK, LoopShape, LockDiscipline,
       AttemptBudget, loopVars
  <2>2. CASE BecomeDue(j)
    BY <2>2 DEF BecomeDue, IInv, TypeOK, LoopShape, LockDiscipline,
       AttemptBudget, loopVars
  <2> QED BY <1>1, <2>1, <2>2
<1>2. ASSUME NEW l \in Loops, LoopStep(l) \/ LoopFault(l) PROVE IInv'
  BY <1>2, LoopStepIInv, LoopFaultIInv
<1>3. CASE StopTheRest \/ Stop
  BY <1>3 DEF StopTheRest, Stop, Fault, IInv, TypeOK, LoopShape,
     LockDiscipline, AttemptBudget, rowVars, loopVars
<1>4. CASE Restart
  BY <1>4 DEF Restart, FreshLoops, IInv, TypeOK, LoopShape, LockDiscipline,
     AttemptBudget, Phases, rowVars
<1>5. CASE Crash
  BY <1>5 DEF Crash, FreshLoops, Fault, IInv, TypeOK, LoopShape,
     LockDiscipline, AttemptBudget, Phases, rowVars
<1>6. CASE UNCHANGED vars
  BY <1>6 DEF vars, IInv, TypeOK, LoopShape, LockDiscipline, AttemptBudget
<1> QED BY <1>1, <1>2, <1>3, <1>4, <1>5, <1>6 DEF Next

(* The inductive invariant is an invariant of the specification.           *)
THEOREM QueueInvariant == Spec => []IInv
  BY InitIInv, NextIInv, PTL DEF Spec

(* The columns and the loops' variables keep their types.                  *)
THEOREM QueueTypes == Spec => []TypeOK
  BY QueueInvariant, PTL DEF IInv

(* At most one live transaction holds a job, and it is the one of the loop *)
(* that runs it; the row it holds is still a due, queued row.              *)
THEOREM QueueLockDiscipline == Spec => []LockDiscipline
  BY QueueInvariant, PTL DEF IInv

(* A job is Failed exactly when its attempts are spent.                    *)
THEOREM QueueAttemptBudget == Spec => []AttemptBudget
  BY QueueInvariant, PTL DEF IInv

-----------------------------------------------------------------------------
(* What a settlement does to the row it settles.                           *)
LEMMA SettleRow ==
  ASSUME IInv, NEW l \in Loops, Settle(l)
  PROVE  /\ job[l] \in Jobs /\ lock[job[l]] = l /\ status[job[l]] = "Queued"
         /\ lock' = [lock EXCEPT ![job[l]] = NoLoop]
         /\ \/ /\ result[l] \in {"Ok", "Fatal"}
               /\ status' = [status EXCEPT ![job[l]] = "removed"]
               /\ attempts' = attempts
            \/ /\ result[l] = "Retryable"
               /\ attempts' = [attempts EXCEPT ![job[l]] = attempts[job[l]] + 1]
               /\ status' = [status EXCEPT ![job[l]] =
                    IF attempts[job[l]] + 1 = MaxAttempts[job[l]]
                      THEN "Failed" ELSE "Queued"]
            \/ /\ result[l] = "Deferred"
               /\ status' = status /\ attempts' = attempts
<1> USE JobsAssumption
<1>1. /\ job[l] \in Jobs /\ lock[job[l]] = l /\ status[job[l]] = "Queued"
      /\ lock' = [lock EXCEPT ![job[l]] = NoLoop]
  BY DEF Settle, IInv, LoopShape, LockDiscipline
<1>2. /\ attempts[job[l]] \in Nat /\ MaxAttempts[job[l]] \in Nat
      /\ attempts[job[l]] < MaxAttempts[job[l]]
  BY <1>1 DEF IInv, TypeOK, AttemptBudget
<1>3. CASE result[l] \in {"Ok", "Fatal"} /\ RemoveRow(job[l])
  BY <1>1, <1>3 DEF RemoveRow
<1>4. CASE result[l] = "Retryable" /\ RequeueCounted(job[l])
  BY <1>1, <1>2, <1>4 DEF RequeueCounted, IInv, TypeOK
<1>5. CASE result[l] = "Deferred" /\ RequeueUncounted(job[l])
  BY <1>1, <1>5 DEF RequeueUncounted
<1> QED BY <1>3, <1>4, <1>5 DEF Settle, WriteBack

(* Steps that neither push nor settle leave status and attempts alone.     *)
LEMMA RowsLeftAlone ==
  ASSUME NEW l \in Loops, LoopStep(l) \/ LoopFault(l), ~Settle(l)
  PROVE  status' = status /\ attempts' = attempts
  BY DEF LoopStep, LoopFault, Tick, ExitLoop, Pop, PopNothing, HandlerReturns,
     SettleLost, PopFails, SettleFails, ConnectionLost, Panic, rowVars

(* Only the loop whose transaction still holds a job changes its row.      *)
THEOREM QueueOnlyTheHolderSettles == Spec => OnlyTheHolderSettles
<1> DEFINE Safe ==
      \A j \in Jobs :
        \/ status[j] = "absent"
        \/ status'[j] = status[j] /\ attempts'[j] = attempts[j]
        \/ \E l \in Loops :
             /\ lock[j] = l /\ lock'[j] = NoLoop
             /\ phase[l] = "settling" /\ phase'[l] = "waiting"
             /\ (status'[j] = "removed") = (result[l] \in {"Ok", "Fatal"})
             /\ (attempts'[j] > attempts[j]) = (result[l] = "Retryable")
<1>1. IInv /\ [Next]_vars => Safe \/ UNCHANGED vars
  <2> SUFFICES ASSUME IInv, Next PROVE Safe
    OBVIOUS
  <2>1. ASSUME NEW j \in Jobs, Push(j) \/ BecomeDue(j) PROVE Safe
    BY <2>1 DEF Push, BecomeDue, IInv, TypeOK
  <2>2. ASSUME NEW l \in Loops, Settle(l) PROVE Safe
    <3> DEFINE j == job[l]
    <3>1. \A k \in Jobs \ {j} : status'[k] = status[k]
                                /\ attempts'[k] = attempts[k]
      BY <2>2, SettleRow DEF IInv, TypeOK
    <3>2. j \in Jobs /\ lock[j] = l /\ lock'[j] = NoLoop
          /\ status[j] = "Queued" /\ attempts[j] \in Nat
      BY <2>2, SettleRow DEF IInv, TypeOK
    <3>3. phase[l] = "settling" /\ phase'[l] = "waiting"
      BY <2>2 DEF Settle, Idle, IInv, TypeOK
    <3>4. status'[j] = "removed" <=> result[l] \in {"Ok", "Fatal"}
      BY <2>2, SettleRow, <3>2 DEF IInv, TypeOK
    <3>5. attempts'[j] > attempts[j] <=> result[l] = "Retryable"
      BY <2>2, SettleRow, <3>2 DEF IInv, TypeOK
    <3> QED BY <3>1, <3>2, <3>3, <3>4, <3>5
  <2>3. ASSUME NEW l \in Loops, LoopStep(l) \/ LoopFault(l) PROVE Safe
    BY <2>2, <2>3, RowsLeftAlone
  <2>4. CASE StopTheRest \/ Stop \/ Restart \/ Crash
    BY <2>4 DEF StopTheRest, Stop, Restart, Crash, rowVars
  <2> QED BY <2>1, <2>3, <2>4 DEF Next
<1> QED BY <1>1, QueueInvariant, PTL DEF Spec, OnlyTheHolderSettles

-----------------------------------------------------------------------------
(* The refinement mapping's `place`, named so that steps can speak of it.  *)
Place == [j \in Jobs |->
            IF lock[j] # NoLoop THEN "held"
            ELSE IF status[j] = "absent" THEN "new"
            ELSE IF status[j] = "Queued" THEN "pending"
            ELSE IF status[j] = "removed" THEN "done" ELSE "dead"]

(* Freeing the locks of a set of held jobs, and touching no row, gives     *)
(* those jobs back.                                                        *)
LEMMA FreeingGivesBack ==
  ASSUME IInv, NEW S \in SUBSET Jobs,
         \A j \in S : lock[j] # NoLoop,
         \A j \in Jobs : lock'[j] = IF j \in S THEN NoLoop ELSE lock[j],
         status' = status, attempts' = attempts
  PROVE  Ledger!GiveBack(S)
<1>1. \A j \in S : Place[j] = "held" /\ status[j] = "Queued"
  BY DEF Place, IInv, TypeOK, LockDiscipline
<1>2. Place' = [j \in Jobs |-> IF j \in S THEN "pending" ELSE Place[j]]
  BY <1>1 DEF Place
<1> QED BY <1>1, <1>2 DEF Ledger!GiveBack, Place

(* A settlement is a Finish, a Fail or a GiveBack of its job.              *)
LEMMA SettleRefines ==
  ASSUME IInv, NEW l \in Loops, Settle(l)
  PROVE  Ledger!Next
<1> PICK j \in Jobs : j = job[l]
  BY SettleRow
<1>1. /\ j \in Jobs /\ lock[j] = l /\ status[j] = "Queued" /\ l # NoLoop
      /\ lock' = [lock EXCEPT ![j] = NoLoop]
  BY SettleRow, JobsAssumption
<1>2. Place[j] = "held"
  BY <1>1 DEF Place
<1>3. CASE result[l] \in {"Ok", "Fatal"}
  <2>1. status' = [status EXCEPT ![j] = "removed"] /\ attempts' = attempts
    BY <1>3, SettleRow
  <2>2. Place' = [Place EXCEPT ![j] = "done"]
    BY <2>1, <1>1 DEF Place, IInv, TypeOK
  <2>3. Ledger!Finish(j)
    BY <1>2, <2>1, <2>2 DEF Ledger!Finish, Place
  <2> QED BY <1>1, <2>3 DEF Ledger!Next
<1>4. CASE result[l] = "Retryable"
  <2>1. /\ attempts' = [attempts EXCEPT ![j] = attempts[j] + 1]
        /\ status' = [status EXCEPT ![j] =
             IF attempts[j] + 1 = MaxAttempts[j] THEN "Failed" ELSE "Queued"]
    BY <1>4, SettleRow
  <2>2. Place' = [Place EXCEPT ![j] =
                    IF attempts[j] + 1 = MaxAttempts[j]
                      THEN "dead" ELSE "pending"]
    BY <2>1, <1>1 DEF Place, IInv, TypeOK
  <2>3. Ledger!Fail(j)
    BY <1>2, <2>1, <2>2 DEF Ledger!Fail, Place
  <2> QED BY <1>1, <2>3 DEF Ledger!Next
<1>5. CASE result[l] = "Deferred"
  <2>1. status' = status /\ attempts' = attempts
    BY <1>5, SettleRow
  <2>2. Ledger!GiveBack({j})
    <3>1. /\ {j} \in SUBSET Jobs
          /\ \A k \in {j} : lock[k] # NoLoop
          /\ \A k \in Jobs : lock'[k] = IF k \in {j} THEN NoLoop ELSE lock[k]
      BY <1>1, <2>1 DEF IInv, TypeOK
    <3> QED BY <3>1, <2>1, FreeingGivesBack
  <2> QED BY <1>1, <2>2 DEF Ledger!Next
<1> QED BY <1>3, <1>4, <1>5, SettleRow

(* Any other step of a loop takes a job, gives one back, or is a stutter.  *)
LEMMA LoopRefines ==
  ASSUME IInv, NEW l \in Loops, LoopStep(l) \/ LoopFault(l)
  PROVE  Ledger!Next \/ UNCHANGED <<Place, attempts>>
<1>1. CASE Settle(l)
  BY <1>1, SettleRefines
<1>2. CASE \E j \in Jobs : Pop(l, j)
  <2> PICK j \in Jobs : Pop(l, j)
    BY <1>2
  <2>1. /\ lock[j] = NoLoop /\ status[j] = "Queued" /\ l # NoLoop
        /\ lock' = [lock EXCEPT ![j] = l]
        /\ status' = status /\ attempts' = attempts
    BY JobsAssumption DEF Pop, Poppable, rowVars
  <2>2. Place[j] = "pending" /\ Place' = [Place EXCEPT ![j] = "held"]
    BY <2>1 DEF Place, IInv, TypeOK
  <2>3. Ledger!Take(j)
    BY <2>1, <2>2 DEF Ledger!Take, Place
  <2> QED BY <2>3 DEF Ledger!Next
<1>3. CASE SettleFails(l) \/ ConnectionLost(l)
  <2> PICK j \in Jobs : j = job[l]
    BY <1>3 DEF SettleFails, ConnectionLost, IInv, LoopShape
  <2>1. /\ j \in Jobs /\ lock[j] = l /\ l # NoLoop
        /\ lock' = [lock EXCEPT ![j] = NoLoop]
        /\ status' = status /\ attempts' = attempts
    BY <1>3, JobsAssumption DEF SettleFails, ConnectionLost, rowVars, IInv,
       LoopShape
  <2>2. Ledger!GiveBack({j})
    <3>1. /\ {j} \in SUBSET Jobs
          /\ \A k \in {j} : lock[k] # NoLoop
          /\ \A k \in Jobs : lock'[k] = IF k \in {j} THEN NoLoop ELSE lock[k]
      BY <2>1 DEF IInv, TypeOK
    <3> QED BY <3>1, <2>1, FreeingGivesBack
  <2> QED BY <2>1, <2>2 DEF Ledger!Next
<1>4. CASE Panic(l)
  <2> PICK S \in SUBSET Jobs : S = {j \in Jobs : lock[j] = l}
    OBVIOUS
  <2>1. /\ \A j \in S : lock[j] # NoLoop
        /\ \A j \in Jobs : lock'[j] = IF j \in S THEN NoLoop ELSE lock[j]
        /\ status' = status /\ attempts' = attempts
    BY <1>4, JobsAssumption DEF Panic, rowVars
  <2>2. Ledger!GiveBack(S)
    BY <2>1, FreeingGivesBack
  <2> QED BY <2>2 DEF Ledger!Next
<1>5. CASE \/ Tick(l) \/ ExitLoop(l) \/ PopNothing(l) \/ SettleLost(l)
           \/ PopFails(l) \/ \E r \in Results : HandlerReturns(l, r)
  BY <1>5 DEF Tick, ExitLoop, PopNothing, SettleLost, PopFails,
     HandlerReturns, rowVars, Place
<1> QED BY <1>1, <1>2, <1>3, <1>4, <1>5 DEF LoopStep, LoopFault

(* The queue with its loops, transactions and faults implements the job    *)
(* ledger: nobody but a job's single holder ever changes it.               *)
THEOREM QueueImplementsLedger == Spec => LedgerSpec
<1>1. Init => Ledger!Init
  BY JobsAssumption DEF Init, Ledger!Init
<1>2. IInv /\ [Next]_vars => [Ledger!Next]_(Ledger!ledgerVars)
  <2> SUFFICES ASSUME IInv, [Next]_vars
               PROVE  Ledger!Next \/ UNCHANGED <<Place, attempts>>
    BY DEF Ledger!ledgerVars, Place
  <2>1. ASSUME NEW j \in Jobs, Push(j) PROVE Ledger!Next
    <3>1. /\ status[j] = "absent" /\ lock[j] = NoLoop
          /\ status' = [status EXCEPT ![j] = "Queued"]
          /\ lock' = lock /\ attempts' = attempts
      BY <2>1 DEF Push, IInv, TypeOK, LockDiscipline
    <3>2. Place[j] = "new" /\ Place' = [Place EXCEPT ![j] = "pending"]
      BY <3>1 DEF Place, IInv, TypeOK
    <3>3. Ledger!Submit(j)
      BY <3>1, <3>2 DEF Ledger!Submit, Place
    <3> QED BY <3>3 DEF Ledger!Next
  <2>2. ASSUME NEW l \in Loops, LoopStep(l) \/ LoopFault(l)
        PROVE  Ledger!Next \/ UNCHANGED <<Place, attempts>>
    BY <2>2, LoopRefines
  <2>3. CASE Crash
    <3> PICK S \in SUBSET Jobs : S = {j \in Jobs : lock[j] # NoLoop}
      OBVIOUS
    <3>1. /\ \A j \in S : lock[j] # NoLoop
          /\ \A j \in Jobs : lock'[j] = IF j \in S THEN NoLoop ELSE lock[j]
          /\ status' = status /\ attempts' = attempts
      BY <2>3 DEF Crash, rowVars
    <3>2. Ledger!GiveBack(S)
      BY <3>1, FreeingGivesBack
    <3> QED BY <3>2 DEF Ledger!Next
  <2>4. CASE \/ UNCHANGED vars \/ StopTheRest \/ Stop \/ Restart
             \/ \E j \in Jobs : BecomeDue(j)
    BY <2>4 DEF vars, StopTheRest, Stop, Restart, BecomeDue, rowVars, Place
  <2> QED BY <2>1, <2>2, <2>3, <2>4 DEF Next
<1> QED BY <1>1, <1>2, QueueInvariant, PTL DEF Spec, LedgerSpec, Ledger!Spec

=============================================================================
