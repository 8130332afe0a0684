------------------------------ MODULE JobLedger ------------------------------
(***************************************************************************)
(* What the job queue promises to the code that pushes jobs, with no       *)
(* worker loops, transactions or connections in sight: a job is submitted  *)
(* once, is in the hands of at most one taker at a time, leaves those      *)
(* hands either unchanged, one failed attempt poorer, finished, or dead    *)
(* once its attempts are spent, and is never touched by anybody else.      *)
(* JobQueue implements this specification.                                 *)
(***************************************************************************)
EXTENDS Naturals

CONSTANTS
  Jobs,         \* the jobs that may ever be pushed
  MaxAttempts   \* [Jobs -> positive]: the max_attempts column of each job

VARIABLES
  place,   \* "new", "pending", "held", "done" or "dead", per job
  tries    \* failed attempts counted so far, per job

ledgerVars == <<place, tries>>

Init ==
  /\ place = [j \in Jobs |-> "new"]
  /\ tries = [j \in Jobs |-> 0]

Submit(j) ==
  /\ place[j] = "new"
  /\ place' = [place EXCEPT ![j] = "pending"]
  /\ UNCHANGED tries

Take(j) ==
  /\ place[j] = "pending"
  /\ place' = [place EXCEPT ![j] = "held"]
  /\ UNCHANGED tries

(* A run that left no trace: deferred, or its settlement was lost. A crash *)
(* gives several jobs back at once.                                        *)
GiveBack(S) ==
  /\ \A j \in S : place[j] = "held"
  /\ place' = [j \in Jobs |-> IF j \in S THEN "pending" ELSE place[j]]
  /\ UNCHANGED tries

Fail(j) ==
  /\ place[j] = "held"
  /\ tries' = [tries EXCEPT ![j] = @ + 1]
  /\ place' = [place EXCEPT ![j] =
                 IF tries[j] + 1 = MaxAttempts[j] THEN "dead" ELSE "pending"]

Finish(j) ==
  /\ place[j] = "held"
  /\ place' = [place EXCEPT ![j] = "done"]
  /\ UNCHANGED tries

Next ==
  \/ \E j \in Jobs : Submit(j) \/ Take(j) \/ Fail(j) \/ Finish(j)
  \/ \E S \in SUBSET Jobs : GiveBack(S)

Spec == Init /\ [][Next]_ledgerVars
=============================================================================
