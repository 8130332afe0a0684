------------------------------ MODULE JobSignal ------------------------------
(***************************************************************************)
(* One worker loop's subscription to job-available notifications: the      *)
(* LISTEN connection and its own reconnects, the poll timer that races it, *)
(* the fall back to polling alone, the paced attempts to subscribe again   *)
(* and the paced warnings. What a loop does with a job is the module       *)
(* JobQueue.                                                               *)
(*                                                                         *)
(* Time is counted in poll periods (DEFAULT_QUEUE_POLL_PERIOD, 1 s).       *)
(***************************************************************************)
EXTENDS Integers, FiniteSetsExt

CONSTANTS
  ReconnectLimit,    \* MAX_CONSECUTIVE_FAILURES
  FailureWindow,     \* FAILURE_WINDOW
  SubscribeTimeout,  \* SUBSCRIBE_TIMEOUT
  BaseDelay, MaxDelay, MaxDoublings, StablePeriod,   \* RESUBSCRIBE_...
  WarnCooldown,      \* WARN_COOLDOWN
  NetChanges         \* bound on changes of the network and on long jobs

ASSUME JobSignalAssumption ==
  /\ {ReconnectLimit, FailureWindow, SubscribeTimeout, BaseDelay, MaxDelay, MaxDoublings,
      StablePeriod, WarnCooldown} \subseteq Nat \ {0}
  /\ NetChanges \in Nat
  /\ BaseDelay <= MaxDelay
  /\ \A k \in 0 .. MaxDoublings : 2 ^ k \in Nat  \* arithmetic the provers lack

(* How the database treats a LISTEN connection: it works, dies as soon as  *)
(* it is open, cannot be opened, or hangs while it is opened.              *)
Nets == {"good", "kill", "refuse", "hang"}

VARIABLES
  jsNet, jsChanges,
  jsAt,        \* the loop: "tick", "resub" (an attempt to subscribe), "pop"
  jsElapsed,   \* time in the current wait or attempt
  jsListener,  \* Subscription.listener: "none", "up" or "lost" (its connection is)
  jsOpening,   \* whether wait_for_notification is opening a connection
  jsRun,       \* FailureRun: [count, age], age of the last failure
  jsBack,      \* ResubscribeBackoff: [failures, wait, held]
  jsWarn,      \* WarnPacer: [age, announced]
  jsTold,      \* what the log last told an operator: "fine" or "broken" (ghost)
  jsFlaps,     \* failures since the last subscription that held (ghost)
  jsSince      \* time since the last failed attempt or broken subscription (ghost)

jsVars == <<jsNet, jsChanges, jsAt, jsElapsed, jsListener, jsOpening, jsRun, jsBack, jsWarn,
            jsTold, jsFlaps, jsSince>>

NoRunYet == [count |-> 0, age |-> FailureWindow]
NotHeld  == -1
MaxFlaps == MaxDoublings + 2
UpTo(n, limit) == Min({n, limit})

SignalTypeOK ==
  /\ jsNet \in Nets /\ jsChanges \in 0 .. NetChanges
  /\ jsAt \in {"tick", "resub", "pop"}
  /\ jsElapsed \in 0 .. SubscribeTimeout
  /\ jsListener \in {"none", "up", "lost"} /\ jsOpening \in BOOLEAN
  /\ jsRun \in [count : 0 .. ReconnectLimit, age : 0 .. FailureWindow]
  /\ jsBack \in [failures : 0 .. MaxFlaps, wait : 0 .. MaxDelay, held : NotHeld .. StablePeriod]
  /\ jsWarn \in [age : 0 .. WarnCooldown, announced : BOOLEAN]
  /\ jsTold \in {"fine", "broken"}
  /\ jsFlaps \in 0 .. MaxFlaps /\ jsSince \in 0 .. MaxDelay

-----------------------------------------------------------------------------
(* ResubscribeBackoff.                                                     *)

Doublings(failures) == UpTo(failures - 1, MaxDoublings)
Delay(failures)     == UpTo(BaseDelay * 2 ^ Doublings(failures), MaxDelay)

WasStable(b) == b.held = StablePeriod

(* ResubscribeBackoff::record_failure. The count stops where the delay     *)
(* does.                                                                   *)
BackOff(b) ==
  LET n == UpTo((IF WasStable(b) THEN 0 ELSE b.failures) + 1, MaxFlaps)
  IN [failures |-> n, wait |-> Delay(n), held |-> NotHeld]

(* Mutant: a subscription that was opened clears the failures.             *)
SubscribedClears(b) == [failures |-> 0, wait |-> 0, held |-> 0]

(* ResubscribeBackoff::record_success.                                     *)
Subscribed(b) == [b EXCEPT !.wait = 0, !.held = 0]

(* should_resubscribe, with is_due.                                        *)
ShouldResubscribe(failedNow) == jsListener = "none" /\ ~failedNow /\ jsBack.wait = 0

-----------------------------------------------------------------------------
(* WarnPacer.                                                              *)

WarnDue == jsWarn.age = WarnCooldown

(* Mutant: a failure too soon to warn of forgets that one was warned of.   *)
WarnFailureForgets ==
  /\ jsWarn' = [age |-> IF WarnDue THEN 0 ELSE jsWarn.age, announced |-> WarnDue]
  /\ jsTold' = IF WarnDue THEN "broken" ELSE jsTold

(* WarnPacer::record_failure, and the warning.                             *)
WarnFailure ==
  /\ jsWarn' = [age |-> IF WarnDue THEN 0 ELSE jsWarn.age,
                announced |-> jsWarn.announced \/ WarnDue]
  /\ jsTold' = IF WarnDue THEN "broken" ELSE jsTold

(* WarnPacer::take_announced, and the report that it is over.              *)
TakeAnnounced ==
  /\ jsWarn' = [jsWarn EXCEPT !.announced = FALSE]
  /\ jsTold' = IF jsWarn.announced THEN "fine" ELSE jsTold

(* A subscription that could not be opened, or broke.                      *)
SignalFails ==
  /\ jsBack' = BackOff(jsBack)
  /\ WarnFailure
  /\ jsFlaps' = UpTo((IF WasStable(jsBack) THEN 0 ELSE jsFlaps) + 1, MaxFlaps)
  /\ jsSince' = 0

-----------------------------------------------------------------------------

(* Subscription::start succeeds or fails; a failure there is warned of.    *)
SignalInit ==
  /\ jsNet \in {"good", "refuse"} /\ jsChanges = 0
  /\ jsAt = "tick" /\ jsElapsed = 0 /\ jsOpening = FALSE
  /\ jsRun = NoRunYet
  /\ IF jsNet = "good"
       THEN /\ jsListener = "up"
            /\ jsBack = [failures |-> 0, wait |-> 0, held |-> 0]
            /\ jsWarn = [age |-> WarnCooldown, announced |-> FALSE]
            /\ jsTold = "fine" /\ jsFlaps = 0
       ELSE /\ jsListener = "none"
            /\ jsBack = [failures |-> 1, wait |-> Delay(1), held |-> NotHeld]
            /\ jsWarn = [age |-> 0, announced |-> TRUE]
            /\ jsTold = "broken" /\ jsFlaps = 1
  /\ jsSince = IF jsNet = "good" THEN MaxDelay ELSE 0

(* The connection the listener owns dies: try_recv gives None. With        *)
(* eager_reconnect off nothing else happens.                               *)
ConnectionDies ==
  /\ jsNet # "good" /\ jsListener = "up"
  /\ jsListener' = "lost"
  /\ UNCHANGED <<jsNet, jsChanges, jsAt, jsElapsed, jsOpening, jsRun, jsBack, jsWarn, jsTold,
                 jsFlaps, jsSince>>

(* Leaving the wait: a failed listener paces itself, a missing one may be  *)
(* opened again, and otherwise the queue is polled.                        *)
EndTick(failedNow) ==
  /\ jsElapsed' = 0 /\ jsOpening' = FALSE
  /\ jsAt' = IF ShouldResubscribe(failedNow) THEN "resub" ELSE "pop"

(* FailureRun::record.                                                     *)
Recorded == IF jsRun.age < FailureWindow THEN jsRun.count + 1 ELSE 1

(* Mutant: the count is left to the end of a reconnect.                    *)
CountedLater == [count |-> jsRun.count, age |-> jsRun.age]

(* The run as a reconnect begins: it is counted before it is tried, so     *)
(* that the poll timer cannot lose the count.                              *)
CountedFirst == [count |-> Recorded, age |-> 0]

(* wait_for_notification finds its connection lost: one reconnect too many *)
(* ends the listener, otherwise it opens a connection.                     *)
Reconnect ==
  /\ jsAt = "tick" /\ jsListener = "lost" /\ ~jsOpening
  /\ IF CountedFirst.count >= ReconnectLimit
       THEN /\ jsRun' = NoRunYet
            /\ jsListener' = "none"
            /\ SignalFails /\ EndTick(TRUE)
       ELSE /\ jsRun' = CountedFirst /\ jsOpening' = TRUE
            /\ UNCHANGED <<jsAt, jsElapsed, jsListener, jsBack, jsWarn, jsTold, jsFlaps, jsSince>>
  /\ UNCHANGED <<jsNet, jsChanges>>

(* The connection opens or is refused. One that hangs is only ended by the *)
(* poll timer.                                                             *)
ReconnectEnds ==
  /\ jsAt = "tick" /\ jsOpening /\ jsNet # "hang"
  /\ jsOpening' = FALSE
  /\ jsListener' = IF jsNet = "refuse" THEN "lost" ELSE "up"
  /\ UNCHANGED <<jsNet, jsChanges, jsAt, jsElapsed, jsRun, jsBack, jsWarn, jsTold, jsFlaps,
                 jsSince>>

(* A notification comes: the failures before it are forgotten.             *)
Notified ==
  /\ jsAt = "tick" /\ jsListener = "up"
  /\ jsRun' = NoRunYet
  /\ EndTick(FALSE)
  /\ UNCHANGED <<jsNet, jsChanges, jsListener, jsBack, jsWarn, jsTold, jsFlaps, jsSince>>

(* try_recv fails with an error that is not a lost connection: the         *)
(* listener is ended at once, without a reconnect.                         *)
ReceiveFails ==
  /\ jsAt = "tick" /\ jsListener = "up" /\ jsNet # "good"
  /\ jsRun' = NoRunYet /\ jsListener' = "none"
  /\ SignalFails /\ EndTick(TRUE)
  /\ UNCHANGED <<jsNet, jsChanges>>

(* The poll timer wins and the wait is dropped, an open one included.      *)
PollTimer ==
  /\ jsAt = "tick" /\ jsElapsed = 1
  /\ EndTick(FALSE)
  /\ UNCHANGED <<jsNet, jsChanges, jsListener, jsRun, jsBack, jsWarn, jsTold, jsFlaps, jsSince>>

(* Subscription::resubscribe, by PgQueueListener::new.                     *)
Resubscribe(ok) ==
  /\ jsAt = "resub"
  /\ IF ok THEN jsNet \in {"good", "kill"}
           ELSE jsNet = "refuse" \/ (jsNet = "hang" /\ jsElapsed = SubscribeTimeout)
  /\ IF ok
       THEN /\ jsListener' = "up" /\ jsRun' = NoRunYet
            /\ jsBack' = Subscribed(jsBack)
            /\ TakeAnnounced
            /\ UNCHANGED <<jsFlaps, jsSince>>
       ELSE SignalFails /\ UNCHANGED <<jsListener, jsRun>>
  /\ jsAt' = "pop" /\ jsElapsed' = 0
  /\ UNCHANGED <<jsNet, jsChanges, jsOpening>>

(* The queue is polled, whatever the subscription is like.                 *)
PollQueue ==
  /\ jsAt = "pop" /\ jsAt' = "tick"
  /\ UNCHANGED <<jsNet, jsChanges, jsElapsed, jsListener, jsOpening, jsRun, jsBack, jsWarn,
                 jsTold, jsFlaps, jsSince>>

NetChanged ==
  /\ jsChanges < NetChanges /\ jsChanges' = jsChanges + 1
  /\ jsNet' \in Nets \ {jsNet}
  /\ UNCHANGED <<jsAt, jsElapsed, jsListener, jsOpening, jsRun, jsBack, jsWarn, jsTold, jsFlaps,
                 jsSince>>

(* A poll period passes.                                                   *)
PeriodPasses ==
  /\ jsRun' = [jsRun EXCEPT !.age = UpTo(@ + 1, FailureWindow)]
  /\ jsBack' = [jsBack EXCEPT !.wait = Max({@ - 1, 0}),
                              !.held = IF @ = NotHeld THEN @ ELSE UpTo(@ + 1, StablePeriod)]
  /\ jsWarn' = [jsWarn EXCEPT !.age = UpTo(@ + 1, WarnCooldown)]
  /\ jsSince' = UpTo(jsSince + 1, MaxDelay)
  /\ UNCHANGED <<jsNet, jsAt, jsListener, jsOpening, jsTold, jsFlaps>>

(* The loop waits, or an attempt hangs. A lost connection is not waited    *)
(* on.                                                                     *)
SignalTick ==
  /\ \/ jsAt = "tick" /\ jsElapsed = 0 /\ (jsListener = "lost" => jsOpening)
     \/ jsAt = "resub" /\ jsNet = "hang" /\ jsElapsed < SubscribeTimeout
  /\ jsElapsed' = jsElapsed + 1
  /\ PeriodPasses /\ UNCHANGED jsChanges

(* The job the poll found takes a while.                                   *)
JobRuns ==
  /\ jsAt = "pop"
  /\ jsChanges < NetChanges /\ jsChanges' = jsChanges + 1
  /\ PeriodPasses /\ UNCHANGED jsElapsed

LoopStep ==
  \/ Reconnect \/ ReconnectEnds \/ PollTimer \/ PollQueue \/ SignalTick
  \/ \E ok \in BOOLEAN : Resubscribe(ok)

SignalNext == LoopStep \/ ConnectionDies \/ Notified \/ ReceiveFails \/ NetChanged \/ JobRuns

SignalSpec == SignalInit /\ [][SignalNext]_jsVars

(* The loop runs, time passes, and a connection that cannot live dies.     *)
SignalFairSpec == SignalSpec /\ WF_jsVars(LoopStep) /\ WF_jsVars(ConnectionDies)

-----------------------------------------------------------------------------

(* FlapsBackOff. An attempt to subscribe comes no sooner after a failure   *)
(* than the failures since a subscription last held call for, also when    *)
(* subscriptions in between opened and broke at once                       *)
(* (ResubscribeBackoff).                                                   *)
FlapsBackOff == jsAt = "resub" /\ jsElapsed = 0 /\ jsFlaps > 0 => jsSince >= Delay(jsFlaps)

(* RecoveryTold. Once the subscription is open again an operator who was   *)
(* told it is broken has been told that it is over, however many quiet     *)
(* failures came between (WarnPacer).                                      *)
RecoveryTold == jsListener # "none" => jsTold = "fine"

(* LossNoticed. A listener whose connection can no longer be opened is     *)
(* given up, though the poll timer cuts each of its reconnects short       *)
(* (wait_for_notification, FailureRun).                                    *)
LossNoticed == (jsNet \in {"hang", "refuse"}) ~> (jsNet \in {"good", "kill"} \/ jsListener = "none")
=============================================================================
