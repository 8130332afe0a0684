------------------------------ MODULE ChainPoll ------------------------------
(***************************************************************************)
(* The chain listener's poll loop (chain_listener.rs new): the adaptive    *)
(* interval, the wake-up a reassessment sends when it has dispatched       *)
(* proposals, the backoff after failed fetches, the pause of the event     *)
(* sweeps while the broker is down, and the cadence of the sweeps that     *)
(* recover lost cancels.                                                   *)
(*                                                                         *)
(* What a poll reads and applies is ChainCursor's; here a fetch succeeds   *)
(* or fails. Time is counted in ticks; the loop's own steps take none, but *)
(* for its sleeps and for a send to a broker that does not answer.         *)
(***************************************************************************)
EXTENDS Integers

CONSTANTS
  FastInterval,  \* poll_interval
  SlowInterval,  \* SLOW_POLL_INTERVAL
  BackoffBase,   \* FAILURE_BACKOFF_BASE
  BackoffSteps,  \* doublings after which the backoff stays (6 in the code)
  SendHangs,     \* how long a send to a dead broker blocks the loop
  SweepPolls,    \* SWEEP_POLLS
  PollHorizon,   \* bound on time
  PollFaults     \* bound on failed fetches, reads and sweeps, and restarts

ASSUME PollAssumption ==
  /\ {FastInterval, SlowInterval, BackoffBase, SweepPolls} \subseteq Nat \ {0}
  /\ {BackoffSteps, SendHangs, PollHorizon, PollFaults} \subseteq Nat
  /\ FastInterval <= SlowInterval
  \* Arithmetic the provers lack.
  /\ 2 ^ 0 = 1
  /\ \A n \in 0 .. BackoffSteps : 2 ^ n \in Nat /\ 2 ^ n <= 2 ^ BackoffSteps
  /\ \A n \in 0 .. PollHorizon : 2 ^ n \in Nat \ {0} /\ 2 ^ (n + 1) = 2 * 2 ^ n

VARIABLES
  pollAt,      \* where the loop is
  pollSleep,   \* what is left of its sleep, or of a send that hangs
  pollFast,    \* using_fast_interval
  pollTimer,   \* time to the timer's next tick
  pollDue,     \* a tick of the timer is waiting to be taken
  pollPermit,  \* the permit chain_listener_notify holds
  pollFails,   \* consecutive_failures
  pollDown,    \* BrokerCooldown.down_since, as the time since; -1: None
  pollPause,   \* BrokerCooldown.backoff
  pollSwept,   \* polls_since_sweep
  pollStop,    \* the stop message waits in the channel
  agOpen,      \* an agreement is Created or AcceptedOnChain
  agNew,       \* its reassessment has not notified the listener yet
  brokerUp, evPending, orphan,  \* the broker, an event to send, a lost cancel
  pollKnown,   \* the listener was told of, or has read, the open agreement
  pollIdle,    \* time spent waiting for the timer since then
  sendRun, sendAge,  \* failed sweeps in a row, and the time since the last began
  orphanAge,   \* polls completed while the lost cancel waited
  orphanOld,   \* it was lost before this process started
  orphanTries, \* sweeps since that left it lost
  pollNow, pollLost  \* time and faults so far (they bound the model)

pollVars ==
  <<pollAt, pollSleep, pollFast, pollTimer, pollDue, pollPermit, pollFails, pollDown,
    pollPause, pollSwept, pollStop, agOpen, agNew, brokerUp, evPending, orphan,
    pollKnown, pollIdle, sendRun, sendAge, orphanAge, orphanOld, orphanTries,
    pollNow, pollLost>>
timerVars == <<pollFast, pollTimer, pollDue>>
coolVars  == <<pollDown, pollPause, sendRun, sendAge>>
envVars   == <<agOpen, agNew, brokerUp, evPending>>
orphanVars == <<orphan, orphanAge, orphanOld, orphanTries>>
toldVars  == <<pollKnown, pollIdle>>
boundVars == <<pollNow, pollLost>>

Lesser(m, n) == IF m <= n THEN m ELSE n

(* The sleep before a drain that follows n failed fetches.                 *)
FailureBackoff(n) == BackoffBase * 2 ^ Lesser(n, BackoffSteps)

Span == PollHorizon + SlowInterval

PollTypeOK ==
  /\ pollAt \in {"start", "wait", "check", "backoff", "drain", "events", "hang",
                 "cancels", "done", "failed"}
  /\ pollSleep \in 0 .. FailureBackoff(BackoffSteps) + SendHangs
  /\ {pollFast, pollDue, pollPermit, pollStop, agOpen, agNew, brokerUp, evPending,
      orphan, orphanOld, pollKnown} \subseteq BOOLEAN
  /\ pollTimer \in 1 .. SlowInterval
  /\ pollFails \in 0 .. PollFaults
  /\ pollDown \in -1 .. Span /\ pollPause \in FastInterval .. SlowInterval
  /\ pollSwept \in 0 .. SweepPolls
  /\ pollIdle \in 0 .. Span /\ sendRun \in 0 .. Span /\ sendAge \in 0 .. Span
  /\ orphanAge \in Nat /\ orphanTries \in 0 .. PollFaults
  /\ pollNow \in 0 .. PollHorizon /\ pollLost \in 0 .. PollFaults

(* Mutant: the first sweep waits for its turn.                             *)
FirstSweepWaits == 0

(* polls_since_sweep at the start: the first poll sweeps.                  *)
FirstSweep == SweepPolls

(* The locals of a listener that starts.                                   *)
Fresh ==
  /\ pollAt' = "start" /\ pollSleep' = 0
  /\ pollFast' = TRUE /\ pollTimer' = FastInterval /\ pollDue' = TRUE
  /\ pollFails' = 0 /\ pollDown' = -1 /\ pollPause' = FastInterval
  /\ pollSwept' = FirstSweep
  /\ pollPermit' = FALSE /\ pollStop' = FALSE
  /\ pollKnown' = FALSE /\ pollIdle' = 0 /\ sendRun' = 0 /\ sendAge' = 0

PollInit ==
  /\ pollAt = "start" /\ pollSleep = 0
  /\ pollFast = TRUE /\ pollTimer = FastInterval /\ pollDue = TRUE
  /\ pollFails = 0 /\ pollDown = -1 /\ pollPause = FastInterval
  /\ pollSwept = FirstSweep
  /\ pollPermit = FALSE /\ pollStop = FALSE
  /\ pollKnown = FALSE /\ pollIdle = 0 /\ sendRun = 0 /\ sendAge = 0
  /\ agOpen \in BOOLEAN /\ agNew = FALSE
  /\ brokerUp \in BOOLEAN /\ evPending = FALSE
  /\ orphan \in BOOLEAN /\ orphanOld = orphan /\ orphanAge = 0 /\ orphanTries = 0
  /\ pollNow = 0 /\ pollLost = 0

PollFault ==
  /\ pollLost < PollFaults
  /\ pollLost' = pollLost + 1
  /\ UNCHANGED pollNow

-----------------------------------------------------------------------------
(* The rest of dipper.                                                     *)

(* A reassessment creates an agreement.                                    *)
CreateAgreement ==
  /\ ~agOpen /\ ~agNew
  /\ agOpen' = TRUE /\ agNew' = TRUE
  /\ UNCHANGED <<pollAt, pollSleep, timerVars, pollPermit, pollFails, coolVars, pollSwept,
                 pollStop, brokerUp, evPending, orphanVars, toldVars, boundVars>>

(* Mutant: only a listener that is waiting hears the notification.         *)
PermitIfWaiting == pollAt = "wait"

(* Notify::notify_one: the permit is kept for a listener that is busy.     *)
PermitAfterNotify == TRUE

(* The reassessment that created it ends, and notifies the listener.       *)
NotifyListener ==
  /\ agNew
  /\ agNew' = FALSE
  /\ pollPermit' = PermitAfterNotify
  /\ pollKnown' = agOpen /\ pollIdle' = 0
  /\ UNCHANGED <<pollAt, pollSleep, timerVars, pollFails, coolVars, pollSwept, pollStop,
                 agOpen, brokerUp, evPending, orphanVars, boundVars>>

(* The last open agreement ends, with an event to announce.                *)
EndAgreement ==
  /\ agOpen
  /\ agOpen' = FALSE
  /\ evPending' = TRUE
  /\ pollKnown' = FALSE
  /\ UNCHANGED <<pollAt, pollSleep, timerVars, pollPermit, pollFails, coolVars, pollSwept,
                 pollStop, agNew, brokerUp, orphanVars, pollIdle, boundVars>>

(* A cancel is lost: its agreement or its replacement waits for a sweep.   *)
LoseCancel ==
  /\ ~orphan
  /\ orphan' = TRUE /\ orphanAge' = 0 /\ orphanTries' = 0
  /\ UNCHANGED <<pollAt, pollSleep, timerVars, pollPermit, pollFails, coolVars, pollSwept,
                 pollStop, envVars, orphanOld, toldVars, boundVars>>

(* The broker goes down or comes back.                                     *)
TurnBroker ==
  /\ PollFault
  /\ brokerUp' = ~brokerUp
  /\ UNCHANGED <<pollAt, pollSleep, timerVars, pollPermit, pollFails, coolVars, pollSwept,
                 pollStop, agOpen, agNew, evPending, orphanVars, toldVars>>

(* Handle::stop.                                                           *)
StopListener ==
  /\ ~pollStop /\ pollAt \notin {"done", "failed"}
  /\ pollStop' = TRUE
  /\ UNCHANGED <<pollAt, pollSleep, timerVars, pollPermit, pollFails, coolVars, pollSwept,
                 envVars, orphanVars, toldVars, boundVars>>

(* The process starts again.                                               *)
RestartListener ==
  /\ PollFault
  /\ Fresh
  /\ orphanOld' = orphan /\ orphanAge' = 0 /\ orphanTries' = 0
  /\ agNew' = FALSE
  /\ UNCHANGED <<agOpen, brokerUp, evPending, orphan>>

-----------------------------------------------------------------------------
(* The loop.                                                               *)

(* The listener reads its state; when it cannot, the service ends.         *)
ReadState ==
  /\ pollAt = "start"
  /\ \/ pollAt' = "wait" /\ UNCHANGED boundVars
     \/ pollAt' = "failed" /\ PollFault
  /\ UNCHANGED <<pollSleep, timerVars, pollPermit, pollFails, coolVars, pollSwept, pollStop,
                 envVars, orphanVars, toldVars>>

(* The stop branch of the loop's select.                                   *)
HearStop ==
  /\ pollAt = "wait" /\ pollStop
  /\ pollAt' = "done"
  /\ pollStop' = FALSE
  /\ UNCHANGED <<pollSleep, timerVars, pollPermit, pollFails, coolVars, pollSwept, envVars,
                 orphanVars, toldVars, boundVars>>

(* The timer's branch.                                                     *)
TimerFires ==
  /\ pollAt = "wait" /\ pollDue
  /\ pollAt' = "check"
  /\ pollDue' = FALSE
  /\ pollIdle' = 0
  /\ UNCHANGED <<pollSleep, pollFast, pollTimer, pollPermit, pollFails, coolVars, pollSwept,
                 pollStop, envVars, orphanVars, pollKnown, boundVars>>

(* A new timer, whose immediate first tick is taken.                       *)
SetInterval(fast) ==
  /\ pollFast' = fast
  /\ pollTimer' = (IF fast THEN FastInterval ELSE SlowInterval)
  /\ pollDue' = FALSE

(* The notification's branch: a slow listener goes fast.                   *)
Woken ==
  /\ pollAt = "wait" /\ pollPermit
  /\ pollAt' = "check"
  /\ pollPermit' = FALSE
  /\ IF pollFast THEN UNCHANGED timerVars ELSE SetInterval(TRUE)
  /\ pollIdle' = 0
  /\ UNCHANGED <<pollSleep, pollFails, coolVars, pollSwept, pollStop, envVars, orphanVars,
                 pollKnown, boundVars>>

(* exists_active_agreements; a read that fails counts as none.             *)
ExistsActive(readOk) == readOk /\ agOpen

(* The interval follows what the registry has. Then the backoff, if the    *)
(* last fetch failed.                                                      *)
ChooseInterval ==
  /\ pollAt = "check"
  /\ \E readOk \in BOOLEAN :
       LET active == ExistsActive(readOk)
       IN /\ IF readOk THEN UNCHANGED boundVars ELSE PollFault
          /\ IF active # pollFast THEN SetInterval(active) ELSE UNCHANGED timerVars
          /\ pollKnown' = active
  /\ pollAt' = IF pollFails > 0 THEN "backoff" ELSE "drain"
  /\ pollSleep' = IF pollFails > 0 THEN FailureBackoff(pollFails) ELSE 0
  /\ UNCHANGED <<pollPermit, pollFails, coolVars, pollSwept, pollStop, envVars, orphanVars,
                 pollIdle>>

BackoffEnds ==
  /\ pollAt = "backoff" /\ pollSleep = 0
  /\ pollAt' = "drain"
  /\ UNCHANGED <<pollSleep, timerVars, pollPermit, pollFails, coolVars, pollSwept, pollStop,
                 envVars, orphanVars, toldVars, boundVars>>

(* drain_once: it applies what it reads, which may be an agreement's end   *)
(* or an accept of an ended one, with an event to announce; or it hears    *)
(* the stop between two changes.                                           *)
DrainOnce ==
  /\ pollAt = "drain"
  /\ \/ /\ pollStop
        /\ pollAt' = "done" /\ pollStop' = FALSE
        /\ UNCHANGED <<agOpen, evPending>>
     \/ /\ pollAt' = "events"
        /\ \/ UNCHANGED <<agOpen, evPending>>
           \/ agOpen' = ~agOpen /\ evPending' = TRUE
        /\ UNCHANGED pollStop
  /\ pollFails' = 0
  /\ pollKnown' = (pollKnown /\ agOpen')
  /\ UNCHANGED <<pollSleep, timerVars, pollPermit, coolVars, pollSwept, agNew, brokerUp,
                 orphanVars, pollIdle, boundVars>>

(* A page cannot be fetched: the first, or one after pages that could be,  *)
(* which reset the count. The rest of the poll is skipped.                 *)
DrainFails ==
  /\ pollAt = "drain"
  /\ PollFault
  /\ pollAt' = "wait"
  /\ pollFails' \in {pollFails + 1, 1}
  /\ UNCHANGED <<pollSleep, timerVars, pollPermit, coolVars, pollSwept, pollStop, envVars,
                 orphanVars, toldVars>>

-----------------------------------------------------------------------------
(* The event sweeps.                                                       *)

(* BrokerCooldown::is_paused.                                              *)
IsPaused == pollDown >= 0 /\ pollDown < pollPause

(* BrokerCooldown::record of a failure: a first one pauses for one poll    *)
(* interval, another one for twice the last pause.                         *)
PauseAfterFailure ==
  IF pollDown >= 0 THEN Lesser(2 * pollPause, SlowInterval) ELSE FastInterval

(* run_event_sweeps, unless they are paused. With nothing to send, or when *)
(* the query for it fails, the cooldown is left as it is. The pause of a   *)
(* failed send counts from before the send.                                *)
EventSweep ==
  /\ pollAt = "events"
  /\ \/ /\ IsPaused \/ ~evPending
        /\ pollAt' = "cancels"
        /\ UNCHANGED <<coolVars, evPending, pollSleep, boundVars>>
     \/ /\ ~IsPaused /\ evPending
        /\ PollFault
        /\ pollAt' = "cancels"
        /\ UNCHANGED <<coolVars, evPending, pollSleep>>
     \/ /\ ~IsPaused /\ evPending /\ brokerUp
        /\ evPending' = FALSE
        /\ pollDown' = -1 /\ pollPause' = FastInterval /\ sendRun' = 0 /\ sendAge' = 0
        /\ pollAt' = "cancels"
        /\ UNCHANGED <<pollSleep, boundVars>>
     \/ /\ ~IsPaused /\ evPending /\ ~brokerUp
        /\ pollPause' = PauseAfterFailure
        /\ pollDown' = 0 /\ sendRun' = sendRun + 1 /\ sendAge' = 0
        /\ pollAt' = "hang" /\ pollSleep' = SendHangs
        /\ UNCHANGED <<evPending, boundVars>>
  /\ UNCHANGED <<timerVars, pollPermit, pollFails, pollSwept, pollStop, agOpen, agNew,
                 brokerUp, orphanVars, toldVars>>

SendGivesUp ==
  /\ pollAt = "hang" /\ pollSleep = 0
  /\ pollAt' = "cancels"
  /\ UNCHANGED <<pollSleep, timerVars, pollPermit, pollFails, coolVars, pollSwept, pollStop,
                 envVars, orphanVars, toldVars, boundVars>>

(* The sweeps for lost cancels, every SWEEP_POLLS polls that get here. A   *)
(* sweep starts the cancel again, or leaves it for the next: its query or  *)
(* a step of the cancel failed, or its batch was full of others.           *)
CancelSweep ==
  /\ pollAt = "cancels"
  /\ pollAt' = "wait"
  /\ IF pollSwept + 1 >= SweepPolls
     THEN /\ pollSwept' = 0
          /\ \/ /\ orphan' = FALSE /\ orphanOld' = FALSE
                /\ orphanAge' = 0 /\ orphanTries' = 0
                /\ UNCHANGED boundVars
             \/ /\ orphan /\ PollFault
                /\ orphanAge' = orphanAge + 1 /\ orphanTries' = orphanTries + 1
                /\ UNCHANGED <<orphan, orphanOld>>
     ELSE /\ pollSwept' = pollSwept + 1
          /\ orphanAge' = (IF orphan THEN orphanAge + 1 ELSE 0)
          /\ UNCHANGED <<orphan, orphanOld, orphanTries, boundVars>>
  /\ UNCHANGED <<pollSleep, timerVars, pollPermit, pollFails, coolVars, pollStop, envVars,
                 toldVars>>

(* Time passes where the loop waits, sleeps or hangs. A tick of the timer  *)
(* that is not taken is kept, and the ones after it are skipped.           *)
PollTick ==
  /\ pollNow < PollHorizon
  /\ \/ pollAt = "wait" /\ ~pollDue /\ ~pollPermit /\ ~pollStop
     \/ pollAt \in {"backoff", "hang"} /\ pollSleep > 0
  /\ pollNow' = pollNow + 1
  /\ pollSleep' = (IF pollSleep > 0 THEN pollSleep - 1 ELSE 0)
  /\ IF pollTimer = 1
     THEN /\ pollDue' = TRUE
          /\ pollTimer' = (IF pollFast THEN FastInterval ELSE SlowInterval)
     ELSE pollTimer' = pollTimer - 1 /\ UNCHANGED pollDue
  /\ pollDown' = (IF pollDown >= 0 THEN pollDown + 1 ELSE -1)
  /\ sendAge' = (IF sendRun > 0 THEN sendAge + 1 ELSE 0)
  /\ pollIdle' = (IF pollAt = "wait" THEN pollIdle + 1 ELSE pollIdle)
  /\ UNCHANGED <<pollAt, pollFast, pollPermit, pollFails, pollPause, pollSwept, pollStop,
                 envVars, orphanVars, pollKnown, sendRun, pollLost>>

PollLoop ==
  \/ ReadState \/ HearStop \/ TimerFires \/ Woken \/ ChooseInterval \/ BackoffEnds
  \/ DrainOnce \/ DrainFails \/ EventSweep \/ SendGivesUp \/ CancelSweep

PollNext ==
  \/ PollLoop
  \/ PollTick
  \/ CreateAgreement \/ NotifyListener \/ EndAgreement \/ LoseCancel
  \/ TurnBroker \/ StopListener \/ RestartListener

PollSpec == PollInit /\ [][PollNext]_pollVars

-----------------------------------------------------------------------------
(* OpenPolledFast. Once the listener was notified of an open agreement, or *)
(* has read one, it never waits longer than the fast interval for its next *)
(* poll: the notification of a reassessment is not lost however busy the   *)
(* listener is when it comes. Only a failed read of the registry, which    *)
(* counts as no open agreement, slows it down.                             *)
OpenPolledFast == pollKnown => pollIdle <= FastInterval

(* How long after the start of the n-th failed sweep in a row the next may *)
(* start: one poll interval, doubled up to the idle interval.              *)
PauseOf(n) == Lesser(FastInterval * 2 ^ (n - 1), SlowInterval)

(* SweepsBackOff. While the broker is down, each failed sweep doubles the  *)
(* time to the next, whatever idle and paused polls, failed fetches and    *)
(* interval changes come between: a dead broker blocks the loop ever more  *)
(* rarely, and is retried at least every idle interval.                    *)
SweepsBackOff == sendRun' > sendRun /\ sendRun > 0 => sendAge >= PauseOf(sendRun)

(* LostCancelsSwept. A cancel lost before the process started is tried by  *)
(* its first complete poll, and one lost later within SWEEP_POLLS of them, *)
(* and again within SWEEP_POLLS of every sweep that left it, however the   *)
(* listener's polls and failures alternate.                                *)
LostCancelsSwept ==
  /\ orphanAge < SweepPolls * (orphanTries + 1)
  /\ orphanOld => orphanAge <= SweepPolls * orphanTries
=============================================================================
