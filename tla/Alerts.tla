------------------------------- MODULE Alerts --------------------------------
(***************************************************************************)
(* The alerts posted to Slack: tagged log lines go into a bounded queue, a *)
(* poster takes them out, posts at most one message for each event in each *)
(* throttle window and reports the rest as a count. A line that finds the  *)
(* queue full is counted on the side and joins the held-back count later.  *)
(*                                                                         *)
(* Time is counted in checks for held-back alerts, min(60 s, window).      *)
(***************************************************************************)
EXTENDS Integers, Sequences, SequencesExt, FiniteSetsExt

CONSTANTS
  Events,       \* the event tags alerts are set up for
  AlertQueue,   \* QUEUE
  AlertWindow,       \* throttle window, in checks
  MaxRaised,    \* bound on alerts of each event
  MaxMissed     \* bound on checks that wait while the poster posts

ASSUME AlertsAssumption ==
  /\ {AlertQueue, AlertWindow, MaxRaised, MaxMissed} \subseteq Nat \ {0}
  /\ IsFiniteSet(Events)

VARIABLES
  alQueue,    \* tags of the alerts waiting to be posted
  alDropped,  \* [event -> alerts that found the queue full], the shared map
  alWindow,   \* Throttle.events: [event -> [age, held]]
  alPoster,   \* what post_alerts does: "wait", "post", or "gone"
  alTexts,    \* messages built and not posted yet: [event, counts]
  alChecks,   \* checks that are due
  alRaised,   \* [event -> tagged lines logged] (ghost)
  alTold,     \* [event -> alerts a posted message has told of] (ghost)
  alLost,     \* [event -> alerts in a message whose post failed] (ghost)
  alQuiet     \* [event -> age of its last message], as of when it was built (ghost)

alVars == <<alQueue, alDropped, alWindow, alPoster, alTexts, alChecks, alRaised, alTold, alLost,
            alQuiet>>

NoWindow == [age |-> -1, held |-> 0]   \* an event with no entry
Ages     == 0 .. AlertWindow                \* an age stops counting at the window
OlderAlert(age) == Min({age + 1, AlertWindow})

AlertsTypeOK ==
  /\ alQueue \in Seq(Events) /\ Len(alQueue) <= AlertQueue
  /\ alDropped \in [Events -> Nat]
  /\ alWindow \in [Events -> {NoWindow} \cup [age : Ages, held : Nat]]
  /\ alPoster \in {"wait", "post", "gone"}
  /\ alTexts \in Seq([event : Events, counts : Nat \ {0}])
  /\ alChecks \in 0 .. MaxMissed
  /\ alRaised \in [Events -> 0 .. MaxRaised]
  /\ alTold \in [Events -> Nat] /\ alLost \in [Events -> Nat]
  /\ alQuiet \in [Events -> Ages]

(* The poster is gone from the start when its HTTP client cannot be built. *)
AlertsInit ==
  /\ alQueue = <<>> /\ alTexts = <<>>
  /\ alDropped = [e \in Events |-> 0]
  /\ alWindow = [e \in Events |-> NoWindow]
  /\ alPoster \in {"wait", "gone"}
  /\ alChecks = 1   \* the first tick of an interval comes at once
  /\ alRaised = [e \in Events |-> 0]
  /\ alTold = [e \in Events |-> 0] /\ alLost = [e \in Events |-> 0]
  /\ alQuiet = [e \in Events |-> AlertWindow]

(* AlertLayer::on_event for a line whose tag alerts are set up for.        *)
OnEvent(e) ==
  /\ alRaised[e] < MaxRaised
  /\ alRaised' = [alRaised EXCEPT ![e] = @ + 1]
  /\ IF Len(alQueue) < AlertQueue /\ alPoster # "gone"
       THEN alQueue' = Append(alQueue, e) /\ UNCHANGED alDropped
       ELSE alDropped' = [alDropped EXCEPT ![e] = @ + 1] /\ UNCHANGED alQueue
  /\ UNCHANGED <<alWindow, alPoster, alTexts, alChecks, alTold, alLost, alQuiet>>

-----------------------------------------------------------------------------
(* Throttle.                                                               *)

InWindow(w) == 0 <= w.age /\ w.age < AlertWindow

(* Mutant: the count of the window that ended is thrown away.              *)
HeldBeforeNone(w) == 0

(* Throttle::admit: the alerts held back before one that is posted.        *)
HeldBefore(w) == w.held

(* Throttle::admit: the window after an alert.                             *)
Admitted(w) ==
  IF InWindow(w) THEN [w EXCEPT !.held = @ + 1] ELSE [age |-> 0, held |-> 0]

(* Throttle::hold_back: count alerts that never reached the throttle. A    *)
(* machine that has run for less than a window cannot date one back, so    *)
(* the new window starts now.                                              *)
HeldBack(w, count, datesBack) ==
  IF w = NoWindow
    THEN IF count = 0 THEN w ELSE [age |-> IF datesBack THEN AlertWindow ELSE 0, held |-> count]
    ELSE [w EXCEPT !.held = @ + count]

(* Mutant: a single alert held back is not worth a message.                *)
IsDueMany(w) == w.held > 1 /\ w.age = AlertWindow

(* Throttle::due: an event whose window ended with alerts held back.       *)
IsDue(w) == w.held > 0 /\ w.age = AlertWindow

(* Mutant: the message that reports a count starts no window.              *)
ReportedOldWindow(w) == [w EXCEPT !.held = 0]

Reported(w) == [age |-> 0, held |-> 0]

-----------------------------------------------------------------------------
(* One turn of post_alerts: the alert or the check, then the dropped ones, *)
(* then the posts.                                                         *)

TakeDropped(windows, datesBack) ==
  /\ alWindow' = [e \in Events |-> HeldBack(windows[e], alDropped[e], datesBack)]
  /\ alDropped' = [e \in Events |-> 0]

BuildAlert(texts) ==
  /\ alTexts' = texts
  /\ alQuiet' = [e \in Events |-> IF \E k \in DOMAIN texts : texts[k].event = e
                                    THEN 0 ELSE alQuiet[e]]
  /\ alPoster' = IF texts = <<>> THEN "wait" ELSE "post"

TakeAlert ==
  /\ alPoster = "wait" /\ alQueue # <<>>
  /\ LET e == Head(alQueue)
         w == alWindow[e]
     IN /\ \E datesBack \in BOOLEAN :
             TakeDropped([alWindow EXCEPT ![e] = Admitted(w)], datesBack)
        /\ BuildAlert(IF InWindow(w) THEN <<>>
                 ELSE <<[event |-> e, counts |-> 1 + HeldBefore(w)]>>)
  /\ alQueue' = Tail(alQueue)
  /\ UNCHANGED <<alChecks, alRaised, alTold, alLost>>

Check ==
  /\ alPoster = "wait" /\ alChecks > 0
  /\ LET due == {e \in Events : IsDue(alWindow[e])}
     IN /\ \E datesBack \in BOOLEAN :
             TakeDropped([e \in Events |-> IF e \in due THEN Reported(alWindow[e])
                                                        ELSE alWindow[e]], datesBack)
        /\ \E order \in SetToSeqs(due) :
             BuildAlert([k \in DOMAIN order |->
                      [event |-> order[k], counts |-> alWindow[order[k]].held]])
  /\ alChecks' = alChecks - 1
  /\ UNCHANGED <<alQueue, alRaised, alTold, alLost>>

(* post: Slack takes the message, or the failure is logged, without a tag, *)
(* and the message is gone.                                                *)
Post ==
  /\ alPoster = "post"
  /\ LET t == Head(alTexts)
     IN \/ alTold' = [alTold EXCEPT ![t.event] = @ + t.counts] /\ UNCHANGED alLost
        \/ alLost' = [alLost EXCEPT ![t.event] = @ + t.counts] /\ UNCHANGED alTold
  /\ alTexts' = Tail(alTexts)
  /\ alPoster' = IF Len(alTexts) = 1 THEN "wait" ELSE "post"
  /\ UNCHANGED <<alQueue, alDropped, alWindow, alChecks, alRaised, alQuiet>>

(* A check's time passes, also while a post waits on Slack.                *)
AlertTick ==
  /\ alChecks < MaxMissed
  /\ alChecks' = alChecks + 1
  /\ alWindow' = [e \in Events |-> IF alWindow[e] = NoWindow THEN NoWindow
                                   ELSE [alWindow[e] EXCEPT !.age = OlderAlert(@)]]
  /\ alQuiet' = [e \in Events |-> OlderAlert(alQuiet[e])]
  /\ UNCHANGED <<alQueue, alDropped, alPoster, alTexts, alRaised, alTold, alLost>>

AlertsNext == (\E e \in Events : OnEvent(e)) \/ TakeAlert \/ Check \/ Post \/ AlertTick

AlertsSpec == AlertsInit /\ [][AlertsNext]_alVars

(* The poster's task runs, a post ends by POST_TIMEOUT, and time passes.   *)
AlertsFairSpec ==
  /\ AlertsSpec
  /\ WF_alVars(TakeAlert) /\ SF_alVars(Check) /\ WF_alVars(Post) /\ WF_alVars(AlertTick)

-----------------------------------------------------------------------------

Tried(e)   == alTold[e] + alLost[e]
Waiting(e) == Cardinality({k \in DOMAIN alQueue : alQueue[k] = e})
TextsOf(e) == {k \in DOMAIN alTexts : alTexts[k].event = e}
InTexts(e) == IF TextsOf(e) = {} THEN 0 ELSE alTexts[CHOOSE k \in TextsOf(e) : TRUE].counts

(* AlertsAccounted. Every tagged line is in a message that was posted or   *)
(* whose post failed, waiting, or in one of the counts a later message     *)
(* reports: a full queue, a throttle window that ends and a check at the   *)
(* same time neither lose nor double one, and the messages of one turn are *)
(* about different events (on_event, Throttle::admit, hold_back, due).     *)
AlertsAccounted ==
  /\ \A j, k \in DOMAIN alTexts : alTexts[j].event = alTexts[k].event => j = k
  /\ \A e \in Events :
       alRaised[e] = Tried(e) + InTexts(e) + Waiting(e) + alDropped[e] + alWindow[e].held

(* OneMessagePerWindow. Two messages about an event are a throttle window  *)
(* apart, whether they carry an alert or a count (post_alerts).            *)
OneMessagePerWindow ==
  alPoster = "wait" => \A k \in DOMAIN alTexts' : alQuiet[alTexts'[k].event] = AlertWindow

(* AlertsTold. With the poster running, every alert is told in the end     *)
(* except those in a message whose post failed, which are not tried again: *)
(* those dropped at a full queue or held back too, without another alert   *)
(* having to come (post_alerts, the held-back check).                      *)
AlertsTold == (alPoster # "gone") ~> (\A e \in Events : Tried(e) = alRaised[e])
=============================================================================
