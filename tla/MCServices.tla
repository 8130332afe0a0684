----------------------------- MODULE MCServices -----------------------------
(***************************************************************************)
(* The services around the agreements, the process that runs them and the  *)
(* arithmetic of their settings, each explored by itself: a behaviour is   *)
(* about the one part it starts in.                                        *)
(***************************************************************************)
EXTENDS LivenessCheck, DipsInfoWatch, Selection, NetworkCaches, Alerts, EventEmitter,
        Process, JobSignal, WorkerLoops, Configuration, OutboundCalls, OfferRetries, TLC

CONSTANT ServiceParts  \* the parts a run explores

VARIABLE part  \* the part this behaviour is about

networkVars == <<liveVars, dipsVars, selVars, ncVars>>
processVars == <<alVars, emVars, prVars, jsVars, wkVars>>
settingVars == <<cfVars, ocVars, orVars>>
allVars     == <<part, networkVars, processVars, settingVars>>

(* The keys hash to two partitions; the marker's events have the first.    *)
MCKeyHash   == "k1" :> 3 @@ "k2" :> 4
MCMarkerKey == [d \in Markers |-> "k1"]

(* No price for the month, none that may be paid, one or the other above   *)
(* its cap or not a number, both at their caps, the products off by a part *)
(* of a wei, and a price below one wei.                                    *)
MCQuotes ==
  {[perMonth |-> m, perEntity |-> NoPrice] :
     m \in {NaN, Number(-1, 0), Number(PriceCap + 1, 0)}}
    \cup {[perMonth |-> Number(3, 0), perEntity |-> e] : e \in {NaN, Number(EntityCap + 1, 0)}}
    \cup {[perMonth |-> NoPrice, perEntity |-> Number(1, 0)],
          [perMonth |-> Number(1, 0), perEntity |-> NoPrice],
          [perMonth |-> Number(PriceCap, -1), perEntity |-> Number(EntityCap, 1)]}

(* Two of the services, in the order main.rs stops them.                   *)
MCStopOrder == <<"chain listener", "worker">>

(* What a part's start leaves open is open only in its own behaviours.     *)
ServicesInit ==
  /\ part \in ServiceParts
  /\ LivenessInit /\ (part # "liveness" => kind = [i \in Watched |-> "serving"])
  /\ DipsInit /\ SelectionInit /\ ProcessInit
  /\ CachesInit
  /\ part # "caches" => ncCache = "counts" /\ \A i \in EntityIds : ncEntity[i] = "absent"
  /\ AlertsInit /\ (part # "alerts" => alPoster = "gone")
  /\ EmitterInit /\ (part # "emitter" => emConf = Disabled)
  /\ SignalInit /\ (part # "signal" => jsNet = "good")
  /\ LoopsInit /\ (part # "loops" => wkPool = MaxPool)
  /\ ConfigurationInit /\ (part # "configuration" => cfFile = Written)
  /\ CallsInit /\ (part # "calls" => ocCall = "dips-indexers")
  /\ RetriesInit /\ (part # "retries" => orKind = "other" /\ orWindow = Max(Windows))

Network(p, A) == part = p /\ A /\ UNCHANGED <<part, processVars, settingVars>>
Running(p, A) == part = p /\ A /\ UNCHANGED <<part, networkVars, settingVars>>
Setting(p, A) == part = p /\ A /\ UNCHANGED <<part, networkVars, processVars>>

LivenessPart(A)  == Network("liveness", A) /\ UNCHANGED <<dipsVars, selVars, ncVars>>
DipsPart(A)      == Network("dips", A) /\ UNCHANGED <<liveVars, selVars, ncVars>>
SelectionPart(A) == Network("selection", A) /\ UNCHANGED <<liveVars, dipsVars, ncVars>>
CachesPart(A)    == Network("caches", A) /\ UNCHANGED <<liveVars, dipsVars, selVars>>
AlertsPart(A)    == Running("alerts", A) /\ UNCHANGED <<emVars, prVars, jsVars, wkVars>>
EmitterPart(A)   == Running("emitter", A) /\ UNCHANGED <<alVars, prVars, jsVars, wkVars>>
ProcessPart(A)   == Running("process", A) /\ UNCHANGED <<alVars, emVars, jsVars, wkVars>>
SignalPart(A)    == Running("signal", A) /\ UNCHANGED <<alVars, emVars, prVars, wkVars>>
LoopsPart(A)     == Running("loops", A) /\ UNCHANGED <<alVars, emVars, prVars, jsVars>>
ConfigurationPart(A) == Setting("configuration", A) /\ UNCHANGED <<ocVars, orVars>>
CallsPart(A)     == Setting("calls", A) /\ UNCHANGED <<cfVars, orVars>>
RetriesPart(A)   == Setting("retries", A) /\ UNCHANGED <<cfVars, ocVars>>

ServicesNext ==
  \/ LivenessPart(LivenessNext) \/ DipsPart(DipsNext)
  \/ SelectionPart(SelectionNext) \/ CachesPart(CachesNext)
  \/ AlertsPart(AlertsNext) \/ EmitterPart(EmitterNext) \/ ProcessPart(ProcessNext)
  \/ SignalPart(SignalNext) \/ LoopsPart(LoopsNext)
  \/ ConfigurationPart(ConfigurationNext) \/ CallsPart(CallsNext) \/ RetriesPart(RetriesNext)

ServicesSpec == ServicesInit /\ [][ServicesNext]_allVars

(* The fairness each part's own specification states. A behaviour stays in *)
(* its part, so that fairness of a disjunction with one disjunct of each   *)
(* part is fairness of every one of them.                                  *)
ServicesFairSpec ==
  /\ ServicesSpec
  /\ WF_allVars(\/ SelectionPart(RunStep) \/ CachesPart(FetchPage)
                \/ AlertsPart(TakeAlert) \/ EmitterPart(DrainStep))
  /\ WF_allVars(\/ SelectionPart(PassStep) \/ CachesPart(StopReturns)
                \/ AlertsPart(Post) \/ EmitterPart(StopSources))
  /\ WF_allVars(AlertsPart(AlertTick) \/ EmitterPart(Flush))
  /\ \A r \in Requests : SF_allVars(SelectionPart(StartRun(r)))
  /\ SF_allVars(CachesPart(CacheHearsStop) \/ AlertsPart(Check))

RunningFairSpec ==
  /\ ServicesSpec
  /\ WF_allVars(\/ ProcessPart(NotifyAll("supervisor")) \/ SignalPart(LoopStep)
                \/ LoopsPart(WorkerEnds))
  /\ WF_allVars(\/ ProcessPart(NotifyAll(Handler)) \/ SignalPart(ConnectionDies)
                \/ LoopsPart(OtherReturns))
  /\ WF_allVars(ProcessPart(Boot)) /\ WF_allVars(ProcessPart(HandlerStep))
  /\ WF_allVars(ProcessPart(SupStep)) /\ WF_allVars(ProcessPart(ProcessTick))
  /\ SF_allVars(LoopsPart(LoopsTick))
  /\ \A l \in Loops :
       /\ WF_allVars(LoopsPart(NextTick(l))) /\ SF_allVars(LoopsPart(Pop(l)))
       /\ SF_allVars(LoopsPart(JobEnds(l))) /\ WF_allVars(LoopsPart(JoinLoop(l)))

(* The indexers two of the parts watch are alike.                          *)
Alike == Permutations(Watched)

-----------------------------------------------------------------------------
(* What the parts promise together. A part that a behaviour is not about   *)
(* keeps its promise by not moving. Where a promise is about steps, it is  *)
(* about those of its own parts, and what it says of states it says of the *)
(* state each step leads to.                                               *)

(* JudgedFairly. An outage on dipper's side costs no indexer that serves   *)
(* its agreement before the breaker's hold is over, nor gets it blocked;   *)
(* one that is gone is abandoned all the same, however often the breaker   *)
(* trips; and one that does not answer stays blocked until it does, after  *)
(* an alert and for no time counted twice (UnreachableBreaker in           *)
(* liveness_checker.rs, run_cycle in dips_info_watcher.rs).                *)
JudgedFairly ==
  [][(part \in {"liveness", "dips"}) =>
       /\ LivenessTypeOK' /\ DipsTypeOK'
       /\ OutageSparesServing /\ OutageBlocksNobody
       /\ GoneIsAbandoned'
       /\ CountsWhatPassed' /\ AlertBeforeBlock' /\ BlockOutlasts]_allVars

(* OffersRight. Who is offered an agreement, at which price, and where to  *)
(* reach them: each decline keeps an indexer out for the window its reason *)
(* earns and no other, an offer pays what was asked but for the last wei   *)
(* and a float's error, a shortfall is announced once over jobs that run   *)
(* again (the reassessment and its queries), and an indexer readable all   *)
(* through a refresh is found by its URL (indexer_urls.rs,                 *)
(* entity_count_cache.rs).                                                 *)
OffersRight ==
  /\ SelectionTypeOK /\ CachesTypeOK
  /\ OwnWindow /\ PaysWhatIsAsked /\ AnnouncedOnce
  /\ RegisteredIsShown

(* AllAccounted. At queues that are full, without a broker and through the *)
(* shutdown, every alert is in a message that is posted, once, or in a     *)
(* count that one reports, and every event is sent or counted; an event's  *)
(* alerts make one message a window (alerts.rs), the events of a key keep  *)
(* their order and a durable event that is marked was stored (the          *)
(* emitter).                                                               *)
AllAccounted ==
  [][(part \in {"alerts", "emitter"}) =>
       /\ AlertsTypeOK' /\ EmitterTypeOK'
       /\ AlertsAccounted' /\ OneMessagePerWindow
       /\ EventsCounted' /\ KeyOrder' /\ MarkedWasStored']_allVars

(* ExitsSafely. The process ends well only when nothing failed, closes the *)
(* DB pool when no service is left to use it, and takes no longer over its *)
(* teardown than the grace, whatever hangs or dies in it (supervisor.rs,   *)
(* the stop sequence in main.rs).                                          *)
ExitsSafely == ProcessTypeOK /\ CleanExitIsClean /\ PoolClosedAlone /\ TeardownWithinGrace

(* WorkerSound. Subscriptions that open and break back off and their       *)
(* recovery is told (ResubscribeBackoff, WarnPacer); loops that hold a     *)
(* listener and a job never lock the pool; the health endpoint reports a   *)
(* loop that hangs and, under a threshold that covers a turn, none that is *)
(* slow; a loop that died makes the worker fail (worker/service.rs,        *)
(* health.rs).                                                             *)
WorkerSound ==
  /\ SignalTypeOK /\ LoopsTypeOK
  /\ FlapsBackOff /\ RecoveryTold
  /\ PoolNeverLocked /\ WedgedIsSeen /\ SlowIsHealthy /\ DeathFailsWorker

(* SettingsAddUp. Every configuration that passes the checks leaves an     *)
(* indexer that accepts late room to collect, meets what RunsAsAssumed     *)
(* lists of the other modules' assumptions, can be started, and bounds the *)
(* gas (config.rs, gas.rs); IISA takes a reassessment no longer than two   *)
(* spans of attempts and waits, and an outage loses no job                 *)
(* (http_client.rs); an offer is retried for as long as it may be accepted *)
(* (retries_within_window).                                                *)
SettingsAddUp ==
  /\ ConfigurationTypeOK /\ CallsTypeOK /\ RetriesTypeOK
  /\ CollectionFits /\ RunsAsAssumed /\ StartedServes /\ GasBounded
  /\ SelectionWithinSpan /\ OutageKeepsJob /\ BudgetOutlastsWindow

(* TasksFinish. A cache told to stop stops, though its refresh is not      *)
(* interrupted; every alert is told without another having to come, unless *)
(* the post of its message fails; the flush reaches the drain task         *)
(* wherever it is (NetworkCaches, Alerts, EventEmitter).                   *)
TasksFinish == CacheStops /\ AlertsTold /\ FlushHeard

(* ShutdownWorks. A request for shutdown is heard whenever it comes, and   *)
(* ends the process though services never stop (supervisor.rs).            *)
ShutdownWorks == RequestHeard /\ ShutdownEnds

(* DeathNoticed. A connection that cannot be opened any more is given up   *)
(* although the poll timer cuts each attempt short (FailureRun), and a     *)
(* loop that dies takes the worker down (the join of the loops).           *)
DeathNoticed == LossNoticed /\ DeathDrainsWorker
=============================================================================
