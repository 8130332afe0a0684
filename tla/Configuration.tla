---------------------------- MODULE Configuration ----------------------------
(***************************************************************************)
(* The configuration of the service: what its file may hold, what dipper   *)
(* refuses to start with, and what a configuration it does start with      *)
(* commits it to: the ports it binds, the timers it runs, the terms it     *)
(* offers and the gas it allows a transaction.                             *)
(*                                                                         *)
(* A section is a record with the values each of its settings may take:    *)
(* its default, and values on both sides of each bound the code checks.    *)
(* Settings no check and no property depends on (endpoints, tokens, keys,  *)
(* contract addresses) are left out. Shares and prices are whole numbers;  *)
(* JSON has no NaN or infinity, so the checks for them never decide.       *)
(***************************************************************************)
EXTENDS Integers, Sequences, FiniteSets, FiniteSetsExt

CONSTANTS
  MaxEdits,   \* settings the operator writes
  Estimates   \* gas estimates a node returns

U64Max     == 2000000000   \* u64::MAX
NoValue    == -1           \* null
CollectionWindow   == 600          \* MIN_SECONDS_COLLECTION_WINDOW
JobBackstop == 420         \* PROCESS_JOB_TIMEOUT
Day        == 86400

ASSUME ConfigurationAssumption == MaxEdits \in Nat /\ Estimates \subseteq 0 .. U64Max

-----------------------------------------------------------------------------
(* The sections, each with its defaults.                                   *)

DefaultEvents ==
  {"agreement_cancel_stuck", "rpc_blocks_refused", "nonce_gap_fill_failed",
   "chain_listener_changes_skipped", "chain_listener_fetch_failing",
   "stale_agreement_uncancellable", "liveness_abandonment_paused", "iisa_request_rejected",
   "dips_info_missing", "dips_info_checks_paused", "dips_info_missing_denylisted"}

AlertsConfig  == [webhook |-> BOOLEAN, events |-> {DefaultEvents, {}}, throttle |-> {0, 900}]
AlertsDefault == [webhook |-> FALSE, events |-> DefaultEvents, throttle |-> 900]

HealthConfig  == [enabled |-> BOOLEAN, port |-> {0, 8545, 8546}, threshold |-> {420, 840}]
HealthDefault == [enabled |-> TRUE, port |-> 8546, threshold |-> 2 * JobBackstop]

IisaConfig  == [requestTimeout |-> {30}, connectTimeout |-> {10}, maxRetries |-> {0, 3}]
IisaDefault == [requestTimeout |-> 30, connectTimeout |-> 10, maxRetries |-> 3]

IndexerClientConfig  == [requestTimeout |-> {10, 240}, connectTimeout |-> {10},
                         maxRetries |-> {0, 3}]
IndexerClientDefault == [requestTimeout |-> 240, connectTimeout |-> 10, maxRetries |-> 3]

ReassignmentConfig  == [present |-> BOOLEAN, enabled |-> BOOLEAN, interval |-> {0, Day},
                        hour |-> {10, 23, 24}, batch |-> {0, 100}, minAge |-> {Day},
                        topUp |-> {0, 3600}]
ReassignmentDefault == [present |-> FALSE, enabled |-> TRUE, interval |-> Day, hour |-> 10,
                        batch |-> 100, minAge |-> Day, topUp |-> 3600]

ExpirationConfig  == [present |-> BOOLEAN, enabled |-> BOOLEAN, interval |-> {0, 90},
                      batch |-> {100}, grace |-> {0, 300}]
ExpirationDefault == [present |-> FALSE, enabled |-> TRUE, interval |-> 90, batch |-> 100,
                      grace |-> 300]

EscrowReconcilerConfig  == [present |-> BOOLEAN, enabled |-> BOOLEAN, interval |-> {0, 600},
                            batch |-> {500}, rebalance |-> {0, Day}, perSweep |-> {500}]
EscrowReconcilerDefault == [present |-> FALSE, enabled |-> TRUE, interval |-> 600, batch |-> 500,
                            rebalance |-> Day, perSweep |-> 500]

LivenessCheckerConfig  == [present |-> BOOLEAN, enabled |-> BOOLEAN, interval |-> {0, 300},
                           tolerance |-> {4}, timeout |-> {10}, batch |-> {500},
                           tripPercent |-> {0, 50, 100, 101}, tripMin |-> {3}]
LivenessCheckerDefault == [present |-> FALSE, enabled |-> FALSE, interval |-> 300, tolerance |-> 4,
                           timeout |-> 10, batch |-> 500, tripPercent |-> 50, tripMin |-> 3]

DipsInfoWatcherConfig  == [present |-> BOOLEAN, enabled |-> BOOLEAN,
                           interval |-> {0, 300, Day, Day + 1}, alert |-> {0, 24, 48},
                           denylist |-> {24, 48, 49}, timeout |-> {0, 10}, atOnce |-> {0, 16},
                           tripPercent |-> {0, 50, 100, 101}, tripMin |-> {3}]
DipsInfoWatcherDefault == [present |-> FALSE, enabled |-> FALSE, interval |-> 300, alert |-> 24,
                           denylist |-> 48, timeout |-> 10, atOnce |-> 16, tripPercent |-> 50,
                           tripMin |-> 3]

ChainListenerConfig  == [present |-> BOOLEAN, enabled |-> BOOLEAN, poll |-> {0, 30},
                         timeout |-> {30}, maxRetries |-> {3}, reorgBuffer |-> {0, 20},
                         skew |-> {60}, drift |-> {10}, bypass |-> BOOLEAN]
ChainListenerDefault == [present |-> FALSE, enabled |-> FALSE, poll |-> 30, timeout |-> 30,
                         maxRetries |-> 3, reorgBuffer |-> 20, skew |-> 60, drift |-> 10,
                         bypass |-> FALSE]

ChainClientConfig  == [present |-> BOOLEAN, enabled |-> BOOLEAN, providers |-> {0, 1},
                       timeout |-> {10}, maxRetries |-> {3}, refresh |-> {0, 3600},
                       gasPercent |-> {50, 200}, gasFloor |-> {0, 100000},
                       gasAddition |-> {0, 200000}]
ChainClientDefault == [present |-> TRUE, enabled |-> TRUE, providers |-> 1, timeout |-> 10,
                       maxRetries |-> 3, refresh |-> 3600, gasPercent |-> 200,
                       gasFloor |-> 100000, gasAddition |-> 200000]

DipsAgreementConfig  ==
  [manager |-> BOOLEAN, minSeconds |-> {60, 3600}, maxSeconds |-> {60, 4199, 4200, Day},
   duration |-> {NoValue, 600, 1259, 1260, 4799, 4800}, deadline |-> {0, 600, 3600},
   agreementCap |-> {-1, 0, 20000}, chainCap |-> {NoValue, 0, 450}, fallbackCap |-> {0, 4500},
   entityCap |-> {0, 2000}, resetPercent |-> {25, 50}, tripPercent |-> {25, 50},
   perIndexer |-> {NoValue, 0, 5, 101}, total |-> {NoValue, 0, 4, 100}]
DipsAgreementDefault ==
  [manager |-> TRUE, minSeconds |-> 3600, maxSeconds |-> Day, duration |-> NoValue,
   deadline |-> 600, agreementCap |-> 20000, chainCap |-> NoValue, fallbackCap |-> 4500,
   entityCap |-> 2000, resetPercent |-> 25, tripPercent |-> 50, perIndexer |-> 5, total |-> 100]

EventStreamingConfig  == [enabled |-> BOOLEAN, capacity |-> {0, 1024}, kafka |-> BOOLEAN]
EventStreamingDefault == [enabled |-> FALSE, capacity |-> 1024, kafka |-> FALSE]

(* The rest of Config: the sections of 1 or 2 settings, the worker's       *)
(* loops, and whether the file holds a key no section knows.               *)
RestConfig  == [adminPort |-> {8545, 8546}, loops |-> {0, 8, 11}, maxConns |-> {NoValue, 25, 26},
                urls |-> {0, 60}, unknownKey |-> BOOLEAN]
RestDefault == [adminPort |-> 8545, loops |-> 8, maxConns |-> NoValue, urls |-> 60,
                unknownKey |-> FALSE]

(* Config.                                                                 *)
Settings ==
  [alerts |-> AlertsConfig, health |-> HealthConfig, iisa |-> IisaConfig,
   indexerClient |-> IndexerClientConfig, reassignment |-> ReassignmentConfig,
   expiration |-> ExpirationConfig, escrow |-> EscrowReconcilerConfig,
   liveness |-> LivenessCheckerConfig, watcher |-> DipsInfoWatcherConfig,
   listener |-> ChainListenerConfig, chainClient |-> ChainClientConfig,
   dips |-> DipsAgreementConfig, streaming |-> EventStreamingConfig, rest |-> RestConfig]

Written ==
  [alerts |-> AlertsDefault, health |-> HealthDefault, iisa |-> IisaDefault,
   indexerClient |-> IndexerClientDefault, reassignment |-> ReassignmentDefault,
   expiration |-> ExpirationDefault, escrow |-> EscrowReconcilerDefault,
   liveness |-> LivenessCheckerDefault, watcher |-> DipsInfoWatcherDefault,
   listener |-> ChainListenerDefault, chainClient |-> ChainClientDefault,
   dips |-> DipsAgreementDefault, streaming |-> EventStreamingDefault, rest |-> RestDefault]

(* The same with every optional service turned on.                         *)
WrittenInFull ==
  [s \in DOMAIN Written |->
     IF "present" \in DOMAIN Written[s]
       THEN [Written[s] EXCEPT !.present = TRUE, !.enabled = TRUE] ELSE Written[s]]

VARIABLES
  cfFile,     \* the configuration file
  cfEdits,    \* settings written so far
  cfAt,       \* "edit", "parsed", "valid", "built", "bound", "up", "refused" or "down"
  cfWhy,      \* the task that took the process down, or "none"
  cfTerms,    \* the runtime configuration of agreements, from "valid" on
  cfOffer,    \* the terms of an offer
  cfTaken,    \* when the offer was accepted, or NoValue
  cfGas       \* the last gas limit computed: [estimate, limit]

cfVars == <<cfFile, cfEdits, cfAt, cfWhy, cfTerms, cfOffer, cfTaken, cfGas>>

(* The runtime form of the agreement settings.                             *)
IndexingAgreementConfig == [duration : 0 .. U64Max, deadline : 0 .. U64Max]

NoTerms == [duration |-> 0, deadline |-> 0]
NoOffer == [deadline |-> NoValue, ends |-> NoValue]
NoGas   == [estimate |-> 0, limit |-> 0]

ConfigurationTypeOK ==
  /\ \A s \in DOMAIN Settings : \A f \in DOMAIN Settings[s] : cfFile[s][f] \in Settings[s][f]
  /\ cfEdits \in 0 .. MaxEdits
  /\ cfAt \in {"edit", "parsed", "valid", "built", "bound", "up", "refused", "down"}
  /\ (cfWhy # "none") = (cfAt = "down")
  /\ cfTerms \in IndexingAgreementConfig
  /\ cfOffer.ends \in -1 .. U64Max /\ cfOffer.deadline \in -1 .. U64Max
  /\ cfTaken \in -1 .. cfOffer.deadline
  /\ cfGas.limit \in 0 .. U64Max

ConfigurationInit ==
  /\ cfFile \in {Written, WrittenInFull} /\ cfEdits = 0 /\ cfAt = "edit" /\ cfWhy = "none"
  /\ cfTerms = NoTerms /\ cfOffer = NoOffer /\ cfTaken = NoValue /\ cfGas = NoGas

(* The operator writes a setting.                                          *)
Edit ==
  /\ cfAt = "edit" /\ cfEdits < MaxEdits /\ cfEdits' = cfEdits + 1
  /\ \E s \in DOMAIN Settings : \E f \in DOMAIN Settings[s] : \E v \in Settings[s][f] :
       v # cfFile[s][f] /\ cfFile' = [cfFile EXCEPT ![s][f] = v]
  /\ UNCHANGED <<cfAt, cfWhy, cfTerms, cfOffer, cfTaken, cfGas>>

-----------------------------------------------------------------------------
(* What dipper refuses.                                                    *)

GoTo(at) ==
  /\ cfAt' = at
  /\ UNCHANGED <<cfFile, cfEdits, cfWhy, cfOffer, cfTaken, cfGas>>

(* load_from_file, where serde refuses what a type or a deserializer does. *)
Parses(c) == ~c.rest.unknownKey /\ c.reassignment.hour <= 23 /\ c.streaming.capacity > 0

Load ==
  /\ cfAt = "edit" /\ GoTo(IF Parses(cfFile) THEN "parsed" ELSE "refused") /\ UNCHANGED cfTerms

CollectionFitsWindowFromNow(d) ==
  /\ d.maxSeconds > d.minSeconds /\ d.maxSeconds - d.minSeconds >= CollectionWindow
  /\ d.duration # NoValue =>
       /\ d.duration > d.deadline
       /\ d.duration >= d.minSeconds + CollectionWindow

(* The collection window rules of the RecurringCollector.                  *)
CollectionFitsWindow(d) ==
  /\ d.maxSeconds > d.minSeconds /\ d.maxSeconds - d.minSeconds >= CollectionWindow
  /\ d.duration # NoValue =>
       /\ d.duration > d.deadline
       /\ d.duration - d.deadline >= d.minSeconds + CollectionWindow

CapsAgree(d) ==
  (d.perIndexer # NoValue /\ d.total > 0) => d.perIndexer <= d.total

(* DipsAgreementConfig::validate                                           *)
DipsValid(d) ==
  /\ d.manager
  /\ d.agreementCap > 0 /\ d.entityCap > 0 /\ d.fallbackCap > 0
  /\ d.chainCap # NoValue => d.chainCap > 0
  /\ d.resetPercent < d.tripPercent
  /\ CapsAgree(d)
  /\ CollectionFitsWindow(d)

StreamingValid(e) == e.enabled => e.kafka

HealthValidAnyPort(h, adminPort) == h.enabled => h.port # 0
HealthValid(h, adminPort) == h.enabled => h.port # 0 /\ h.port # adminPort

LivenessValid(l) == (l.present /\ l.enabled) => l.tripPercent \in 1 .. 100

WatcherValidSameHour(w) ==
  (w.present /\ w.enabled) =>
    /\ w.interval > 0 /\ w.interval <= Day
    /\ w.timeout > 0 /\ w.alert > 0 /\ w.denylist >= w.alert /\ w.atOnce > 0
    /\ w.tripPercent \in 1 .. 100
WatcherValid(w) ==
  (w.present /\ w.enabled) =>
    /\ w.interval > 0 /\ w.interval <= Day
    /\ w.timeout > 0 /\ w.alert > 0 /\ w.denylist > w.alert /\ w.atOnce > 0
    /\ w.tripPercent \in 1 .. 100

Valid(c) ==
  /\ DipsValid(c.dips) /\ StreamingValid(c.streaming)
  /\ HealthValid(c.health, c.rest.adminPort)
  /\ LivenessValid(c.liveness) /\ WatcherValid(c.watcher)

(* From<DipsAgreementConfig>: no duration is the longest one.              *)
RuntimeTerms(d) ==
  [duration |-> IF d.duration = NoValue THEN U64Max ELSE d.duration, deadline |-> d.deadline]

Validate ==
  /\ cfAt = "parsed" /\ GoTo(IF Valid(cfFile) THEN "valid" ELSE "refused")
  /\ cfTerms' = IF Valid(cfFile) THEN RuntimeTerms(cfFile.dips) ELSE cfTerms

(* The chain client is mandatory and needs a provider; the pool must hold  *)
(* what the worker's loops can take.                                       *)
Builds(c) ==
  /\ c.chainClient.present /\ c.chainClient.enabled /\ c.chainClient.providers > 0
  /\ c.rest.loops > 0
  /\ 3 * c.rest.loops + 2 <= (IF c.rest.maxConns = NoValue THEN 32 ELSE c.rest.maxConns)

Build ==
  /\ cfAt = "valid" /\ GoTo(IF Builds(cfFile) THEN "built" ELSE "refused") /\ UNCHANGED cfTerms

-----------------------------------------------------------------------------
(* The ports and the timers.                                               *)

(* The health endpoint is bound before any task is spawned.                *)
BindHealth == cfAt = "built" /\ GoTo("bound") /\ UNCHANGED cfTerms

(* The services with a timer that a configuration runs, and its interval.  *)
Interval(c) ==
  [domain_refresh |-> c.chainClient.refresh, indexer_urls |-> c.rest.urls,
   expiration |-> c.expiration.interval, liveness |-> c.liveness.interval,
   watcher |-> c.watcher.interval, listener |-> c.listener.poll, escrow |-> c.escrow.interval]

Spawned(c) ==
  {"domain_refresh", "indexer_urls"} \cup
  {s \in {"expiration", "liveness", "watcher", "listener", "escrow"} :
     c[s].present /\ c[s].enabled}

(* A tokio timer of no interval panics, and an address in use cannot be    *)
(* bound: the task ends, and the supervisor takes the process down.        *)
Fails(c) ==
  {t \in Spawned(c) : Interval(c)[t] = 0} \cup
  (IF c.health.enabled /\ c.health.port = c.rest.adminPort THEN {"admin_rpc"} ELSE {})

Spawn ==
  /\ cfAt = "bound"
  /\ IF Fails(cfFile) = {}
       THEN cfAt' = "up" /\ UNCHANGED cfWhy
       ELSE cfAt' = "down" /\ cfWhy' \in Fails(cfFile)
  /\ UNCHANGED <<cfFile, cfEdits, cfTerms, cfOffer, cfTaken, cfGas>>

-----------------------------------------------------------------------------
(* What a running configuration commits dipper to.                         *)

SaturatingAdd(a, b) == Min({a + b, U64Max})

(* plan_agreements puts a deadline and an end on the terms it offers.      *)
MakeOffer(now) ==
  /\ cfAt = "up" /\ cfOffer = NoOffer
  /\ cfOffer' = [deadline |-> SaturatingAdd(now, cfTerms.deadline),
                 ends     |-> SaturatingAdd(now, cfTerms.duration)]
  /\ UNCHANGED <<cfFile, cfEdits, cfAt, cfWhy, cfTerms, cfTaken, cfGas>>

(* The indexer accepts on the chain, at the latest at the deadline.        *)
TakeOffer(at) ==
  /\ cfOffer # NoOffer /\ cfTaken = NoValue
  /\ at <= cfOffer.deadline /\ cfTaken' = at
  /\ UNCHANGED <<cfFile, cfEdits, cfAt, cfWhy, cfTerms, cfOffer, cfGas>>

(* compute_bounds. The buffer is a float in the code and a percentage      *)
(* here; the product is the same for every estimate below 2^53.            *)
GasLimitCeilingLast(c, estimate) ==
  Min({Max({c.gasFloor, (estimate * c.gasPercent) \div 100}),
       SaturatingAdd(estimate, c.gasAddition)})
GasLimit(c, estimate) ==
  Max({c.gasFloor, Min({(estimate * c.gasPercent) \div 100,
                        SaturatingAdd(estimate, c.gasAddition)})})

EstimateGas(estimate) ==
  /\ cfAt = "up"
  /\ cfGas' = [estimate |-> estimate, limit |-> GasLimit(cfFile.chainClient, estimate)]
  /\ UNCHANGED <<cfFile, cfEdits, cfAt, cfWhy, cfTerms, cfOffer, cfTaken>>

ConfigurationNext ==
  \/ Edit \/ Load \/ Validate \/ Build \/ BindHealth \/ Spawn
  \/ \E now \in {0, Day} : MakeOffer(now)
  \/ \E at \in {0, 600, Day, Day + 600, Day + 3600} : TakeOffer(at)
  \/ \E e \in Estimates : EstimateGas(e)

ConfigurationSpec == ConfigurationInit /\ [][ConfigurationNext]_cfVars

-----------------------------------------------------------------------------
(* An offer made under an accepted configuration leaves room for one       *)
(* collection however late the indexer accepts it: the least time between  *)
(* collections and the contract's window fit between the acceptance and    *)
(* the end.                                                                *)
CollectionFits ==
  cfTaken # NoValue =>
    SaturatingAdd(cfTaken, cfFile.dips.minSeconds + CollectionWindow) <= cfOffer.ends

(* What other modules assume of these settings holds of every              *)
(* configuration that passed the checks: the order of the terms watcher's  *)
(* two delays and the share that pauses it (DipsInfoWatch), the liveness   *)
(* breaker's share (LivenessCheck), the dead band of the unresponsive      *)
(* breaker and the positive caps on prices (Selection), caps that can bind *)
(* (Replacement), a queue that holds an event (EventEmitter) and a pool    *)
(* the loops cannot exhaust (WorkerLoops).  The code checks neither the    *)
(* health threshold nor the timeouts and retries of IISA, of an indexer or *)
(* of the chain's providers against the job's backstop, and the modules    *)
(* that have them as constants assume nothing of the kind.                 *)
RunsAsAssumed ==
  cfAt \in {"built", "bound", "up", "down"} =>
    LET c == cfFile IN
    /\ "watcher" \in Spawned(c) => 0 < c.watcher.alert /\ c.watcher.alert < c.watcher.denylist
    /\ \A s \in {"watcher", "liveness"} \cap Spawned(c) : c[s].tripPercent \in 1 .. 100
    /\ c.dips.resetPercent < c.dips.tripPercent
    /\ \A p \in {c.dips.agreementCap, c.dips.entityCap, c.dips.fallbackCap} : p > 0
    /\ c.dips.total \in Nat \ {0} => c.dips.perIndexer <= c.dips.total
    /\ c.streaming.capacity > 0
    /\ c.rest.loops > 0 /\ 3 * c.rest.loops < IF c.rest.maxConns = NoValue THEN 32
                                                                         ELSE c.rest.maxConns

(* A configuration that passed the checks never fails at start for want of *)
(* a port or of the terms watcher's timer, the two failures validate is    *)
(* there to catch.                                                         *)
StartedServes == cfWhy \notin {"admin_rpc", "watcher"}

(* The gas limit is never below the floor, and past the floor it never     *)
(* exceeds the estimate by more than the addition; with a buffer above 1   *)
(* it covers the estimate.                                                 *)
GasBounded ==
  cfGas # NoGas =>
    LET c == cfFile.chainClient IN
    /\ cfGas.limit >= c.gasFloor
    /\ cfGas.limit <= Max({c.gasFloor, cfGas.estimate + c.gasAddition})
    /\ c.gasPercent >= 100 => cfGas.limit >= cfGas.estimate
=============================================================================
